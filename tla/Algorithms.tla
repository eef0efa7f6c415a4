----------------------------- MODULE Algorithms -----------------------------
(***************************************************************************)
(* Algorithms and formats of the utilities against what they promise, for  *)
(* every small input.  A behaviour takes one of them and then an input;    *)
(* one of the JSON writer is a sequence of calls.                          *)
(***************************************************************************)
EXTENDS RawRefResult, SequencesExt, TLC

CONSTANTS
  MaxLength,   \* bound: length of a postlist
  Freqs,       \* bound: frequencies of its entries
  Base,        \* what a byte of a number can be
  MaxTokens,   \* bound: tokens of a JSON text
  MaxChars,    \* bound: characters of a file of properties
  None         \* no input yet

VARIABLES subject, input

vars == <<subject, input>>

Values == INSTANCE ValueTraits
Words == INSTANCE StringIdMaps
Properties == INSTANCE PropertiesFormat
Json == INSTANCE JsonWriter

-----------------------------------------------------------------------------
(* Slices of one postlist: what the query processor reads for a limit on   *)
(* the frequency and one on the number.  A slice ends anywhere.  It begins *)
(* with the first reference or a group of equal frequency; or, if the      *)
(* limit is the frequency of an entry of the postlist index, at that entry *)
(* (search_()), which may have references of its frequency in front of it. *)
(* The first such entry is taken, so a list has one beginning within each  *)
(* group.  The id of a reference is its position.                          *)

Postlists ==
  {[i \in DOMAIN f |-> [id |-> i, freq |-> f[i]]] :
     f \in {f \in UNION {[1 .. n -> Freqs] : n \in 1 .. MaxLength} :
              \A i \in 2 .. Len(f) : f[i] <= f[i - 1]}}
Slices(list) ==
  {[refs |-> SubSeq(list, i, j), unknown |-> {}] : i, j \in DOMAIN list}
InTies(list, slice) ==
  LET first == slice.refs[1] IN first.id > 1 /\ ~ Before(list[first.id - 1], first)
FromOneIndex(list, this, other) ==
  /\ this.refs # <<>> /\ other.refs # <<>> /\ InTies(list, this) /\ InTies(list, other)
  /\ this.refs[1].freq = other.refs[1].freq
  => this.refs[1] = other.refs[1]
MergeInputs ==
  UNION {{[list |-> list, this |-> pair[1], other |-> pair[2]] :
            pair \in {p \in Slices(list) \X Slices(list) : FromOneIndex(list, p[1], p[2])}} :
           list \in Postlists}

-----------------------------------------------------------------------------

Letter == 97
Texts(chars, n) == UNION {[1 .. k -> chars] : k \in 0 .. n}

N == Values!Number(4)
S == Values!String
Types ==
  {Values!Single(N), Values!Single(S), Values!Pair(N, S), Values!Pair(S, N), Values!Triple(S, N, S),
   Values!Quadruple(N, N, N, N), Values!Quintuple(N, S, N, S, N), Values!Sextuple(N, N, S, S, N, N)}
FewValues(type) ==
  {[i \in DOMAIN type |-> IF type[i].kind = "string" THEN string ELSE number] :
     string \in {<<>>, <<Values!Blank, Letter>>}, number \in {0, 12}}
Records(type) == [key : {<<>>, <<Letter, Letter, Values!Blank>>}, value : FewValues(type)]
ValueInputs ==
  UNION {{[type |-> type, records |-> <<x, y, z>>, size |-> size] :
            x, y, z \in Records(type), size \in {7, 16}} : type \in Types}

WordInputs ==
  LET words == {<<>>, <<1>>, <<1, 1>>, <<1, 2>>, <<2>>}
  IN {s \in UNION {[1 .. n -> [word : words, id : 0 .. 4]] : n \in 0 .. 3} :
        \A i, j \in DOMAIN s : i # j => s[i].word # s[j].word /\ s[i].id # s[j].id}

PropertyChars ==
  {Properties!Tab, Properties!LF, Properties!Blank, Properties!Hash, Properties!Equals,
   Properties!Backslash, Properties!CR, Letter}
PropertyInputs ==
  Texts(PropertyChars, MaxChars)
  \cup {<<Letter, Properties!Equals, Properties!Backslash, Properties!LetterU, Properties!Zero, Properties!Zero, h, l>> :
          h \in {Properties!Zero, Properties!Zero + 7, Properties!Zero + 9}, l \in {Properties!Zero + 1, 70, 102, Letter + 9}}

StringInputs ==
  Texts({Letter, 1, 31, Properties!LF, Properties!CR, Properties!Tab, Properties!Quote, Properties!Backslash}, 3)

Inputs ==
  [merging |-> MergeInputs, values |-> ValueInputs, words |-> WordInputs,
   properties |-> PropertyInputs, strings |-> StringInputs]

Init ==
  /\ subject \in DOMAIN Inputs \cup {"json"}
  /\ input = IF subject = "json" THEN Json!Writer ELSE None

TakeInput ==
  /\ subject # "json" /\ input = None
  /\ input' \in Inputs[subject]
  /\ UNCHANGED subject

CallWriter ==
  /\ subject = "json"
  /\ Len(input.out) < MaxTokens
  /\ Len(input.types) < MaxTokens
  /\ input' \in Json!Calls(input)
  /\ UNCHANGED subject

Next == TakeInput \/ CallWriter

Spec == Init /\ [][Next]_vars

Given(name) == subject = name /\ input # None

-----------------------------------------------------------------------------

(* A group of equal frequency that both slices have references of, and     *)
(* that does not begin with the same one in both.                          *)
Group(refs, f) == SelectSeq(refs, LAMBDA r : r.freq = f)
Torn(this, other, f) ==
  LET s == Group(this.refs, f)
      t == Group(other.refs, f)
  IN s # <<>> /\ t # <<>> /\ s[1] # t[1]

(* Slices that are disjoint by their ends share no reference.  Others are  *)
(* merged to a slice, without a reference lost, given twice or missing in  *)
(* between, unless one begins within a group that the other has part of:   *)
(* then that group alone is wrong, the order is kept, and all references   *)
(* of the first slice are there (disjoint_with(), merge()).                *)
MergedOutsideTies ==
  Given("merging") =>
    LET these == ToSet(input.this.refs)
        others == ToSet(input.other.refs)
        both == SelectSeq(input.list, LAMBDA r : r \in these \cup others)
        merged == Merge(input.this, input.other).refs
        torn == {f \in Freqs : Torn(input.this, input.other, f)}
    IN /\ DisjointWith(input.this, input.other) => these \cap others = {}
       /\ ~ DisjointWith(input.this, input.other) =>
            /\ these \subseteq ToSet(merged)
            /\ \A i, j \in DOMAIN merged : i < j => ~ Before(merged[j], merged[i])
            /\ \A f \in Freqs \ torn : Group(merged, f) = Group(both, f)
            /\ torn = {} => /\ these \cap others # {}
                           /\ merged \in {SubSeq(input.list, i, j) : i, j \in DOMAIN input.list}

(* Records that were written one after the other as bytes are read back,   *)
(* whatever the sizes of their strings.                                    *)
BytesReadBack ==
  Given("values") =>
    LET type == input.type
        file == FlattenSeq([i \in DOMAIN input.records |-> Values!WriteRecord(type, input.records[i])])
        r1 == Values!ReadRecord(type, file)
        r2 == Values!ReadRecord(type, r1.rest)
        r3 == Values!ReadRecord(type, r2.rest)
    IN <<r1.record, r2.record, r3.record>> = input.records /\ r3.rest = <<>>

(* The records of an inverted file in text are those that were written to  *)
(* it, although lines share keys and strings have blanks; but an empty     *)
(* string at the end of a line is lost if values are strings.              *)
IsLost(i) ==
  /\ input.type = Values!Single(S)
  /\ input.records[i].value = << <<>> >>
  /\ i < Len(input.records) => input.records[i + 1].key # input.records[i].key
TextReadsBack ==
  Given("values") =>
    LET type == input.type
        reader == Values!RecordsOf(type, Values!FileOf(type, input.records))
    IN (\A i \in DOMAIN input.records : ~ IsLost(i)) => reader.ok /\ reader.records = input.records

(* Buffers give back, in their order, the values that there was space for; *)
(* values with strings would be asked for more bytes than they have.       *)
FixedSize(type) == \A i \in DOMAIN type : type[i].kind # "string"
BufferReadsBack ==
  Given("values") /\ FixedSize(input.type) =>
    LET type == input.type
        values == [i \in DOMAIN input.records |-> input.records[i].value]
        full == FoldLeft(LAMBDA buffer, v : Values!Put(buffer, type, v), Values!Buffer(input.size), values)
        fit == SelectSeq([i \in DOMAIN values |-> i], LAMBDA i : i * Values!SizeOf(type, values[i]) <= input.size)
        Getting(r) == [buffer |-> Values!Got(r.buffer, type),
                       values |-> Append(r.values, Values!Get(r.buffer, type).value)]
        r == FoldLeft(LAMBDA r, i : Getting(r), [buffer |-> Values!Rewound(full), values |-> <<>>], fit)
    IN /\ r.values = [i \in DOMAIN fit |-> values[i]]
       /\ full.pos <= input.size

(* What is written of values, in any of the formats, is read back.         *)
ValuesReadBack == BytesReadBack /\ TextReadsBack /\ BufferReadsBack

(* A word is found by its id and an id by its word, and neither if there   *)
(* is none, whatever the order of the words and the gaps between the ids.  *)
WordsFound ==
  Given("words") =>
    LET map == Words!MapOf(input) IN
    /\ \A id \in 0 .. 5 :
         LET i == Words!FindForId(map, id) IN
         IF \E w \in ToSet(input) : w.id = id
         THEN i # Words!End(map) /\ Words!EntryAt(map, i) \in ToSet(input) /\ Words!EntryAt(map, i).id = id
         ELSE i = Words!End(map)
    /\ \A word \in {<<>>, <<1>>, <<1, 1>>, <<1, 2>>, <<2>>, <<3>>} :
         LET i == Words!FindForWord(map, word) IN
         IF \E w \in ToSet(input) : w.word = word
         THEN i # Words!End(map) /\ Words!EntryAt(map, i) \in ToSet(input) /\ Words!EntryAt(map, i).word = word
         ELSE i = Words!End(map)

(* What was read of any file of properties in ASCII, with comments,        *)
(* continued lines and escapes, is read again if it is written.            *)
PropertiesReadBack ==
  Given("properties") =>
    LET file == Properties!Read(input, <<>>)
    IN file.ok => Properties!Read(Properties!Write(file.pairs), <<>>) = file

(* Whatever calls the types of the writer allow, without those that pass a *)
(* JSON text on (raw_json(), protobuf_message()), the text is JSON when    *)
(* they are done, and its strings say what they should.                    *)
WritesJson ==
  /\ subject = "json" /\ Json!Type(input) = "Done" => Json!IsJson(input.out)
  /\ Given("strings") =>
       LET text == Json!StringText(input) IN Json!Said(text) = input /\ Json!IsStringText(text)

=============================================================================
