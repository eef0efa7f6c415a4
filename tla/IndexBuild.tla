----------------------------- MODULE IndexBuild -----------------------------
(***************************************************************************)
(* The build command (cli/BuildCommand.cpp, BuildNetspeak() and            *)
(* MergeDuplicates() of indexing.cpp): duplicates are merged on demand,    *)
(* then the components are built one after the other in a directory that   *)
(* must be empty.  The program may be stopped anywhere, and is started     *)
(* again on what it left, with the same or with another collection.        *)
(*                                                                         *)
(* A component that was begun is Partial until it ends.  That files become *)
(* read-only is not modelled: it hinders no step and no removal.           *)
(***************************************************************************)
EXTENDS HashMaps, FiniteSetsExt, TLC

CONSTANTS
  RefFreqLimit,  \* number of values of an index frequency (2^32)
  IndexStep,     \* 1000: the share of a list that an index entry stands for
  MaxWords,      \* the most words that a search of the vocabulary allows
  Inputs,        \* bound: input directories, as sequences of files in the order they are read
  MaxCommands,   \* bound: the number of build commands
  MaxStops,      \* bound: how often one is stopped
  None,          \* no directory
  Partial        \* a component that was begun

ASSUME LimitsAssumption == RefFreqLimit \in Nat \ {0} /\ IndexStep \in Nat \ {0} /\ MaxWords \in Nat

(* The lines of all inputs, of which each is a directory with a file at    *)
(* least: between a number and its double there is a prime.  Texts are     *)
(* sequences of words, and have a hash value.                              *)
InputLines == UNION {UNION {ToSet(files[j].lines) : j \in DOMAIN files} : files \in Inputs}
InputTexts == {l.words : l \in InputLines}
ASSUME InputsAssumption ==
  /\ Inputs \subseteq Seq([lines : Seq(InputLines), ended : BOOLEAN])
  /\ InputLines \subseteq [tab : BOOLEAN, words : InputTexts, freq : Nat]
  /\ \A t \in InputTexts : t \in Seq(ToSet(t)) /\ Hash(t) \in Nat
  /\ \A files \in Inputs : \E p \in Len(files) .. 2 * Len(files) : IsPrime(p)

-----------------------------------------------------------------------------
(* From the files of an n-gram collection to what the components hold      *)
(* (PhraseFileParser.hpp, PhraseFileReader.hpp, indexing.cpp,              *)
(* PhraseCorpus.cpp).  A file has lines and an end, with or without a last *)
(* newline; a line is an n-gram and its frequency, or has no tab.          *)

Line(words, freq) == [tab |-> TRUE, words |-> words, freq |-> freq]
LineWithoutTab == [tab |-> FALSE, words |-> <<>>, freq |-> 0]
Entries(lines) == ElementsAt(lines, {i \in DOMAIN lines : lines[i].tab})

(* read_next() returns good(), which a line without its newline is not.    *)
ItemsOf(file) ==
  Entries(IF file.ended \/ file.lines = <<>> THEN file.lines ELSE Front(file.lines))

Words(items) == UNION {ToSet(items[i].words) : i \in DOMAIN items}
Texts(items) == {items[i].words : i \in DOMAIN items}
Lengths(items) == {Len(items[i].words) : i \in DOMAIN items}
Sum(items, words) ==
  LET sum[i \in 0 .. Len(items)] ==
        IF i = 0 THEN 0
        ELSE sum[i - 1] + (IF items[i].words = words THEN items[i].freq ELSE 0)
  IN sum[Len(items)]

(* Mutant of Merged: the first frequency of an n-gram stays.               *)
MergedFirst(lines) ==
  LET texts == SetToSeq(Texts(lines))
  IN [i \in DOMAIN texts |-> Line(texts[i], (CHOOSE l \in ToSet(lines) : l.words = texts[i]).freq)]

(* MergeDuplicates(): what becomes of one file of the partition, which has *)
(* only lines with a tab; the order is that of a hash map.                 *)
Merged(lines) ==
  LET texts == SetToSeq(Texts(lines))
  IN [i \in DOMAIN texts |-> Line(texts[i], Sum(lines, texts[i]))]

-----------------------------------------------------------------------------
(* The phrase corpus: txt has the lines, bin the same as numbers, in one   *)
(* array for each length, and vocab the words in the order of their ids,   *)
(* which new words get one after the other: any order will do.  The id of  *)
(* a phrase is its place among those of its length.                        *)

WordIds(items) == SetToSeq(Words(items))
IdOf(vocab, w) == CHOOSE i \in DOMAIN vocab : vocab[i] = w

EntrySize(length) == 1 + length
Encoded(vocab, item) == <<item.freq>> \o [i \in DOMAIN item.words |-> IdOf(vocab, item.words[i])]

(* Mutant of LocalId: the numbers go on through all lengths.               *)
LineNumber(items, i) == i - 1
LocalId(items, i) == Cardinality({j \in 1 .. i - 1 : Len(items[j].words) = Len(items[i].words)})

(* The phrases of one length as numbers, one entry after the other.        *)
EntriesOf(vocab, items, n) ==
  LET upTo[i \in 0 .. Len(items)] ==
        IF i = 0 THEN <<>>
        ELSE upTo[i - 1] \o (IF Len(items[i].words) = n THEN Encoded(vocab, items[i]) ELSE <<>>)
  IN upTo[Len(items)]

CorpusOf(items) ==
  LET vocab == WordIds(items)
  IN [vocab |-> vocab,
      txt |-> [i \in DOMAIN items |->
                 [words |-> items[i].words, freq |-> items[i].freq, id |-> LocalId(items, i)]],
      bin |-> [n \in Lengths(items) |-> EntriesOf(vocab, items, n)]]

(* PhraseCorpus: count_phrases(), and read_phrases() of one id.            *)
CountPhrases(corpus, n) ==
  IF n \in DOMAIN corpus.bin THEN Len(corpus.bin[n]) \div EntrySize(n) ELSE 0
ReadPhrase(corpus, id) ==
  LET size == EntrySize(id[1])
      entry == SubSeq(corpus.bin[id[1]], id[2] * size + 1, (id[2] + 1) * size)
  IN [words |-> [i \in 1 .. id[1] |-> corpus.vocab[entry[i + 1]]], freq |-> entry[1]]

-----------------------------------------------------------------------------
(* The phrase dictionary: the records of a BigHashMap.                     *)

DictionaryRecords(lines) ==
  [i \in DOMAIN lines |-> [key |-> lines[i].words, value |-> <<lines[i].freq, lines[i].id>>]]

-----------------------------------------------------------------------------
(* The phrase index: a list for each word at each place of the phrases of  *)
(* a length, with their ids, and their frequencies in 32 bits.             *)

Key(n, pos, word) == <<n, pos, word>>
KeysOfItem(item) ==
  {Key(Len(item.words), pos - 1, item.words[pos]) : pos \in DOMAIN item.words}
RefFreq(l) == l.freq % RefFreqLimit
RefValue(l) == [freq |-> RefFreq(l), id |-> l.id]
ListOf(lines, k) ==
  LET listed == {i \in DOMAIN lines : k \in KeysOfItem(lines[i])}
      order == Ordered(listed, {ij \in listed \X listed :
                 \/ RefFreq(lines[ij[1]]) > RefFreq(lines[ij[2]])
                 \/ RefFreq(lines[ij[1]]) = RefFreq(lines[ij[2]]) /\ ij[1] < ij[2]})
  IN [n \in DOMAIN order |-> RefValue(lines[order[n]])]
PhraseIndexOf(lines) ==
  [k \in UNION {KeysOfItem(lines[i]) : i \in DOMAIN lines} |-> ListOf(lines, k)]

(* The postlist index: where the running sum of the frequencies of a list  *)
(* reaches each of the quantiles; short lists have none.                   *)
IndexPostlist(list) ==
  LET resolution == Len(list) \div IndexStep
      sum == RunningSum(list)
      reached(k) == {i \in DOMAIN list : sum[i] * resolution >= k * sum[Len(list)]}
  IN [k \in 1 .. resolution |-> [pos |-> Min(reached(k)) - 1, freq |-> list[Min(reached(k))].freq]]
PostlistIndexOf(index) ==
  [k \in {k \in DOMAIN index : Len(index[k]) >= IndexStep} |-> IndexPostlist(index[k])]

-----------------------------------------------------------------------------
(* The regex vocabulary: the words of the 1-grams, and the missing ones,   *)
(* by descending frequency.  The dictionary, which is built before, has    *)
(* refused a collection with a 1-gram twice.                               *)

HasUnigrams(lines) == 1 \in Lengths(lines)

(* Without a word in a star's place, "* word *" has one word: its norm     *)
(* queries are dropped if that is less than the minimum (to_norm_queries). *)
StarLengths(shortest, wordsMin) ==
  IF shortest < wordsMin THEN {} ELSE shortest .. MaxWords
SearchedFreq(lines, w) ==
  Max({0} \cup {l.freq : l \in {l \in ToSet(lines) :
                                  w \in ToSet(l.words) /\ Len(l.words) \in StarLengths(1, 2)}})

WordFreq(lines, w) ==
  IF <<w>> \in Texts(lines) THEN (CHOOSE l \in ToSet(lines) : l.words = <<w>>).freq
  ELSE SearchedFreq(lines, w)
VocabularyOf(corpus) ==
  LET words == ToSet(corpus.vocab)
  IN Ordered(words, {vw \in words \X words :
       \/ WordFreq(corpus.txt, vw[1]) > WordFreq(corpus.txt, vw[2])
       \/ /\ WordFreq(corpus.txt, vw[1]) = WordFreq(corpus.txt, vw[2])
          /\ IdOf(corpus.vocab, vw[1]) < IdOf(corpus.vocab, vw[2])})

-----------------------------------------------------------------------------
(* The commands.                                                           *)

VARIABLES
  step,      \* of the command: "idle" if there is none, "partition", "merge",
             \* "open", "build", "rename", "done" or "failed"
  input,     \* --in
  mode,      \* "plain", or where duplicates are merged: "out/tmp" or "merge-dir"
  at,        \* the number of the component that is built
  parts,     \* per merge directory: the partition files, None without tmp
  copies,    \* per merge directory: the merged files, None without directory
  index,     \* per place: the components by name, None without directory
  clean,     \* history: was the merge directory empty at the start?
  source,    \* history, per place: the lines the index was built from, and all of the input
  commands, stops

build == <<step, input, mode, at>>
vars == <<build, parts, copies, index, clean, source, commands, stops>>

MergeDirs == {"out/tmp", "merge-dir"}
Places == {"out", "out/tmp-index"}
(* Mutant of Components: the dictionary is built after the indexes.        *)
DictionaryLate == <<"phrase-corpus", "phrase-index", "postlist-index", "phrase-dictionary", "regex-vocabulary">>
Components == <<"phrase-corpus", "phrase-dictionary", "phrase-index", "postlist-index", "regex-vocabulary">>

Merging == mode # "plain"
Place == IF Merging THEN "out/tmp-index" ELSE "out"

-----------------------------------------------------------------------------
(* The directories: out/tmp and out/tmp-index are in out.                  *)

OutExists == index["out"] # None
(* Mutant of Empty: a directory that exists is refused.                    *)
Missing(place) == index[place] = None
Empty(place) ==
  /\ index[place] \in {None, <<>>}
  /\ place = "out" => index["out/tmp-index"] = None /\ copies["out/tmp"] = None

(* The lines that BuildPhraseCorpus() reads.                               *)
ReadFiles ==
  IF Merging THEN Joined(copies[mode]) ELSE Joined([i \in DOMAIN input |-> ItemsOf(input[i])])

NoSource == [lines |-> <<>>, merged |-> FALSE, all |-> <<>>]

Init ==
  /\ step = "idle" /\ input = <<>> /\ mode = "plain" /\ at = 1
  /\ parts = [d \in MergeDirs |-> None]
  /\ copies = [d \in MergeDirs |-> None]
  /\ \E out \in {None, <<>>} : index = [p \in Places |-> IF p = "out" THEN out ELSE None]
  /\ clean = TRUE
  /\ source = [p \in Places |-> NoSource]
  /\ commands = 0 /\ stops = 0

Resting == step \in {"idle", "done", "failed"}

Run(in, m) ==
  /\ Resting
  /\ commands < MaxCommands
  /\ commands' = commands + 1
  /\ input' = in
  /\ mode' = m
  /\ step' = IF m = "plain" THEN "open" ELSE "partition"
  /\ at' = 1
  /\ clean' = (m = "plain" \/ copies[m] \in {None, <<>>})
  /\ UNCHANGED <<parts, copies, index, source, stops>>

Fail == step' = "failed" /\ UNCHANGED <<input, mode, at>>
Goto(next) == step' = next /\ UNCHANGED <<input, mode, at>>

-----------------------------------------------------------------------------
(* MergeDuplicates() *)

NumFiles(files) == NextPrime(Len(files))
AllEntries(files) == Joined([j \in DOMAIN files |-> Entries(files[j].lines)])
FilePart(lines, num, i) == ElementsAt(lines, {n \in DOMAIN lines : Hash(lines[n].words) % num = i})

(* create_directory() makes no parents, and fails where there is a tmp.    *)
PartitionFails ==
  /\ step = "partition"
  /\ \/ mode = "out/tmp" /\ ~ OutExists
     \/ parts[mode] # None
  /\ Fail
  /\ UNCHANGED <<parts, copies, index, clean, source, commands, stops>>

PartitionFiles ==
  /\ step = "partition"
  /\ mode = "out/tmp" => OutExists
  /\ parts[mode] = None
  /\ copies' = [copies EXCEPT ![mode] = IF @ = None THEN <<>> ELSE @]
  /\ \E lines \in {AllEntries(input)}, num \in {NumFiles(input)} :
       parts' = [parts EXCEPT ![mode] = [i \in 0 .. num - 1 |-> FilePart(lines, num, i)]]
  /\ Goto("merge")
  /\ UNCHANGED <<index, clean, source, commands, stops>>

(* A directory with an entry, which may have been there before, or not.    *)
Put(files, i, content) ==
  [j \in {i} \cup DOMAIN files |-> IF j = i THEN content ELSE files[j]]
Without(files, i) == [j \in (DOMAIN files) \ {i} |-> files[j]]

(* The partition file is removed, then unique.<i> is written.              *)
MergeFile ==
  /\ step = "merge"
  /\ \E i \in DOMAIN parts[mode] :
       /\ copies' = [copies EXCEPT ![mode] = Put(@, i, Merged(parts[mode][i]))]
       /\ parts' = [parts EXCEPT ![mode] = Without(@, i)]
  /\ UNCHANGED <<build, index, clean, source, commands, stops>>

MergeEnds ==
  /\ step = "merge"
  /\ DOMAIN parts[mode] = {}
  /\ parts' = [parts EXCEPT ![mode] = None]
  /\ Goto("open")
  /\ UNCHANGED <<copies, index, clean, source, commands, stops>>

-----------------------------------------------------------------------------
(* BuildNetspeak() *)

(* CreateOrCheckIfEmpty() makes parents.                                   *)
OpenOutput ==
  /\ step = "open"
  /\ IF Empty(Place)
     THEN /\ index' = [p \in Places |-> IF p \in {Place, "out"} /\ index[p] = None THEN <<>> ELSE index[p]]
          /\ Goto("build")
     ELSE Fail /\ UNCHANGED index
  /\ UNCHANGED <<parts, copies, source, clean, commands, stops>>

With(c, content) == index' = [index EXCEPT ![Place] = Put(@, c, content)]
Corpus == index[Place]["phrase-corpus"]

BeginComponent ==
  /\ step = "build"
  /\ Components[at] \notin DOMAIN index[Place]
  /\ With(Components[at], Partial)
  /\ source' = IF Components[at] # "phrase-corpus" THEN source
               ELSE [source EXCEPT ![Place] =
                       [lines |-> ReadFiles, merged |-> Merging /\ clean, all |-> AllEntries(input)]]
  /\ UNCHANGED <<build, parts, copies, clean, commands, stops>>

(* A component fails: for a duplicate, or for a collection without 1-grams.*)
Buildable(c) ==
  CASE c = "phrase-dictionary" -> CanBuild(DictionaryRecords(Corpus.txt))
    [] c = "regex-vocabulary" -> HasUnigrams(Corpus.txt)
    [] OTHER -> TRUE

Built(c) ==
  CASE c = "phrase-corpus" -> CorpusOf(source[Place].lines)
    [] c = "phrase-dictionary" -> Build(DictionaryRecords(Corpus.txt))
    [] c = "phrase-index" -> PhraseIndexOf(Corpus.txt)
    [] c = "postlist-index" -> PostlistIndexOf(index[Place]["phrase-index"])
    [] c = "regex-vocabulary" -> VocabularyOf(Corpus)

EndComponent ==
  /\ step = "build"
  /\ Components[at] \in DOMAIN index[Place]
  /\ IF ~ Buildable(Components[at]) THEN Fail /\ UNCHANGED index
     ELSE /\ With(Components[at], Built(Components[at]))
          /\ at' = at + 1
          /\ step' = IF at < Len(Components) THEN "build" ELSE IF Merging THEN "rename" ELSE "done"
          /\ UNCHANGED <<input, mode>>
  /\ UNCHANGED <<parts, copies, source, clean, commands, stops>>

(* The output cannot be renamed to out, the directory that it is in; the   *)
(* merged copy is not removed, its parent is not the input directory.      *)
Rename ==
  /\ step = "rename"
  /\ Fail
  /\ UNCHANGED <<parts, copies, index, clean, source, commands, stops>>

-----------------------------------------------------------------------------

Stop ==
  /\ ~ Resting
  /\ stops < MaxStops
  /\ stops' = stops + 1
  /\ Goto("idle")
  /\ UNCHANGED <<parts, copies, index, clean, source, commands>>

(* Somebody cleans up: the output directory, or the merge directory.       *)
RemoveOut ==
  /\ Resting /\ OutExists
  /\ index' = [p \in Places |-> None]
  /\ copies' = [copies EXCEPT !["out/tmp"] = None]
  /\ parts' = [parts EXCEPT !["out/tmp"] = None]
  /\ UNCHANGED <<build, source, clean, commands, stops>>
RemoveMergeDir ==
  /\ Resting /\ copies["merge-dir"] # None
  /\ copies' = [copies EXCEPT !["merge-dir"] = None]
  /\ parts' = [parts EXCEPT !["merge-dir"] = None]
  /\ UNCHANGED <<build, index, clean, source, commands, stops>>

Program ==
  \/ PartitionFails \/ PartitionFiles \/ MergeFile \/ MergeEnds
  \/ OpenOutput \/ BeginComponent \/ EndComponent \/ Rename

Next ==
  \/ \E in \in Inputs, m \in {"plain"} \cup MergeDirs : Run(in, m)
  \/ Program
  \/ Stop \/ RemoveOut \/ RemoveMergeDir

(* A process that is not stopped goes on.                                  *)
Spec == Init /\ [][Next]_vars /\ WF_vars(Program)

-----------------------------------------------------------------------------

Has(place, c) == index[place] # None /\ c \in DOMAIN index[place]
IsComplete(place, c) == Has(place, c) /\ index[place][c] # Partial
IsBuilt(place) == \A i \in DOMAIN Components : IsComplete(place, Components[i])

(* The components of an index agree with each other and with the lines it  *)
(* was built from, whatever was stopped and built before: by its text each *)
(* phrase has an id and a frequency, by its id a text and a frequency, it  *)
(* is listed under each of its words at its place, and under no other, and *)
(* the vocabulary has each word once, the 1-grams by frequency.            *)
PhraseIsFound(place, line) ==
  LET entry == Get(index[place]["phrase-dictionary"], line.words)
  IN /\ HasKey(index[place]["phrase-dictionary"], line.words)
     /\ entry[1] = line.freq
     /\ ReadPhrase(index[place]["phrase-corpus"], <<Len(line.words), entry[2]>>)
          = [words |-> line.words, freq |-> line.freq]
     /\ \A k \in KeysOfItem(line) :
          [freq |-> line.freq % RefFreqLimit, id |-> entry[2]] \in ToSet(index[place]["phrase-index"][k])

ComponentsAgree ==
  \A place \in Places :
    LET lines == source[place].lines
        lists == index[place]["phrase-index"]
        vocabulary == index[place]["regex-vocabulary"]
        rank(w) == CHOOSE i \in DOMAIN vocabulary : vocabulary[i] = w
    IN IsBuilt(place) =>
         /\ \A i \in DOMAIN lines : PhraseIsFound(place, lines[i])
         /\ \A n \in Lengths(lines) :
              CountPhrases(index[place]["phrase-corpus"], n) = Cardinality({i \in DOMAIN lines : Len(lines[i].words) = n})
         /\ \A k \in DOMAIN lists :
              Len(lists[k]) = Cardinality({i \in DOMAIN lines : k \in KeysOfItem(lines[i])})
         /\ IsInjective(vocabulary) /\ ToSet(vocabulary) = Words(lines)
         /\ \A i, j \in DOMAIN lines :
              Len(lines[i].words) = 1 /\ Len(lines[j].words) = 1 /\ lines[i].freq > lines[j].freq
                => rank(lines[i].words[1]) < rank(lines[j].words[1])

(* "Merges n-gram duplicates by adding their frequency values to form a    *)
(* set of unique n-grams" (indexing.hpp): an index that was built from an  *)
(* empty merge directory has each n-gram of the input once.                *)
MergedOnce ==
  \A place \in Places :
    LET lines == source[place].lines
        all == source[place].all
    IN source[place].merged =>
         /\ Texts(lines) = Texts(all)
         /\ Len(lines) = Cardinality(Texts(all))
         /\ \A i \in DOMAIN lines : lines[i].freq = Sum(all, lines[i].words)

(* What the service can open without an error (Netspeak::initialize) is    *)
(* complete, but for the regex vocabulary: partial indexes have no         *)
(* properties yet, but corpus and dictionary open when they are partial.   *)
Opens(place) ==
  /\ Has(place, "phrase-corpus") /\ Has(place, "phrase-dictionary")
  /\ IsComplete(place, "phrase-index") /\ IsComplete(place, "postlist-index")

OpenedIsComplete ==
  \A place \in Places :
    Opens(place) => IsComplete(place, "phrase-corpus") /\ IsComplete(place, "phrase-dictionary")

(* Unless it is stopped, a build from different phrases with 1-grams into  *)
(* an empty or missing directory ends with an index.                       *)
IsCollection(lines) == Cardinality(Texts(lines)) = Len(lines) /\ 1 \in Lengths(lines)

BuildsSucceed ==
  /\ step = "open" /\ mode = "plain"
  /\ index["out"] \in {None, <<>>} /\ index["out/tmp-index"] = None /\ copies["out/tmp"] = None
  /\ IsCollection(ReadFiles)
  ~> step = "idle" \/ (step = "done" /\ IsBuilt("out"))

=============================================================================
