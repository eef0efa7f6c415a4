----------------------------- MODULE ValueTraits ----------------------------
(***************************************************************************)
(* What value_traits make of values: bytes and text (value/ and            *)
(* invertedindex/Record.hpp).  A type is the sequence of the types of its  *)
(* elements, one unless it is a tuple, and a value that of their values.   *)
(***************************************************************************)
EXTENDS Characters

CONSTANT Base  \* what a byte of a number can be: 256

Number(bytes) == [kind |-> "number", bytes |-> bytes]
Byte == [kind |-> "byte", bytes |-> 1]         \* int8_t and uint8_t
String == [kind |-> "string", bytes |-> 2]     \* bytes of the size of a string
BigString == [kind |-> "string", bytes |-> 4]

Single(t) == <<t>>
Pair(a, b) == <<a, b>>
Triple(a, b, c) == <<a, b, c>>
Quadruple(a, b, c, d) == <<a, b, c, d>>
Quintuple(a, b, c, d, e) == <<a, b, c, d, e>>
Sextuple(a, b, c, d, e, f) == <<a, b, c, d, e, f>>

-----------------------------------------------------------------------------
(* Bytes.  A size that does not fit is cut off.                            *)

Bytes(n, width) == [i \in 1 .. width |-> (n \div Base ^ (i - 1)) % Base]
NumberIn(bytes) == FoldRight(LAMBDA byte, n : byte + Base * n, bytes, 0)

ElementSize(t, v) == IF t.kind = "string" THEN t.bytes + Len(v) ELSE t.bytes
SizeOf(type, value) ==
  FoldLeft(LAMBDA n, i : n + ElementSize(type[i], value[i]), 0, [i \in DOMAIN type |-> i])

ElementBytes(t, v) == IF t.kind = "string" THEN Bytes(Len(v), t.bytes) \o v ELSE Bytes(v, t.bytes)
CopyTo(type, value) == FlattenSeq([i \in DOMAIN type |-> ElementBytes(type[i], value[i])])

ElementFrom(t, buffer) ==
  IF t.kind # "string" THEN NumberIn(SubSeq(buffer, 1, t.bytes))
  ELSE SubSeq(buffer, t.bytes + 1, t.bytes + NumberIn(SubSeq(buffer, 1, t.bytes)))

(* What a reader has: the elements that were read, the rest, and whether   *)
(* nothing was missing.                                                    *)
Reading(rest) == [value |-> <<>>, rest |-> rest, ok |-> TRUE]
CopyFrom(type, buffer) ==
  FoldLeft(LAMBDA r, t :
             LET v == ElementFrom(t, r.rest)
             IN [r EXCEPT !.value = Append(@, v), !.rest = Drop(@, ElementSize(t, v))],
           Reading(buffer), type)

(* Record: the key is a string.                                            *)
RecordType(type) == <<String>> \o type
WriteRecord(type, record) == CopyTo(RecordType(type), <<record.key>> \o record.value)
ReadRecord(type, file) ==
  LET r == CopyFrom(RecordType(type), file)
  IN [record |-> [key |-> Head(r.value), value |-> Tail(r.value)], rest |-> r.rest]

-----------------------------------------------------------------------------
(* ByteBuffer: put() and get() at its position.  The size that get() wants *)
(* is that of the object, which has 32 bytes if it is a string.            *)

Buffer(size) == [bytes |-> [i \in 1 .. size |-> 0], pos |-> 0]
Rewound(buffer) == [buffer EXCEPT !.pos = 0]
CanPut(buffer, type, value) == SizeOf(type, value) <= Len(buffer.bytes) - buffer.pos

Put(buffer, type, value) ==
  IF ~ CanPut(buffer, type, value) THEN buffer
  ELSE LET bytes == CopyTo(type, value)
       IN [bytes |-> [i \in DOMAIN buffer.bytes |->
                        IF i - buffer.pos \in DOMAIN bytes THEN bytes[i - buffer.pos] ELSE buffer.bytes[i]],
           pos |-> buffer.pos + Len(bytes)]

ObjectSize(type) ==
  FoldLeft(LAMBDA n, t : n + (IF t.kind = "string" THEN 32 ELSE t.bytes), 0, type)
CanGet(buffer, type) == buffer.pos + ObjectSize(type) <= Len(buffer.bytes)
Get(buffer, type) == CopyFrom(type, Drop(buffer.bytes, buffer.pos))
Got(buffer, type) ==
  [buffer EXCEPT !.pos = Len(buffer.bytes) - Len(Get(buffer, type).rest)]

-----------------------------------------------------------------------------
(* Text: elements separated by tabs.  Only numbers below 100, to be short; *)
(* a string with a tab is refused.                                         *)

Decimal(n) == IF n < 10 THEN <<Zero + n>> ELSE <<Zero + n \div 10, Zero + (n % 10)>>
ElementText(t, v) == IF t.kind = "string" THEN v ELSE Decimal(v)
TextOf(type, value) ==
  FlattenSeq([i \in DOMAIN type |->
    (IF i = 1 THEN <<>> ELSE <<Tab>>) \o ElementText(type[i], value[i])])

AfterTab(text) == IF NextIs(text, {Tab}) THEN Tail(text) ELSE text

(* operator>> skips line breaks, too, and reads a byte as a character.     *)
ParseNumber(text) ==
  LET start == Skip(text, Spaces \cup LineBreaks)
      n == Leading(start, Digits)
  IN [v |-> FoldLeft(LAMBDA v, c : 10 * v + c - Zero, 0, SubSeq(start, 1, n)),
      rest |-> AfterTab(Drop(start, n)), ok |-> n > 0]
ParseByte(text) ==
  LET start == Skip(text, Spaces \cup LineBreaks)
  IN IF start = <<>> THEN [v |-> 0, rest |-> <<>>, ok |-> FALSE]
     ELSE [v |-> Head(start), rest |-> AfterTab(Tail(start)), ok |-> TRUE]
ParseString(text) ==
  LET n == Until(text, LineBreaks \cup {Tab})
  IN [v |-> SubSeq(text, 1, n), rest |-> AfterTab(Drop(text, n)), ok |-> TRUE]
ParseElement(t, text) ==
  CASE t.kind = "number" -> ParseNumber(text)
    [] t.kind = "byte" -> ParseByte(text)
    [] t.kind = "string" -> ParseString(text)
Parse(type, text) ==
  FoldLeft(LAMBDA r, t :
             LET e == ParseElement(t, r.rest)
             IN [value |-> Append(r.value, e.v), rest |-> e.rest, ok |-> r.ok /\ e.ok],
           Reading(text), type)

-----------------------------------------------------------------------------
(* Inverted files as text: a line has a key and its values, separated by   *)
(* tabs (InvertedFileWriter.hpp and InvertedFileReader.hpp).               *)

NoFile == [text |-> <<>>, key |-> <<>>]

(* Mutant of KeyText: no new line for a new key.                           *)
KeyOnly(file, key) == IF key = file.key THEN <<>> ELSE key
KeyText(file, key) ==
  IF key = file.key THEN <<>>
  ELSE (IF file.text = <<>> THEN <<>> ELSE <<LF>>) \o key
Written(type, file, record) ==
  [text |-> file.text \o KeyText(file, record.key) \o <<Tab>> \o TextOf(type, record.value),
   key |-> record.key]
FileOf(type, records) ==
  FoldLeft(LAMBDA file, record : Written(type, file, record), NoFile, records).text

(* A reader has the key of its line.                                       *)
WithKey(reader, text) ==
  LET key == ParseString(text) IN [reader EXCEPT !.key = key.v, !.rest = key.rest]
Opened(text) == WithKey([key |-> <<>>, rest |-> <<>>, records |-> <<>>, ok |-> TRUE], text)
ReadValue(type, reader) ==
  LET r == Parse(type, reader.rest)
  IN IF r.ok THEN [reader EXCEPT !.rest = r.rest,
                                 !.records = Append(@, [key |-> reader.key, value |-> r.value])]
     ELSE [reader EXCEPT !.ok = FALSE]

(* After a line break comes a key, and a value even if the line ends; but  *)
(* a key that the file ends with has none.                                 *)
EndsWithKey(text) == Until(text, LineBreaks \cup {Tab}) = Len(text)
ReadNext(type, reader) ==
  IF reader.rest = <<>> \/ ~ reader.ok THEN reader
  ELSE LET next == Tail(reader.rest)
       IN CASE Head(reader.rest) = CR -> [reader EXCEPT !.rest = next]
            [] Head(reader.rest) = LF ->
                 IF EndsWithKey(next) THEN [reader EXCEPT !.rest = <<>>]
                 ELSE ReadValue(type, WithKey(reader, next))
            [] OTHER -> ReadValue(type, reader)
RecordsOf(type, text) ==
  FoldLeft(LAMBDA reader, i : ReadNext(type, reader), Opened(text), [i \in 1 .. Len(text) |-> i])

=============================================================================
