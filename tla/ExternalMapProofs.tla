-------------------------- MODULE ExternalMapProofs -------------------------
(***************************************************************************)
(* Lookups of the thread-safe instance, for every map, every set of keys   *)
(* and every number of threads.                                            *)
(*                                                                         *)
(* What makes them correct is an agreement between the mutex, the file     *)
(* position and the progress of one thread: the thread that holds the      *)
(* mutex, and only it, is between the seek and the last read, the position *)
(* is where its next field is, and the words that it has are the first     *)
(* ones of the entry in the slot of its key.  Without the mutex the same   *)
(* agreement holds for each thread and the place where it left the         *)
(* position, until another thread moves it: the last part.                 *)
(***************************************************************************)
EXTENDS ExternalMap, SequenceTheorems, TLAPS

Owner(s) == CHOOSE k \in Known : Slot[k] = s

(* The entry in the slot of a key.                                         *)
Wanted(k) == EntryOf(Owner(Slot[k]))

Inside == {"seek"} \cup Fields

(* How many words a thread has read before it reads a field.               *)
WordsBefore(field) ==
  CASE field = "checksum" -> 0 [] field = "freq" -> 1 [] field = "id" -> 3

Prefix(k, n) ==
  CASE n = 0 -> <<>>
    [] n = 1 -> <<Wanted(k)[1]>>
    [] n = 3 -> <<Wanted(k)[1], Wanted(k)[2], Wanted(k)[3]>>

Excluded == \A t \in Threads : pc[t] \in Inside <=> holder = t

Waiting(t) == pc[t] # "idle" => lookup[t] \in Keys /\ result[t] = None

Fresh(t) == pc[t] \in {"lock", "seek"} => entry[t] = <<>>

AtField(t) ==
  pc[t] \in Fields =>
    /\ cursor = EntrySize * Slot[lookup[t]] + WordsBefore(pc[t])
    /\ entry[t] = Prefix(lookup[t], WordsBefore(pc[t]))

Answered(t) ==
  pc[t] = "idle" =>
    \/ lookup[t] = None /\ result[t] = None
    \/ lookup[t] \in Keys /\ result[t] \in Abstract!Answers(lookup[t])

Inv ==
  /\ TypeOK
  /\ Excluded
  /\ \A t \in Threads : Waiting(t) /\ Fresh(t) /\ AtField(t) /\ Answered(t)

-----------------------------------------------------------------------------
(* The file.                                                               *)

(* Each slot belongs to one known key.                                     *)
LEMMA OwnerOfSlot ==
  ASSUME NEW s \in 0 .. Size - 1
  PROVE  /\ Owner(s) \in Known
         /\ Slot[Owner(s)] = s
         /\ \A k \in Known : Slot[k] = s => Owner(s) = k
<1>1. PICK k \in Known : \A j \in Known : Slot[j] = s <=> j = k
  BY HashAssumption
<1>2. Owner(s) \in Known /\ Slot[Owner(s)] = s
  BY <1>1 DEF Owner
<1> QED
  BY <1>1, <1>2

(* An entry has four words.                                                *)
LEMMA WantedType ==
  ASSUME NEW k \in Keys
  PROVE  /\ Owner(Slot[k]) \in Known
         /\ Slot[k] \in 0 .. Size - 1
         /\ \A i \in 1 .. 4 : Wanted(k)[i] \in Nat
<1>1. Slot[k] \in 0 .. Size - 1
  BY KeysAssumption
<1>2. Owner(Slot[k]) \in Known
  BY <1>1, OwnerOfSlot
<1> DEFINE o == Owner(Slot[k])
<1>3. ValueOf[o] \in Nat \X Nat \X Nat /\ Checksum[o] \in Nat
  BY <1>2, KeysAssumption
<1>4. Wanted(k) = <<Checksum[o], ValueOf[o][1], ValueOf[o][2], ValueOf[o][3]>>
  BY DEF Wanted, EntryOf
<1> QED
  BY <1>1, <1>2, <1>3, <1>4

(* Reading from the offset of a key gives the words of the entry there.    *)
LEMMA FileAtSlot ==
  ASSUME NEW k \in Keys, NEW i \in 0 .. 3
  PROVE  /\ EntrySize * Slot[k] + i \in 0 .. FileSize - 1
         /\ File[EntrySize * Slot[k] + i] = Wanted(k)[1 + i]
<1>1. Slot[k] \in Nat /\ Slot[k] < Size /\ Size \in Nat
  BY KeysAssumption, SizeAssumption
<1>2. EntrySize * Slot[k] + i \in 0 .. FileSize - 1
  BY <1>1 DEF EntrySize, FileSize
<1>3. (EntrySize * Slot[k] + i) \div EntrySize = Slot[k]
  BY <1>1 DEF EntrySize
<1>4. (EntrySize * Slot[k] + i) % EntrySize = i
  BY <1>1 DEF EntrySize
<1> QED
  BY <1>2, <1>3, <1>4 DEF File, Wanted, Owner

LEMMA JoinTwo ==
  ASSUME NEW a \in Nat, NEW b \in Nat, NEW c \in Nat
  PROVE  <<a>> \o <<b, c>> = <<a, b, c>>
<1> DEFINE s == <<a>>  t == <<b, c>>  u == <<a, b, c>>
<1>1. s \in Seq(Nat) /\ t \in Seq(Nat) /\ u \in Seq(Nat)
  OBVIOUS
<1>2. /\ Len(s) = 1 /\ s[1] = a
      /\ Len(t) = 2 /\ t[1] = b /\ t[2] = c
      /\ Len(u) = 3 /\ u[1] = a /\ u[2] = b /\ u[3] = c
  OBVIOUS
<1> HIDE DEF s, t, u
<1>0. /\ s \o t \in Seq(Nat)
      /\ Len(s \o t) = Len(s) + Len(t)
      /\ \A i \in 1 .. Len(s) + Len(t) :
           (s \o t)[i] = IF i <= Len(s) THEN s[i] ELSE t[i - Len(s)]
  BY ONLY <1>1, ConcatProperties, Zenon
<1>3. /\ s \o t \in Seq(Nat) /\ Len(s \o t) = 3
      /\ \A i \in 1 .. 3 : (s \o t)[i] = IF i <= 1 THEN s[i] ELSE t[i - 1]
  BY <1>0, <1>2
<1>4. \A i \in 1 .. 3 : (s \o t)[i] = u[i]
  BY <1>2, <1>3
<1>5. s \o t = u
  BY <1>1, <1>2, <1>3, <1>4, SeqEqual
<1> QED
  BY <1>5 DEF s, t, u

LEMMA JoinOne ==
  ASSUME NEW a \in Nat, NEW b \in Nat, NEW c \in Nat, NEW d \in Nat
  PROVE  <<a, b, c>> \o <<d>> = <<a, b, c, d>>
<1> DEFINE s == <<a, b, c>>  t == <<d>>  u == <<a, b, c, d>>
<1>1. s \in Seq(Nat) /\ t \in Seq(Nat) /\ u \in Seq(Nat)
  OBVIOUS
<1>2. /\ Len(s) = 3 /\ s[1] = a /\ s[2] = b /\ s[3] = c
      /\ Len(t) = 1 /\ t[1] = d
      /\ Len(u) = 4 /\ u[1] = a /\ u[2] = b /\ u[3] = c /\ u[4] = d
  OBVIOUS
<1> HIDE DEF s, t, u
<1>0. /\ s \o t \in Seq(Nat)
      /\ Len(s \o t) = Len(s) + Len(t)
      /\ \A i \in 1 .. Len(s) + Len(t) :
           (s \o t)[i] = IF i <= Len(s) THEN s[i] ELSE t[i - Len(s)]
  BY ONLY <1>1, ConcatProperties, Zenon
<1>3. /\ s \o t \in Seq(Nat) /\ Len(s \o t) = 4
      /\ \A i \in 1 .. 4 : (s \o t)[i] = IF i <= 3 THEN s[i] ELSE t[i - 3]
  <2> DEFINE w == s \o t
             m == Len(s)  n == Len(t)
  <2>1. m = 3 /\ n = 1
    BY ONLY <1>2
  <2>2. /\ w \in Seq(Nat) /\ Len(w) = m + n
        /\ \A i \in 1 .. m + n : w[i] = IF i <= m THEN s[i] ELSE t[i - m]
    BY ONLY <1>0
  <2> HIDE DEF w, m, n
  <2>3. /\ w \in Seq(Nat) /\ Len(w) = 4
        /\ \A i \in 1 .. 4 : w[i] = IF i <= 3 THEN s[i] ELSE t[i - 3]
    BY ONLY <2>1, <2>2
  <2> QED
    BY ONLY <2>3 DEF w
<1>4. \A i \in 1 .. 4 : (s \o t)[i] = u[i]
  <2> DEFINE w == s \o t
  <2> HIDE DEF w
  <2>0. \A i \in 1 .. 4 : w[i] = IF i <= 3 THEN s[i] ELSE t[i - 3]
    BY ONLY <1>3 DEF w
  <2>1. w[1] = s[1] /\ w[2] = s[2] /\ w[3] = s[3] /\ w[4] = t[1]
    BY ONLY <2>0
  <2>2. \A i \in 1 .. 4 : i = 1 \/ i = 2 \/ i = 3 \/ i = 4
    OBVIOUS
  <2>3. \A i \in 1 .. 4 : w[i] = u[i]
    BY ONLY <1>2, <2>1, <2>2
  <2> QED
    BY ONLY <2>3 DEF w
<1>5. s \o t = u
  BY <1>1, <1>2, <1>3, <1>4, SeqEqual
<1> QED
  BY <1>5 DEF s, t, u

(* Reading a field extends the words that were read before it.             *)
LEMMA ReadField ==
  ASSUME NEW k \in Keys, NEW field \in Fields, NEW pos,
         pos = EntrySize * Slot[k] + WordsBefore(field)
  PROVE  LET words == Prefix(k, WordsBefore(field)) \o
                        [i \in 1 .. WordsOf(field) |-> File[pos + i - 1]]
         IN /\ field = "checksum" => words = Prefix(k, 1)
            /\ field = "freq" => words = Prefix(k, 3)
            /\ field = "id" => words = <<Wanted(k)[1], Wanted(k)[2], Wanted(k)[3], Wanted(k)[4]>>
            /\ words \in Seq(Nat)
            /\ pos + WordsOf(field) \in 0 .. FileSize
<1> DEFINE base == EntrySize * Slot[k]
           new == [i \in 1 .. WordsOf(field) |-> File[pos + i - 1]]
<1>1. base \in Nat
  BY WantedType DEF EntrySize
<1>2. /\ File[base] = Wanted(k)[1] /\ File[base + 1] = Wanted(k)[2]
      /\ File[base + 2] = Wanted(k)[3] /\ File[base + 3] = Wanted(k)[4]
      /\ base + 3 < FileSize /\ FileSize \in Nat
  <2>1. File[base + 0] = Wanted(k)[1 + 0]
    BY FileAtSlot
  <2>2. File[base + 1] = Wanted(k)[1 + 1]
    BY FileAtSlot
  <2>3. File[base + 2] = Wanted(k)[1 + 2]
    BY FileAtSlot
  <2>4. File[base + 3] = Wanted(k)[1 + 3] /\ base + 3 \in 0 .. FileSize - 1
    BY FileAtSlot
  <2>5. FileSize \in Nat
    BY SizeAssumption DEF FileSize, EntrySize
  <2> QED
    BY <2>1, <2>2, <2>3, <2>4, <2>5, <1>1
<1>3. \A i \in 1 .. 4 : Wanted(k)[i] \in Nat
  BY WantedType
<1>4. CASE field = "checksum"
  <2>1. new = <<Wanted(k)[1]>>
    BY <1>4, <1>1, <1>2 DEF WordsOf, WordsBefore
  <2> HIDE DEF new
  <2>2. <<>> \o new = <<Wanted(k)[1]>>
    BY <2>1, <1>3
  <2> QED
    BY <1>4, <1>1, <1>2, <1>3, <2>2 DEF Prefix, WordsBefore, WordsOf, new
<1>5. CASE field = "freq"
  <2>1. new = <<Wanted(k)[2], Wanted(k)[3]>>
    BY <1>5, <1>1, <1>2 DEF WordsOf, WordsBefore
  <2> HIDE DEF new
  <2>2. <<Wanted(k)[1]>> \o new = <<Wanted(k)[1], Wanted(k)[2], Wanted(k)[3]>>
    BY <2>1, <1>3, JoinTwo
  <2> QED
    BY <1>5, <1>1, <1>2, <1>3, <2>2 DEF Prefix, WordsBefore, WordsOf, new
<1>6. CASE field = "id"
  <2>1. new = <<Wanted(k)[4]>>
    BY <1>6, <1>1, <1>2 DEF WordsOf, WordsBefore
  <2> HIDE DEF new
  <2>2. <<Wanted(k)[1], Wanted(k)[2], Wanted(k)[3]>> \o new
          = <<Wanted(k)[1], Wanted(k)[2], Wanted(k)[3], Wanted(k)[4]>>
    BY <2>1, <1>3, JoinOne
  <2> QED
    BY <1>6, <1>1, <1>2, <1>3, <2>2 DEF Prefix, WordsBefore, WordsOf, new
<1> QED
  BY <1>4, <1>5, <1>6 DEF Fields

(* With the words of its entry, a lookup has an answer of the dictionary.  *)
LEMMA OutcomeAnswers ==
  ASSUME NEW k \in Keys,
         NEW words, words = <<Wanted(k)[1], Wanted(k)[2], Wanted(k)[3], Wanted(k)[4]>>
  PROVE  (IF words[1] # Checksum[k] THEN Missing ELSE <<words[2], words[3], words[4]>>)
           \in Abstract!Answers(k)
<1> DEFINE o == Owner(Slot[k])
<1>1. o \in Known /\ (k \in Known => o = k)
  BY WantedType, OwnerOfSlot
<1>2. ValueOf[o] \in Nat \X Nat \X Nat
  BY <1>1, KeysAssumption
<1>3. /\ words[1] = Checksum[o]
      /\ <<words[2], words[3], words[4]>> = ValueOf[o]
  BY <1>2 DEF Wanted, EntryOf
<1> QED
  BY <1>1, <1>3 DEF Abstract!Answers

(* An answer is not None.                                                  *)
LEMMA AnswersType ==
  ASSUME NEW k \in Keys
  PROVE  Abstract!Answers(k) \subseteq (Nat \X Nat \X Nat) \cup {Missing}
BY KeysAssumption DEF Abstract!Answers

-----------------------------------------------------------------------------
(* The invariant.                                                          *)

LEMMA InitInv == Init => Inv
<1> SUFFICES ASSUME Init PROVE Inv
  OBVIOUS
<1>1. TypeOK
  BY SizeAssumption DEF Init, TypeOK, FileSize, EntrySize
<1> QED
  BY <1>1, NoneAssumption
  DEF Init, Inv, Excluded, Inside, Fields, Waiting, Fresh, AtField, Answered

(* Starting a lookup disturbs nobody.                                      *)
LEMMA GetKeepsInv ==
  ASSUME ThreadSafe = TRUE, Inv, NEW t \in Threads, NEW k \in Keys, Get(t, k)
  PROVE  Inv'
<1>1. /\ pc' = [pc EXCEPT ![t] = "lock"] /\ pc[t] = "idle"
      /\ lookup' = [lookup EXCEPT ![t] = k]
      /\ entry' = [entry EXCEPT ![t] = <<>>]
      /\ result' = [result EXCEPT ![t] = None]
      /\ cursor' = cursor /\ holder' = holder
  BY DEF Get
<1>2. TypeOK'
  BY <1>1 DEF Inv, TypeOK
<1>3. Excluded'
  BY <1>1 DEF Inv, TypeOK, Excluded, Inside, Fields
<1>4. ASSUME NEW u \in Threads
      PROVE  (Waiting(u) /\ Fresh(u) /\ AtField(u) /\ Answered(u))'
  <2>1. CASE u = t
    BY <1>1, <2>1 DEF Inv, TypeOK, Waiting, Fresh, AtField, Answered, Fields
  <2>2. CASE u # t
    BY <1>1, <2>2 DEF Inv, TypeOK, Waiting, Fresh, AtField, Answered
  <2> QED
    BY <2>1, <2>2
<1> QED
  BY <1>2, <1>3, <1>4 DEF Inv

(* Nobody is inside when the mutex is free.                                *)
LEMMA LockKeepsInv ==
  ASSUME Inv, NEW t \in Threads, Lock(t)
  PROVE  Inv'
<1>1. /\ pc' = [pc EXCEPT ![t] = "seek"] /\ pc[t] = "lock"
      /\ holder' = t /\ holder = None
      /\ UNCHANGED <<lookup, entry, result, cursor>>
  BY DEF Lock
<1>2. TypeOK'
  BY <1>1 DEF Inv, TypeOK
<1>3. Excluded'
  BY <1>1, NoneAssumption DEF Inv, TypeOK, Excluded, Inside, Fields
<1>4. ASSUME NEW u \in Threads
      PROVE  (Waiting(u) /\ Fresh(u) /\ AtField(u) /\ Answered(u))'
  <2>1. CASE u = t
    BY <1>1, <2>1 DEF Inv, TypeOK, Waiting, Fresh, AtField, Answered, Fields
  <2>2. CASE u # t
    BY <1>1, <2>2 DEF Inv, TypeOK, Waiting, Fresh, AtField, Answered
  <2> QED
    BY <2>1, <2>2
<1> QED
  BY <1>2, <1>3, <1>4 DEF Inv

(* The thread that sets the position is the only one inside.               *)
LEMMA SeekKeepsInv ==
  ASSUME Inv, NEW t \in Threads, Seek(t)
  PROVE  Inv'
<1>1. /\ pc' = [pc EXCEPT ![t] = "checksum"] /\ pc[t] = "seek"
      /\ cursor' = EntrySize * Slot[lookup[t]]
      /\ UNCHANGED <<lookup, entry, result, holder>>
  BY DEF Seek
<1>2. lookup[t] \in Keys /\ entry[t] = <<>>
  BY <1>1 DEF Inv, Waiting, Fresh
<1>3. cursor' \in 0 .. FileSize
  <2>1. EntrySize * Slot[lookup[t]] + 0 \in 0 .. FileSize - 1
    BY <1>2, FileAtSlot
  <2>2. FileSize \in Nat /\ EntrySize * Slot[lookup[t]] \in Nat
    BY <1>2, WantedType, SizeAssumption DEF FileSize, EntrySize
  <2> QED
    BY <1>1, <2>1, <2>2
<1>4. TypeOK'
  BY <1>1, <1>3 DEF Inv, TypeOK, Fields
<1>5. Excluded'
  BY <1>1 DEF Inv, TypeOK, Excluded, Inside, Fields
<1>6. ASSUME NEW u \in Threads
      PROVE  (Waiting(u) /\ Fresh(u) /\ AtField(u) /\ Answered(u))'
  <2>1. CASE u = t
    <3>1. EntrySize * Slot[lookup[t]] \in Nat
      BY <1>2, WantedType DEF EntrySize
    <3> QED
      BY <1>1, <1>2, <2>1, <3>1
      DEF Inv, TypeOK, Waiting, Fresh, AtField, Answered, WordsBefore, Prefix
  <2>2. CASE u # t
    <3>1. pc[u] \notin Fields
      BY <1>1, <2>2 DEF Inv, Excluded, Inside
    <3> QED
      BY <1>1, <2>2, <3>1 DEF Inv, TypeOK, Waiting, Fresh, AtField, Answered
  <2> QED
    BY <2>1, <2>2
<1> QED
  BY <1>4, <1>5, <1>6 DEF Inv

(* What a thread at a field has read once it has the next field as well.   *)
WordsAfter(t) == entry[t] \o [i \in 1 .. WordsOf(pc[t]) |-> File[cursor + i - 1]]

LEMMA NextField ==
  ASSUME Inv, NEW t \in Threads, pc[t] \in Fields
  PROVE  /\ lookup[t] \in Keys /\ result[t] = None
         /\ pc[t] = "checksum" => WordsAfter(t) = Prefix(lookup[t], 1)
         /\ pc[t] = "freq" => WordsAfter(t) = Prefix(lookup[t], 3)
         /\ pc[t] = "id" =>
              LET words == WordsAfter(t)
              IN Outcome(t, words) \in Abstract!Answers(lookup[t])
         /\ WordsAfter(t) \in Seq(Nat)
         /\ cursor + WordsOf(pc[t]) \in 0 .. FileSize
         /\ cursor = EntrySize * Slot[lookup[t]] + WordsBefore(pc[t])
<1>1. lookup[t] \in Keys /\ result[t] = None
  BY DEF Inv, Waiting, Fields
<1>2. /\ cursor = EntrySize * Slot[lookup[t]] + WordsBefore(pc[t])
      /\ entry[t] = Prefix(lookup[t], WordsBefore(pc[t]))
  BY DEF Inv, AtField
<1> DEFINE k == lookup[t]
<1>3. /\ pc[t] = "checksum" => WordsAfter(t) = Prefix(k, 1)
      /\ pc[t] = "freq" => WordsAfter(t) = Prefix(k, 3)
      /\ pc[t] = "id" => WordsAfter(t) = <<Wanted(k)[1], Wanted(k)[2], Wanted(k)[3], Wanted(k)[4]>>
      /\ WordsAfter(t) \in Seq(Nat)
      /\ cursor + WordsOf(pc[t]) \in 0 .. FileSize
  <2> DEFINE words == Prefix(k, WordsBefore(pc[t])) \o
                        [i \in 1 .. WordsOf(pc[t]) |-> File[cursor + i - 1]]
  <2>1. WordsAfter(t) = words
    BY <1>2 DEF WordsAfter
  <2> HIDE DEF k
  <2>2. /\ pc[t] = "checksum" => words = Prefix(k, 1)
        /\ pc[t] = "freq" => words = Prefix(k, 3)
        /\ pc[t] = "id" => words = <<Wanted(k)[1], Wanted(k)[2], Wanted(k)[3], Wanted(k)[4]>>
        /\ words \in Seq(Nat)
        /\ cursor + WordsOf(pc[t]) \in 0 .. FileSize
    <3>1. k \in Keys /\ cursor = EntrySize * Slot[k] + WordsBefore(pc[t])
      BY <1>1, <1>2 DEF k
    <3> QED
      BY <3>1, ReadField
  <2> HIDE DEF words
  <2> QED
    BY ONLY <2>1, <2>2
<1>4. ASSUME pc[t] = "id" PROVE Outcome(t, WordsAfter(t)) \in Abstract!Answers(k)
  BY <1>1, <1>3, <1>4, OutcomeAnswers DEF Outcome
<1> HIDE DEF k
<1>5. /\ pc[t] = "checksum" => WordsAfter(t) = Prefix(lookup[t], 1)
      /\ pc[t] = "freq" => WordsAfter(t) = Prefix(lookup[t], 3)
      /\ pc[t] = "id" => Outcome(t, WordsAfter(t)) \in Abstract!Answers(lookup[t])
  BY ONLY <1>3, <1>4 DEF k
<1> QED
  BY ONLY <1>1, <1>2, <1>3, <1>5

(* No thread reaches the end of the file within a field.                   *)
LEMMA NoReadFails ==
  ASSUME Inv, NEW t \in Threads
  PROVE  ~ ReadFails(t)
<1>1. ASSUME pc[t] \in Fields PROVE ~ (cursor + WordsOf(pc[t]) > FileSize)
  <2>1. cursor + WordsOf(pc[t]) \in 0 .. FileSize
    BY <1>1, NextField
  <2>2. FileSize \in Nat
    BY SizeAssumption DEF FileSize, EntrySize
  <2> QED
    BY <2>1, <2>2
<1> QED
  BY <1>1 DEF ReadFails

(* What a read does: it goes on to the next field, or it ends the lookup.  *)
LEMMA ReadSteps ==
  ASSUME ThreadSafe = TRUE, Inv, NEW t \in Threads, Read(t)
  PROVE  /\ pc[t] \in Fields
         /\ cursor' = cursor + WordsOf(pc[t])
         /\ entry' = [entry EXCEPT ![t] = WordsAfter(t)]
         /\ lookup' = lookup
         /\ \/ /\ pc[t] = "id"
               /\ pc' = [pc EXCEPT ![t] = "idle"]
               /\ result' = [result EXCEPT ![t] = Outcome(t, WordsAfter(t))]
               /\ holder' = None
            \/ /\ pc[t] = "checksum"
               /\ pc' = [pc EXCEPT ![t] = "freq"]
               /\ UNCHANGED <<result, holder>>
            \/ /\ pc[t] = "freq"
               /\ pc' = [pc EXCEPT ![t] = "id"]
               /\ UNCHANGED <<result, holder>>
BY DEF Inv, TypeOK, Read, Leave, Fields, WordsAfter

LEMMA ReadKeepsInv ==
  ASSUME ThreadSafe = TRUE, Inv, NEW t \in Threads, Read(t)
  PROVE  Inv'
<1>1. /\ pc[t] \in Fields
      /\ cursor' = cursor + WordsOf(pc[t])
      /\ entry' = [entry EXCEPT ![t] = WordsAfter(t)]
      /\ lookup' = lookup
  BY ReadSteps
<1>2. /\ lookup[t] \in Keys /\ result[t] = None
      /\ WordsAfter(t) \in Seq(Nat)
      /\ cursor + WordsOf(pc[t]) \in 0 .. FileSize
      /\ cursor = EntrySize * Slot[lookup[t]] + WordsBefore(pc[t])
      /\ EntrySize * Slot[lookup[t]] \in Nat
  BY <1>1, NextField, WantedType DEF EntrySize
<1>3. ASSUME NEW u \in Threads, u # t
      PROVE  pc[u] \notin Inside
  BY <1>1, <1>3 DEF Inv, Excluded, Inside
<1>4. CASE /\ pc[t] = "id"
           /\ pc' = [pc EXCEPT ![t] = "idle"]
           /\ result' = [result EXCEPT ![t] = Outcome(t, WordsAfter(t))]
           /\ holder' = None
  <2>1. Outcome(t, WordsAfter(t)) \in Abstract!Answers(lookup[t])
    BY <1>1, <1>4, NextField
  <2>2. Outcome(t, WordsAfter(t)) \in (Nat \X Nat \X Nat) \cup {Missing}
    BY <2>1, <1>2, AnswersType
  <2>3. TypeOK'
    BY <1>1, <1>2, <1>4, <2>2 DEF Inv, TypeOK
  <2>4. Excluded'
    BY <1>3, <1>4, NoneAssumption DEF Inv, TypeOK, Excluded, Inside, Fields
  <2>5. ASSUME NEW u \in Threads
        PROVE  (Waiting(u) /\ Fresh(u) /\ AtField(u) /\ Answered(u))'
    <3>1. CASE u = t
      <4>1. pc'[u] = "idle" /\ result'[u] = Outcome(t, WordsAfter(t)) /\ lookup'[u] = lookup[t]
        BY <1>1, <1>4, <3>1 DEF Inv, TypeOK
      <4> QED
        BY <4>1, <2>1, <1>2 DEF Waiting, Fresh, AtField, Answered, Fields, Abstract!Answers
    <3>2. CASE u # t
      BY <1>1, <1>3, <1>4, <3>2
      DEF Inv, TypeOK, Waiting, Fresh, AtField, Answered, Inside, Abstract!Answers
    <3> QED
      BY <3>1, <3>2
  <2> QED
    BY <2>3, <2>4, <2>5 DEF Inv
<1>5. ASSUME NEW field \in {"freq", "id"},
             WordsBefore(field) = WordsBefore(pc[t]) + WordsOf(pc[t]),
             WordsAfter(t) = Prefix(lookup[t], WordsBefore(field)),
             pc' = [pc EXCEPT ![t] = field],
             UNCHANGED <<result, holder>>
      PROVE  Inv'
  <2>1. TypeOK'
    BY <1>1, <1>2, <1>5 DEF Inv, TypeOK, Fields
  <2>2. Excluded'
    BY <1>1, <1>3, <1>5 DEF Inv, TypeOK, Excluded, Inside, Fields
  <2>3. ASSUME NEW u \in Threads
        PROVE  (Waiting(u) /\ Fresh(u) /\ AtField(u) /\ Answered(u))'
    <3>1. CASE u = t
      <4>1. /\ pc'[u] = field /\ lookup'[u] = lookup[t] /\ result'[u] = None
            /\ entry'[u] = Prefix(lookup[t], WordsBefore(field))
        BY <1>1, <1>2, <1>5, <3>1 DEF Inv, TypeOK
      <4>2. cursor' = EntrySize * Slot[lookup[t]] + WordsBefore(field)
        BY <1>1, <1>2, <1>5 DEF WordsBefore, WordsOf, Fields
      <4> QED
        BY <4>1, <4>2, <1>2 DEF Waiting, Fresh, AtField, Answered, Fields
    <3>2. CASE u # t
      BY <1>1, <1>3, <1>5, <3>2
      DEF Inv, TypeOK, Waiting, Fresh, AtField, Answered, Inside
    <3> QED
      BY <3>1, <3>2
  <2> QED
    BY <2>1, <2>2, <2>3 DEF Inv
<1>6. CASE pc[t] = "checksum" /\ pc' = [pc EXCEPT ![t] = "freq"] /\ UNCHANGED <<result, holder>>
  BY <1>5, <1>6, <1>1, NextField DEF WordsBefore, WordsOf
<1>7. CASE pc[t] = "freq" /\ pc' = [pc EXCEPT ![t] = "id"] /\ UNCHANGED <<result, holder>>
  BY <1>5, <1>7, <1>1, NextField DEF WordsBefore, WordsOf
<1> QED
  BY <1>4, <1>6, <1>7, ReadSteps

LEMMA StepInv ==
  ASSUME ThreadSafe = TRUE
  PROVE  Inv /\ [Next]_vars => Inv'
<1> SUFFICES ASSUME Inv, [Next]_vars PROVE Inv'
  OBVIOUS
<1>1. CASE UNCHANGED vars
  BY <1>1 DEF vars, Inv, TypeOK, Excluded, Waiting, Fresh, AtField, Answered, Abstract!Answers
<1>2. ASSUME NEW t \in Threads, NEW k \in Keys, Get(t, k) PROVE Inv'
  BY <1>2, GetKeepsInv
<1>3. ASSUME NEW t \in Threads, Lock(t) PROVE Inv'
  BY <1>3, LockKeepsInv
<1>4. ASSUME NEW t \in Threads, Seek(t) PROVE Inv'
  BY <1>4, SeekKeepsInv
<1>5. ASSUME NEW t \in Threads, Read(t) PROVE Inv'
  BY <1>5, ReadKeepsInv
<1>6. ASSUME NEW t \in Threads, ReadFails(t) PROVE Inv'
  BY <1>6, NoReadFails
<1> QED
  BY <1>1, <1>2, <1>3, <1>4, <1>5, <1>6 DEF Next, Step

-----------------------------------------------------------------------------
(* What follows.                                                           *)

(* Every lookup of a known key returns its value, for any number of        *)
(* threads that share the file under the mutex.                            *)
THEOREM KnownKeysAreFound ==
  ASSUME ThreadSafe = TRUE
  PROVE  Spec => []KnownKeysFound
<1>1. Inv => KnownKeysFound
  BY KeysAssumption, NoneAssumption
  DEF Inv, Answered, KnownKeysFound, Abstract!Answers
<1> QED
  BY <1>1, InitInv, StepInv, PTL DEF Spec

(* Starting a lookup asks the dictionary; nothing is pending before it.    *)
LEMMA GetAsks ==
  ASSUME Inv, NEW t \in Threads, NEW k \in Keys, Get(t, k)
  PROVE  Abstract!Ask(t, k)
<1>1. ~ Abstract!Pending(t)
  <2>1. \/ lookup[t] = None
        \/ lookup[t] \in Keys /\ result[t] \in Abstract!Answers(lookup[t])
    BY DEF Inv, Answered, Get
  <2>2. CASE lookup[t] = None
    BY <2>2 DEF Abstract!Pending
  <2>3. CASE lookup[t] \in Keys /\ result[t] \in Abstract!Answers(lookup[t])
    <3>1. result[t] \in (Nat \X Nat \X Nat) \cup {Missing}
      BY <2>3, AnswersType
    <3> QED
      BY <3>1, NoneAssumption DEF Abstract!Pending
  <2> QED
    BY <2>1, <2>2, <2>3
<1> QED
  BY <1>1 DEF Get, Abstract!Ask

(* The last read answers; the others are steps that nobody sees.           *)
LEMMA ReadAnswers ==
  ASSUME ThreadSafe = TRUE, Inv, NEW t \in Threads, Read(t)
  PROVE  Abstract!Answer(t) \/ UNCHANGED <<lookup, result>>
<1>1. CASE pc[t] = "id"
  <2>1. /\ lookup' = lookup
        /\ result' = [result EXCEPT ![t] = Outcome(t, WordsAfter(t))]
    BY <1>1, ReadSteps
  <2>2. /\ lookup[t] \in Keys /\ result[t] = None
        /\ Outcome(t, WordsAfter(t)) \in Abstract!Answers(lookup[t])
    BY <1>1, NextField DEF Fields
  <2>3. Abstract!Pending(t)
    BY <2>2, NoneAssumption DEF Abstract!Pending
  <2> QED
    BY <2>1, <2>2, <2>3 DEF Abstract!Answer
<1>2. CASE pc[t] # "id"
  BY <1>2, ReadSteps
<1> QED
  BY <1>1, <1>2

(* For any number of threads that share the file under the mutex, every    *)
(* lookup answers as if the thread had the file to itself.                 *)
THEOREM LockedMapImplementsDictionary ==
  ASSUME ThreadSafe = TRUE
  PROVE  Spec => ImplementsDictionary
<1>1. Init => Abstract!Init
  BY DEF Init, Abstract!Init
<1>2. Inv /\ [Next]_vars => [Abstract!Next]_<<lookup, result>>
  <2> SUFFICES ASSUME Inv, [Next]_vars, ~ UNCHANGED <<lookup, result>>
               PROVE  Abstract!Next
    OBVIOUS
  <2>1. ASSUME NEW t \in Threads, NEW k \in Keys, Get(t, k) PROVE Abstract!Next
    BY <2>1, GetAsks DEF Abstract!Next
  <2>2. ASSUME NEW t \in Threads, Read(t) PROVE Abstract!Next
    BY <2>2, ReadAnswers DEF Abstract!Next
  <2>3. ASSUME NEW t \in Threads, Lock(t) \/ Seek(t) PROVE FALSE
    BY <2>3 DEF Lock, Seek
  <2>4. ASSUME NEW t \in Threads, ReadFails(t) PROVE FALSE
    BY <2>4, NoReadFails
  <2> QED
    BY <2>1, <2>2, <2>3, <2>4 DEF Next, Step, vars
<1> QED
  BY <1>1, <1>2, InitInv, StepInv, PTL DEF Spec, ImplementsDictionary, Abstract!Spec

-----------------------------------------------------------------------------
(* Lookups of either instance, with or without the mutex.  While its reads *)
(* begin where its own steps left the position, a thread has the words of  *)
(* its entry up to its next field, whatever others did in between.         *)

Kept(t) ==
  /\ pc[t] # "idle" => lookup[t] \in Keys
  /\ Fresh(t)
  /\ pc[t] \in Fields /\ place[t] # None =>
       /\ place[t] = EntrySize * Slot[lookup[t]] + WordsBefore(pc[t])
       /\ entry[t] = Prefix(lookup[t], WordsBefore(pc[t]))
  /\ pc[t] = "idle" /\ place[t] # None => result[t] \in Abstract!Answers(lookup[t])

SharedTypes ==
  /\ pc \in [Threads -> {"idle", "lock", "seek"} \cup Fields]
  /\ lookup = [t \in Threads |-> lookup[t]]
  /\ entry = [t \in Threads |-> entry[t]]
  /\ result = [t \in Threads |-> result[t]]
  /\ place = [t \in Threads |-> place[t]]
  /\ cursor \in Nat

SharedInv == SharedTypes /\ \A t \in Threads : Kept(t)

LEMMA SharedInitInv == Init => SharedInv
BY DEF Init, SharedInv, SharedTypes, Kept, Fresh, Fields

(* What others saw and have read stays.                                    *)
LEMMA OthersKeep ==
  ASSUME SharedInv, NEW t \in Threads, NEW u \in Threads, u # t,
         NEW a, NEW b, NEW c, NEW d, NEW e,
         pc' = [pc EXCEPT ![t] = a], lookup' = [lookup EXCEPT ![t] = b],
         entry' = [entry EXCEPT ![t] = c], result' = [result EXCEPT ![t] = d],
         place' = [place EXCEPT ![t] = e]
  PROVE  Kept(u)'
<1>1. /\ pc'[u] = pc[u] /\ lookup'[u] = lookup[u] /\ entry'[u] = entry[u]
      /\ result'[u] = result[u] /\ place'[u] = place[u]
  BY DEF SharedInv, SharedTypes
<1>2. Kept(u)
  BY DEF SharedInv
<1> QED
  BY <1>1, <1>2 DEF Kept, Fresh, Abstract!Answers

(* A thread asks, waits for the mutex, or sets the position.               *)
LEMMA SharedBegins ==
  ASSUME SharedInv, NEW t \in Threads, Sees(t),
         (\E k \in Keys : Get(t, k)) \/ Lock(t) \/ Seek(t)
  PROVE  SharedInv'
<1>1. CASE \E k \in Keys : Get(t, k)
  <2>1. PICK k \in Keys : Get(t, k)
    BY <1>1
  <2>2. PICK next \in {"lock", "seek"} : pc' = [pc EXCEPT ![t] = next]
    BY <2>1 DEF Get
  <2>3. /\ lookup' = [lookup EXCEPT ![t] = k]
        /\ entry' = [entry EXCEPT ![t] = <<>>]
        /\ result' = [result EXCEPT ![t] = None]
        /\ cursor' = cursor
    BY <2>1 DEF Get
  <2>4. SharedTypes'
    BY <2>2, <2>3 DEF SharedInv, SharedTypes, Sees
  <2>5. Kept(t)'
    BY <2>2, <2>3 DEF SharedInv, SharedTypes, Kept, Fresh, Fields
  <2>6. ASSUME NEW u \in Threads, u # t PROVE Kept(u)'
    BY <2>2, <2>3, <2>6, OthersKeep DEF Sees
  <2> QED
    BY <2>4, <2>5, <2>6 DEF SharedInv
<1>2. CASE Lock(t)
  <2>1. /\ pc' = [pc EXCEPT ![t] = "seek"] /\ pc[t] = "lock"
        /\ UNCHANGED <<lookup, entry, result, cursor>>
    BY <1>2 DEF Lock
  <2>2. /\ pc' = [pc EXCEPT ![t] = "seek"] /\ lookup' = [lookup EXCEPT ![t] = lookup[t]]
        /\ entry' = [entry EXCEPT ![t] = entry[t]] /\ result' = [result EXCEPT ![t] = result[t]]
    BY <2>1 DEF SharedInv, SharedTypes
  <2>3. SharedTypes'
    BY <2>1 DEF SharedInv, SharedTypes, Sees
  <2>4. Kept(t)'
    BY <2>1 DEF SharedInv, SharedTypes, Kept, Fresh, Fields
  <2>5. ASSUME NEW u \in Threads, u # t PROVE Kept(u)'
    BY <2>2, <2>5, OthersKeep DEF Sees
  <2> QED
    BY <2>3, <2>4, <2>5 DEF SharedInv
<1>3. CASE Seek(t)
  <2>1. /\ pc' = [pc EXCEPT ![t] = "checksum"] /\ pc[t] = "seek"
        /\ cursor' = EntrySize * Slot[lookup[t]]
        /\ UNCHANGED <<lookup, entry, result>>
    BY <1>3 DEF Seek
  <2>2. lookup[t] \in Keys /\ entry[t] = <<>>
    BY <2>1 DEF SharedInv, Kept, Fresh
  <2>3. EntrySize * Slot[lookup[t]] \in Nat
    BY <2>2, WantedType DEF EntrySize
  <2>4. /\ pc' = [pc EXCEPT ![t] = "checksum"] /\ lookup' = [lookup EXCEPT ![t] = lookup[t]]
        /\ entry' = [entry EXCEPT ![t] = entry[t]] /\ result' = [result EXCEPT ![t] = result[t]]
    BY <2>1 DEF SharedInv, SharedTypes
  <2>5. SharedTypes'
    BY <2>1, <2>3 DEF SharedInv, SharedTypes, Sees, Fields
  <2>6. place'[t] = EntrySize * Slot[lookup[t]]
    BY <2>1 DEF SharedInv, SharedTypes, Sees, Displaced, Fields
  <2>7. Kept(t)'
    BY <2>1, <2>2, <2>3, <2>6 DEF SharedInv, SharedTypes, Kept, Fresh, Fields, WordsBefore, Prefix
  <2>8. ASSUME NEW u \in Threads, u # t PROVE Kept(u)'
    BY <2>4, <2>8, OthersKeep DEF Sees
  <2> QED
    BY <2>5, <2>7, <2>8 DEF SharedInv
<1> QED
  BY <1>1, <1>2, <1>3

(* A thread that nobody displaced reads the words of its own entry.        *)
LEMMA UndisplacedField ==
  ASSUME SharedInv, NEW t \in Threads, pc[t] \in Fields, ~ Displaced(t)
  PROVE  /\ lookup[t] \in Keys
         /\ cursor = EntrySize * Slot[lookup[t]] + WordsBefore(pc[t])
         /\ EntrySize * Slot[lookup[t]] \in Nat
         /\ pc[t] = "checksum" => WordsAfter(t) = Prefix(lookup[t], 1)
         /\ pc[t] = "freq" => WordsAfter(t) = Prefix(lookup[t], 3)
         /\ pc[t] = "id" => Outcome(t, WordsAfter(t)) \in Abstract!Answers(lookup[t])
         /\ cursor + WordsOf(pc[t]) <= FileSize
<1> DEFINE k == lookup[t]
           words == Prefix(k, WordsBefore(pc[t])) \o
                      [i \in 1 .. WordsOf(pc[t]) |-> File[cursor + i - 1]]
<1>1. place[t] = cursor /\ cursor \in Nat /\ place[t] # None
  BY NoneAssumption DEF Displaced, SharedInv, SharedTypes
<1>2. /\ k \in Keys
      /\ cursor = EntrySize * Slot[k] + WordsBefore(pc[t])
      /\ entry[t] = Prefix(k, WordsBefore(pc[t]))
  BY <1>1 DEF SharedInv, Kept, Fields
<1>3. WordsAfter(t) = words /\ EntrySize * Slot[k] \in Nat
  BY <1>2, WantedType DEF WordsAfter, EntrySize
<1> HIDE DEF k, words
<1>4. /\ pc[t] = "checksum" => words = Prefix(k, 1)
      /\ pc[t] = "freq" => words = Prefix(k, 3)
      /\ pc[t] = "id" => words = <<Wanted(k)[1], Wanted(k)[2], Wanted(k)[3], Wanted(k)[4]>>
      /\ cursor + WordsOf(pc[t]) \in 0 .. FileSize
  BY <1>2, ReadField DEF words
<1>5. cursor + WordsOf(pc[t]) <= FileSize
  BY <1>4, SizeAssumption DEF FileSize, EntrySize
<1>6. pc[t] = "id" => Outcome(t, WordsAfter(t)) \in Abstract!Answers(k)
  BY <1>2, <1>3, <1>4, OutcomeAnswers DEF Outcome, k
<1> QED
  BY <1>2, <1>3, <1>4, <1>5, <1>6 DEF k

(* A thread reads a field, wherever the position is.                       *)
LEMMA SharedReads ==
  ASSUME SharedInv, NEW t \in Threads, Sees(t), Read(t)
  PROVE  SharedInv'
<1>1. /\ pc[t] \in Fields /\ cursor' = cursor + WordsOf(pc[t]) /\ UNCHANGED lookup
      /\ entry' = [entry EXCEPT ![t] = WordsAfter(t)]
  BY DEF Read, WordsAfter
<1>2. PICK outcome, next :
        /\ result' = [result EXCEPT ![t] = outcome] /\ pc' = [pc EXCEPT ![t] = next]
        /\ next = CASE pc[t] = "checksum" -> "freq" [] pc[t] = "freq" -> "id" [] pc[t] = "id" -> "idle"
        /\ pc[t] = "id" => outcome = Outcome(t, WordsAfter(t))
  <2>1. CASE pc[t] = "id"
    BY <2>1 DEF Read, Leave, WordsAfter
  <2>2. CASE pc[t] # "id"
    <3>1. /\ pc' = [pc EXCEPT ![t] = IF pc[t] = "checksum" THEN "freq" ELSE "id"]
          /\ result' = [result EXCEPT ![t] = result[t]]
          /\ pc[t] \in {"checksum", "freq"}
      BY <1>1, <2>2 DEF Read, Fields, SharedInv, SharedTypes
    <3> QED
      BY <3>1
  <2> QED
    BY <2>1, <2>2
<1>3. lookup[t] \in Keys /\ lookup' = [lookup EXCEPT ![t] = lookup[t]]
  BY <1>1 DEF SharedInv, SharedTypes, Kept, Fields
<1>4. SharedTypes'
  <2>1. cursor' \in Nat
    BY <1>1 DEF SharedInv, SharedTypes, WordsOf
  <2>2. next \in {"idle"} \cup Fields
    BY <1>1, <1>2 DEF Fields
  <2> QED
    BY <1>1, <1>2, <2>1, <2>2 DEF SharedInv, SharedTypes, Sees
<1>5. /\ pc'[t] = next /\ lookup'[t] = lookup[t] /\ entry'[t] = WordsAfter(t) /\ result'[t] = outcome
      /\ place'[t] = IF Displaced(t) THEN None ELSE cursor'
  BY <1>1, <1>2 DEF SharedInv, SharedTypes, Sees
<1>6. Kept(t)'
  <2>1. CASE Displaced(t)
    BY <1>1, <1>2, <1>3, <1>5, <2>1 DEF Kept, Fresh, Fields
  <2>2. CASE ~ Displaced(t)
    <3>1. CASE pc[t] = "id"
      BY <1>1, <1>2, <1>5, <2>2, <3>1, UndisplacedField DEF Kept, Fresh, Fields, Abstract!Answers
    <3>2. CASE pc[t] # "id"
      <4>1. cursor' = EntrySize * Slot[lookup[t]] + WordsBefore(next)
        BY <1>1, <1>2, <2>2, <3>2, UndisplacedField DEF WordsBefore, WordsOf, Fields
      <4>2. entry'[t] = Prefix(lookup[t], WordsBefore(next))
        BY <1>1, <1>2, <1>5, <2>2, <3>2, UndisplacedField DEF WordsBefore, Fields
      <4> QED
        BY <1>1, <1>2, <1>3, <1>5, <3>2, <4>1, <4>2 DEF Kept, Fresh, Fields
    <3> QED
      BY <3>1, <3>2
  <2> QED
    BY <2>1, <2>2
<1>7. ASSUME NEW u \in Threads, u # t PROVE Kept(u)'
  BY <1>1, <1>2, <1>3, <1>7, OthersKeep DEF Sees
<1> QED
  BY <1>4, <1>6, <1>7 DEF SharedInv

(* A read reaches the end of the file only if it was displaced.            *)
LEMMA SharedFails ==
  ASSUME SharedInv, NEW t \in Threads, Sees(t), ReadFails(t)
  PROVE  SharedInv'
<1>1. /\ pc[t] \in Fields /\ cursor + WordsOf(pc[t]) > FileSize
      /\ pc' = [pc EXCEPT ![t] = "idle"] /\ result' = [result EXCEPT ![t] = Error]
      /\ cursor' = FileSize /\ UNCHANGED <<lookup, entry>>
  BY DEF ReadFails, Leave
<1>2. FileSize \in Nat /\ cursor + WordsOf(pc[t]) \in Nat
  BY SizeAssumption DEF FileSize, EntrySize, SharedInv, SharedTypes, WordsOf
<1>3. Displaced(t)
  BY <1>1, <1>2, UndisplacedField
<1>4. SharedTypes'
  BY <1>1, <1>2 DEF SharedInv, SharedTypes, Sees
<1>5. pc'[t] = "idle" /\ place'[t] = None
  BY <1>1, <1>3 DEF SharedInv, SharedTypes, Sees
<1>6. Kept(t)'
  BY <1>5 DEF Kept, Fresh, Fields
<1>7. /\ lookup' = [lookup EXCEPT ![t] = lookup[t]] /\ entry' = [entry EXCEPT ![t] = entry[t]]
  BY <1>1 DEF SharedInv, SharedTypes
<1>8. ASSUME NEW u \in Threads, u # t PROVE Kept(u)'
  BY <1>1, <1>7, <1>8, OthersKeep DEF Sees
<1> QED
  BY <1>4, <1>6, <1>8 DEF SharedInv

(* With or without the mutex, for every map and any number of threads, a   *)
(* lookup that nobody displaced answers as the dictionary: the one thing   *)
(* that can go wrong without the mutex is that the position is moved.      *)
THEOREM UndisplacedLookupsAreAnswered == Spec => []UndisplacedLookupsAnswered
<1>1. SharedInv /\ [Next]_vars => SharedInv'
  <2> SUFFICES ASSUME SharedInv, [Next]_vars
               PROVE  SharedInv'
    OBVIOUS
  <2>1. CASE UNCHANGED vars
    BY <2>1 DEF SharedInv, SharedTypes, Kept, Fresh, vars, Abstract!Answers
  <2>2. CASE Next
    BY <2>2, SharedBegins, SharedReads, SharedFails DEF Next, Step
  <2> QED
    BY <2>1, <2>2
<1>2. SharedInv => UndisplacedLookupsAnswered
  BY DEF SharedInv, Kept, UndisplacedLookupsAnswered
<1> QED
  BY SharedInitInv, <1>1, <1>2, PTL DEF Spec

=============================================================================
