----------------------------- MODULE ExternalMap ----------------------------
(***************************************************************************)
(* Looking keys up in the part of a BigHashMap that is left on disk        *)
(* (bighashmap/ExternalMap.hpp).                                           *)
(*                                                                         *)
(* The file is an array of entries, each a checksum of the key (32 bits),  *)
(* a frequency (64 bits) and a phrase id (32 bits): four words of 32 bits. *)
(* All threads share one FILE, so one file position.  A lookup sets the    *)
(* position and reads three fields; the C library makes each of these      *)
(* calls atomic, and only the thread-safe instance holds a mutex over all  *)
(* of them.  The inverted index uses that one (Searcher is thread-safe by  *)
(* default), the phrase dictionary the other (PhraseDictionary.hpp).       *)
(***************************************************************************)
EXTENDS Integers, Sequences

CONSTANTS
  Keys,         \* keys that are looked up
  Known,        \* keys that were put in when the map was built
  Size,         \* number of entries
  Slot,         \* the hash of each key, modulo the number of entries
  Checksum,     \* the checksum of each key
  ValueOf,      \* the value of each known key: <<low word, high word, id>>
  Threads,
  ThreadSafe,   \* the template argument IsThreadSafe
  None,         \* no thread, no key, no result, no position
  Missing,      \* Get() returned false
  Error         \* Get() threw an exception

ASSUME SizeAssumption == Size \in Nat \ {0}
ASSUME KeysAssumption == /\ Known \subseteq Keys
                         /\ Slot \in [Keys -> 0 .. Size - 1]
                         /\ Checksum \in [Keys -> Nat]
                         /\ ValueOf \in [Known -> Nat \X Nat \X Nat]
(* The hash is minimal and perfect for the known keys.                     *)
ASSUME HashAssumption == \A s \in 0 .. Size - 1 :
                           \E k \in Known : \A j \in Known : Slot[j] = s <=> j = k
ASSUME NoneAssumption == /\ None \notin Keys /\ None \notin Threads /\ None \notin Nat
                         /\ {None, Missing, Error} \cap (Nat \X Nat \X Nat) = {}
                         /\ None # Missing /\ None # Error /\ Missing # Error

VARIABLES
  pc,        \* per thread: "idle", "lock", "seek", "checksum", "freq" or "id"
  lookup,    \* the key of its last lookup
  entry,     \* the words of the entry that it has read
  result,    \* the result of the lookup, None while there is none
  cursor,    \* the position in the file, in words
  holder,    \* the thread that holds mutex_
  place      \* history: where the last step of a thread left the position,
             \* None once one of its reads began elsewhere

vars == <<pc, lookup, entry, result, cursor, holder, place>>

-----------------------------------------------------------------------------

EntrySize == 4
FileSize == EntrySize * Size

(* The words of an entry, as BuildHashTable() writes them.                 *)
EntryOf(k) == <<Checksum[k], ValueOf[k][1], ValueOf[k][2], ValueOf[k][3]>>

(* The file, at the positions 0 .. FileSize - 1.                           *)
File == [i \in 0 .. FileSize - 1 |->
           EntryOf(CHOOSE k \in Known : Slot[k] = i \div EntrySize)[1 + (i % EntrySize)]]

Fields == {"checksum", "freq", "id"}
WordsOf(field) == IF field = "freq" THEN 2 ELSE 1

Init ==
  /\ pc = [t \in Threads |-> "idle"]
  /\ lookup = [t \in Threads |-> None]
  /\ entry = [t \in Threads |-> <<>>]
  /\ result = [t \in Threads |-> None]
  /\ cursor = 0
  /\ holder = None
  /\ place = [t \in Threads |-> None]

(* Get() computes the offset of the entry from the hash of the key.        *)
Get(t, k) ==
  /\ pc[t] = "idle"
  /\ pc' = [pc EXCEPT ![t] = IF ThreadSafe THEN "lock" ELSE "seek"]
  /\ lookup' = [lookup EXCEPT ![t] = k]
  /\ entry' = [entry EXCEPT ![t] = <<>>]
  /\ result' = [result EXCEPT ![t] = None]
  /\ UNCHANGED <<cursor, holder>>

(* A fault: the mutex does not wait.                                       *)
LockAnyway(t) ==
  /\ pc[t] = "lock"
  /\ holder' = t
  /\ pc' = [pc EXCEPT ![t] = "seek"]
  /\ UNCHANGED <<lookup, entry, result, cursor>>

(* ReadEntry() of the thread-safe instance waits for the mutex.            *)
Lock(t) ==
  /\ pc[t] = "lock"
  /\ holder = None
  /\ holder' = t
  /\ pc' = [pc EXCEPT ![t] = "seek"]
  /\ UNCHANGED <<lookup, entry, result, cursor>>

(* A fault: the size of an entry does not include the checksum.            *)
SeekValue(t) ==
  /\ pc[t] = "seek"
  /\ cursor' = (EntrySize - 1) * Slot[lookup[t]]
  /\ pc' = [pc EXCEPT ![t] = "checksum"]
  /\ UNCHANGED <<lookup, entry, result, holder>>

(* fseek()                                                                 *)
Seek(t) ==
  /\ pc[t] = "seek"
  /\ cursor' = EntrySize * Slot[lookup[t]]
  /\ pc' = [pc EXCEPT ![t] = "checksum"]
  /\ UNCHANGED <<lookup, entry, result, holder>>

(* ReadEntry() is left, and the mutex with it; Get() returns or throws.    *)
Leave(t, outcome) ==
  /\ pc' = [pc EXCEPT ![t] = "idle"]
  /\ result' = [result EXCEPT ![t] = outcome]
  /\ holder' = IF ThreadSafe THEN None ELSE holder

(* Get() rejects the value on a mismatch of the checksums.                 *)
Outcome(t, words) ==
  IF words[1] # Checksum[lookup[t]] THEN Missing ELSE <<words[2], words[3], words[4]>>

(* fread() of the next field, at the shared position.                      *)
Read(t) ==
  /\ pc[t] \in Fields
  /\ cursor + WordsOf(pc[t]) <= FileSize
  /\ cursor' = cursor + WordsOf(pc[t])
  /\ LET words == entry[t] \o [i \in 1 .. WordsOf(pc[t]) |-> File[cursor + i - 1]]
     IN /\ entry' = [entry EXCEPT ![t] = words]
        /\ IF pc[t] = "id"
             THEN Leave(t, Outcome(t, words))
             ELSE /\ pc' = [pc EXCEPT ![t] = IF @ = "checksum" THEN "freq" ELSE "id"]
                  /\ UNCHANGED <<result, holder>>
  /\ UNCHANGED lookup

(* fread() reaches the end of the file before it has the whole field.      *)
ReadFails(t) ==
  /\ pc[t] \in Fields
  /\ cursor + WordsOf(pc[t]) > FileSize
  /\ cursor' = FileSize
  /\ Leave(t, Error)
  /\ UNCHANGED <<lookup, entry>>

Step(t) ==
  \/ \E k \in Keys : Get(t, k)
  \/ Lock(t)
  \/ Seek(t)
  \/ Read(t)
  \/ ReadFails(t)

(* The step of thread t is one of those that read, and others have moved   *)
(* the position since its last step.                                       *)
Displaced(t) == pc[t] \in Fields /\ cursor # place[t]
Sees(t) == place' = [place EXCEPT ![t] = IF Displaced(t) THEN None ELSE cursor']

Next == \E t \in Threads : Step(t) /\ Sees(t)

Spec == Init /\ [][Next]_vars

-----------------------------------------------------------------------------

TypeOK ==
  /\ pc \in [Threads -> {"idle", "lock", "seek"} \cup Fields]
  /\ lookup \in [Threads -> Keys \cup {None}]
  /\ entry \in [Threads -> Seq(Nat)]
  /\ result \in [Threads -> (Nat \X Nat \X Nat) \cup {None, Missing, Error}]
  /\ cursor \in 0 .. FileSize
  /\ holder \in Threads \cup {None}

(* No lookup of a key in the map fails or returns the value of another     *)
(* one: between the seek and the reads of a thread, the file position and  *)
(* the words read so far belong to its key.                                *)
KnownKeysFound ==
  \A t \in Threads :
    lookup[t] \in Known /\ pc[t] = "idle" => result[t] = ValueOf[lookup[t]]

(* A lookup that finds nothing was for an "unknown phrase"                 *)
(* (process_non_wildcard_query_); "unknown keys normally cause a hash      *)
(* collision" (ExternalMap::Get).                                          *)
MissingMeansUnknown ==
  \A t \in Threads : result[t] = Missing => lookup[t] \notin Known

Abstract == INSTANCE Dictionary

(* A lookup whose reads all begin where its own steps left the position    *)
(* answers as the dictionary does, with or without the mutex, and does not *)
(* fail: whichever threads share the file, only a position that was moved  *)
(* in between makes a lookup wrong (ReadEntry() of ExternalMap.hpp).       *)
UndisplacedLookupsAnswered ==
  \A t \in Threads :
    pc[t] = "idle" /\ place[t] # None => result[t] \in Abstract!Answers(lookup[t])

(* Threads that share the file get the answers that each would get alone.  *)
ImplementsDictionary == Abstract!Spec

=============================================================================
