------------------------------- MODULE HashMaps -----------------------------
(***************************************************************************)
(* Building and reading a BigHashMap (bighashmap/): the records are        *)
(* partitioned by a hash of their keys, and each part becomes a table with *)
(* a minimal perfect hash function of its own (the cmph library).  Bucket  *)
(* files are partitions, too, by prime numbers (util/checksum.hpp).        *)
(***************************************************************************)
EXTENDS Lists, SequencesExt

CONSTANTS
  Hash(_),          \* util::hash32
  Checksum(_),      \* util::hash<Checksum>, kept with each value
  RecordsPerMap     \* num_records_per_hashmap

ASSUME MapsAssumption == RecordsPerMap \in Nat \ {0}

IsPrime(n) == n > 1 /\ \A d \in 2 .. n - 1 : n % d # 0
NextPrime(n) == CHOOSE p \in n .. 2 * n : IsPrime(p) /\ \A m \in n .. p - 1 : ~ IsPrime(m)

(* Records are [key, value], a part is a set of them: only a key that is   *)
(* there twice, which IsUnique() finds in its part, would not fit a set.   *)
NumMaps(records) == 1 + Len(records) \div RecordsPerMap
Partition(records) ==
  LET num == NumMaps(records)
  IN [i \in 1 .. num |-> {r \in ToSet(records) : Hash(r.key) % num = i - 1}]

KeysOf(records) == {records[i].key : i \in DOMAIN records}
IsUnique(records) == IsInjective([i \in DOMAIN records |-> records[i].key])

(* cmph: a bijection between the keys and the slots of the table.  It      *)
(* gives other keys any number, which Hash() of CmphMap brings into range. *)
HashFunction(keys) == SetToSeq(keys)
Search(mph, key) ==
  IF \E i \in DOMAIN mph : mph[i] = key THEN CHOOSE i \in DOMAIN mph : mph[i] = key
  ELSE 1 + (Hash(key) % Len(mph))

(* The entries, each where the hash function says.                         *)
HashTable(mph, part) ==
  LET RecordAt(i) == CHOOSE r \in part : r.key = mph[i]
  IN [i \in DOMAIN mph |-> [checksum |-> Checksum(mph[i]), value |-> RecordAt(i).value]]

(* A part without keys, which ten million keys leave no chance, is empty.  *)
BuildMap(part) ==
  LET mph == HashFunction({r.key : r \in part})
  IN [mph |-> mph, table |-> HashTable(mph, part)]

CanBuild(records) == IsUnique(records)
Build(records) == [i \in 1 .. NumMaps(records) |-> BuildMap(Partition(records)[i])]

(* Get(): the part is chosen as in Partition(), the entry is accepted if   *)
(* its checksum is that of the key.                                        *)
PartOf(maps, key) == maps[1 + (Hash(key) % Len(maps))]
EntryOf(map, key) == map.table[Search(map.mph, key)]
HasKey(maps, key) ==
  /\ maps # <<>>
  /\ PartOf(maps, key).mph # <<>>
  /\ EntryOf(PartOf(maps, key), key).checksum = Checksum(key)
Get(maps, key) == EntryOf(PartOf(maps, key), key).value

=============================================================================
