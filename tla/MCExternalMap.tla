---------------------------- MODULE MCExternalMap ---------------------------
(***************************************************************************)
(* Two threads and a map of two entries; a third key is not in the map and *)
(* has the hash of the first and the checksum of the second, a fourth one  *)
(* has both of the second.                                                 *)
(***************************************************************************)
EXTENDS ExternalMap, TLC

MCKeys == {"a", "b", "c", "d"}
MCKnown == {"a", "b"}
MCSlot == "a" :> 0 @@ "b" :> 1 @@ "c" :> 0 @@ "d" :> 1
MCChecksum == "a" :> 10 @@ "b" :> 20 @@ "c" :> 20 @@ "d" :> 20
MCValueOf == "a" :> <<7, 0, 1>> @@ "b" :> <<5, 3, 2>>

Symmetry == Permutations(Threads)

=============================================================================
