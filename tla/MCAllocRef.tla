------------------------------ MODULE MCAllocRef ------------------------------
(***************************************************************************)
(* Small instances of AllocRef for TLC.                                    *)
(***************************************************************************)
EXTENDS AllocRef, TLC

CONSTANTS t1, t2, s1, s2, s3, s4

\* Three variables of one thread and one of the other.
ThreeAndOne == [s \in Slot |-> IF s = s4 THEN t2 ELSE t1]

\* Allocators, and the variables of one thread, are only compared.
Interchangeable == Permutations(Allocator) \cup Permutations({s1, s2, s3})
=============================================================================
