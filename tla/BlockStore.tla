------------------------------ MODULE BlockStore ------------------------------
(***************************************************************************)
(* What system_allocator_t promises: a request is given a block that       *)
(* nobody has, of the size specified at construction that is the least     *)
(* upper bound of the size requested, and a block returned may be given    *)
(* out again.                                                              *)
(***************************************************************************)
EXTENDS Naturals, FiniteSets, FiniteSetsExt

CONSTANT Bytes

VARIABLES
  blocks,   \* the addresses of the blocks of each specified size
  held      \* the requests granted: at which address, for how many bytes

vars == <<blocks, held>>

\* The specified size a request for b bytes is mapped to, where there is one.
Fits(b) == {k \in DOMAIN blocks : b <= k}
SizeFor(b) == Min(Fits(b))

Init == held = {}

Allocate(b) ==
  /\ Fits(b) # {}
  /\ \E a \in blocks[SizeFor(b)] :
        /\ \A h \in held : h.at # a
        /\ held' = held \cup {[at |-> a, bytes |-> b]}
  /\ UNCHANGED blocks

Deallocate(h) ==
  /\ held' = held \ {h}
  /\ UNCHANGED blocks

Next ==
  \/ \E b \in Bytes : Allocate(b)
  \/ \E h \in held : Deallocate(h)

Spec == Init /\ [][Next]_vars
=============================================================================
