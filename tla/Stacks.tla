-------------------------------- MODULE Stacks --------------------------------
(***************************************************************************)
(* The kernel's lists of fibres are intrusive stacks.  Here a stack is a   *)
(* sequence, top first: <<x>> \o s is s with x pushed, Tail(s) is s popped. *)
(***************************************************************************)
EXTENDS Integers, Sequences

\* What is on a stack.
Elements(s) == {s[i] : i \in DOMAIN s}

\* Nothing is on the stack twice.
Distinct(s) == \A i, j \in DOMAIN s : s[i] = s[j] => i = j
=============================================================================
