----------------------------- MODULE MCAsyncClock -----------------------------
(***************************************************************************)
(* Small instances of AsyncClock for TLC.                                  *)
(***************************************************************************)
EXTENDS AsyncClock, TLC

Symmetry == Permutations(Client)
=============================================================================
