--------------------------- MODULE MCChannelKernel ---------------------------
(***************************************************************************)
(* Small instances of ChannelKernel and KernelRefinement for TLC.         *)
(***************************************************************************)
EXTENDS KernelRefinement, TLC

Symmetry ==
  Permutations(Fibre) \cup Permutations(Channel) \cup Permutations(Endpoint)
=============================================================================
