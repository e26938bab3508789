-------------------------- MODULE MCSystemAllocator --------------------------
(***************************************************************************)
(* Small instances of SystemAllocator for TLC: sizes that are rounded up,  *)
(* sizes that share a free list, and sizes between that have none.         *)
(***************************************************************************)
EXTENDS SystemAllocator, TLC

MCRequirements ==
  {<<[block_size |-> 8, n_blocks |-> 1], [block_size |-> 24, n_blocks |-> 2]>>,
   <<[block_size |-> 16, n_blocks |-> 1], [block_size |-> 13, n_blocks |-> 2]>>,
   <<[block_size |-> 5, n_blocks |-> 1], [block_size |-> 24, n_blocks |-> 1],
     [block_size |-> 12, n_blocks |-> 1]>>}

Symmetry == Permutations(Thread)
=============================================================================
