----------------------------- MODULE MCLifecycle -----------------------------
(* Two memories that are similar to each other. *)
EXTENDS Lifecycle, TLC

AllPairs == kSubset(2, Memories)
MemorySymmetry == Permutations(Memories)
=============================================================================
