--------------------------- MODULE MCMemoryPipeline ---------------------------
(* Memories of one session, a forget by id and one by user. *)
EXTENDS MemoryPipeline, TLC

CONSTANTS f1, f2

BothWays == Memories \X Memories
AllPairs == kSubset(2, Memories)
RunSymmetry == Permutations(Runs)
MCTarget == (f1 :> {Min(Memories)}) @@ (f2 :> Memories)
=============================================================================
