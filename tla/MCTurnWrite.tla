----------------------------- MODULE MCTurnWrite -----------------------------
(* Four requests, three of them for the same turn, on a pool of two. *)
EXTENDS TurnWrite, TLC

CONSTANTS r1, r2, r3, r4, t1, t2

MCRequests == {r1, r2, r3, r4}
MCTurns == {t1, t2}
MCTurnOf == (r1 :> t1) @@ (r2 :> t1) @@ (r3 :> t1) @@ (r4 :> t2)
=============================================================================
