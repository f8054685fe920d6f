----------------------------- MODULE MCRetrieval -----------------------------
(* A private memory of u1 and one of u2 that is not, of different          *)
(* sessions, the second linked to the first.                               *)
EXTENDS Retrieval, TLC

CONSTANTS mine, shared, known, u1, u2, s1, s2

MCOwner == (mine :> u1) @@ (shared :> u2)
MCSessionOf == (mine :> s1) @@ (shared :> s2)

(* A fact of u1, drawn from the private memory, that matches the query. *)
MCAbout == known :> u1
SharedToMine == {<<shared, mine>>}
MCEvidence == {<<known, mine>>}

(* Each user asks about everything. *)
Everything == {[user |-> u, filter |-> None, session |-> None] : u \in Users}

(* u1 also asks about session s1 alone. *)
OneSession == {[user |-> u1, filter |-> None, session |-> s] : s \in {s1, None}}
=============================================================================
