------------------------------ MODULE WriteOnce ------------------------------
(***************************************************************************)
(* What POST /v1/memory/turn promises its callers, with the database, the  *)
(* transactions and the connection pool hidden: a turn is recorded as one  *)
(* memory, once, and every request about the turn that is answered with    *)
(* success is answered with that memory.                                   *)
(***************************************************************************)
CONSTANTS
  Requests,   \* the calls of createTurn
  Turns,      \* idempotency keys (tenant, workspace, session, turn_id)
  TurnOf,     \* the turn a request writes
  Memories,   \* memory ids
  NoMemory    \* "no memory yet"

VARIABLES
  recorded,   \* recorded[t]: the memory the turn was recorded as
  answer      \* answer[r]: the memory a successful answer named

Init ==
  /\ recorded = [t \in Turns |-> NoMemory]
  /\ answer = [r \in Requests |-> NoMemory]

(* A turn nobody recorded is recorded as a memory no other turn has. *)
Record(t, m) ==
  /\ recorded[t] = NoMemory
  /\ \A u \in Turns : recorded[u] # m
  /\ recorded' = [recorded EXCEPT ![t] = m]
  /\ UNCHANGED answer

(* A request is answered, once, with the memory its turn was recorded as. *)
Answer(r) ==
  /\ answer[r] = NoMemory
  /\ recorded[TurnOf[r]] # NoMemory
  /\ answer' = [answer EXCEPT ![r] = recorded[TurnOf[r]]]
  /\ UNCHANGED recorded

Next ==
  \/ \E t \in Turns, m \in Memories : Record(t, m)
  \/ \E r \in Requests : Answer(r)

vars == <<recorded, answer>>

Spec == Init /\ [][Next]_vars
=============================================================================
