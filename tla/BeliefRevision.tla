--------------------------- MODULE BeliefRevision ---------------------------
(***************************************************************************)
(* The rules of the consolidation worker, as operators: how a candidate    *)
(* fact relates to the active fact with its subject and predicate          *)
(* (detectConflict), and the statements that reviseFact then issues.       *)
(*                                                                         *)
(* Confidences count twentieths (0.05); the program computes in doubles,   *)
(* so a difference of exactly 0.2 falls on either side of the bound.       *)
(***************************************************************************)
EXTENDS Integers, Sequences

Full == 20          \* confidence 1.0
MinConfidence == 12 \* MIN_CONFIDENCE
Penalty == 2        \* CONTRADICTION_PENALTY
High == 14          \* rule 4: both at 0.7 and above
Confirmed == 16     \* rule 2: well confirmed from 0.8 on
Gap == 4            \* rules 1 and fallback: 0.2

Clamp(n) == IF n < 0 THEN 0 ELSE IF n > Full THEN Full ELSE n

(* A candidate: its subject and predicate, its value, its confidence, the  *)
(* default of its type, and what the text it comes from says: an explicit  *)
(* override ("actually"), and the boost it gives a fact with its value.    *)
Candidate(Keys, Values) ==
  [key : Keys, value : Values, confidence : 0..Full, default : 0..Full,
   override : BOOLEAN, boost : 1..2]

StartingConfidence(c) == IF c.confidence < c.default THEN c.confidence ELSE c.default

(* Rules 2 and 4 and the fallback, for different values. *)
ByConfidence(new, old) ==
  IF (old >= Confirmed /\ new < Confirmed) \/ (old >= High /\ new >= High)
  THEN {"uncertainty"}
  ELSE (IF new - old >= Gap THEN {"contradiction"} ELSE {}) \cup
       (IF new - old <= Gap THEN {"uncertainty"} ELSE {})

(* detectConflict for an existing fact: the kinds it may return.  Rule 1   *)
(* applies when the fact was not confirmed for a week and the memory is    *)
(* fresh; mayBeStale says that the clock can be there.                     *)
Kinds(c, old, mayBeStale) ==
  IF c.override THEN {"contradiction"}
  ELSE IF c.value = old.value THEN {"reinforcement"}
  ELSE ByConfidence(c.confidence, old.confidence) \cup
       (IF mayBeStale /\ c.confidence - old.confidence \in -Gap..Gap
        THEN {"contradiction"} ELSE {})

(* Variants, not the code: a contradicted fact keeps its status; the       *)
(* conflict is not recorded.                                               *)
StatementsKeepingOld(kind) ==
  CASE kind = "no_conflict"   -> <<"insertFirst", "linkNew", "created">>
    [] kind = "reinforcement" -> <<"reinforce", "linkOld", "reinforced">>
    [] kind = "contradiction" ->
         <<"insert", "penalise", "linkNew", "superseded", "created", "conflict">>
    [] kind = "uncertainty"   ->
         <<"insert", "contestOld", "contestNew", "linkNew", "contested", "created",
           "conflict">>

StatementsWithoutConflict(kind) ==
  CASE kind = "no_conflict"   -> <<"insertFirst", "linkNew", "created">>
    [] kind = "reinforcement" -> <<"reinforce", "linkOld", "reinforced">>
    [] kind = "contradiction" ->
         <<"insert", "penalise", "supersede", "linkNew", "superseded", "created">>
    [] kind = "uncertainty"   ->
         <<"insert", "contestOld", "contestNew", "linkNew", "contested", "created",
           "conflict">>

(* The statements of reviseFact for each kind, in their order. *)
Statements(kind) ==
  CASE kind = "no_conflict"   -> <<"insertFirst", "linkNew", "created">>
    [] kind = "reinforcement" -> <<"reinforce", "linkOld", "reinforced">>
    [] kind = "contradiction" ->
         <<"insert", "penalise", "supersede", "linkNew", "superseded", "created",
           "conflict">>
    [] kind = "uncertainty"   ->
         <<"insert", "contestOld", "contestNew", "linkNew", "contested", "created",
           "conflict">>

(* Those that update the row of the existing fact, and so wait for a       *)
(* transaction that has updated it, and all that write a row.              *)
UpdatesOld == {"reinforce", "penalise", "supersede", "contestOld"}
Inserts == {"insertFirst", "insert"}
WritesRow == Inserts \cup UpdatesOld \cup {"contestNew"}

StatementNames ==
  WritesRow \cup {"linkNew", "linkOld", "created", "reinforced", "superseded",
                  "contested", "conflict"}
=============================================================================
