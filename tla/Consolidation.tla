---------------------------- MODULE Consolidation ----------------------------
(***************************************************************************)
(* The consolidation worker: handler runs that take a memory's job from    *)
(* consolidation:jobs, and scheduled sweeps that list the memories without *)
(* evidence and go through the list, each memory in a transaction of its   *)
(* own.  Runs and sweeps are concurrent, within one process and across     *)
(* processes, and nothing serialises them but the row locks of Postgres    *)
(* (READ COMMITTED): a statement reads what is committed when it starts,   *)
(* an UPDATE waits for the transaction that has updated the row before.    *)
(*                                                                         *)
(* A handler run is raced against a timeout.  When that fires, the         *)
(* transaction is rolled back and its connection released, but the run     *)
(* goes on: what it still issues on that connection is committed statement *)
(* by statement.                                                           *)
(***************************************************************************)
EXTENDS BeliefRevision, FiniteSets, FiniteSetsExt

CONSTANTS
  Memories,      \* active memories of a workspace, in the order of created_at
  Keys,          \* subjects and predicates
  Values,        \* normalised values
  Candidates,    \* Candidates[m]: what extractFacts finds in m, in its order
  Queued,        \* memories with a job: nothing in the repository pushes one,
                 \* but the worker serves the queue
  Handlers,      \* handler runs that can be alive at once
  Sweeps,        \* sweeps that can be under way at once
  BatchSize,     \* SWEEP_BATCH_SIZE
  MaxFacts,      \* bound: facts ever inserted
  MaxFaults      \* bound: statements that fail, lost replies and timeouts

ASSUME MemoriesAssumption == Memories \subseteq Nat
ASSUME CandidatesAssumption ==
  Candidates \in [Memories -> Seq(Candidate(Keys, Values))]
ASSUME QueuedAssumption == Queued \subseteq Memories
ASSUME BatchSizeAssumption == BatchSize \in Nat \ {0}
ASSUME MaxFactsAssumption == MaxFacts \in Nat

VARIABLES
  facts,       \* semantic_facts, by fact_id
  evidence,    \* fact_evidence, as <<fact, memory>>
  audit,       \* audit[f]: what fact_events says of f
  conflicts,   \* fact_conflicts, as <<old fact, new fact>>
  jobs,        \* jobs[m]: jobs for m in consolidation:jobs
  run,         \* run[r]: a handler run or a sweep
  faults,
  timeouts,
  overlapped   \* keys that two open transactions had candidates for at the same time

vars == <<facts, evidence, audit, conflicts, jobs, run, faults, timeouts, overlapped>>

Runs == Handlers \cup Sweeps
FactIds == 1..MaxFacts
NoFact == 0
Row == [key : Keys, value : Values, start : 0..Full, confidence : 0..Full,
        status : {"active", "superseded", "contested"},
        supersededBy : FactIds \cup {NoFact}]
(* What the events of a fact say: how often it was created, superseded and *)
(* contested, and how much it was boosted.                                 *)
Entries == {"created", "superseded", "contested", "boost"}
NoEvents == [e \in Entries |-> 0]

(* Rows by fact_id, and those of one table over those of another.          *)
AreRows(F) == DOMAIN F \subseteq FactIds /\ \A f \in DOMAIN F : F[f] \in Row
Over(f, g) ==
  [x \in DOMAIN f \cup DOMAIN g |-> IF x \in DOMAIN f THEN f[x] ELSE g[x]]

(* What a transaction has written and not committed: rows, links, events   *)
(* per fact and conflicts.                                                 *)
NoWrites == [rows |-> <<>>, links |-> {}, events |-> [f \in FactIds |-> NoEvents],
             pairs |-> {}]

IdleRun == [pc |-> "idle", todo |-> {}, candidates |-> <<>>, statements |-> <<>>,
            old |-> NoFact, new |-> NoFact, open |-> FALSE, tx |-> NoWrites]

TypeOK ==
  /\ AreRows(facts)
  /\ evidence \subseteq (DOMAIN facts) \X Memories
  /\ audit \in [FactIds -> [Entries -> Nat]]
  /\ conflicts \subseteq (DOMAIN facts) \X (DOMAIN facts)
  /\ jobs \in [Memories -> Nat]
  /\ overlapped \subseteq Keys
  /\ \A r \in Runs :
       /\ run[r].pc \in {"idle", "next", "find", "write", "commit"}
       /\ run[r].todo \subseteq Memories
       /\ run[r].candidates \in Seq(Candidate(Keys, Values))
       /\ run[r].statements \in Seq(StatementNames)
       /\ {run[r].old, run[r].new} \subseteq FactIds \cup {NoFact}
       /\ run[r].open \in BOOLEAN
       /\ AreRows(run[r].tx.rows)
       /\ run[r].tx.links \subseteq FactIds \X Memories
       /\ run[r].tx.events \in [FactIds -> [Entries -> Nat]]
       /\ run[r].tx.pairs \subseteq FactIds \X FactIds

Init ==
  /\ facts = <<>>
  /\ evidence = {}
  /\ audit = [f \in FactIds |-> NoEvents]
  /\ conflicts = {}
  /\ jobs = [m \in Memories |-> IF m \in Queued THEN 1 ELSE 0]
  /\ run = [r \in Runs |-> IdleRun]
  /\ faults = 0
  /\ timeouts = 0
  /\ overlapped = {}

database == <<facts, evidence, audit, conflicts>>

Open == {r \in Runs : run[r].open}
(* The list is in the order of created_at. *)
MemoryOf(r) == Min(run[r].todo)

(* What a transaction about a memory may revise. *)
KeysOf(m) == {Candidates[m][i].key : i \in DOMAIN Candidates[m]}

(* A memory the sweep looks for has no evidence row. *)
Unconsolidated == {m \in Memories : \A f \in FactIds : <<f, m>> \notin evidence}
-----------------------------------------------------------------------------
(* BEGIN, and extractFacts on the first memory of the list. *)
Begun(r, todo) ==
  [IdleRun EXCEPT !.pc = "find", !.todo = todo, !.open = TRUE,
                  !.candidates = Candidates[Min(todo)]]

Begin(r, todo) ==
  /\ run' = [run EXCEPT ![r] = Begun(r, todo)]
  /\ overlapped' =
       overlapped \cup {k \in KeysOf(Min(todo)) : \E q \in Open : k \in KeysOf(MemoryOf(q))}

TakeJob(h, m) ==
  /\ run[h].pc = "idle"
  /\ jobs[m] > 0
  /\ jobs' = [jobs EXCEPT ![m] = @ - 1]
  /\ Begin(h, {m})
  /\ UNCHANGED <<database, faults, timeouts>>

(* Variant, not the code: a limit that is one off. *)
BatchShort(S) == {m \in S : Cardinality({n \in S : n < m}) < BatchSize - 1}

(* The first BatchSize of a set of memories, by created_at. *)
Batch(S) == {m \in S : Cardinality({n \in S : n < m}) < BatchSize}

(* sweepUnconsolidated lists the memories without evidence, once. *)
StartSweep(s) ==
  /\ run[s].pc = "idle"
  /\ Unconsolidated # {}
  /\ run' = [run EXCEPT ![s] = [IdleRun EXCEPT !.pc = "next", !.todo = Batch(Unconsolidated)]]
  /\ UNCHANGED <<database, jobs, faults, timeouts, overlapped>>

SweepNext(s) ==
  /\ run[s].pc = "next"
  /\ Begin(s, run[s].todo)
  /\ UNCHANGED <<database, jobs, faults, timeouts>>

(* After its memory, a handler run is over and a sweep goes on. *)
Done(r) ==
  LET rest == run[r].todo \ {MemoryOf(r)}
  IN IF r \in Sweeps /\ rest # {}
     THEN [IdleRun EXCEPT !.pc = "next", !.todo = rest]
     ELSE IdleRun
-----------------------------------------------------------------------------
(* The rows a statement of r sees: the committed ones and its own. *)
Sees(r) == Over(run[r].tx.rows, facts)

ActiveMatches(r, key) ==
  {f \in DOMAIN Sees(r) : Sees(r)[f].key = key /\ Sees(r)[f].status = "active"}

(* reviseFact's search and decision for the next candidate: one below      *)
(* MIN_CONFIDENCE is skipped, LIMIT 1 takes any match.  A fact that the    *)
(* transaction itself has written is not stale.                            *)
Decide(r, kind, old) ==
  run' = [run EXCEPT ![r].pc = "write", ![r].statements = Statements(kind), ![r].old = old]

ReviseFact(r) ==
  /\ run[r].pc = "find"
  /\ run[r].candidates # <<>>
  /\ LET c == Head(run[r].candidates)
         matches == ActiveMatches(r, c.key)
     IN \/ /\ c.confidence < MinConfidence
           /\ run' = [run EXCEPT ![r].candidates = Tail(@)]
        \/ /\ c.confidence >= MinConfidence
           /\ matches = {}
           /\ Decide(r, "no_conflict", NoFact)
        \/ /\ c.confidence >= MinConfidence
           /\ \E old \in matches :
                \E kind \in Kinds(c, Sees(r)[old], old \notin DOMAIN run[r].tx.rows) :
                  Decide(r, kind, old)
  /\ UNCHANGED <<database, jobs, faults, timeouts, overlapped>>

(* Every candidate is processed: a handler run or a sweep commits; a run   *)
(* that timed out has nothing to commit, its result is dropped.            *)
Finish(r) ==
  /\ run[r].pc = "find"
  /\ run[r].candidates = <<>>
  /\ run' = [run EXCEPT ![r] = IF run[r].open THEN [@ EXCEPT !.pc = "commit"] ELSE Done(r)]
  /\ UNCHANGED <<database, jobs, faults, timeouts, overlapped>>
-----------------------------------------------------------------------------
(* gen_random_uuid: ids count up in the order of the inserts; those that a *)
(* run still holds of rows rolled back are not used again.                 *)
UsedIds ==
  {NoFact} \cup DOMAIN facts
  \cup UNION {DOMAIN run[r].tx.rows \cup {run[r].old, run[r].new} : r \in Runs}
FreshId == Max(UsedIds) + 1

NewRow(c, confidence) ==
  [key |-> c.key, value |-> c.value, start |-> confidence, confidence |-> confidence,
   status |-> "active", supersededBy |-> NoFact]

(* Variants, not the code: the two ids are swapped; the new confidence is  *)
(* computed from one read earlier.                                         *)
UpdatedOldSwapped(statement, row, c, new) ==
  CASE statement = "reinforce"  -> [row EXCEPT !.confidence = Clamp(@ + c.boost)]
    [] statement = "penalise"   -> [row EXCEPT !.confidence = Clamp(@ - Penalty)]
    [] statement = "supersede"  -> [row EXCEPT !.status = "superseded", !.supersededBy = new - 1]
    [] statement = "contestOld" -> [row EXCEPT !.status = "contested"]

UpdatedOldAbsolute(statement, row, c, new) ==
  CASE statement = "reinforce"  -> [row EXCEPT !.confidence = Clamp(row.start + c.boost)]
    [] statement = "penalise"   -> [row EXCEPT !.confidence = Clamp(row.start - Penalty)]
    [] statement = "supersede"  -> [row EXCEPT !.status = "superseded", !.supersededBy = new]
    [] statement = "contestOld" -> [row EXCEPT !.status = "contested"]

(* The row after an UPDATE of the existing fact. *)
UpdatedOld(statement, row, c, new) ==
  CASE statement = "reinforce"  -> [row EXCEPT !.confidence = Clamp(@ + c.boost)]
    [] statement = "penalise"   -> [row EXCEPT !.confidence = Clamp(@ - Penalty)]
    [] statement = "supersede"  -> [row EXCEPT !.status = "superseded", !.supersededBy = new]
    [] statement = "contestOld" -> [row EXCEPT !.status = "contested"]

(* The event a statement inserts: the fact it is about, and its entry. *)
Event(statement, c, old, new) ==
  CASE statement = "created"    -> [fact |-> new, entry |-> "created", by |-> 1]
    [] statement = "superseded" -> [fact |-> old, entry |-> "superseded", by |-> 1]
    [] statement = "contested"  -> [fact |-> old, entry |-> "contested", by |-> 1]
    [] statement = "reinforced" -> [fact |-> old, entry |-> "boost", by |-> c.boost]

(* The rows a statement writes: an UPDATE of a row that is not there, for  *)
(* it was rolled back, writes none.                                        *)
RowsWritten(r, statement, new) ==
  LET c == Head(run[r].candidates)
      old == run[r].old
      there == DOMAIN Sees(r)
  IN CASE statement = "insertFirst" -> [f \in {new} |-> NewRow(c, StartingConfidence(c))]
       [] statement = "insert" -> [f \in {new} |-> NewRow(c, c.confidence)]
       [] statement \in UpdatesOld ->
            [f \in {old} \cap there |-> UpdatedOld(statement, Sees(r)[f], c, new)]
       [] statement = "contestNew" ->
            [f \in {new} \cap there |-> [Sees(r)[f] EXCEPT !.status = "contested"]]

(* What a statement adds to the writes of its transaction. *)
Written(r, statement, new) ==
  LET c == Head(run[r].candidates)
      old == run[r].old
      W == run[r].tx
      event == Event(statement, c, old, new)
  IN CASE statement \in WritesRow ->
            [W EXCEPT !.rows = Over(RowsWritten(r, statement, new), @)]
       [] statement = "linkNew" -> [W EXCEPT !.links = @ \cup {<<new, MemoryOf(r)>>}]
       [] statement = "linkOld" -> [W EXCEPT !.links = @ \cup {<<old, MemoryOf(r)>>}]
       [] statement = "conflict" -> [W EXCEPT !.pairs = @ \cup {<<old, new>>}]
       [] OTHER -> [W EXCEPT !.events[event.fact][event.entry] = @ + event.by]

(* What a commit makes visible. *)
Publish(W) ==
  /\ facts' = Over(W.rows, facts)
  /\ evidence' = evidence \cup W.links
  /\ audit' = [f \in FactIds |-> [e \in Entries |-> audit[f][e] + W.events[f][e]]]
  /\ conflicts' = conflicts \cup W.pairs

HolderOf(f) == {q \in Open : f \in DOMAIN run[q].tx.rows}

(* The row that the next statement updates, and those that it refers to by *)
(* a foreign key: an UPDATE that finds no row sets none.                   *)
Updates(r) ==
  LET statement == Head(run[r].statements)
  IN IF statement \in UpdatesOld THEN {run[r].old}
     ELSE IF statement = "contestNew" THEN {run[r].new} ELSE {}

Refers(r) ==
  LET statement == Head(run[r].statements)
  IN CASE statement = "supersede" ->
            IF run[r].old \in DOMAIN Sees(r) THEN {run[r].new} ELSE {}
       [] statement \in {"linkNew", "created"} -> {run[r].new}
       [] statement \in {"linkOld", "reinforced", "superseded", "contested"} -> {run[r].old}
       [] statement = "conflict" -> {run[r].old, run[r].new}
       [] OTHER -> {}

WaitsForRow(r) ==
  /\ run[r].pc = "write"
  /\ \E f \in Updates(r) : HolderOf(f) \ {r} # {}

(* After a statement: the next one, or the next candidate. *)
Advanced(r, new) ==
  IF Len(run[r].statements) > 1
  THEN [run[r] EXCEPT !.statements = Tail(@), !.new = new]
  ELSE [run[r] EXCEPT !.statements = <<>>, !.new = NoFact, !.old = NoFact, !.pc = "find",
                      !.candidates = Tail(@)]

(* Variant, not the code: the tables have no foreign keys. *)
ExecuteUnchecked(r) ==
  LET statement == Head(run[r].statements)
      new == IF statement \in Inserts THEN FreshId ELSE run[r].new
      W == Written(r, statement, new)
  IN
  /\ run[r].pc = "write"
  /\ ~ WaitsForRow(r)
  /\ statement \in Inserts => new \in FactIds
  /\ IF run[r].open
     THEN run' = [run EXCEPT ![r] = [Advanced(r, new) EXCEPT !.tx = W]] /\ UNCHANGED database
     ELSE run' = [run EXCEPT ![r] = Advanced(r, new)] /\ Publish(W)
  /\ UNCHANGED <<jobs, faults, timeouts, overlapped>>

(* The next statement of reviseFact: part of the transaction, or, when the *)
(* run has timed out, committed at once.                                   *)
Execute(r) ==
  LET statement == Head(run[r].statements)
      new == IF statement \in Inserts THEN FreshId ELSE run[r].new
      W == Written(r, statement, new)
  IN
  /\ run[r].pc = "write"
  /\ ~ WaitsForRow(r)
  /\ Refers(r) \subseteq DOMAIN Sees(r)
  /\ statement \in Inserts => new \in FactIds
  /\ IF run[r].open
     THEN run' = [run EXCEPT ![r] = [Advanced(r, new) EXCEPT !.tx = W]] /\ UNCHANGED database
     ELSE run' = [run EXCEPT ![r] = Advanced(r, new)] /\ Publish(W)
  /\ UNCHANGED <<jobs, faults, timeouts, overlapped>>

(* A fact that a timed out run wrote was rolled back: the key is violated. *)
ForeignKeyFails(r) ==
  /\ run[r].pc = "write"
  /\ ~ run[r].open
  /\ ~ (Refers(r) \subseteq DOMAIN facts)
  /\ run' = [run EXCEPT ![r] = IdleRun]
  /\ UNCHANGED <<database, jobs, faults, timeouts, overlapped>>

Commit(r) ==
  /\ run[r].pc = "commit"
  /\ Publish(run[r].tx)
  /\ run' = [run EXCEPT ![r] = Done(r)]
  /\ UNCHANGED <<jobs, faults, timeouts, overlapped>>
-----------------------------------------------------------------------------
(* The job of a failed handler run is pushed back or given up; a sweep     *)
(* logs the failure and goes on.                                           *)
Retry(r) ==
  \/ r \in Handlers /\ jobs' = [jobs EXCEPT ![MemoryOf(r)] = @ + 1]
  \/ UNCHANGED jobs

CommitReplyLost(r) ==
  /\ run[r].pc = "commit"
  /\ faults < MaxFaults
  /\ faults' = faults + 1
  /\ Publish(run[r].tx)
  /\ Retry(r)
  /\ run' = [run EXCEPT ![r] = Done(r)]
  /\ UNCHANGED <<timeouts, overlapped>>

(* A statement fails: ROLLBACK. *)
StatementFails(r) ==
  /\ run[r].open
  /\ faults < MaxFaults
  /\ faults' = faults + 1
  /\ Retry(r)
  /\ run' = [run EXCEPT ![r] = Done(r)]
  /\ UNCHANGED <<database, timeouts, overlapped>>

(* Postgres fails one transaction of a circle in which each waits for a    *)
(* row that the next has updated.  The attempts of a job are counted, so   *)
(* the jobs pushed back here are bounded with the other failures.          *)
WaitsOn(r, q) == WaitsForRow(r) /\ q # r /\ \E f \in Updates(r) : q \in HolderOf(f)

Deadlocked(r) ==
  \E C \in SUBSET Open :
    /\ r \in C
    /\ \A q \in C : (\E p \in C : WaitsOn(q, p)) /\ (\E p \in C : WaitsOn(p, q))

DeadlockVictim(r) ==
  /\ Deadlocked(r)
  /\ \/ faults < MaxFaults /\ faults' = faults + 1 /\ Retry(r)
     \/ UNCHANGED <<faults, jobs>>
  /\ run' = [run EXCEPT ![r] = Done(r)]
  /\ UNCHANGED <<database, timeouts, overlapped>>

(* withTimeout rejects: the transaction is rolled back and the job handled *)
(* as a failed one's; the run has lost its transaction and goes on.        *)
TimesOut(h) ==
  /\ run[h].open
  /\ run[h].pc \in {"find", "write"}
  /\ faults < MaxFaults
  /\ faults' = faults + 1
  /\ timeouts' = timeouts + 1
  /\ Retry(h)
  /\ run' = [run EXCEPT ![h].open = FALSE, ![h].tx = NoWrites]
  /\ UNCHANGED <<database, overlapped>>

RunStep(r) ==
  \/ ReviseFact(r) \/ Finish(r) \/ Execute(r) \/ ForeignKeyFails(r) \/ Commit(r)
  \/ DeadlockVictim(r)

SweepStep(s) == StartSweep(s) \/ SweepNext(s) \/ RunStep(s)

HandlerStep(h) == (\E m \in Memories : TakeJob(h, m)) \/ RunStep(h)

Failure(r) == CommitReplyLost(r) \/ StatementFails(r)

(* The handlers wait in BRPOP, and the sweeps for their timer. *)
Rest ==
  /\ \A m \in Memories : jobs[m] = 0
  /\ \A r \in Runs : run[r].pc = "idle"
  /\ UNCHANGED vars

Next ==
  \/ \E s \in Sweeps : SweepStep(s)
  \/ \E h \in Handlers : HandlerStep(h) \/ TimesOut(h)
  \/ \E r \in Runs : Failure(r)
  \/ Rest

Spec == Init /\ [][Next]_vars

(* The loop takes jobs, the timer starts sweeps, and a statement ends or   *)
(* waits for a transaction that ends.  Postgres hands a row lock that is   *)
(* released to the transaction that waits in its queue, before any that    *)
(* asks for it later: a run whose statement can go on again and again is   *)
(* not overtaken for ever.                                                 *)
Fairness ==
  /\ \A s \in Sweeps : WF_vars(SweepStep(s))
  /\ \A h \in Handlers : WF_vars(HandlerStep(h))
  /\ \A r \in Runs : SF_vars(Execute(r))

FairSpec == Spec /\ Fairness

-----------------------------------------------------------------------------
(* Belief revision keeps one active fact per subject and predicate, while  *)
(* handler runs and sweeps write others beside it, unless two transactions *)
(* with a candidate for that very key were open together: each of those    *)
(* searches what the other has not committed, and semantic_facts has no    *)
(* unique index.                                                           *)
OneActiveFact ==
  timeouts = 0 =>
    \A f, g \in DOMAIN facts :
      /\ facts[f].key = facts[g].key
      /\ facts[f].key \notin overlapped
      /\ facts[f].status = "active"
      /\ facts[g].status = "active"
      => f = g

(* A superseded fact points to a fact that was inserted after it, whatever *)
(* runs overlap, fail, repeat or time out: following superseded_by never   *)
(* goes round in circles and ends at a fact that is not superseded.        *)
SupersededByLater ==
  \A f \in DOMAIN facts :
    facts[f].status = "superseded" =>
      /\ facts[f].supersededBy \in DOMAIN facts
      /\ facts[f].supersededBy > f

(* The audit trail explains every fact: each was created once, from a      *)
(* memory that is its evidence, and each that is superseded or contested   *)
(* has the event and the conflict that say so.                             *)
AuditExplains ==
  timeouts = 0 =>
    \A f \in DOMAIN facts :
      /\ audit[f]["created"] = 1
      /\ \E m \in Memories : <<f, m>> \in evidence
      /\ facts[f].status = "superseded" =>
           audit[f]["superseded"] >= 1 /\ <<f, facts[f].supersededBy>> \in conflicts
      /\ facts[f].status = "contested" =>
           \E g \in DOMAIN facts : {<<f, g>>, <<g, f>>} \cap conflicts # {}

(* No boost and no penalty is lost when runs update one fact together: a   *)
(* confidence is the starting one with what the trail adds to it and takes *)
(* from it, unless that went over the top or below the bottom.             *)
ConfidenceAddsUp ==
  timeouts = 0 =>
    \A f \in DOMAIN facts :
      LET raised == facts[f].start + audit[f]["boost"]
          lowered == Penalty * audit[f]["superseded"]
      IN \/ facts[f].confidence = raised - lowered
         \/ raised > Full \/ facts[f].start < lowered

(* A memory with an acceptable candidate gets evidence; one without never  *)
(* does, and is listed again by every sweep.                               *)
Fertile(m) == \E i \in DOMAIN Candidates[m] : Candidates[m][i].confidence >= MinConfidence

(* The memories of a workspace that older ones do not keep out of the      *)
(* batch get their evidence, through failures, deadlocks and whatever the  *)
(* handlers do: those with fewer than a batch of older memories that never *)
(* get any (memoryRepo.ts:55).                                             *)
SweepCatchesBatch ==
  \A m \in Memories :
    Fertile(m) /\ Cardinality({n \in Memories : n < m /\ ~ Fertile(n)}) < BatchSize =>
      <>(m \notin Unconsolidated)

(* safeConsolidate.ts:6: when consolidation times out, its transaction is  *)
(* rolled back: what is in the database was committed as a whole, no fact  *)
(* is there without its evidence and its event.                            *)
TimeoutRollsBack ==
  \A f \in DOMAIN facts :
    audit[f]["created"] = 1 /\ \E m \in Memories : <<f, m>> \in evidence
=============================================================================
