------------------------------ MODULE FactTrust ------------------------------
(***************************************************************************)
(* What is believed of a fact: users confirm, reject and correct facts     *)
(* through the gateway and the memory service, and the truth worker settles *)
(* contradictions and reviews stale facts, all on the rows consolidation   *)
(* has stored, under READ COMMITTED.                                       *)
(*                                                                         *)
(* A request reads its fact without a lock, then updates it.  From its      *)
(* first UPDATE to its COMMIT it holds the lock of that one row, waits for *)
(* no other, and is seen by no other transaction: that part is one step.   *)
(* A sweep locks several rows, one after the other.  The gateway repeats a *)
(* request whose connection breaks, and gives up one that takes too long,  *)
(* while the service goes on with it.  A sweep that times out is rolled    *)
(* back and tried again, while the abandoned one goes on issuing its       *)
(* statements on a connection without a transaction.                       *)
(*                                                                         *)
(* status and truth_status are two columns: consolidation sets the first   *)
(* only, everything here sets both.                                        *)
(***************************************************************************)
EXTENDS Integers, Sequences, FiniteSets, FiniteSetsExt, Functions

CONSTANTS
  Given,             \* the facts consolidation has stored, by id
  Pairs,             \* unresolved contradictions, oldest first; nothing in the
                     \* repository but its tests inserts one
  EvidenceOf,        \* the memories each given fact rests on
  Clients,           \* callers of the gateway, one request each
  Requests,          \* Requests[c]: the requests client c may send
  BatchSize,         \* BATCH_SIZE
  TrustGap,          \* AUTO_RESOLVE_TRUST_GAP
  TrustPenalty,      \* STALE_TRUST_PENALTY
  ConfidencePenalty, \* STALE_CONFIDENCE_PENALTY
  MaxAttempts,       \* maxAttempts of the truth worker's retry policy
  Schemas,           \* whether fact_events and semantic_facts take what is
                     \* inserted here: {FALSE} for the repository's migrations
  MaxFacts,          \* bound: facts ever inserted
  MaxFaults          \* bound: broken connections, failures and timeouts

(* Scores are counted in 1/400. *)
Full == 400

FactIds == 1..MaxFacts

Row == [source : {"user", "assistant", "tool", "system"},
        trust : 0..Full, confidence : 0..Full,
        truth : {"active", "contested", "superseded", "unknown"},
        status : {"active", "contested", "superseded"},
        verified : Nat, rejected : Nat, contradicted : Nat,
        by : FactIds \cup {0}, stale : BOOLEAN]

ASSUME GivenAssumption ==
  /\ MaxFacts \in Nat
  /\ DOMAIN Given \subseteq FactIds
  /\ Given \in [DOMAIN Given -> Row]
  /\ DOMAIN EvidenceOf = DOMAIN Given
ASSUME PairsAssumption == Pairs \in Seq((DOMAIN Given) \X (DOMAIN Given))
ASSUME RequestsAssumption ==
  \A c \in Clients :
    Requests[c] \subseteq [kind : {"confirm", "reject", "correct"}, fact : FactIds]
ASSUME SettingsAssumption ==
  /\ Schemas \subseteq BOOLEAN
  /\ BatchSize \in Nat \ {0} /\ MaxAttempts \in Nat \ {0}
  /\ TrustGap \in 0..Full
  /\ {TrustPenalty, ConfidencePenalty} \subseteq {4 * n : n \in 0..50}

VARIABLES
  facts,       \* semantic_facts, by fact_id
  evidence,    \* fact_evidence, as <<fact, memory>>
  feedback,    \* fact_feedback: rows per fact and kind
  audit,       \* fact_events: rows per fact and kind of change
  resolution,  \* fact_contradictions: resolution, by <<fact_a_id, fact_b_id>>
  call,        \* call[c]: what the gateway does for client c
  handler,     \* handler[h]: the service's transaction for an attempt <<c, n>>
  run,         \* run[s]: a run of a sweep of the truth worker
  deadLetter,  \* sweeps with a row in dead_letter_jobs
  accepts,     \* the schema the database was migrated to, one of Schemas
  faults

vars == <<facts, evidence, feedback, audit, resolution, call, handler, run,
          deadLetter, accepts, faults>>
tables == <<facts, evidence, feedback, audit, resolution, accepts>>
service == <<call, handler>>
worker == <<run, deadLetter>>

Kinds == {"confirm", "reject", "correct"}
Entries == {"confirmed", "rejected", "corrected", "created", "auto", "reviewed"}
GatewayAttempts == 2
Handlers == Clients \X (1..GatewayAttempts)
Sweeps == {"contradiction_sweep", "stale_review"}
(* The run runWithRetry waits for, and one it has given up. *)
Slots == Sweeps \X {"tracked", "abandoned"}

(* The rows of one table over those of another.                            *)
Over(f, g) ==
  [x \in DOMAIN f \cup DOMAIN g |-> IF x \in DOMAIN f THEN f[x] ELSE g[x]]

NoEvents == [f \in FactIds |-> [e \in Entries |-> 0]]
NoHandler == [pc |-> "none", seen |-> "none"]
NoWrites == [rows |-> <<>>, resolved |-> <<>>, events |-> NoEvents]
IdleRun == [pc |-> "idle", attempt |-> 1, todo |-> {}, statements |-> <<>>,
            seen |-> {}, open |-> FALSE, tx |-> NoWrites]

TypeOK ==
  /\ DOMAIN facts \subseteq FactIds
  /\ \A f \in DOMAIN facts : facts[f] \in Row
  /\ evidence \subseteq (DOMAIN facts) \X (UNION Range(EvidenceOf))
  /\ feedback \in [FactIds -> [Kinds -> Nat]]
  /\ audit \in [FactIds -> [Entries -> Nat]]
  /\ \A p \in DOMAIN resolution :
       /\ p \in (DOMAIN facts) \X (DOMAIN facts)
       /\ resolution[p] \in {"unresolved", "superseded", "contested"}
  /\ \A c \in Clients :
       call[c].pc \in {"idle", "waiting", "ok", "refused"}
  /\ \A h \in Handlers :
       /\ handler[h].pc \in {"none", "read", "write"}
       /\ handler[h].pc = "write" => call[h[1]].request.fact \in DOMAIN facts
  /\ \A s \in Slots :
       /\ run[s].pc \in {"idle", "backoff", "judge", "write", "commit"}
       /\ run[s].attempt \in 1..MaxAttempts
       /\ DOMAIN run[s].tx.rows \subseteq DOMAIN facts
       /\ \A f \in DOMAIN run[s].tx.rows : run[s].tx.rows[f] \in Row
  /\ deadLetter \subseteq Sweeps

Init ==
  /\ facts = Given
  /\ evidence = UNION {{f} \X EvidenceOf[f] : f \in DOMAIN Given}
  /\ feedback = [f \in FactIds |-> [k \in Kinds |-> 0]]
  /\ audit = NoEvents
  /\ resolution = [p \in Range(Pairs) |-> "unresolved"]
  /\ call = [c \in Clients |-> [pc |-> "idle"]]
  /\ handler = [h \in Handlers |-> NoHandler]
  /\ run = [s \in Slots |-> IdleRun]
  /\ deadLetter = {}
  /\ accepts \in Schemas
  /\ faults = 0
-----------------------------------------------------------------------------
(* factRepo: what its statements make of a row. *)
Clamp(x) == IF x < 0 THEN 0 ELSE IF x > Full THEN Full ELSE x

UpdateTrustAndConfidence(row, trustDelta, confidenceDelta) ==
  [row EXCEPT !.trust = Clamp(@ + trustDelta), !.confidence = Clamp(@ + confidenceDelta)]

IncrementVerification(row) == [row EXCEPT !.verified = @ + 1, !.stale = FALSE]
(* Variant, not the code: the count is written, not raised.                *)
IncrementRejectionOnce(row) == [row EXCEPT !.rejected = 1]
IncrementRejection(row) == [row EXCEPT !.rejected = @ + 1]
IncrementContradiction(row) == [row EXCEPT !.contradicted = @ + 1]
SetTruthStatus(row, s) == [row EXCEPT !.truth = s, !.status = s]

Supersede(row, new) ==
  [row EXCEPT !.status = "superseded", !.truth = "superseded", !.by = new]

InsertCorrected ==
  [source |-> "user", trust |-> 360, confidence |-> 380, truth |-> "active",
   status |-> "active", verified |-> 0, rejected |-> 0, contradicted |-> 0,
   by |-> 0, stale |-> FALSE]

(* confirmFact and rejectFact: the status depends on the row read before   *)
(* the update, everything else on the row as it is.                        *)
Confirmed(row, seen) ==
  LET boosted == IncrementVerification(UpdateTrustAndConfidence(row, 8, 20))
  IN IF seen = "contested" THEN SetTruthStatus(boosted, "active") ELSE boosted

(* Variant, not the code: a status the column does not take.               *)
RejectedAsSuch(row, seen) ==
  SetTruthStatus(IncrementRejection(UpdateTrustAndConfidence(row, -20, -40)), "rejected")
Rejected(row, seen) ==
  LET lowered == IncrementRejection(UpdateTrustAndConfidence(row, -20, -40))
  IN IF seen = "active" THEN SetTruthStatus(lowered, "contested") ELSE lowered

FactOf(h) == call[h[1]].request.fact

(* No other transaction than that of s has updated the row of f.           *)
Unlocked(f) == \A s \in Slots : f \notin DOMAIN run[s].tx.rows
UnlockedFor(s, f) == \A q \in Slots \ {s} : f \notin DOMAIN run[q].tx.rows
-----------------------------------------------------------------------------
(* The gateway: withRetry around fetch, for a TypeError only. *)
Send(c, request) ==
  /\ call[c].pc = "idle"
  /\ call' = [call EXCEPT ![c] = [pc |-> "waiting", request |-> request, attempt |-> 1]]
  /\ handler' = [handler EXCEPT ![<<c, 1>>].pc = "read"]
  /\ UNCHANGED <<tables, worker, faults>>

(* The connection breaks, and the service goes on with what has arrived.   *)
(* A request that has not is like one that comes later, or fails.          *)
ConnectionBreaks(c) ==
  LET n == call[c].attempt IN
  /\ call[c].pc = "waiting"
  /\ faults < MaxFaults
  /\ faults' = faults + 1
  /\ IF n < GatewayAttempts
     THEN /\ call' = [call EXCEPT ![c].attempt = n + 1]
          /\ handler' = [handler EXCEPT ![<<c, n + 1>>].pc = "read"]
     ELSE /\ call' = [call EXCEPT ![c].pc = "refused"]
          /\ UNCHANGED handler
  /\ UNCHANGED <<tables, worker>>

(* AbortSignal.timeout: not a TypeError, the client is answered 503. *)
GatewayTimesOut(c) ==
  /\ call[c].pc = "waiting"
  /\ faults < MaxFaults
  /\ faults' = faults + 1
  /\ call' = [call EXCEPT ![c].pc = "refused"]
  /\ UNCHANGED <<tables, handler, worker>>
-----------------------------------------------------------------------------
(* The transaction of h is over; its answer reaches the client if the      *)
(* gateway still waits for it.                                             *)
EndRequest(h, answer) ==
  /\ handler' = [handler EXCEPT ![h] = NoHandler]
  /\ call' = IF call[h[1]].pc = "waiting" /\ call[h[1]].attempt = h[2]
             THEN [call EXCEPT ![h[1]].pc = answer]
             ELSE call

(* findById and, for a confirm or a reject, findLatest: the last one may   *)
(* be younger than 30 s or not.                                            *)
ReadFact(h) ==
  LET request == call[h[1]].request IN
  /\ handler[h].pc = "read"
  /\ \/ request.fact \notin DOMAIN facts /\ EndRequest(h, "refused")
     \/ /\ request.fact \in DOMAIN facts
        /\ request.kind # "correct"
        /\ feedback[request.fact][request.kind] > 0
        /\ EndRequest(h, "refused")
     \/ /\ request.fact \in DOMAIN facts
        /\ handler' = [handler EXCEPT ![h] =
                         [pc |-> "write", seen |-> facts[request.fact].truth]]
        /\ UNCHANGED call
  /\ UNCHANGED <<tables, worker, faults>>

(* fact_events has no column delta_confidence, and semantic_facts takes no *)
(* source 'user_correction'.                                               *)
SchemaRejectsFeedback(h) ==
  /\ handler[h].pc = "write"
  /\ ~ accepts
  /\ EndRequest(h, "refused")
  /\ UNCHANGED <<tables, worker, faults>>

Record(f, kind, entry) ==
  /\ feedback' = [feedback EXCEPT ![f][kind] = @ + 1]
  /\ audit' = [audit EXCEPT ![f][entry] = @ + 1]

ConfirmFact(f, seen) ==
  /\ facts' = [facts EXCEPT ![f] = Confirmed(@, seen)]
  /\ Record(f, "confirm", "confirmed")
  /\ UNCHANGED <<evidence, resolution, accepts>>

RejectFact(f, seen) ==
  /\ facts' = [facts EXCEPT ![f] = Rejected(@, seen)]
  /\ Record(f, "reject", "rejected")
  /\ UNCHANGED <<evidence, resolution, accepts>>

(* gen_random_uuid: ids count up in the order of the commits. *)
NewId == Max(DOMAIN facts) + 1

(* Variant, not the code: the evidence is not copied.                      *)
CorrectFactBare(f) ==
  LET new == NewId IN
  /\ new \in FactIds
  /\ facts' = Over([n \in {new} |-> InsertCorrected],
                   [facts EXCEPT ![f] = IncrementContradiction(Supersede(@, new))])
  /\ resolution' = Over([p \in {<<f, new>>} |-> "superseded"], resolution)
  /\ feedback' = [feedback EXCEPT ![f]["correct"] = @ + 1]
  /\ audit' = [audit EXCEPT ![f]["corrected"] = @ + 1, ![new]["created"] = @ + 1]
  /\ UNCHANGED <<evidence, accepts>>
CorrectFact(f) ==
  LET new == NewId IN
  /\ new \in FactIds
  /\ facts' = Over([n \in {new} |-> InsertCorrected],
                   [facts EXCEPT ![f] = IncrementContradiction(Supersede(@, new))])
  /\ evidence' = evidence \cup {<<new, e[2]>> : e \in {e \in evidence : e[1] = f}}
  /\ resolution' = Over([p \in {<<f, new>>} |-> "superseded"], resolution)
  /\ feedback' = [feedback EXCEPT ![f]["correct"] = @ + 1]
  /\ audit' = [audit EXCEPT ![f]["corrected"] = @ + 1, ![new]["created"] = @ + 1]
  /\ UNCHANGED accepts

PublishFeedback(h) ==
  LET request == call[h[1]].request IN
  \/ request.kind = "confirm" /\ ConfirmFact(request.fact, handler[h].seen)
  \/ request.kind = "reject" /\ RejectFact(request.fact, handler[h].seen)
  \/ request.kind = "correct" /\ CorrectFact(request.fact)

(* The UPDATE waits for the row.                                           *)
UpdateFact(h) ==
  /\ handler[h].pc = "write"
  /\ accepts
  /\ Unlocked(FactOf(h))
  /\ PublishFeedback(h)

CommitFeedback(h) ==
  /\ UpdateFact(h)
  /\ EndRequest(h, "ok")
  /\ UNCHANGED <<worker, faults>>

FeedbackReplyLost(h) ==
  /\ faults < MaxFaults
  /\ faults' = faults + 1
  /\ UpdateFact(h)
  /\ EndRequest(h, "refused")
  /\ UNCHANGED worker

(* A statement fails: ROLLBACK and 500, which the gateway does not repeat. *)
FeedbackFails(h) ==
  /\ handler[h].pc # "none"
  /\ faults < MaxFaults
  /\ faults' = faults + 1
  /\ EndRequest(h, "refused")
  /\ UNCHANGED <<tables, worker>>

HandlerStep(h) ==
  ReadFact(h) \/ SchemaRejectsFeedback(h) \/ CommitFeedback(h)
-----------------------------------------------------------------------------
(* The rows the statements of a run see: committed ones and those of its   *)
(* transaction.                                                            *)
Sees(s) == Over(run[s].tx.rows, facts)

Unresolved == {i \in DOMAIN Pairs : resolution[Pairs[i]] = "unresolved"}
StaleFacts == {f \in DOMAIN facts : facts[f].truth = "active" /\ facts[f].stale}

FirstOf(S) == {i \in S : Cardinality({j \in S : j < i}) < BatchSize}

Started(s) == [IdleRun EXCEPT !.attempt = run[s].attempt, !.open = TRUE]

(* What a run r remembers of the facts of S when it reads their rows:      *)
(* which of them are not superseded.                                       *)
Reads(r, S, rows) ==
  [r EXCEPT !.seen = (@ \ S) \cup {f \in S : rows[f].truth # "superseded"}]

(* resolveContradictions lists what is unresolved, oldest first. *)
FetchContradictions(s) ==
  {[Started(s) EXCEPT !.pc = "judge", !.todo = todo] : todo \in {FirstOf(Unresolved)} \ {{}}}

(* reviewStaleFacts: the penalty of a fact, and what it is lowered to, as  *)
(* absolute values.                                                        *)
Penalty(row, p) ==
  LET bySource == IF row.source \in {"tool", "system"} THEN p \div 2 ELSE p
  IN IF row.verified >= 3 THEN bySource \div 2 ELSE bySource

Lowered(f) ==
  [trust |-> Clamp(facts[f].trust - Penalty(facts[f], TrustPenalty)),
   confidence |-> Clamp(facts[f].confidence - Penalty(facts[f], ConfidencePenalty))]

Review(batch) ==
  LET unknown == {f \in batch : Lowered(f).trust < 80}
      lower(do, S) ==
        IF S = {} THEN <<>> ELSE <<[do |-> do, scores |-> [f \in S |-> Lowered(f)]]>>
  IN lower("downgrade", batch \ unknown) \o lower("unknown", unknown)
       \o <<[do |-> "reviewed", facts |-> batch]>>

(* ORDER BY trust_score LIMIT BATCH_SIZE. *)
Stalest ==
  {batch \in kSubset(Min({BatchSize, Cardinality(StaleFacts)}), StaleFacts) \ {{}} :
     \A f \in batch, g \in StaleFacts \ batch : facts[f].trust =< facts[g].trust}

FetchStale(s) ==
  {[Reads(Started(s), batch, facts) EXCEPT !.pc = "write", !.statements = Review(batch)] :
     batch \in Stalest}

(* The runs that the first SELECT of a sweep may lead to, if it finds any. *)
Fetched(s) == IF s[1] = "stale_review" THEN FetchStale(s) ELSE FetchContradictions(s)

(* The timer starts a sweep, or runWithRetry tries it again. *)
StartSweep(s) ==
  /\ s[2] = "tracked"
  /\ run[s].pc \in {"idle", "backoff"}
  /\ \E r \in Fetched(s) : run' = [run EXCEPT ![s] = r]
  /\ UNCHANGED <<tables, service, deadLetter, faults>>

NothingToDo(s) ==
  IF s[1] = "stale_review" THEN StaleFacts = {} ELSE Unresolved = {}

RetryFindsNothing(s) ==
  /\ run[s].pc = "backoff"
  /\ NothingToDo(s)
  /\ run' = [run EXCEPT ![s] = IdleRun]
  /\ UNCHANGED <<tables, service, deadLetter, faults>>
-----------------------------------------------------------------------------
(* The rules of resolveContradictions; the first that decides, decides. *)
ByTrust(A, B) ==
  IF A.trust - B.trust >= TrustGap THEN "a"
  ELSE IF B.trust - A.trust >= TrustGap THEN "b" ELSE "none"

BySource(A, B) ==
  IF A.source = "tool" /\ B.source = "assistant" THEN "a"
  ELSE IF B.source = "tool" /\ A.source = "assistant" THEN "b" ELSE "none"

ByVerification(A, B) ==
  LET lead == (A.verified - A.rejected) - (B.verified - B.rejected)
  IN IF lead >= 3 THEN "a" ELSE IF lead =< -3 THEN "b" ELSE "none"

Winner(A, B) ==
  IF ByTrust(A, B) # "none" THEN ByTrust(A, B)
  ELSE IF BySource(A, B) # "none" THEN BySource(A, B) ELSE ByVerification(A, B)

Resolve(p, how) == [do |-> "resolve", pair |-> p, as |-> how]

(* Variant, not the code: the contradiction is not marked.                 *)
SupersedeFactUnmarked(p, loser, winner) ==
  <<[do |-> "supersede", fact |-> loser, by |-> winner], [do |-> "auto", facts |-> {loser}]>>
SupersedeFact(p, loser, winner) ==
  <<[do |-> "supersede", fact |-> loser, by |-> winner],
    [do |-> "auto", facts |-> {loser}], Resolve(p, "superseded")>>

Contest(f, row) ==
  IF row.truth = "contested" THEN <<>> ELSE <<[do |-> "contest", fact |-> f]>>

(* Variant, not the code: a superseded fact is judged like any other.      *)
VerdictOnAny(p, A, B) ==
  CASE Winner(A, B) = "a" -> SupersedeFact(p, p[2], p[1])
    [] Winner(A, B) = "b" -> SupersedeFact(p, p[1], p[2])
    [] OTHER -> Contest(p[1], A) \o Contest(p[2], B) \o <<Resolve(p, "contested")>>
(* The statements for a contradiction, given its two rows. *)
Verdict(p, A, B) ==
  IF "superseded" \in {A.truth, B.truth} THEN <<Resolve(p, "superseded")>>
  ELSE CASE Winner(A, B) = "a" -> SupersedeFact(p, p[2], p[1])
         [] Winner(A, B) = "b" -> SupersedeFact(p, p[1], p[2])
         [] OTHER -> Contest(p[1], A) \o Contest(p[2], B) \o <<Resolve(p, "contested")>>

Judged(s) ==
  LET p == Pairs[Min(run[s].todo)]
      rows == Sees(s)
  IN [Reads(run[s], Range(p), rows) EXCEPT
        !.pc = "write", !.statements = Verdict(p, rows[p[1]], rows[p[2]])]

JudgeContradiction(s) ==
  /\ run[s].pc = "judge"
  /\ run' = [run EXCEPT ![s] = Judged(s)]
  /\ UNCHANGED <<tables, service, deadLetter, faults>>
-----------------------------------------------------------------------------
Touched(statement) ==
  CASE statement.do \in {"supersede", "contest"} -> {statement.fact}
    [] statement.do \in {"downgrade", "unknown"} -> DOMAIN statement.scores
    [] OTHER -> {}

Updated(statement, f, row) ==
  CASE statement.do = "supersede" -> Supersede(row, statement.by)
    [] statement.do = "contest" -> SetTruthStatus(row, "contested")
    [] statement.do = "downgrade" ->
         [row EXCEPT !.trust = statement.scores[f].trust,
                     !.confidence = statement.scores[f].confidence]
    [] statement.do = "unknown" ->
         [row EXCEPT !.trust = statement.scores[f].trust,
                     !.confidence = statement.scores[f].confidence,
                     !.truth = "unknown", !.status = "contested"]

(* The statement under way, and how many after it update no row: in a      *)
(* transaction they are neither seen nor waited for, and go with it.       *)
NextStatement(s) == Head(run[s].statements)
Together(s) ==
  LET statements == run[s].statements
  IN IF run[s].open /\ \A i \in 2..Len(statements) : Touched(statements[i]) = {}
     THEN Len(statements) ELSE 1

(* What the next n statements add to the writes of their transaction; all  *)
(* but the first update no row.                                            *)
Executed(s, n) == {run[s].statements[i] : i \in 1..n}

RowsWritten(s, S) == [f \in S |-> Updated(NextStatement(s), f, Sees(s)[f])]

Resolved(s, n) ==
  LET resolving == {statement \in Executed(s, n) : statement.do = "resolve"}
  IN [p \in {statement.pair : statement \in resolving} |->
        (CHOOSE statement \in resolving : statement.pair = p).as]

Events(s, n, f, e) ==
  Cardinality({i \in 1..n : run[s].statements[i].do = e /\ f \in run[s].statements[i].facts})

Written(s, n) ==
  LET W == run[s].tx
  IN [rows |-> Over(RowsWritten(s, Touched(NextStatement(s))), W.rows),
      resolved |-> Over(Resolved(s, n), W.resolved),
      events |-> [f \in FactIds |-> [e \in Entries |-> W.events[f][e] + Events(s, n, f, e)]]]

Publish(W) ==
  /\ facts' = Over(W.rows, facts)
  /\ resolution' = Over(W.resolved, resolution)
  /\ audit' = [f \in FactIds |-> [e \in Entries |-> audit[f][e] + W.events[f][e]]]
  /\ UNCHANGED <<evidence, feedback, accepts>>

(* After n statements: the next one, the next contradiction, or the end,   *)
(* which is a COMMIT if the transaction is still there.                    *)
After(s, n) ==
  LET r == run[s] IN
  IF Len(r.statements) > n
  THEN [r EXCEPT !.statements = SubSeq(@, n + 1, Len(@))]
  ELSE IF \E i \in r.todo : i > Min(r.todo)
       THEN [r EXCEPT !.statements = <<>>, !.todo = @ \ {Min(@)}, !.pc = "judge"]
  ELSE [r EXCEPT !.statements = <<>>, !.todo = {}, !.pc = "commit"]

Left(r) == IF r.pc = "commit" /\ ~ r.open THEN IdleRun ELSE r

RowsFree(s) == \A f \in Touched(NextStatement(s)) : UnlockedFor(s, f)

Refused(s) ==
  \E i \in 1..Together(s) : run[s].statements[i].do \in {"auto", "reviewed"}

(* A batch UPDATE locks and updates its rows one by one, in any order, and *)
(* holds them until its transaction, or without one the UPDATE, is over.   *)
UpdateRow(s, f) ==
  /\ run[s].pc = "write"
  /\ f \in Touched(NextStatement(s)) /\ Touched(NextStatement(s)) # {f}
  /\ UnlockedFor(s, f)
  /\ run' = [run EXCEPT ![s].tx.rows = Over(RowsWritten(s, {f}), @),
                        ![s].statements[1].scores = Restrict(@, DOMAIN @ \ {f})]
  /\ UNCHANGED <<tables, service, deadLetter, faults>>

(* A statement is done, with the last of its rows.                         *)
Execute(s) ==
  /\ run[s].pc = "write"
  /\ Cardinality(Touched(NextStatement(s))) =< 1
  /\ accepts \/ ~ Refused(s)
  /\ RowsFree(s)
  /\ LET n == Together(s)
         W == Written(s, n)
     IN IF run[s].open
        THEN run' = [run EXCEPT ![s] = [After(s, n) EXCEPT !.tx = W]] /\ UNCHANGED tables
        ELSE run' = [run EXCEPT ![s] = Left([After(s, n) EXCEPT !.tx = NoWrites])] /\ Publish(W)
  /\ UNCHANGED <<service, deadLetter, faults>>

CommitSweep(s) ==
  /\ run[s].pc = "commit"
  /\ Publish(run[s].tx)
  /\ run' = [run EXCEPT ![s] = IdleRun]
  /\ UNCHANGED <<service, deadLetter, faults>>
-----------------------------------------------------------------------------
(* runWithRetry: the run is rolled back and tried again, or goes to        *)
(* dead_letter_jobs after its last attempt, if that can be written.        *)
AfterFailure(s) ==
  IF run[s].attempt < MaxAttempts
  THEN [IdleRun EXCEPT !.pc = "backoff", !.attempt = run[s].attempt + 1]
  ELSE IdleRun

PersistDeadLetter(s) ==
  \/ run[s].attempt = MaxAttempts /\ deadLetter' = deadLetter \cup {s[1]}
  \/ UNCHANGED deadLetter

SweepEndsBadly(s) ==
  /\ run' = [run EXCEPT ![s] = AfterFailure(s)]
  /\ PersistDeadLetter(s)

StatementFails(s) ==
  IF run[s].open THEN SweepEndsBadly(s)
  ELSE run' = [run EXCEPT ![s] = IdleRun] /\ UNCHANGED deadLetter

SweepFails(s) ==
  /\ run[s].pc \notin {"idle", "backoff"}
  /\ faults < MaxFaults
  /\ faults' = faults + 1
  /\ StatementFails(s)
  /\ UNCHANGED <<tables, service>>

(* delta_confidence again.                                                 *)
SchemaRejectsSweep(s) ==
  /\ run[s].pc = "write"
  /\ ~ accepts
  /\ Refused(s)
  /\ RowsFree(s)
  /\ StatementFails(s)
  /\ UNCHANGED <<tables, service, faults>>

SweepReplyLost(s) ==
  /\ run[s].pc = "commit"
  /\ faults < MaxFaults
  /\ faults' = faults + 1
  /\ Publish(run[s].tx)
  /\ SweepEndsBadly(s)
  /\ UNCHANGED service

(* withTimeout rejects; the ROLLBACK waits for the statement that is under *)
(* way, and the run goes on with its result, r, which has been rolled back. *)
TimedOut(s, r) ==
  LET abandoned == <<s[1], "abandoned">>
  IN /\ run[abandoned].pc = "idle"
     /\ faults < MaxFaults
     /\ faults' = faults + 1
     /\ run' = [run EXCEPT
          ![s] = AfterFailure(s),
          ![abandoned] = Left([r EXCEPT !.open = FALSE, !.tx = NoWrites, !.attempt = 1])]
     /\ PersistDeadLetter(s)
     /\ UNCHANGED <<tables, service>>

SweepTimesOut(s) ==
  \/ /\ s[2] = "tracked" /\ run[s].pc \in {"idle", "backoff"}
     /\ \E r \in Fetched(s) : TimedOut(s, r)
  \/ run[s].open /\ run[s].pc = "judge" /\ TimedOut(s, Judged(s))
  \/ /\ run[s].open /\ run[s].pc = "write" /\ RowsFree(s)
     /\ \E n \in 1..Together(s) : TimedOut(s, After(s, n))

(* Sweeps that wait for each other's rows: Postgres fails one of them.     *)
WaitsFor(s, q) ==
  run[s].pc = "write" /\ Touched(NextStatement(s)) \cap DOMAIN run[q].tx.rows # {}

Stuck(D) == D # {} /\ \A s \in D : \E q \in D \ {s} : WaitsFor(s, q)
Deadlocked(s) ==
  \E D \in SUBSET Slots : s \in D /\ Stuck(D) /\ \A E \in SUBSET D \ {D} : ~ Stuck(E)

DeadlockVictim(s) ==
  /\ Deadlocked(s)
  /\ StatementFails(s)
  /\ UNCHANGED <<tables, service, faults>>

WorkerRestarts ==
  /\ faults < MaxFaults
  /\ faults' = faults + 1
  /\ run' = [s \in Slots |-> IdleRun]
  /\ UNCHANGED <<tables, service, deadLetter>>

SweepStep(s) ==
  \/ StartSweep(s) \/ RetryFindsNothing(s) \/ JudgeContradiction(s)
  \/ (\E f \in FactIds : UpdateRow(s, f))
  \/ Execute(s) \/ SchemaRejectsSweep(s) \/ CommitSweep(s) \/ DeadlockVictim(s)

Rest ==
  /\ \A c \in Clients : call[c].pc \notin {"idle", "waiting"}
  /\ \A h \in Handlers : handler[h].pc = "none"
  /\ \A s \in Slots : run[s].pc = "idle"
  /\ Unresolved = {} /\ StaleFacts = {}
  /\ UNCHANGED vars

Next ==
  \/ \E c \in Clients : \E request \in Requests[c] : Send(c, request)
  \/ \E c \in Clients : ConnectionBreaks(c) \/ GatewayTimesOut(c)
  \/ \E h \in Handlers : HandlerStep(h) \/ FeedbackReplyLost(h) \/ FeedbackFails(h)
  \/ \E s \in Slots :
       SweepStep(s) \/ SweepFails(s) \/ SweepReplyLost(s) \/ SweepTimesOut(s)
  \/ WorkerRestarts
  \/ Rest

Spec == Init /\ [][Next]_vars

-----------------------------------------------------------------------------
(***************************************************************************)
(* Properties.                                                             *)
(***************************************************************************)
Base(f) == IF f \in DOMAIN Given THEN Given[f] ELSE InsertCorrected

Answered(f, k) ==
  {c \in Clients : call[c].pc = "ok" /\ call[c].request = [kind |-> k, fact |-> f]}

(* feedbackService.ts:52, :127, :210 and the relative updates of           *)
(* factRepo.ts:91: the counters on a fact, its feedback rows and its audit *)
(* trail tell the same, however requests overlap each other and the sweeps *)
(* that rewrite the row, fail or are repeated; and no feedback that was    *)
(* answered is lost.                                                       *)
FeedbackCounted ==
  \A f \in DOMAIN facts :
    /\ facts[f].verified = Base(f).verified + feedback[f]["confirm"]
    /\ facts[f].rejected = Base(f).rejected + feedback[f]["reject"]
    /\ facts[f].contradicted = Base(f).contradicted + feedback[f]["correct"]
    /\ audit[f]["confirmed"] = feedback[f]["confirm"]
    /\ audit[f]["rejected"] = feedback[f]["reject"]
    /\ audit[f]["corrected"] = feedback[f]["correct"]
    /\ \A k \in Kinds : Cardinality(Answered(f, k)) =< feedback[f][k]

(* correctFact (feedbackService.ts:210): a fact no consolidation stored    *)
(* corrects exactly one other, which it has the evidence of, and the       *)
(* contradiction between them is settled; each correction made one.  A     *)
(* correction the gateway repeats makes two, both complete.                *)
CorrectedBy(f) == {n \in DOMAIN facts \ DOMAIN Given : <<f, n>> \in DOMAIN resolution}

CorrectionComplete ==
  /\ \A n \in DOMAIN facts \ DOMAIN Given :
       \E f \in DOMAIN facts :
         /\ {g \in DOMAIN facts : n \in CorrectedBy(g)} = {f}
         /\ resolution[<<f, n>>] = "superseded"
         /\ audit[n]["created"] = 1
         /\ \A m \in UNION Range(EvidenceOf) : <<n, m>> \in evidence <=> <<f, m>> \in evidence
  /\ \A f \in DOMAIN facts : Cardinality(CorrectedBy(f)) = feedback[f]["correct"]

(* Transactions with a decision on f that was taken on a row of f that was *)
(* not superseded when they read it.                                       *)
DecidedBefore(f) ==
  {h \in Handlers : /\ handler[h].pc = "write" /\ FactOf(h) = f
                    /\ handler[h].seen # "superseded"}
  \cup {s \in Slots : /\ f \in run[s].seen
                      /\ \/ f \in DOMAIN run[s].tx.rows
                         \/ \E i \in DOMAIN run[s].statements :
                              f \in Touched(run[s].statements[i])}

(* feedbackService.ts:73, :147, resolve_contradictions.ts:85 and           *)
(* stale_fact_review.ts:47: a superseded fact comes back only by a request *)
(* or a sweep that read it before it was superseded; whoever reads it      *)
(* later, at any distance and after any retry, leaves it superseded.       *)
SupersededStays ==
  [][\A f \in DOMAIN facts :
       facts[f].truth = "superseded" /\ DecidedBefore(f) = {} =>
         facts'[f].truth = "superseded"]_vars

(* resolve_contradictions.ts:92: a fact the worker supersedes has its audit *)
(* event and its settled contradiction in the same commit, whatever fails; *)
(* only an abandoned run, which has lost its transaction, tears them apart. *)
SettledTogether ==
  [][\A f \in DOMAIN facts :
       \/ facts[f].truth = "superseded" \/ facts'[f].truth # "superseded"
       \/ feedback'[f]["correct"] > feedback[f]["correct"]
       \/ \E p \in DOMAIN resolution :
            /\ f \in Range(p) /\ resolution'[p] = "superseded"
            /\ audit'[f]["auto"] > audit[f]["auto"]
       \/ \E s \in Slots : /\ run[s].pc = "write" /\ ~ run[s].open
                           /\ f \in Touched(NextStatement(s))]_vars
=============================================================================
