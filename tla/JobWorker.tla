------------------------------ MODULE JobWorker ------------------------------
(***************************************************************************)
(* The loop every queue worker runs (graph, lifecycle, consolidation and   *)
(* embedding): BRPOP a job, run its handler, and on failure stamp the      *)
(* attempt count into the payload and either push the job back after a     *)
(* backoff or dead-letter it, to Redis and then to Postgres.  Pushes that  *)
(* fail are logged and swallowed.  A handler raced against a timeout is    *)
(* not cancelled: its run goes on beside the job's next attempts.          *)
(*                                                                         *)
(* A Redis list gives no acknowledgement: a job a worker holds when its    *)
(* process ends is gone.  Nor does a push: when the connection breaks      *)
(* before its reply, ioredis sends it again (autoResendUnfulfilledCommands *)
(* is on by default), or reports in the end that it failed, whether Redis  *)
(* has applied it or not.  A job can have several copies for that reason,  *)
(* which are numbered here for the properties; no guard tells them apart.  *)
(***************************************************************************)
EXTENDS Integers, Sequences, FiniteSets

CONSTANTS
  Jobs,         \* payloads, each of one push of its producer
  Poison,       \* those that are not JSON
  Workers,      \* worker processes on the same list
  MaxAttempts,  \* JOB_MAX_ATTEMPTS
  TimedRuns,    \* the handler is raced against a timeout (graph, consolidation)
  NoMessage,    \* "nothing popped yet"
  MaxFaults     \* bound: processes that die and replies of Redis that are lost

ASSUME PoisonAssumption == Poison \subseteq Jobs
ASSUME MaxAttemptsAssumption == MaxAttempts \in Nat \ {0}
ASSUME TimedRunsAssumption == TimedRuns \in BOOLEAN
ASSUME MaxFaultsAssumption == MaxFaults \in Nat

VARIABLES
  queue,     \* the list: LPUSH at the head, BRPOP from the tail
  pc,        \* pc[w]: where worker w's iteration is
  held,      \* held[w]: the message w popped last
  runs,      \* runs[c]: runs started for c, and for what c is a copy of before it was
  orphans,   \* orphans[c]: timed out runs of c that have not ended
  outcome,   \* outcome[c]: what became of c
  redisDlq,  \* redisDlq[c]: entries for c in the Redis dead-letter list
  dbDlq,     \* dbDlq[c]: rows for c in dead_letter_jobs
  resends,   \* resends[j]: pushes of job j that were applied and whose reply was lost
  faults     \* processes that died and replies of Redis that were lost

vars == <<queue, pc, held, runs, orphans, outcome, redisDlq, dbDlq, resends, faults>>

(* The copies of a job: what its producer pushes, and one for each push of *)
(* the job that Redis applied without the pusher's knowing.                *)
Copies == Jobs \X (1..MaxFaults + 1)
Unparseable == {c \in Copies : c[1] \in Poison}
Another(c) == <<c[1], resends[c[1]] + 2>>

Message == [copy : Copies, attempts : 0..MaxAttempts]

TypeOK ==
  /\ queue \in Seq(Message)
  /\ pc \in [Workers -> {"poll", "run", "backoff", "pushDlq", "persistDlq", "poison"}]
  /\ held \in [Workers -> Message \cup {NoMessage}]
  /\ runs \in [Copies -> Nat]
  /\ orphans \in [Copies -> Nat]
  /\ outcome \in [Copies -> {"none", "unsent", "pending", "done", "dead", "lost"}]
  /\ redisDlq \in [Copies -> Nat]
  /\ dbDlq \in [Copies -> Nat]
  /\ resends \in [Jobs -> Nat]
  /\ faults \in 0..MaxFaults

Init ==
  /\ queue = <<>>
  /\ pc = [w \in Workers |-> "poll"]
  /\ held = [w \in Workers |-> NoMessage]
  /\ runs = [c \in Copies |-> 0]
  /\ orphans = [c \in Copies |-> 0]
  /\ outcome = [c \in Copies |-> IF c[2] = 1 THEN "unsent" ELSE "none"]
  /\ redisDlq = [c \in Copies |-> 0]
  /\ dbDlq = [c \in Copies |-> 0]
  /\ resends = [j \in Jobs |-> 0]
  /\ faults = 0

Settled == {"done", "dead", "lost"}

Goto(w, label) == pc' = [pc EXCEPT ![w] = label]

Settle(c, result) == outcome' = [outcome EXCEPT ![c] = result]

Add(counter, c) == [counter EXCEPT ![c] = @ + 1]

LPush(msg) == queue' = <<msg>> \o queue

Last == queue[Len(queue)]

BRPop == queue' = SubSeq(queue, 1, Len(queue) - 1)

deadLetters == <<redisDlq, dbDlq>>
disturbances == <<resends, faults>>

(* A push of copy c is applied and its reply lost: what its pusher has     *)
(* still to push, or to give up, is another copy of the job.               *)
ReplyLost(c) ==
  /\ faults < MaxFaults
  /\ faults' = faults + 1
  /\ resends' = Add(resends, c[1])
  /\ runs' = [runs EXCEPT ![Another(c)] = runs[c]]

Becomes(c, result, rest) ==
  outcome' = [outcome EXCEPT ![c] = result, ![Another(c)] = rest]

-----------------------------------------------------------------------------
(* A producer pushes a job: no attempt count in the payload yet.  A push   *)
(* that fails is logged and swallowed.                                     *)
Produce(c) ==
  /\ outcome[c] = "unsent"
  /\ Settle(c, "pending")
  /\ LPush([copy |-> c, attempts |-> 0])
  /\ UNCHANGED <<pc, held, runs, orphans, deadLetters, disturbances>>

ProduceReplyLost(c) ==
  /\ outcome[c] = "unsent"
  /\ ReplyLost(c)
  /\ Becomes(c, "pending", "unsent")
  /\ LPush([copy |-> c, attempts |-> 0])
  /\ UNCHANGED <<pc, held, orphans, deadLetters>>

ProduceFails(c) ==
  /\ outcome[c] = "unsent"
  /\ Settle(c, "lost")
  /\ UNCHANGED <<queue, pc, held, runs, orphans, deadLetters, disturbances>>

(* BRPOP and JSON.parse; a payload that parses starts a run. *)
Pop(w) ==
  /\ pc[w] = "poll"
  /\ queue # <<>>
  /\ BRPop
  /\ held' = [held EXCEPT ![w] = Last]
  /\ IF Last.copy \in Unparseable
     THEN Goto(w, "poison") /\ UNCHANGED runs
     ELSE Goto(w, "run") /\ runs' = Add(runs, Last.copy)
  /\ UNCHANGED <<orphans, outcome, deadLetters, disturbances>>

(* The list gave the job away but the connection broke before the reply. *)
PopReplyLost(w) ==
  /\ pc[w] = "poll"
  /\ queue # <<>>
  /\ faults < MaxFaults
  /\ faults' = faults + 1
  /\ BRPop
  /\ Settle(Last.copy, "lost")
  /\ UNCHANGED <<pc, held, runs, orphans, deadLetters, resends>>

(* The loop is done with c: it is dead-lettered when an entry was written. *)
SettleDead(c) ==
  Settle(c, IF redisDlq'[c] + dbDlq'[c] > 0 THEN "dead" ELSE "lost")

(* Variant, not the code: an unparseable payload is tried again. *)
PoisonRequeue(w) ==
  /\ pc[w] = "poison"
  /\ LPush(held[w])
  /\ Goto(w, "poll")
  /\ UNCHANGED <<held, runs, orphans, outcome, deadLetters, disturbances>>

(* An unparseable payload goes to the dead-letter list as it is, only to   *)
(* Redis, or nowhere when the push fails.                                  *)
PoisonPush(w) ==
  /\ pc[w] = "poison"
  /\ redisDlq' = Add(redisDlq, held[w].copy)
  /\ UNCHANGED dbDlq
  /\ SettleDead(held[w].copy)
  /\ Goto(w, "poll")
  /\ UNCHANGED <<queue, held, runs, orphans, disturbances>>

PoisonPushReplyLost(w) ==
  /\ pc[w] = "poison"
  /\ ReplyLost(held[w].copy)
  /\ Becomes(held[w].copy, "dead", "pending")
  /\ redisDlq' = Add(redisDlq, held[w].copy)
  /\ held' = [held EXCEPT ![w].copy = Another(@)]
  /\ UNCHANGED <<queue, pc, orphans, dbDlq>>

PoisonPushFails(w) ==
  /\ pc[w] = "poison"
  /\ Settle(held[w].copy, "lost")
  /\ Goto(w, "poll")
  /\ UNCHANGED <<queue, held, runs, orphans, deadLetters, disturbances>>

RunSucceeds(w) ==
  /\ pc[w] = "run"
  /\ Settle(held[w].copy, "done")
  /\ Goto(w, "poll")
  /\ UNCHANGED <<queue, held, runs, orphans, deadLetters, disturbances>>

(* Variants, not the code: one attempt too many; the count is not stamped. *)
StampAndDecideLate(w) ==
  LET attempts == held[w].attempts + 1 IN
  /\ held' = [held EXCEPT ![w].attempts = attempts]
  /\ Goto(w, IF attempts > MaxAttempts THEN "pushDlq" ELSE "backoff")

DecideWithoutStamp(w) ==
  /\ Goto(w, IF held[w].attempts + 1 >= MaxAttempts THEN "pushDlq" ELSE "backoff")
  /\ UNCHANGED held

(* stampRetryMeta, then retryOrDlq on the stamped count. *)
StampAndDecide(w) ==
  LET attempts == held[w].attempts + 1 IN
  /\ held' = [held EXCEPT ![w].attempts = attempts]
  /\ Goto(w, IF attempts >= MaxAttempts THEN "pushDlq" ELSE "backoff")

RunFails(w) ==
  /\ pc[w] = "run"
  /\ StampAndDecide(w)
  /\ UNCHANGED <<queue, runs, orphans, outcome, deadLetters, disturbances>>

(* withTimeout rejects; the run it raced goes on. *)
RunTimesOut(w) ==
  /\ TimedRuns
  /\ pc[w] = "run"
  /\ StampAndDecide(w)
  /\ orphans' = Add(orphans, held[w].copy)
  /\ UNCHANGED <<queue, runs, outcome, deadLetters, disturbances>>

(* Variant, not the code: a timed out run that fails is pushed back. *)
OrphanRequeues(c) ==
  /\ orphans[c] > 0
  /\ orphans' = [orphans EXCEPT ![c] = @ - 1]
  /\ LPush([copy |-> c, attempts |-> runs[c]])
  /\ UNCHANGED <<pc, held, runs, outcome, deadLetters, disturbances>>

(* A timed out run ends, in success or failure: nobody looks at it. *)
OrphanEnds(c) ==
  /\ orphans[c] > 0
  /\ orphans' = [orphans EXCEPT ![c] = @ - 1]
  /\ UNCHANGED <<queue, pc, held, runs, outcome, deadLetters, disturbances>>

(* The backoff sleep ends and the stamped job is pushed back, behind what  *)
(* waits; a failed push is swallowed and the job is gone.                  *)
Requeue(w) ==
  /\ pc[w] = "backoff"
  /\ LPush(held[w])
  /\ Goto(w, "poll")
  /\ UNCHANGED <<held, runs, orphans, outcome, deadLetters, disturbances>>

RequeueReplyLost(w) ==
  /\ pc[w] = "backoff"
  /\ ReplyLost(held[w].copy)
  /\ Becomes(held[w].copy, "pending", "pending")
  /\ LPush(held[w])
  /\ held' = [held EXCEPT ![w].copy = Another(@)]
  /\ UNCHANGED <<pc, orphans, deadLetters>>

RequeueFails(w) ==
  /\ pc[w] = "backoff"
  /\ Settle(held[w].copy, "lost")
  /\ Goto(w, "poll")
  /\ UNCHANGED <<queue, held, runs, orphans, deadLetters, disturbances>>

(* The entry is pushed to the Redis list, then inserted in Postgres; each  *)
(* step swallows its own failure.                                          *)
PushDlq(w) ==
  /\ pc[w] = "pushDlq"
  /\ redisDlq' = Add(redisDlq, held[w].copy)
  /\ Goto(w, "persistDlq")
  /\ UNCHANGED <<queue, held, runs, orphans, outcome, dbDlq, disturbances>>

PushDlqReplyLost(w) ==
  /\ pc[w] = "pushDlq"
  /\ ReplyLost(held[w].copy)
  /\ Becomes(held[w].copy, "dead", "pending")
  /\ redisDlq' = Add(redisDlq, held[w].copy)
  /\ held' = [held EXCEPT ![w].copy = Another(@)]
  /\ UNCHANGED <<queue, pc, orphans, dbDlq>>

PushDlqFails(w) ==
  /\ pc[w] = "pushDlq"
  /\ Goto(w, "persistDlq")
  /\ UNCHANGED <<queue, held, runs, orphans, outcome, deadLetters, disturbances>>

PersistDlq(w) ==
  /\ pc[w] = "persistDlq"
  /\ dbDlq' = Add(dbDlq, held[w].copy)
  /\ UNCHANGED redisDlq
  /\ SettleDead(held[w].copy)
  /\ Goto(w, "poll")
  /\ UNCHANGED <<queue, held, runs, orphans, disturbances>>

(* Variant, not the code: a failed insert repeats both steps. *)
PersistDlqRepeats(w) ==
  /\ pc[w] = "persistDlq"
  /\ redisDlq[held[w].copy] < 2
  /\ Goto(w, "pushDlq")
  /\ UNCHANGED <<queue, held, runs, orphans, outcome, deadLetters, disturbances>>

PersistDlqFails(w) ==
  /\ pc[w] = "persistDlq"
  /\ UNCHANGED deadLetters
  /\ SettleDead(held[w].copy)
  /\ Goto(w, "poll")
  /\ UNCHANGED <<queue, held, runs, orphans, disturbances>>

(* The process dies or is shut down (shutdown does not wait for the job)   *)
(* and is started again: the job it holds is gone.                         *)
Crash(w) ==
  /\ pc[w] # "poll"
  /\ faults < MaxFaults
  /\ faults' = faults + 1
  /\ UNCHANGED deadLetters
  /\ SettleDead(held[w].copy)
  /\ Goto(w, "poll")
  /\ UNCHANGED <<queue, held, runs, orphans, resends>>

(* Every copy is settled and no run is left: the workers wait in BRPOP. *)
Quiet ==
  /\ \A c \in Copies : outcome[c] \in Settled \cup {"none"} /\ orphans[c] = 0
  /\ \A w \in Workers : pc[w] = "poll"
  /\ UNCHANGED vars

Work(w) ==
  \/ Pop(w) \/ RunSucceeds(w) \/ RunFails(w) \/ RunTimesOut(w)
  \/ Requeue(w) \/ RequeueFails(w)
  \/ PushDlq(w) \/ PushDlqFails(w) \/ PersistDlq(w) \/ PersistDlqFails(w)
  \/ PoisonPush(w) \/ PoisonPushFails(w)

Next ==
  \/ \E c \in Copies : Produce(c) \/ ProduceFails(c) \/ ProduceReplyLost(c) \/ OrphanEnds(c)
  \/ \E w \in Workers : Work(w) \/ PopReplyLost(w) \/ Crash(w)
  \/ \E w \in Workers : RequeueReplyLost(w) \/ PushDlqReplyLost(w) \/ PoisonPushReplyLost(w)
  \/ Quiet

Spec == Init /\ [][Next]_vars

(* The loop is never left and each await of it settles: the handler by its *)
(* timeout, the sleep by its timer, Redis and Postgres by answer or error. *)
Fairness == \A w \in Workers : WF_vars(Work(w))

FairSpec == Spec /\ Fairness

-----------------------------------------------------------------------------
Queued(c) == {i \in DOMAIN queue : queue[i].copy = c}
HeldBy(c) == {w \in Workers : pc[w] # "poll" /\ held[w].copy = c}

(* A pending copy is in one place, the list or one worker's hands, and a   *)
(* settled one in none; and a job has one copy, and one more for each push *)
(* whose reply was lost.  Retries and timed out runs never duplicate a     *)
(* job, and the loop never drops a copy without an outcome.                *)
OneCopy ==
  \A c \in Copies :
    /\ Cardinality(Queued(c)) + Cardinality(HeldBy(c)) =
         IF outcome[c] = "pending" THEN 1 ELSE 0
    /\ outcome[c] # "none" => c[2] <= 1 + resends[c[1]]

(* The count stamped into the payload is the number of runs that were      *)
(* started and did not succeed, on whichever workers: a copy is started    *)
(* MaxAttempts times at most, less what was used up before it was made,    *)
(* and dead-lettered only after that many; so many runs of it can overlap, *)
(* and no more.                                                            *)
AttemptsCountRuns ==
  /\ \A i \in DOMAIN queue :
       queue[i].attempts = runs[queue[i].copy] /\ queue[i].attempts < MaxAttempts
  /\ \A w \in Workers :
       /\ pc[w] = "run" => held[w].attempts + 1 = runs[held[w].copy]
       /\ pc[w] = "backoff" => /\ held[w].attempts = runs[held[w].copy]
                               /\ held[w].attempts < MaxAttempts
       /\ pc[w] \in {"pushDlq", "persistDlq"} =>
            /\ held[w].attempts = runs[held[w].copy]
            /\ held[w].attempts = MaxAttempts
  /\ \A c \in Copies : runs[c] <= MaxAttempts /\ orphans[c] <= runs[c]

(* A copy is dead-lettered once, when its attempts are used up or its      *)
(* payload does not parse, never after it succeeded and never while it can *)
(* still be run: two entries of a job are of two copies, so a reply was    *)
(* lost.                                                                   *)
DeadLetterOnce ==
  \A c \in Copies :
    /\ redisDlq[c] <= 1 /\ dbDlq[c] <= 1
    /\ redisDlq[c] + dbDlq[c] > 0 =>
         /\ c \notin Unparseable => runs[c] = MaxAttempts
         /\ Queued(c) = {}
         /\ outcome[c] = "dead" \/ \E w \in HeldBy(c) : pc[w] = "persistDlq"

(* Every copy pushed is settled: no failing job, poison or not, keeps the  *)
(* list busy for ever or starves the jobs behind it.                       *)
EveryJobSettles ==
  \A c \in Copies : outcome[c] = "pending" ~> outcome[c] \in Settled
=============================================================================
