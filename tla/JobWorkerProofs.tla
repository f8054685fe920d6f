---------------------------- MODULE JobWorkerProofs ----------------------------
(***************************************************************************)
(* Proofs about JobWorker, for any jobs, workers, attempt limit and number *)
(* of faults: its type invariant and the three safety invariants its run   *)
(* checks.  The inductive invariant IInv states by quantifiers what the    *)
(* invariants count: where the copies of a job are, what each place says   *)
(* of its runs, and how far its dead-lettering has gone.                   *)
(***************************************************************************)
EXTENDS JobWorker, FiniteSetTheorems, TLAPS

(* A worker that does not poll holds a job, unparseable or not according   *)
(* to the branch it took.                                                  *)
HeldIsMessage ==
  \A w \in Workers : pc[w] # "poll" =>
    /\ held[w] \in Message
    /\ pc[w] = "poison" <=> held[w].copy \in Unparseable

(* The list and the workers hold copies of pending jobs only, ...          *)
CopiesPending ==
  /\ \A i \in DOMAIN queue : outcome[queue[i].copy] = "pending"
  /\ \A w \in Workers : pc[w] # "poll" => outcome[held[w].copy] = "pending"

(* ... no two copies of the same job, ...                                  *)
QueuedOnce ==
  \A i, k \in DOMAIN queue : queue[i].copy = queue[k].copy => i = k

HeldOnce ==
  \A w, v \in Workers :
    pc[w] # "poll" /\ pc[v] # "poll" /\ held[w].copy = held[v].copy => w = v

QueuedOrHeld ==
  \A i \in DOMAIN queue, w \in Workers :
    pc[w] # "poll" => held[w].copy # queue[i].copy

(* ... and one of every job that is pending.                               *)
IsQueued(c) == \E i \in DOMAIN queue : queue[i].copy = c
IsHeld(c) == \E w \in Workers : pc[w] # "poll" /\ held[w].copy = c

PendingSomewhere == \A c \in Copies : outcome[c] = "pending" => IsQueued(c) \/ IsHeld(c)

OnePlace ==
  /\ CopiesPending
  /\ QueuedOnce /\ HeldOnce /\ QueuedOrHeld
  /\ PendingSomewhere

(* A copy not pushed yet has not run, and the run in progress is not among  *)
(* the timed out ones.                                                     *)
RunsCounted ==
  /\ \A c \in Copies : outcome[c] \in {"none", "unsent"} => runs[c] = 0
  /\ \A w \in Workers : pc[w] = "run" => orphans[held[w].copy] < runs[held[w].copy]

(* A dead-letter entry of a job is written by the worker about to persist  *)
(* it, or belongs to a job that is over.                                   *)
DeadLetterStage ==
  \A c \in Copies :
    /\ redisDlq[c] <= 1 /\ dbDlq[c] <= 1
    /\ redisDlq[c] > 0 =>
         \/ outcome[c] = "dead"
         \/ \E w \in Workers : pc[w] = "persistDlq" /\ held[w].copy = c
    /\ dbDlq[c] > 0 => outcome[c] = "dead"
    /\ outcome[c] = "dead" /\ c \notin Unparseable => runs[c] = MaxAttempts

(* A job has no copy beyond the pushes whose reply was lost, and there are *)
(* no more of these than faults.                                           *)
CopiesMade ==
  /\ \A j \in Jobs : resends[j] <= faults
  /\ \A c \in Copies : outcome[c] # "none" => c[2] <= 1 + resends[c[1]]

Placed ==
  /\ TypeOK
  /\ HeldIsMessage
  /\ OnePlace
  /\ AttemptsCountRuns
  /\ RunsCounted
  /\ DeadLetterStage

IInv == Placed /\ CopiesMade

USE PoisonAssumption, MaxAttemptsAssumption, TimedRunsAssumption, MaxFaultsAssumption

-----------------------------------------------------------------------------
(* LPush adds one message in front of all that wait.                       *)
LEMMA PushFacts ==
  ASSUME queue \in Seq(Message), NEW msg \in Message, LPush(msg)
  PROVE  /\ queue' \in Seq(Message)
         /\ DOMAIN queue = 1..Len(queue)
         /\ DOMAIN queue' = 1..(Len(queue) + 1)
         /\ queue'[1] = msg
         /\ \A i \in DOMAIN queue : queue'[i + 1] = queue[i]
         /\ \A i \in DOMAIN queue' : i # 1 => i - 1 \in DOMAIN queue /\ queue'[i] = queue[i - 1]
BY DEF LPush

(* BRPop takes the last message and leaves the others where they are.      *)
LEMMA PopFacts ==
  ASSUME queue \in Seq(Message), queue # <<>>, BRPop
  PROVE  /\ queue' \in Seq(Message)
         /\ Len(queue) \in DOMAIN queue
         /\ Last \in Message
         /\ DOMAIN queue = 1..Len(queue)
         /\ DOMAIN queue' = 1..(Len(queue) - 1)
         /\ \A i \in DOMAIN queue' : queue'[i] = queue[i]
BY DEF BRPop, Last

(* What the list and the workers hold are messages.                        *)
LEMMA MessageFacts ==
  ASSUME TypeOK, HeldIsMessage
  PROVE  /\ \A i \in DOMAIN queue : /\ queue[i] \in Message
                                   /\ queue[i].copy \in Copies
                                   /\ queue[i].attempts \in 0..MaxAttempts
         /\ \A w \in Workers : pc[w] # "poll" =>
              /\ held[w] \in Message
              /\ held[w].copy \in Copies
              /\ held[w].attempts \in 0..MaxAttempts
<1>1. \A i \in DOMAIN queue : queue[i] \in Message
  BY DEF TypeOK
<1>2. QED BY <1>1 DEF HeldIsMessage, Message

(* A worker that lays its job down as over leaves every other place alone. *)
LEMMA LayDown ==
  ASSUME Placed, NEW w \in Workers, pc[w] # "poll", Goto(w, "poll"),
         NEW result \in Settled, Settle(held[w].copy, result),
         UNCHANGED <<queue, held, runs, orphans>>
  PROVE  /\ outcome' \in [Copies -> {"none", "unsent", "pending", "done", "dead", "lost"}]
         /\ HeldIsMessage' /\ OnePlace' /\ AttemptsCountRuns' /\ RunsCounted'
<1>1. /\ pc' = [pc EXCEPT ![w] = "poll"]
      /\ pc \in [Workers -> {"poll", "run", "backoff", "pushDlq", "persistDlq", "poison"}]
      /\ outcome' = [outcome EXCEPT ![held[w].copy] = result]
      /\ outcome \in [Copies -> {"none", "unsent", "pending", "done", "dead", "lost"}]
      /\ result \in {"done", "dead", "lost"}
  BY DEF Placed, TypeOK, Goto, Settle, Settled
<1>2. /\ held[w].copy \in Copies /\ outcome[held[w].copy] = "pending"
      /\ \A i \in DOMAIN queue : queue[i].copy \in Copies
      /\ \A v \in Workers : pc[v] # "poll" => held[v].copy \in Copies
  BY MessageFacts DEF Placed, OnePlace, CopiesPending
<1>3. HeldIsMessage' BY <1>1 DEF Placed, HeldIsMessage
<1>4. OnePlace'
  <2>1. CopiesPending'
    BY <1>1, <1>2 DEF Placed, OnePlace, CopiesPending, HeldOnce, QueuedOrHeld
  <2>2. QueuedOnce' BY DEF Placed, OnePlace, QueuedOnce
  <2>3. HeldOnce' BY <1>1 DEF Placed, OnePlace, HeldOnce
  <2>4. QueuedOrHeld' BY <1>1 DEF Placed, OnePlace, QueuedOrHeld
  <2>5. PendingSomewhere'
    BY <1>1, <1>2 DEF Placed, OnePlace, PendingSomewhere, IsQueued, IsHeld
  <2>6. QED BY <2>1, <2>2, <2>3, <2>4, <2>5 DEF OnePlace
<1>5. AttemptsCountRuns' BY <1>1 DEF Placed, AttemptsCountRuns
<1>6. RunsCounted' BY <1>1, <1>2 DEF Placed, RunsCounted
<1>7. outcome' \in [Copies -> {"none", "unsent", "pending", "done", "dead", "lost"}]
  BY <1>1
<1>8. QED BY <1>3, <1>4, <1>5, <1>6, <1>7

(* A worker that goes on with its job leaves every copy in its place.      *)
LEMMA GoOn ==
  ASSUME Placed, NEW w \in Workers, pc[w] \notin {"poll", "poison"},
         NEW label \in {"backoff", "pushDlq", "persistDlq"}, Goto(w, label),
         \A v \in Workers : held'[v].copy = held[v].copy,
         \A v \in Workers \ {w} : held'[v] = held[v],
         held'[w] \in Message,
         UNCHANGED <<queue, outcome>>
  PROVE  HeldIsMessage' /\ OnePlace'
<1>1. /\ pc' = [pc EXCEPT ![w] = label]
      /\ pc \in [Workers -> {"poll", "run", "backoff", "pushDlq", "persistDlq", "poison"}]
  BY DEF Placed, TypeOK, Goto
<1>2. \A v \in Workers : pc'[v] # "poll" <=> pc[v] # "poll"
  BY <1>1
<1>3. HeldIsMessage' BY <1>1 DEF Placed, HeldIsMessage
<1>4. CopiesPending' BY <1>2 DEF Placed, OnePlace, CopiesPending
<1>5. QueuedOnce' BY DEF Placed, OnePlace, QueuedOnce
<1>6. HeldOnce' BY <1>2 DEF Placed, OnePlace, HeldOnce
<1>7. QueuedOrHeld' BY <1>2 DEF Placed, OnePlace, QueuedOrHeld
<1>8. PendingSomewhere'
  BY <1>2 DEF Placed, OnePlace, PendingSomewhere, IsQueued, IsHeld
<1>9. QED BY <1>3, <1>4, <1>5, <1>6, <1>7, <1>8 DEF OnePlace

(* The stamp keeps a job's attempts in step with its runs.                 *)
LEMMA Stamped ==
  ASSUME Placed, NEW w \in Workers, pc[w] = "run", StampAndDecide(w),
         UNCHANGED <<queue, runs, outcome>>,
         orphans' \in [Copies -> Nat], \A c \in Copies : orphans'[c] <= runs[c],
         \A v \in Workers \ {w} :
           pc[v] # "poll" => orphans'[held[v].copy] = orphans[held[v].copy]
  PROVE  /\ pc' \in [Workers -> {"poll", "run", "backoff", "pushDlq", "persistDlq", "poison"}]
         /\ held' \in [Workers -> Message \cup {NoMessage}]
         /\ pc'[w] \in {"pushDlq", "backoff"}
         /\ \A v \in Workers \ {w} : pc'[v] = pc[v] /\ held'[v] = held[v]
         /\ HeldIsMessage' /\ OnePlace' /\ AttemptsCountRuns' /\ RunsCounted'
<1> DEFINE msg == [held[w] EXCEPT !.attempts = @ + 1]
<1>0. /\ pc \in [Workers -> {"poll", "run", "backoff", "pushDlq", "persistDlq", "poison"}]
      /\ held \in [Workers -> Message \cup {NoMessage}]
      /\ runs \in [Copies -> Nat]
  BY DEF Placed, TypeOK
<1>1. /\ held[w] \in Message
      /\ held[w].copy \in Copies
      /\ held[w].attempts \in 0..MaxAttempts
      /\ held[w].attempts + 1 = runs[held[w].copy]
      /\ runs[held[w].copy] <= MaxAttempts
  BY MessageFacts DEF Placed, AttemptsCountRuns
<1>2. /\ msg \in Message
      /\ msg.copy = held[w].copy
      /\ msg.attempts = runs[held[w].copy]
  BY <1>0, <1>1 DEF Message
<1>3. /\ held' = [held EXCEPT ![w] = msg]
      /\ pc' = [pc EXCEPT ![w] = IF msg.attempts >= MaxAttempts
                                THEN "pushDlq" ELSE "backoff"]
  BY <1>1, <1>2 DEF StampAndDecide, Goto
<1> HIDE DEF msg
<1>4. /\ pc' \in [Workers -> {"poll", "run", "backoff", "pushDlq", "persistDlq", "poison"}]
      /\ held' \in [Workers -> Message \cup {NoMessage}]
      /\ pc'[w] \in {"pushDlq", "backoff"}
      /\ \A v \in Workers \ {w} : pc'[v] = pc[v] /\ held'[v] = held[v]
  BY <1>0, <1>2, <1>3
<1>5. HeldIsMessage' /\ OnePlace'
  <2>1. /\ \A v \in Workers : held'[v].copy = held[v].copy
        /\ \A v \in Workers \ {w} : held'[v] = held[v]
        /\ held'[w] \in Message
    BY <1>0, <1>2, <1>3
  <2>2. PICK label \in {"backoff", "pushDlq", "persistDlq"} : Goto(w, label)
    BY <1>3 DEF Goto
  <2>3. QED BY <2>1, <2>2, GoOn
<1>6. AttemptsCountRuns'
  BY <1>0, <1>1, <1>2, <1>3 DEF Placed, AttemptsCountRuns
<1>7. RunsCounted'
  BY <1>0, <1>3 DEF Placed, RunsCounted
<1>8. QED BY <1>4, <1>5, <1>6, <1>7

-----------------------------------------------------------------------------
(* The list is empty, every worker polls, and no job has been pushed.      *)
LEMMA InitIInv == Init => IInv
BY DEF Init, IInv, CopiesMade, Copies, Placed, TypeOK, HeldIsMessage, OnePlace, CopiesPending, QueuedOnce, HeldOnce,
       QueuedOrHeld, PendingSomewhere, AttemptsCountRuns, RunsCounted, DeadLetterStage

(* LPush of a copy that is nowhere: the one at the head is the only one.   *)
LEMMA PushedOnce ==
  ASSUME queue \in Seq(Message), QueuedOnce, HeldOnce',
         NEW msg \in Message, LPush(msg), outcome'[msg.copy] = "pending",
         \A i \in DOMAIN queue :
           queue[i].copy # msg.copy /\ outcome'[queue[i].copy] = "pending",
         \A w \in Workers : pc'[w] # "poll" =>
           /\ held'[w].copy # msg.copy /\ outcome'[held'[w].copy] = "pending"
           /\ \A i \in DOMAIN queue : held'[w].copy # queue[i].copy,
         \A c \in Copies \ {msg.copy} :
           outcome'[c] = "pending" => IsQueued(c) \/ IsHeld(c)',
         msg.attempts = runs'[msg.copy], msg.attempts < MaxAttempts,
         \A i \in DOMAIN queue :
           queue[i].attempts = runs'[queue[i].copy] /\ queue[i].attempts < MaxAttempts
  PROVE  /\ queue' \in Seq(Message)
         /\ OnePlace'
         /\ \A i \in DOMAIN queue' :
              queue'[i].attempts = runs'[queue'[i].copy] /\ queue'[i].attempts < MaxAttempts
<1>1. /\ queue' \in Seq(Message)
      /\ queue'[1] = msg
      /\ 1 \in DOMAIN queue'
      /\ \A i \in DOMAIN queue : i + 1 \in DOMAIN queue' /\ queue'[i + 1] = queue[i]
      /\ \A i \in DOMAIN queue' :
           \/ i = 1 /\ queue'[i] = msg
           \/ i \in Int /\ i - 1 \in DOMAIN queue /\ queue'[i] = queue[i - 1]
  BY PushFacts
<1>2. CopiesPending' BY <1>1 DEF CopiesPending
<1>3. QueuedOnce'
  <2> SUFFICES ASSUME NEW i \in DOMAIN queue', NEW k \in DOMAIN queue',
                      queue'[i].copy = queue'[k].copy
               PROVE  i = k
    BY DEF QueuedOnce
  <2>1. ASSUME NEW l \in DOMAIN queue', l # 1 PROVE queue'[l].copy # msg.copy
    BY <1>1, <2>1
  <2>2. CASE i = 1 \/ k = 1 BY <1>1, <2>1, <2>2
  <2>3. CASE i # 1 /\ k # 1
    <3>1. /\ i \in Int /\ i - 1 \in DOMAIN queue /\ queue'[i] = queue[i - 1]
          /\ k \in Int /\ k - 1 \in DOMAIN queue /\ queue'[k] = queue[k - 1]
      BY <1>1, <2>3
    <3>2. queue[i - 1].copy = queue[k - 1].copy BY <3>1
    <3>3. i - 1 = k - 1
      <4> DEFINE a == i - 1
                 b == k - 1
      <4>1. a \in DOMAIN queue /\ b \in DOMAIN queue /\ queue[a].copy = queue[b].copy
        BY <3>1, <3>2
      <4> HIDE DEF a, b
      <4>2. a = b BY <4>1 DEF QueuedOnce
      <4>3. QED BY <4>2 DEF a, b
    <3>4. QED BY <3>1, <3>3
  <2>4. QED BY <2>2, <2>3
<1>4. QueuedOrHeld'
  <2> SUFFICES ASSUME NEW i \in DOMAIN queue', NEW w \in Workers, pc'[w] # "poll"
               PROVE  held'[w].copy # queue'[i].copy
    BY DEF QueuedOrHeld
  <2>1. CASE i = 1 BY <1>1, <2>1
  <2>2. CASE i # 1 BY <1>1, <2>2
  <2>3. QED BY <2>1, <2>2
<1>5. PendingSomewhere'
  <2> SUFFICES ASSUME NEW c \in Copies, outcome'[c] = "pending"
               PROVE  IsQueued(c)' \/ IsHeld(c)'
    BY DEF PendingSomewhere
  <2>1. CASE c = msg.copy BY <1>1, <2>1 DEF IsQueued
  <2>2. CASE c # msg.copy BY <1>1, <2>2 DEF IsQueued
  <2>3. QED BY <2>1, <2>2
<1>6. ASSUME NEW i \in DOMAIN queue'
      PROVE  queue'[i].attempts = runs'[queue'[i].copy] /\ queue'[i].attempts < MaxAttempts
  <2>1. CASE i = 1 BY <1>1, <2>1
  <2>2. CASE i # 1 BY <1>1, <2>2
  <2>3. QED BY <2>1, <2>2
<1>7. QED BY <1>1, <1>2, <1>3, <1>4, <1>5, <1>6 DEF OnePlace

(* BRPop of the last message: its job is left with the places its worker   *)
(* has, the others keep theirs.                                            *)
LEMMA PoppedOnce ==
  ASSUME TypeOK, HeldIsMessage, OnePlace, queue # <<>>, BRPop
  PROVE  /\ queue' \in Seq(Message)
         /\ Last \in Message /\ Last.copy \in Copies /\ outcome[Last.copy] = "pending"
         /\ \E i \in DOMAIN queue : queue[i] = Last
         /\ \A i \in DOMAIN queue' : /\ i \in DOMAIN queue
                                    /\ queue'[i] = queue[i]
                                    /\ queue[i].copy # Last.copy
         /\ \A w \in Workers : pc[w] # "poll" => held[w].copy # Last.copy
         /\ \A c \in Copies : c # Last.copy /\ IsQueued(c) => IsQueued(c)'
<1>1. /\ queue' \in Seq(Message)
      /\ Len(queue) \in DOMAIN queue
      /\ Last \in Message /\ Last = queue[Len(queue)]
      /\ \A i \in DOMAIN queue' : /\ i \in DOMAIN queue /\ i # Len(queue)
                                 /\ queue'[i] = queue[i]
      /\ \A i \in DOMAIN queue : i = Len(queue) \/ i \in DOMAIN queue'
  BY PopFacts DEF TypeOK, Last
<1>2. Last.copy \in Copies /\ outcome[Last.copy] = "pending"
  BY <1>1 DEF Message, OnePlace, CopiesPending
<1>3. \A i \in DOMAIN queue' : queue[i].copy # Last.copy
  BY <1>1 DEF OnePlace, QueuedOnce
<1>4. \A w \in Workers : pc[w] # "poll" => held[w].copy # Last.copy
  BY <1>1 DEF OnePlace, QueuedOrHeld
<1>5. ASSUME NEW c \in Copies, c # Last.copy, NEW i \in DOMAIN queue, queue[i].copy = c
      PROVE  IsQueued(c)'
  <2>1. i \in DOMAIN queue' /\ queue'[i].copy = c BY <1>1, <1>5
  <2>2. QED BY <2>1 DEF IsQueued
<1>6. QED BY <1>1, <1>2, <1>3, <1>4, <1>5 DEF IsQueued

(* The next copy of a job is new: it is nowhere, and nothing is known of   *)
(* it.                                                                     *)
LEMMA NewCopy ==
  ASSUME IInv, NEW c \in Copies, outcome[c] # "none", faults < MaxFaults
  PROVE  /\ Another(c) \in Copies /\ Another(c) # c /\ c[1] \in Jobs
         /\ Another(c) \in Unparseable <=> c \in Unparseable
         /\ outcome[Another(c)] = "none" /\ runs[Another(c)] = 0
         /\ orphans[Another(c)] = 0 /\ redisDlq[Another(c)] = 0 /\ dbDlq[Another(c)] = 0
         /\ \A i \in DOMAIN queue : queue[i].copy # Another(c)
         /\ \A w \in Workers : pc[w] # "poll" => held[w].copy # Another(c)
<1>1. /\ resends \in [Jobs -> Nat] /\ faults \in 0..MaxFaults
      /\ redisDlq \in [Copies -> Nat] /\ dbDlq \in [Copies -> Nat]
      /\ runs \in [Copies -> Nat] /\ orphans \in [Copies -> Nat]
  BY DEF IInv, Placed, TypeOK
<1>2. c[1] \in Jobs /\ resends[c[1]] \in Nat /\ resends[c[1]] <= faults
  BY <1>1 DEF Copies, IInv, CopiesMade
<1> DEFINE n == Another(c)
<1>3. n \in Copies /\ n[1] = c[1] /\ n[2] = resends[c[1]] + 2
  BY <1>1, <1>2 DEF Another, Copies
<1>4. n \in Unparseable <=> c \in Unparseable BY <1>3 DEF Unparseable
<1> HIDE DEF n
<1>5. outcome[n] = "none" BY <1>2, <1>3 DEF IInv, CopiesMade
<1>6. runs[n] = 0 BY <1>3, <1>5 DEF IInv, Placed, RunsCounted
<1>7. orphans[n] = 0 BY <1>1, <1>3, <1>6 DEF IInv, Placed, AttemptsCountRuns
<1>8. \A i \in DOMAIN queue : queue[i].copy # n
  BY <1>5 DEF IInv, Placed, OnePlace, CopiesPending
<1>9. \A w \in Workers : pc[w] # "poll" => held[w].copy # n
  BY <1>5 DEF IInv, Placed, OnePlace, CopiesPending
<1>10. redisDlq[n] = 0 /\ dbDlq[n] = 0
  BY <1>1, <1>3, <1>5, <1>9 DEF IInv, Placed, DeadLetterStage
<1>11. QED BY <1>2, <1>3, <1>4, <1>5, <1>6, <1>7, <1>8, <1>9, <1>10 DEF n

(* What a lost reply leaves behind: the new copy is as far as the old one. *)
LEMMA ReplyLostFacts ==
  ASSUME IInv, NEW c \in Copies, outcome[c] # "none", ReplyLost(c),
         NEW result \in {"pending", "dead"}, NEW rest \in {"pending", "unsent"},
         Becomes(c, result, rest)
  PROVE  /\ Another(c) \in Copies /\ Another(c) # c
         /\ runs' \in [Copies -> Nat] /\ runs'[Another(c)] = runs[c]
         /\ \A k \in Copies : k # Another(c) => runs'[k] = runs[k]
         /\ outcome' \in [Copies -> {"none", "unsent", "pending", "done", "dead", "lost"}]
         /\ outcome'[c] = result /\ outcome'[Another(c)] = rest
         /\ \A k \in Copies : k # c /\ k # Another(c) => outcome'[k] = outcome[k]
         /\ faults' \in 0..MaxFaults /\ resends' \in [Jobs -> Nat]
<1>1. /\ resends \in [Jobs -> Nat] /\ faults \in 0..MaxFaults /\ runs \in [Copies -> Nat]
      /\ outcome \in [Copies -> {"none", "unsent", "pending", "done", "dead", "lost"}]
  BY DEF IInv, Placed, TypeOK
<1>2. faults < MaxFaults /\ faults' = faults + 1 BY DEF ReplyLost
<1>3. PICK n \in Copies : n = Another(c) /\ n # c /\ c[1] \in Jobs BY <1>2, NewCopy
<1>4. /\ runs' = [runs EXCEPT ![n] = runs[c]]
      /\ outcome' = [outcome EXCEPT ![c] = result, ![n] = rest]
      /\ resends' = [resends EXCEPT ![c[1]] = @ + 1]
  BY <1>3 DEF ReplyLost, Becomes, Add
<1>5. QED BY <1>1, <1>2, <1>3, <1>4

(* A dead letter that was pushed without the worker's knowing is of the    *)
(* copy that was held; the worker goes on with the new one.                *)
LEMMA DeadReplyLost ==
  ASSUME IInv, NEW w \in Workers, pc[w] \in {"pushDlq", "poison"},
         ReplyLost(held[w].copy), Becomes(held[w].copy, "dead", "pending"),
         redisDlq' = Add(redisDlq, held[w].copy),
         held' = [held EXCEPT ![w].copy = Another(@)],
         UNCHANGED <<queue, pc, orphans, dbDlq>>
  PROVE  Placed'
<1> DEFINE c == held[w].copy
           n == Another(c)
<1>0. /\ TypeOK /\ HeldIsMessage /\ OnePlace
      /\ AttemptsCountRuns /\ RunsCounted /\ DeadLetterStage
      /\ CopiesPending /\ QueuedOnce /\ HeldOnce /\ QueuedOrHeld /\ PendingSomewhere
  BY DEF IInv, Placed, OnePlace
<1>1. /\ held[w] \in Message /\ c \in Copies /\ outcome[c] = "pending" /\ faults < MaxFaults
      /\ held[w].attempts \in 0..MaxAttempts
      /\ \A i \in DOMAIN queue : queue[i].copy \in Copies
      /\ \A v \in Workers : pc[v] # "poll" => held[v] \in Message /\ held[v].copy \in Copies
  BY <1>0, MessageFacts DEF CopiesPending, ReplyLost
<1> HIDE DEF c
<1>2. /\ n \in Copies /\ n # c /\ (n \in Unparseable <=> c \in Unparseable)
      /\ outcome[n] = "none" /\ orphans[n] = 0 /\ redisDlq[n] = 0 /\ dbDlq[n] = 0
      /\ \A i \in DOMAIN queue : queue[i].copy # n
      /\ \A v \in Workers : pc[v] # "poll" => held[v].copy # n
  BY <1>1, NewCopy
<1>3. /\ runs' \in [Copies -> Nat] /\ runs'[n] = runs[c]
      /\ \A k \in Copies : k # n => runs'[k] = runs[k]
      /\ outcome' \in [Copies -> {"none", "unsent", "pending", "done", "dead", "lost"}]
      /\ outcome'[c] = "dead" /\ outcome'[n] = "pending"
      /\ \A k \in Copies : k # c /\ k # n => outcome'[k] = outcome[k]
      /\ faults' \in 0..MaxFaults /\ resends' \in [Jobs -> Nat]
  BY <1>1, ReplyLostFacts DEF c
<1> HIDE DEF n
<1>4. /\ pc' = pc /\ queue' = queue /\ orphans' = orphans /\ dbDlq' = dbDlq
      /\ held' \in [Workers -> Message \cup {NoMessage}]
      /\ held'[w] \in Message /\ held'[w].copy = n /\ held'[w].attempts = held[w].attempts
      /\ \A v \in Workers \ {w} : held'[v] = held[v]
      /\ redisDlq' \in [Copies -> Nat] /\ redisDlq'[c] = redisDlq[c] + 1
      /\ \A k \in Copies : k # c => redisDlq'[k] = redisDlq[k]
  <2>1. [held[w] EXCEPT !.copy = n] \in Message BY <1>1, <1>2 DEF Message
  <2>2. held' = [held EXCEPT ![w] = [held[w] EXCEPT !.copy = n]] BY DEF n, c
  <2>3. redisDlq' = [redisDlq EXCEPT ![c] = @ + 1] BY DEF Add, c
  <2>4. [held[w] EXCEPT !.copy = n].copy = n
        /\ [held[w] EXCEPT !.copy = n].attempts = held[w].attempts
    BY <1>1 DEF Message
  <2>5. /\ redisDlq' \in [Copies -> Nat] /\ redisDlq'[c] = redisDlq[c] + 1
        /\ \A k \in Copies : k # c => redisDlq'[k] = redisDlq[k]
    BY <1>0, <1>1, <2>3 DEF TypeOK
  <2>6. held \in [Workers -> Message \cup {NoMessage}] BY <1>0 DEF TypeOK
  <2> DEFINE m == [held[w] EXCEPT !.copy = n]
  <2>7. m \in Message /\ m.copy = n /\ m.attempts = held[w].attempts
        /\ held' = [held EXCEPT ![w] = m]
    BY <2>1, <2>2, <2>4
  <2> HIDE DEF m
  <2>8. /\ held' \in [Workers -> Message \cup {NoMessage}]
        /\ held'[w] \in Message /\ held'[w].copy = n /\ held'[w].attempts = held[w].attempts
        /\ \A v \in Workers \ {w} : held'[v] = held[v]
    BY <2>6, <2>7
  <2>9. QED BY <2>5, <2>8
<1>5. \A v \in Workers \ {w} : pc[v] # "poll" => held[v].copy # c
  BY <1>0 DEF HeldOnce, c
<1>6. TypeOK' BY <1>0, <1>3, <1>4 DEF TypeOK
<1>7. HeldIsMessage'
  <2>1. pc[w] = "poison" <=> c \in Unparseable BY <1>0 DEF HeldIsMessage, c
  <2>2. QED BY <1>0, <1>2, <1>4, <2>1 DEF HeldIsMessage
<1>8. \A i \in DOMAIN queue : queue[i].copy # c BY <1>0 DEF QueuedOrHeld, c
<1>9. OnePlace'
  <2>1. CopiesPending' BY <1>0, <1>1, <1>2, <1>3, <1>4, <1>5, <1>8 DEF CopiesPending
  <2>2. QueuedOnce' BY <1>0, <1>4 DEF QueuedOnce
  <2>3. HeldOnce' BY <1>0, <1>2, <1>4 DEF HeldOnce
  <2>4. QueuedOrHeld' BY <1>0, <1>2, <1>4 DEF QueuedOrHeld
  <2>5. PendingSomewhere'
    <3> SUFFICES ASSUME NEW k \in Copies, outcome'[k] = "pending"
                 PROVE  IsQueued(k)' \/ IsHeld(k)'
      BY DEF PendingSomewhere
    <3>1. CASE k = n BY <1>4, <3>1 DEF IsHeld
    <3>2. CASE k # n
      <4>1. k # c /\ outcome[k] = "pending" BY <1>3, <3>2
      <4>2. CASE IsQueued(k) BY <1>4, <4>2 DEF IsQueued
      <4>3. CASE IsHeld(k)
        <5>1. PICK v \in Workers : pc[v] # "poll" /\ held[v].copy = k BY <4>3 DEF IsHeld
        <5>2. v # w BY <4>1, <5>1 DEF c
        <5>3. QED BY <1>4, <5>1, <5>2 DEF IsHeld
      <4>4. QED BY <1>0, <4>1, <4>2, <4>3 DEF PendingSomewhere
    <3>3. QED BY <3>1, <3>2
  <2>6. QED BY <2>1, <2>2, <2>3, <2>4, <2>5 DEF OnePlace
<1>10. AttemptsCountRuns'
  <2>1. \A i \in DOMAIN queue' :
          queue'[i].attempts = runs'[queue'[i].copy] /\ queue'[i].attempts < MaxAttempts
    BY <1>0, <1>1, <1>2, <1>3, <1>4 DEF AttemptsCountRuns
  <2>2. ASSUME NEW v \in Workers
        PROVE  /\ pc'[v] = "run" => held'[v].attempts + 1 = runs'[held'[v].copy]
               /\ pc'[v] = "backoff" => /\ held'[v].attempts = runs'[held'[v].copy]
                                        /\ held'[v].attempts < MaxAttempts
               /\ pc'[v] \in {"pushDlq", "persistDlq"} =>
                    /\ held'[v].attempts = runs'[held'[v].copy]
                    /\ held'[v].attempts = MaxAttempts
    <3>1. CASE v = w BY <1>0, <1>3, <1>4, <3>1 DEF AttemptsCountRuns, c
    <3>2. CASE v # w
      <4>1. pc[v] # "poll" => runs'[held[v].copy] = runs[held[v].copy]
        BY <1>1, <1>2, <1>3
      <4>2. QED BY <1>0, <1>4, <3>2, <4>1 DEF AttemptsCountRuns
    <3>3. QED BY <3>1, <3>2
  <2>3. ASSUME NEW k \in Copies PROVE runs'[k] <= MaxAttempts /\ orphans'[k] <= runs'[k]
    <3>1. /\ runs[k] <= MaxAttempts /\ orphans[k] <= runs[k]
          /\ runs[c] <= MaxAttempts /\ runs[c] \in Nat
      BY <1>0, <1>1 DEF AttemptsCountRuns, TypeOK
    <3>2. QED BY <1>2, <1>3, <1>4, <3>1
  <2>4. QED BY <2>1, <2>2, <2>3 DEF AttemptsCountRuns
<1>11. RunsCounted'
  <2>1. \A k \in Copies : outcome'[k] \in {"none", "unsent"} => runs'[k] = 0
    BY <1>0, <1>2, <1>3 DEF RunsCounted
  <2>2. \A v \in Workers : pc[v] = "run" => v # w /\ runs'[held[v].copy] = runs[held[v].copy]
    BY <1>1, <1>2, <1>3
  <2>3. QED BY <1>0, <1>4, <2>1, <2>2 DEF RunsCounted
<1>12. DeadLetterStage'
  <2>1. pc[w] = "poison" => c \in Unparseable BY <1>0 DEF HeldIsMessage, c
  <2>2. pc[w] = "pushDlq" => runs[c] = MaxAttempts BY <1>0 DEF AttemptsCountRuns, c
  <2>3. redisDlq[c] = 0 /\ dbDlq[c] = 0
    <3>1. redisDlq[c] \in Nat /\ dbDlq[c] \in Nat BY <1>0, <1>1 DEF TypeOK
    <3>2. \A v \in Workers : pc[v] = "persistDlq" => held[v].copy # c BY <1>5
    <3>3. QED BY <1>0, <1>1, <3>1, <3>2 DEF DeadLetterStage
  <2>4. ASSUME NEW k \in Copies
        PROVE  /\ redisDlq'[k] <= 1 /\ dbDlq'[k] <= 1
               /\ redisDlq'[k] > 0 =>
                    \/ outcome'[k] = "dead"
                    \/ \E v \in Workers : pc'[v] = "persistDlq" /\ held'[v].copy = k
               /\ dbDlq'[k] > 0 => outcome'[k] = "dead"
               /\ outcome'[k] = "dead" /\ k \notin Unparseable => runs'[k] = MaxAttempts
    <3>1. CASE k = c BY <1>2, <1>3, <1>4, <2>1, <2>2, <2>3, <3>1
    <3>2. CASE k = n BY <1>2, <1>3, <1>4, <3>2
    <3>3. CASE k # c /\ k # n
      <4>1. outcome'[k] = outcome[k] /\ runs'[k] = runs[k] /\ redisDlq'[k] = redisDlq[k]
        BY <1>3, <1>4, <3>3
      <4>2. \A v \in Workers : pc[v] = "persistDlq" => pc'[v] = pc[v] /\ held'[v] = held[v]
        BY <1>4
      <4>3. QED BY <1>0, <1>4, <4>1, <4>2 DEF DeadLetterStage
    <3>4. QED BY <3>1, <3>2, <3>3
  <2>5. QED BY <2>4 DEF DeadLetterStage
<1>13. QED BY <1>6, <1>7, <1>9, <1>10, <1>11, <1>12 DEF Placed

-----------------------------------------------------------------------------
(* Every step of a producer, a worker, a timed out run or a fault keeps    *)
(* the copies, the counts and the dead letters as Placed has them.         *)
LEMMA NextPlaced == IInv /\ [Next]_vars => Placed'
<1> SUFFICES ASSUME IInv, [Next]_vars
             PROVE  Placed'
  OBVIOUS
<1> USE DEF Goto, Settle, Add, deadLetters, disturbances
<1>p. Placed BY DEF IInv
<1>0. /\ TypeOK /\ HeldIsMessage /\ OnePlace
      /\ AttemptsCountRuns /\ RunsCounted /\ DeadLetterStage
      /\ CopiesPending /\ QueuedOnce /\ HeldOnce /\ QueuedOrHeld /\ PendingSomewhere
  BY <1>p DEF Placed, OnePlace
<1>msgs. /\ \A i \in DOMAIN queue : queue[i].copy \in Copies
      /\ \A w \in Workers : pc[w] # "poll" => held[w] \in Message /\ held[w].copy \in Copies
  BY <1>0, MessageFacts
<1>1. ASSUME NEW c \in Copies, Produce(c) PROVE Placed'
  <2> DEFINE msg == [copy |-> c, attempts |-> 0]
  <2>1. /\ msg \in Message /\ msg.copy = c /\ msg.attempts = 0 /\ LPush(msg)
    BY <1>1 DEF Message, Produce
  <2> HIDE DEF msg
  <2>2. /\ outcome[c] = "unsent" /\ outcome' = [outcome EXCEPT ![c] = "pending"]
        /\ outcome \in [Copies -> {"none", "unsent", "pending", "done", "dead", "lost"}]
        /\ UNCHANGED <<pc, held, runs, orphans, redisDlq, dbDlq, resends, faults>>
    BY <1>0, <1>1 DEF Produce, TypeOK
  <2>3. /\ \A i \in DOMAIN queue : queue[i].copy # c
        /\ \A w \in Workers : pc[w] # "poll" => held[w].copy # c
    BY <1>0, <2>2 DEF CopiesPending
  <2>4. runs[c] = 0 BY <1>0, <2>2 DEF RunsCounted
  <2>5. /\ queue' \in Seq(Message) /\ OnePlace'
        /\ \A i \in DOMAIN queue' :
             queue'[i].attempts = runs'[queue'[i].copy] /\ queue'[i].attempts < MaxAttempts
    <3>1. HeldOnce' BY <1>0, <2>2 DEF HeldOnce
    <3>2. \A k \in Copies \ {msg.copy} :
            outcome'[k] = "pending" => IsQueued(k) \/ IsHeld(k)'
      BY <1>0, <2>1, <2>2 DEF PendingSomewhere, IsHeld
    <3>3. outcome'[msg.copy] = "pending" /\ msg.attempts = runs'[msg.copy]
          /\ msg.attempts < MaxAttempts
      BY <2>1, <2>2, <2>4
    <3>4. /\ \A i \in DOMAIN queue :
               queue[i].copy # msg.copy /\ outcome'[queue[i].copy] = "pending"
          /\ \A w \in Workers : pc'[w] # "poll" =>
               /\ held'[w].copy # msg.copy /\ outcome'[held'[w].copy] = "pending"
               /\ \A i \in DOMAIN queue : held'[w].copy # queue[i].copy
      BY <1>0, <1>msgs, <2>1, <2>2, <2>3 DEF CopiesPending, QueuedOrHeld
    <3>5. \A i \in DOMAIN queue :
            queue[i].attempts = runs'[queue[i].copy] /\ queue[i].attempts < MaxAttempts
      BY <1>0, <2>2 DEF AttemptsCountRuns
    <3>6. queue \in Seq(Message) BY <1>0 DEF TypeOK
    <3>7. QED BY <1>0, <2>1, <3>1, <3>2, <3>3, <3>4, <3>5, <3>6, PushedOnce
  <2>6. TypeOK' BY <1>0, <1>1, <2>5 DEF Produce, TypeOK
  <2>7. HeldIsMessage' BY <1>0, <2>2 DEF HeldIsMessage
  <2>8. AttemptsCountRuns' BY <1>0, <2>2, <2>5 DEF AttemptsCountRuns
  <2>9. RunsCounted' BY <1>0, <2>2 DEF RunsCounted
  <2>10. DeadLetterStage' BY <1>0, <2>2 DEF DeadLetterStage
  <2>11. QED BY <2>5, <2>6, <2>7, <2>8, <2>9, <2>10 DEF Placed
<1>2. ASSUME NEW w \in Workers, Pop(w) PROVE Placed'
  <2>1. /\ pc[w] = "poll" /\ queue # <<>> /\ BRPop
        /\ held' = [held EXCEPT ![w] = Last]
        /\ pc' = [pc EXCEPT ![w] = IF Last.copy \in Unparseable THEN "poison" ELSE "run"]
        /\ runs' = IF Last.copy \in Unparseable THEN runs ELSE Add(runs, Last.copy)
        /\ UNCHANGED <<orphans, outcome, redisDlq, dbDlq, resends, faults>>
    BY <1>2 DEF Pop
  <2>2. /\ queue' \in Seq(Message)
        /\ Last \in Message /\ Last.copy \in Copies /\ outcome[Last.copy] = "pending"
        /\ \E i \in DOMAIN queue : queue[i] = Last
        /\ \A i \in DOMAIN queue' : /\ i \in DOMAIN queue
                                   /\ queue'[i] = queue[i]
                                   /\ queue[i].copy # Last.copy
        /\ \A v \in Workers : pc[v] # "poll" => held[v].copy # Last.copy
        /\ \A c \in Copies : c # Last.copy /\ IsQueued(c) => IsQueued(c)'
    BY <1>0, <2>1, PoppedOnce
  <2>3. /\ pc \in [Workers -> {"poll", "run", "backoff", "pushDlq", "persistDlq", "poison"}]
        /\ held \in [Workers -> Message \cup {NoMessage}]
        /\ runs \in [Copies -> Nat] /\ orphans \in [Copies -> Nat]
    BY <1>0 DEF TypeOK
  <2>4. /\ pc'[w] # "poll" /\ held'[w] = Last
        /\ \A v \in Workers \ {w} : pc'[v] = pc[v] /\ held'[v] = held[v]
    BY <2>1, <2>3
  <2>5. TypeOK' BY <1>0, <2>1, <2>2 DEF TypeOK
  <2>6. HeldIsMessage'
    BY <1>0, <2>1, <2>2, <2>3 DEF HeldIsMessage
  <2>7. OnePlace'
    <3>1. CopiesPending' BY <1>0, <2>1, <2>2, <2>4 DEF CopiesPending
    <3>2. QueuedOnce' BY <1>0, <2>2 DEF QueuedOnce
    <3>3. HeldOnce' BY <1>0, <2>2, <2>4 DEF HeldOnce
    <3>4. QueuedOrHeld' BY <1>0, <2>2, <2>4 DEF QueuedOrHeld
    <3>5. PendingSomewhere'
      <4> SUFFICES ASSUME NEW c \in Copies, outcome[c] = "pending"
                   PROVE  IsQueued(c)' \/ IsHeld(c)'
        BY <2>1 DEF PendingSomewhere
      <4>1. CASE c = Last.copy BY <2>4, <4>1 DEF IsHeld
      <4>2. CASE c # Last.copy /\ IsQueued(c) BY <2>2, <4>2
      <4>3. CASE IsHeld(c) BY <2>1, <2>4, <4>3 DEF IsHeld
      <4>4. QED BY <1>0, <4>1, <4>2, <4>3 DEF PendingSomewhere
    <3>6. QED BY <3>1, <3>2, <3>3, <3>4, <3>5 DEF OnePlace
  <2>8. Last.attempts = runs[Last.copy] /\ Last.attempts < MaxAttempts
    BY <1>0, <2>2 DEF AttemptsCountRuns
  <2>9. \A c \in Copies : c # Last.copy \/ Last.copy \in Unparseable => runs'[c] = runs[c]
    BY <2>1, <2>3
  <2>10. Last.copy \notin Unparseable => runs'[Last.copy] = runs[Last.copy] + 1
    BY <2>1, <2>2, <2>3
  <2>11. AttemptsCountRuns'
    <3>1. \A i \in DOMAIN queue' :
            queue'[i].attempts = runs'[queue'[i].copy] /\ queue'[i].attempts < MaxAttempts
      BY <1>0, <1>msgs, <2>2, <2>9 DEF AttemptsCountRuns
    <3>2. ASSUME NEW v \in Workers
          PROVE  /\ pc'[v] = "run" => held'[v].attempts + 1 = runs'[held'[v].copy]
                 /\ pc'[v] = "backoff" => /\ held'[v].attempts = runs'[held'[v].copy]
                                          /\ held'[v].attempts < MaxAttempts
                 /\ pc'[v] \in {"pushDlq", "persistDlq"} =>
                      /\ held'[v].attempts = runs'[held'[v].copy]
                      /\ held'[v].attempts = MaxAttempts
      <4>1. CASE v = w
        BY <2>1, <2>2, <2>3, <2>4, <2>8, <2>10, <4>1
      <4>2. CASE v # w
        <5>1. pc'[v] = pc[v] /\ held'[v] = held[v] BY <2>4, <4>2
        <5>2. pc[v] # "poll" => runs'[held[v].copy] = runs[held[v].copy]
          BY <1>msgs, <2>2, <2>9
        <5>3. QED BY <1>0, <5>1, <5>2 DEF AttemptsCountRuns
      <4>3. QED BY <4>1, <4>2
    <3>3. ASSUME NEW c \in Copies PROVE runs'[c] <= MaxAttempts /\ orphans'[c] <= runs'[c]
      <4>1. runs[c] \in Nat /\ orphans[c] \in Nat /\ orphans'[c] = orphans[c]
            /\ runs[c] <= MaxAttempts /\ orphans[c] <= runs[c]
        BY <1>0, <2>1, <2>3 DEF AttemptsCountRuns
      <4>2. CASE c = Last.copy /\ Last.copy \notin Unparseable
        BY <2>8, <2>10, <4>1, <4>2
      <4>3. CASE ~ (c = Last.copy /\ Last.copy \notin Unparseable)
        BY <2>9, <4>1, <4>3
      <4>4. QED BY <4>2, <4>3
    <3>4. QED BY <3>1, <3>2, <3>3 DEF AttemptsCountRuns
  <2>12. RunsCounted'
    <3>1. \A c \in Copies : outcome'[c] \in {"none", "unsent"} => runs'[c] = 0
      BY <1>0, <2>1, <2>2, <2>9 DEF RunsCounted
    <3>2. ASSUME NEW v \in Workers, pc'[v] = "run"
          PROVE  orphans'[held'[v].copy] < runs'[held'[v].copy]
      <4>1. CASE v = w
        <5>1. orphans[Last.copy] <= runs[Last.copy] /\ Last.copy \notin Unparseable
          BY <1>0, <2>1, <2>2, <2>3, <3>2, <4>1 DEF AttemptsCountRuns
        <5>2. orphans[Last.copy] \in Nat /\ runs[Last.copy] \in Nat BY <2>2, <2>3
        <5>3. QED BY <2>1, <2>4, <2>10, <4>1, <5>1, <5>2
      <4>2. CASE v # w
        BY <1>0, <1>msgs, <2>1, <2>2, <2>4, <2>9, <3>2, <4>2 DEF RunsCounted
      <4>3. QED BY <4>1, <4>2
    <3>3. QED BY <3>1, <3>2 DEF RunsCounted
  <2>13. DeadLetterStage'
    <3> SUFFICES ASSUME NEW c \in Copies
                 PROVE  /\ redisDlq[c] <= 1 /\ dbDlq[c] <= 1
                        /\ redisDlq[c] > 0 =>
                             \/ outcome[c] = "dead"
                             \/ \E v \in Workers : pc'[v] = "persistDlq" /\ held'[v].copy = c
                        /\ dbDlq[c] > 0 => outcome[c] = "dead"
                        /\ outcome[c] = "dead" /\ c \notin Unparseable => runs'[c] = MaxAttempts
      BY <2>1 DEF DeadLetterStage
    <3>1. outcome[c] = "dead" => runs'[c] = runs[c] BY <2>2, <2>9
    <3>2. \A v \in Workers : pc[v] = "persistDlq" => pc'[v] = pc[v] /\ held'[v] = held[v]
      BY <2>1, <2>4
    <3>3. QED BY <1>0, <3>1, <3>2 DEF DeadLetterStage
  <2>14. QED BY <2>5, <2>6, <2>7, <2>11, <2>12, <2>13 DEF Placed
<1>3. ASSUME NEW w \in Workers, PopReplyLost(w) PROVE Placed'
  <2>1. /\ queue # <<>> /\ BRPop /\ outcome' = [outcome EXCEPT ![Last.copy] = "lost"]
        /\ UNCHANGED <<pc, held, runs, orphans, redisDlq, dbDlq>>
    BY <1>3 DEF PopReplyLost
  <2>2. /\ queue' \in Seq(Message)
        /\ Last \in Message /\ Last.copy \in Copies /\ outcome[Last.copy] = "pending"
        /\ \A i \in DOMAIN queue' : /\ i \in DOMAIN queue
                                   /\ queue'[i] = queue[i]
                                   /\ queue[i].copy # Last.copy
        /\ \A v \in Workers : pc[v] # "poll" => held[v].copy # Last.copy
        /\ \A c \in Copies : c # Last.copy /\ IsQueued(c) => IsQueued(c)'
    BY <1>0, <2>1, PoppedOnce
  <2>3. /\ outcome \in [Copies -> {"none", "unsent", "pending", "done", "dead", "lost"}]
        /\ outcome'[Last.copy] = "lost"
        /\ \A c \in Copies : c # Last.copy => outcome'[c] = outcome[c]
    BY <1>0, <2>1, <2>2 DEF TypeOK
  <2>4. TypeOK' BY <1>0, <1>3, <2>1, <2>2 DEF PopReplyLost, TypeOK
  <2>5. HeldIsMessage' BY <1>0, <2>1 DEF HeldIsMessage
  <2>6. OnePlace'
    <3>1. CopiesPending' BY <1>0, <1>msgs, <2>1, <2>2, <2>3 DEF CopiesPending
    <3>2. QueuedOnce' BY <1>0, <2>2 DEF QueuedOnce
    <3>3. HeldOnce' BY <1>0, <2>1 DEF HeldOnce
    <3>4. QueuedOrHeld' BY <1>0, <2>1, <2>2 DEF QueuedOrHeld
    <3>5. PendingSomewhere' BY <1>0, <2>1, <2>2, <2>3 DEF PendingSomewhere, IsHeld
    <3>6. QED BY <3>1, <3>2, <3>3, <3>4, <3>5 DEF OnePlace
  <2>7. AttemptsCountRuns' BY <1>0, <2>1, <2>2 DEF AttemptsCountRuns
  <2>8. RunsCounted' BY <1>0, <2>1, <2>3 DEF RunsCounted
  <2>9. DeadLetterStage' BY <1>0, <2>1, <2>2, <2>3 DEF DeadLetterStage
  <2>10. QED BY <2>4, <2>5, <2>6, <2>7, <2>8, <2>9 DEF Placed
<1>over. ASSUME NEW w \in Workers, pc[w] # "poll", pc'[w] = "poll", NEW result \in Settled,
             Goto(w, "poll"), Settle(held[w].copy, result),
             UNCHANGED <<queue, held, runs, orphans>>,
             redisDlq' \in [Copies -> Nat], dbDlq' \in [Copies -> Nat],
             faults' \in 0..MaxFaults, resends' = resends,
             \A c \in Copies : c # held[w].copy =>
               redisDlq'[c] = redisDlq[c] /\ dbDlq'[c] = dbDlq[c],
             redisDlq'[held[w].copy] <= 1, dbDlq'[held[w].copy] <= 1,
             redisDlq'[held[w].copy] + dbDlq'[held[w].copy] > 0 => result = "dead",
             result = "dead" /\ held[w].copy \notin Unparseable => runs[held[w].copy] = MaxAttempts
      PROVE  Placed'
  <2>1. /\ outcome' \in [Copies -> {"none", "unsent", "pending", "done", "dead", "lost"}]
        /\ HeldIsMessage' /\ OnePlace' /\ AttemptsCountRuns' /\ RunsCounted'
    BY <1>p, <1>over, LayDown
  <2>2. TypeOK' BY <1>0, <1>over, <2>1 DEF TypeOK
  <2>3. DeadLetterStage'
    <3> SUFFICES ASSUME NEW c \in Copies
                 PROVE  /\ redisDlq'[c] <= 1 /\ dbDlq'[c] <= 1
                        /\ redisDlq'[c] > 0 =>
                             \/ outcome'[c] = "dead"
                             \/ \E v \in Workers : pc'[v] = "persistDlq" /\ held'[v].copy = c
                        /\ dbDlq'[c] > 0 => outcome'[c] = "dead"
                        /\ outcome'[c] = "dead" /\ c \notin Unparseable => runs'[c] = MaxAttempts
      BY DEF DeadLetterStage
    <3>1. outcome' = [outcome EXCEPT ![held[w].copy] = result] /\ held' = held /\ runs' = runs
          /\ outcome \in [Copies -> {"none", "unsent", "pending", "done", "dead", "lost"}]
          /\ pc' = [pc EXCEPT ![w] = "poll"]
          /\ pc \in [Workers -> {"poll", "run", "backoff", "pushDlq", "persistDlq", "poison"}]
      BY <1>0, <1>over DEF TypeOK
    <3>2. CASE c = held[w].copy
      <4>1. outcome'[c] = result BY <3>1, <3>2
      <4>2. redisDlq'[c] \in Nat /\ dbDlq'[c] \in Nat BY <1>over
      <4>3. QED BY <1>over, <3>1, <3>2, <4>1, <4>2
    <3>3. CASE c # held[w].copy
      <4>1. outcome'[c] = outcome[c] /\ redisDlq'[c] = redisDlq[c] /\ dbDlq'[c] = dbDlq[c]
        BY <1>over, <3>1, <3>3
      <4>2. \A v \in Workers : held[v].copy = c /\ pc[v] = "persistDlq" => pc'[v] = "persistDlq"
        BY <3>1, <3>3
      <4>3. QED BY <1>0, <3>1, <4>1, <4>2 DEF DeadLetterStage
    <3>4. QED BY <3>2, <3>3
  <2>4. QED BY <2>1, <2>2, <2>3 DEF Placed
<1>types. /\ redisDlq \in [Copies -> Nat] /\ dbDlq \in [Copies -> Nat]
      /\ faults \in 0..MaxFaults /\ resends \in [Jobs -> Nat]
      /\ pc \in [Workers -> {"poll", "run", "backoff", "pushDlq", "persistDlq", "poison"}]
      /\ held \in [Workers -> Message \cup {NoMessage}]
      /\ runs \in [Copies -> Nat] /\ orphans \in [Copies -> Nat]
      /\ outcome \in [Copies -> {"none", "unsent", "pending", "done", "dead", "lost"}]
  BY <1>0 DEF TypeOK
<1>letters. ASSUME NEW w \in Workers, pc[w] # "poll"
      PROVE  /\ redisDlq[held[w].copy] <= 1 /\ dbDlq[held[w].copy] = 0
             /\ pc[w] # "persistDlq" => redisDlq[held[w].copy] = 0
             /\ pc[w] = "persistDlq" => /\ runs[held[w].copy] = MaxAttempts
                                        /\ held[w].copy \notin Unparseable
  <2>1. held[w].copy \in Copies /\ outcome[held[w].copy] = "pending"
    BY <1>0, <1>msgs, <1>letters DEF CopiesPending
  <2>2. dbDlq[held[w].copy] \in Nat /\ redisDlq[held[w].copy] \in Nat
    BY <1>types, <2>1
  <2>3. dbDlq[held[w].copy] = 0 /\ redisDlq[held[w].copy] <= 1
    BY <1>0, <2>1, <2>2 DEF DeadLetterStage
  <2>4. pc[w] # "persistDlq" => redisDlq[held[w].copy] = 0
    <3>1. \A v \in Workers : pc[v] = "persistDlq" /\ held[v].copy = held[w].copy => v = w
      BY <1>0, <1>letters DEF HeldOnce
    <3>2. QED BY <1>0, <2>1, <2>2, <3>1 DEF DeadLetterStage
  <2>5. pc[w] = "persistDlq" => runs[held[w].copy] = MaxAttempts /\ held[w].copy \notin Unparseable
    BY <1>0 DEF AttemptsCountRuns, HeldIsMessage
  <2>6. QED BY <2>3, <2>4, <2>5
<1>4. ASSUME NEW w \in Workers, RunSucceeds(w) PROVE Placed'
  <2>1. /\ pc[w] = "run" /\ pc'[w] = "poll" /\ Goto(w, "poll")
        /\ Settle(held[w].copy, "done")
        /\ UNCHANGED <<queue, held, runs, orphans, redisDlq, dbDlq, resends, faults>>
    BY <1>4, <1>types DEF RunSucceeds
  <2>2. redisDlq[held[w].copy] = 0 /\ dbDlq[held[w].copy] = 0 BY <2>1, <1>letters
  <2>3. "done" \in Settled BY DEF Settled
  <2>4. /\ redisDlq'[held[w].copy] <= 1 /\ dbDlq'[held[w].copy] <= 1
        /\ ~ (redisDlq'[held[w].copy] + dbDlq'[held[w].copy] > 0)
        /\ redisDlq' \in [Copies -> Nat] /\ dbDlq' \in [Copies -> Nat]
        /\ faults' \in 0..MaxFaults /\ resends' = resends
        /\ \A c \in Copies : redisDlq'[c] = redisDlq[c] /\ dbDlq'[c] = dbDlq[c]
    BY <1>types, <2>1, <2>2
  <2>5. pc[w] # "poll" BY <2>1
  <2>6. QED BY <1>over, <2>1, <2>3, <2>4, <2>5
<1>5. ASSUME NEW w \in Workers, RequeueFails(w) \/ PoisonPushFails(w) PROVE Placed'
  <2>1. pc[w] \in {"backoff", "poison"} /\ pc'[w] = "poll"
    BY <1>5, <1>types DEF RequeueFails, PoisonPushFails
  <2>2. redisDlq[held[w].copy] = 0 /\ dbDlq[held[w].copy] = 0 BY <2>1, <1>letters
  <2>3. "lost" \in Settled BY DEF Settled
  <2>4. QED BY <1>5, <1>over, <1>types, <2>1, <2>2, <2>3 DEF RequeueFails, PoisonPushFails
<1>settle. ASSUME NEW w \in Workers, pc[w] # "poll", Goto(w, "poll"), SettleDead(held[w].copy),
             UNCHANGED <<queue, held, runs, orphans, resends>>, faults' \in 0..MaxFaults,
             \/ redisDlq' = [redisDlq EXCEPT ![held[w].copy] = @ + 1] /\ dbDlq' = dbDlq
                /\ pc[w] = "poison"
             \/ redisDlq' = redisDlq /\ dbDlq' = [dbDlq EXCEPT ![held[w].copy] = @ + 1]
                /\ pc[w] = "persistDlq"
             \/ redisDlq' = redisDlq /\ dbDlq' = dbDlq
      PROVE  Placed'
  <2>1. held[w].copy \in Copies /\ pc'[w] = "poll" BY <1>settle, <1>msgs, <1>types
  <2>2. /\ redisDlq' \in [Copies -> Nat] /\ dbDlq' \in [Copies -> Nat]
        /\ \A c \in Copies : c # held[w].copy =>
             redisDlq'[c] = redisDlq[c] /\ dbDlq'[c] = dbDlq[c]
    BY <1>settle, <1>types, <2>1
  <2>3. /\ redisDlq'[held[w].copy] <= 1 /\ dbDlq'[held[w].copy] <= 1
        /\ redisDlq'[held[w].copy] + dbDlq'[held[w].copy] > 0 /\ held[w].copy \notin Unparseable
             => runs[held[w].copy] = MaxAttempts
    <3>1. pc[w] = "poison" => held[w].copy \in Unparseable
      BY <1>0, <1>settle DEF HeldIsMessage
    <3>2. QED BY <1>settle, <1>types, <1>letters, <2>1, <3>1
  <2>4. PICK result \in Settled :
          /\ Settle(held[w].copy, result)
          /\ result = "dead" <=> redisDlq'[held[w].copy] + dbDlq'[held[w].copy] > 0
    BY <1>settle DEF SettleDead, Settled
  <2>5. QED BY <1>over, <1>settle, <2>1, <2>2, <2>3, <2>4
<1>6. ASSUME NEW w \in Workers, PoisonPush(w) \/ PersistDlq(w) \/ PersistDlqFails(w)
      PROVE  Placed'
  BY <1>6, <1>types, <1>settle DEF PoisonPush, PersistDlq, PersistDlqFails
<1>7. ASSUME NEW w \in Workers, Crash(w) PROVE Placed'
  <2>1. /\ pc[w] # "poll" /\ Goto(w, "poll") /\ SettleDead(held[w].copy)
        /\ UNCHANGED <<queue, held, runs, orphans, redisDlq, dbDlq, resends>>
        /\ faults' \in 0..MaxFaults
    BY <1>7, <1>types DEF Crash
  <2>2. QED BY <1>settle, <2>1
<1>8. ASSUME NEW w \in Workers, RunFails(w) PROVE Placed'
  <2>1. /\ pc[w] = "run" /\ StampAndDecide(w)
        /\ UNCHANGED <<queue, runs, orphans, outcome, redisDlq, dbDlq, resends, faults>>
    BY <1>8 DEF RunFails
  <2>2. \A c \in Copies : orphans[c] <= runs[c] BY <1>0 DEF AttemptsCountRuns
  <2>3. /\ pc' \in [Workers -> {"poll", "run", "backoff", "pushDlq", "persistDlq", "poison"}]
        /\ held' \in [Workers -> Message \cup {NoMessage}]
        /\ \A v \in Workers \ {w} : pc'[v] = pc[v] /\ held'[v] = held[v]
        /\ HeldIsMessage' /\ OnePlace' /\ AttemptsCountRuns' /\ RunsCounted'
    BY <1>types, <2>1, <2>2, Stamped, <1>p
  <2>4. TypeOK' BY <1>0, <2>1, <2>3 DEF TypeOK
  <2>5. DeadLetterStage' BY <1>0, <2>1, <2>3 DEF DeadLetterStage
  <2>6. QED BY <2>3, <2>4, <2>5 DEF Placed
<1>9. ASSUME NEW w \in Workers, RunTimesOut(w) PROVE Placed'
  <2>1. /\ pc[w] = "run" /\ StampAndDecide(w)
        /\ orphans' = [orphans EXCEPT ![held[w].copy] = @ + 1]
        /\ UNCHANGED <<queue, runs, outcome, redisDlq, dbDlq, resends, faults>>
    BY <1>9 DEF RunTimesOut
  <2>2. /\ orphans' \in [Copies -> Nat] /\ \A c \in Copies : orphans'[c] <= runs[c]
        /\ \A v \in Workers \ {w} :
             pc[v] # "poll" => orphans'[held[v].copy] = orphans[held[v].copy]
    <3>1. held[w].copy \in Copies /\ orphans[held[w].copy] < runs[held[w].copy]
      BY <1>0, <1>msgs, <2>1 DEF RunsCounted
    <3>2. \A v \in Workers \ {w} :
            pc[v] # "poll" => held[v].copy \in Copies /\ held[v].copy # held[w].copy
      BY <1>0, <1>msgs, <2>1 DEF HeldOnce
    <3>3. \A c \in Copies : orphans[c] <= runs[c] BY <1>0 DEF AttemptsCountRuns
    <3>4. QED BY <1>types, <2>1, <3>1, <3>2, <3>3
  <2>3. /\ pc' \in [Workers -> {"poll", "run", "backoff", "pushDlq", "persistDlq", "poison"}]
        /\ held' \in [Workers -> Message \cup {NoMessage}]
        /\ \A v \in Workers \ {w} : pc'[v] = pc[v] /\ held'[v] = held[v]
        /\ HeldIsMessage' /\ OnePlace' /\ AttemptsCountRuns' /\ RunsCounted'
    BY <2>1, <2>2, Stamped, <1>p
  <2>4. TypeOK' BY <1>0, <2>1, <2>2, <2>3 DEF TypeOK
  <2>5. DeadLetterStage' BY <1>0, <2>1, <2>3 DEF DeadLetterStage
  <2>6. QED BY <2>3, <2>4, <2>5 DEF Placed
<1>10. ASSUME NEW w \in Workers, Requeue(w) PROVE Placed'
  <2>1. /\ pc[w] = "backoff" /\ LPush(held[w]) /\ pc' = [pc EXCEPT ![w] = "poll"]
        /\ UNCHANGED <<held, runs, orphans, outcome, redisDlq, dbDlq, resends, faults>>
    BY <1>10 DEF Requeue
  <2>2. /\ pc'[w] = "poll" /\ \A v \in Workers \ {w} : pc'[v] = pc[v]
        /\ \A v \in Workers : pc'[v] # "poll" => pc[v] # "poll" /\ v # w
    BY <1>types, <2>1
  <2>3. /\ held[w] \in Message /\ held[w].copy \in Copies
        /\ outcome'[held[w].copy] = "pending"
        /\ held[w].attempts = runs'[held[w].copy] /\ held[w].attempts < MaxAttempts
    BY <1>0, <1>msgs, <2>1 DEF CopiesPending, AttemptsCountRuns
  <2>4. /\ \A i \in DOMAIN queue :
             queue[i].copy # held[w].copy /\ outcome'[queue[i].copy] = "pending"
        /\ \A v \in Workers : pc'[v] # "poll" =>
             /\ held'[v].copy # held[w].copy /\ outcome'[held'[v].copy] = "pending"
             /\ \A i \in DOMAIN queue : held'[v].copy # queue[i].copy
    BY <1>0, <2>1, <2>2 DEF QueuedOrHeld, HeldOnce, CopiesPending
  <2>5. HeldOnce' BY <1>0, <2>1, <2>2 DEF HeldOnce
  <2>6. \A c \in Copies \ {held[w].copy} :
          outcome'[c] = "pending" => IsQueued(c) \/ IsHeld(c)'
    BY <1>0, <2>1, <2>2 DEF PendingSomewhere, IsHeld
  <2>7. /\ queue' \in Seq(Message) /\ OnePlace'
        /\ \A i \in DOMAIN queue' :
             queue'[i].attempts = runs'[queue'[i].copy] /\ queue'[i].attempts < MaxAttempts
    <3>1. \A i \in DOMAIN queue :
            queue[i].attempts = runs'[queue[i].copy] /\ queue[i].attempts < MaxAttempts
      BY <1>0, <2>1 DEF AttemptsCountRuns
    <3>2. queue \in Seq(Message) BY <1>0 DEF TypeOK
    <3>3. QED BY <1>0, <2>1, <2>3, <2>4, <2>5, <2>6, <3>1, <3>2, PushedOnce
  <2>8. TypeOK' BY <1>0, <2>1, <2>7 DEF TypeOK
  <2>9. HeldIsMessage' BY <1>0, <2>1, <2>2 DEF HeldIsMessage
  <2>10. AttemptsCountRuns' BY <1>0, <2>1, <2>2, <2>7 DEF AttemptsCountRuns
  <2>11. RunsCounted' BY <1>0, <2>1, <2>2 DEF RunsCounted
  <2>12. DeadLetterStage' BY <1>0, <2>1, <2>2 DEF DeadLetterStage
  <2>13. QED BY <2>7, <2>8, <2>9, <2>10, <2>11, <2>12 DEF Placed
<1>11. ASSUME NEW w \in Workers, PushDlq(w) \/ PushDlqFails(w) PROVE Placed'
  <2>1. /\ pc[w] = "pushDlq" /\ Goto(w, "persistDlq")
        /\ redisDlq' = [redisDlq EXCEPT ![held[w].copy] = @ + 1] \/ redisDlq' = redisDlq
        /\ UNCHANGED <<queue, held, runs, orphans, outcome, dbDlq, resends, faults>>
    BY <1>11 DEF PushDlq, PushDlqFails
  <2>2. held[w] \in Message /\ held[w].copy \in Copies /\ redisDlq[held[w].copy] = 0
    BY <1>msgs, <1>letters, <2>1
  <2>3. HeldIsMessage' /\ OnePlace' BY <2>1, <2>2, <1>p, GoOn
  <2>4. /\ pc'[w] = "persistDlq" /\ \A v \in Workers \ {w} : pc'[v] = pc[v]
        /\ pc' \in [Workers -> {"poll", "run", "backoff", "pushDlq", "persistDlq", "poison"}]
    BY <1>types, <2>1
  <2>5. TypeOK' BY <1>0, <2>1, <2>2, <2>4, SMTT(20) DEF TypeOK
  <2>6. AttemptsCountRuns' BY <1>0, <2>1, <2>4 DEF AttemptsCountRuns
  <2>7. RunsCounted' BY <1>0, <2>1, <2>4 DEF RunsCounted
  <2>8. DeadLetterStage'
    <3>1. \A c \in Copies : c # held[w].copy => redisDlq'[c] = redisDlq[c]
      BY <1>types, <2>1
    <3>2. redisDlq'[held[w].copy] <= 1 BY <1>types, <2>1, <2>2
    <3>3. \A v \in Workers : pc[v] = "persistDlq" => pc'[v] = "persistDlq"
      BY <2>4
    <3>4. QED BY <1>0, <1>types, <2>1, <2>2, <2>4, <3>1, <3>2, <3>3 DEF DeadLetterStage
  <2>9. QED BY <2>3, <2>5, <2>6, <2>7, <2>8 DEF Placed
<1>12. ASSUME NEW c \in Copies, OrphanEnds(c) PROVE Placed'
  <2>1. /\ orphans[c] > 0 /\ orphans' = [orphans EXCEPT ![c] = @ - 1]
        /\ UNCHANGED <<queue, pc, held, runs, outcome, redisDlq, dbDlq, resends, faults>>
    BY <1>12 DEF OrphanEnds
  <2>2. /\ orphans' \in [Copies -> Nat]
        /\ \A k \in Copies : orphans'[k] <= orphans[k]
    BY <1>types, <2>1
  <2>3. TypeOK' BY <1>0, <2>1, <2>2 DEF TypeOK
  <2>4. HeldIsMessage' BY <1>0, <2>1 DEF HeldIsMessage
  <2>5. OnePlace'
    BY <1>0, <2>1 DEF OnePlace, CopiesPending, QueuedOnce, HeldOnce, QueuedOrHeld,
                      PendingSomewhere, IsQueued, IsHeld
  <2>6. AttemptsCountRuns' BY <1>0, <1>types, <2>1, <2>2 DEF AttemptsCountRuns
  <2>7. RunsCounted' BY <1>0, <1>types, <1>msgs, <2>1, <2>2 DEF RunsCounted
  <2>8. DeadLetterStage' BY <1>0, <2>1 DEF DeadLetterStage
  <2>9. QED BY <2>3, <2>4, <2>5, <2>6, <2>7, <2>8 DEF Placed
<1>13. CASE Quiet \/ UNCHANGED vars
  <2>1. UNCHANGED vars BY <1>13 DEF Quiet
  <2>2. QED
    BY <1>0, <2>1 DEF vars, Placed, TypeOK, HeldIsMessage, OnePlace, CopiesPending,
                      QueuedOnce, HeldOnce, QueuedOrHeld, PendingSomewhere, IsQueued,
                      IsHeld, AttemptsCountRuns, RunsCounted, DeadLetterStage
<1>14. ASSUME NEW c \in Copies, ProduceFails(c) PROVE Placed'
  <2>1. /\ outcome[c] = "unsent" /\ outcome' = [outcome EXCEPT ![c] = "lost"]
        /\ UNCHANGED <<queue, pc, held, runs, orphans, redisDlq, dbDlq, resends, faults>>
    BY <1>14 DEF ProduceFails
  <2>2. TypeOK' BY <1>0, <2>1 DEF TypeOK
  <2>3. HeldIsMessage' BY <1>0, <2>1 DEF HeldIsMessage
  <2>4. OnePlace'
    <3>1. \A k \in Copies : outcome'[k] = "pending" <=> outcome[k] = "pending"
      BY <1>types, <2>1
    <3>2. QED
      BY <1>0, <1>msgs, <2>1, <3>1 DEF OnePlace, CopiesPending, QueuedOnce, HeldOnce,
                                      QueuedOrHeld, PendingSomewhere, IsQueued, IsHeld
  <2>5. AttemptsCountRuns' BY <1>0, <2>1 DEF AttemptsCountRuns
  <2>6. RunsCounted' BY <1>0, <1>types, <2>1 DEF RunsCounted
  <2>7. DeadLetterStage' BY <1>0, <1>types, <2>1 DEF DeadLetterStage
  <2>8. QED BY <2>2, <2>3, <2>4, <2>5, <2>6, <2>7 DEF Placed
<1>15. ASSUME NEW w \in Workers, PushDlqReplyLost(w) \/ PoisonPushReplyLost(w) PROVE Placed'
  BY <1>15, DeadReplyLost DEF PushDlqReplyLost, PoisonPushReplyLost
<1>16. ASSUME NEW c \in Copies, ProduceReplyLost(c) PROVE Placed'
  <2> DEFINE msg == [copy |-> c, attempts |-> 0]
             n == Another(c)
  <2>1. /\ outcome[c] = "unsent" /\ ReplyLost(c) /\ Becomes(c, "pending", "unsent")
        /\ faults < MaxFaults
        /\ UNCHANGED <<pc, held, orphans, redisDlq, dbDlq>>
    BY <1>16 DEF ProduceReplyLost, ReplyLost
  <2>2. /\ n \in Copies /\ n # c /\ (n \in Unparseable <=> c \in Unparseable)
        /\ outcome[n] = "none" /\ runs[n] = 0
        /\ \A i \in DOMAIN queue : queue[i].copy # n
        /\ \A v \in Workers : pc[v] # "poll" => held[v].copy # n
    BY <2>1, NewCopy
  <2>3. /\ runs' \in [Copies -> Nat] /\ runs'[n] = runs[c]
        /\ \A k \in Copies : k # n => runs'[k] = runs[k]
        /\ outcome' \in [Copies -> {"none", "unsent", "pending", "done", "dead", "lost"}]
        /\ outcome'[c] = "pending" /\ outcome'[n] = "unsent"
        /\ \A k \in Copies : k # c /\ k # n => outcome'[k] = outcome[k]
        /\ faults' \in 0..MaxFaults /\ resends' \in [Jobs -> Nat]
    BY <2>1, ReplyLostFacts
  <2>4. /\ msg \in Message /\ msg.copy = c /\ msg.attempts = 0 /\ LPush(msg)
    BY <1>16 DEF Message, ProduceReplyLost
  <2> HIDE DEF msg, n
  <2>5. /\ \A i \in DOMAIN queue : queue[i].copy # c
        /\ \A w \in Workers : pc[w] # "poll" => held[w].copy # c
    BY <1>0, <2>1 DEF CopiesPending
  <2>6. runs[c] = 0 BY <1>0, <2>1 DEF RunsCounted
  <2>7. \A k \in Copies : runs'[k] = runs[k] BY <2>2, <2>3, <2>6
  <2>8. /\ queue' \in Seq(Message) /\ OnePlace'
        /\ \A i \in DOMAIN queue' :
             queue'[i].attempts = runs'[queue'[i].copy] /\ queue'[i].attempts < MaxAttempts
    <3>1. HeldOnce' BY <1>0, <2>1 DEF HeldOnce
    <3>2. \A k \in Copies \ {msg.copy} :
            outcome'[k] = "pending" => IsQueued(k) \/ IsHeld(k)'
      BY <1>0, <2>1, <2>3, <2>4 DEF PendingSomewhere, IsHeld
    <3>3. outcome'[msg.copy] = "pending" /\ msg.attempts = runs'[msg.copy]
          /\ msg.attempts < MaxAttempts
      BY <2>3, <2>4, <2>6, <2>7
    <3>4. /\ \A i \in DOMAIN queue :
               queue[i].copy # msg.copy /\ outcome'[queue[i].copy] = "pending"
          /\ \A w \in Workers : pc'[w] # "poll" =>
               /\ held'[w].copy # msg.copy /\ outcome'[held'[w].copy] = "pending"
               /\ \A i \in DOMAIN queue : held'[w].copy # queue[i].copy
      BY <1>0, <1>msgs, <2>1, <2>2, <2>3, <2>4, <2>5 DEF CopiesPending, QueuedOrHeld
    <3>5. \A i \in DOMAIN queue :
            queue[i].attempts = runs'[queue[i].copy] /\ queue[i].attempts < MaxAttempts
      BY <1>0, <1>msgs, <2>7 DEF AttemptsCountRuns
    <3>6. queue \in Seq(Message) BY <1>0 DEF TypeOK
    <3>7. QED BY <1>0, <2>4, <3>1, <3>2, <3>3, <3>4, <3>5, <3>6, PushedOnce
  <2>9. TypeOK' BY <1>0, <2>1, <2>3, <2>8 DEF TypeOK
  <2>10. HeldIsMessage' BY <1>0, <2>1 DEF HeldIsMessage
  <2>11. AttemptsCountRuns'
    BY <1>0, <1>types, <1>msgs, <2>1, <2>7, <2>8 DEF AttemptsCountRuns
  <2>12. RunsCounted' BY <1>0, <1>msgs, <2>1, <2>2, <2>3, <2>7 DEF RunsCounted
  <2>13. DeadLetterStage' BY <1>0, <2>1, <2>2, <2>3, <2>7 DEF DeadLetterStage
  <2>14. QED BY <2>8, <2>9, <2>10, <2>11, <2>12, <2>13 DEF Placed
<1>17. ASSUME NEW w \in Workers, RequeueReplyLost(w) PROVE Placed'
  <2> DEFINE c == held[w].copy
             n == Another(c)
  <2>1. /\ pc[w] = "backoff" /\ ReplyLost(c) /\ Becomes(c, "pending", "pending")
        /\ LPush(held[w]) /\ held' = [held EXCEPT ![w] = [held[w] EXCEPT !.copy = n]]
        /\ faults < MaxFaults
        /\ UNCHANGED <<pc, orphans, redisDlq, dbDlq>>
    BY <1>17 DEF RequeueReplyLost, ReplyLost
  <2>2. /\ held[w] \in Message /\ c \in Copies /\ outcome[c] = "pending"
        /\ held[w].attempts = runs[c] /\ held[w].attempts < MaxAttempts
        /\ c \notin Unparseable
    BY <1>0, <1>msgs, <2>1 DEF CopiesPending, AttemptsCountRuns, HeldIsMessage
  <2>3. /\ n \in Copies /\ n # c /\ n \notin Unparseable
        /\ outcome[n] = "none" /\ orphans[n] = 0 /\ redisDlq[n] = 0 /\ dbDlq[n] = 0
        /\ \A i \in DOMAIN queue : queue[i].copy # n
        /\ \A v \in Workers : pc[v] # "poll" => held[v].copy # n
    BY <2>1, <2>2, NewCopy
  <2>4. /\ runs' \in [Copies -> Nat] /\ runs'[n] = runs[c]
        /\ \A k \in Copies : k # n => runs'[k] = runs[k]
        /\ outcome' \in [Copies -> {"none", "unsent", "pending", "done", "dead", "lost"}]
        /\ outcome'[c] = "pending" /\ outcome'[n] = "pending"
        /\ \A k \in Copies : k # c /\ k # n => outcome'[k] = outcome[k]
        /\ faults' \in 0..MaxFaults /\ resends' \in [Jobs -> Nat]
    BY <2>1, <2>2, ReplyLostFacts
  <2> HIDE DEF c, n
  <2>5. /\ held' \in [Workers -> Message \cup {NoMessage}]
        /\ held'[w] \in Message /\ held'[w].copy = n /\ held'[w].attempts = held[w].attempts
        /\ \A v \in Workers \ {w} : held'[v] = held[v]
    <3>1. /\ [held[w] EXCEPT !.copy = n] \in Message
          /\ [held[w] EXCEPT !.copy = n].copy = n
          /\ [held[w] EXCEPT !.copy = n].attempts = held[w].attempts
      BY <2>2, <2>3 DEF Message
    <3>2. QED BY <1>types, <2>1, <3>1
  <2>6. /\ \A v \in Workers \ {w} : pc[v] # "poll" => held[v].copy # c
        /\ \A i \in DOMAIN queue : queue[i].copy # c
    BY <1>0, <2>1 DEF HeldOnce, QueuedOrHeld, c
  <2>7. /\ queue' \in Seq(Message) /\ OnePlace'
        /\ \A i \in DOMAIN queue' :
             queue'[i].attempts = runs'[queue'[i].copy] /\ queue'[i].attempts < MaxAttempts
    <3>1. HeldOnce' BY <1>0, <2>1, <2>3, <2>5 DEF HeldOnce
    <3>2. ASSUME NEW k \in Copies, k # c, outcome'[k] = "pending"
          PROVE  IsQueued(k) \/ IsHeld(k)'
      <4>1. CASE k = n BY <2>1, <2>5, <4>1 DEF IsHeld
      <4>2. CASE k # n
        <5>1. outcome[k] = "pending" BY <2>4, <3>2, <4>2
        <5>2. CASE IsQueued(k) BY <5>2
        <5>3. CASE IsHeld(k)
          <6>1. PICK v \in Workers : pc[v] # "poll" /\ held[v].copy = k BY <5>3 DEF IsHeld
          <6>2. v # w BY <3>2, <6>1 DEF c
          <6>3. QED BY <2>1, <2>5, <6>1, <6>2 DEF IsHeld
        <5>4. QED BY <1>0, <5>1, <5>2, <5>3 DEF PendingSomewhere
      <4>3. QED BY <4>1, <4>2
    <3>3. /\ held[w].copy = c /\ outcome'[held[w].copy] = "pending"
          /\ held[w].attempts = runs'[held[w].copy] /\ held[w].attempts < MaxAttempts
      BY <2>2, <2>3, <2>4 DEF c
    <3>4. \A i \in DOMAIN queue :
            queue[i].copy # held[w].copy /\ outcome'[queue[i].copy] = "pending"
      BY <1>0, <1>msgs, <2>3, <2>4, <2>6, <3>3 DEF CopiesPending
    <3>5. ASSUME NEW v \in Workers, pc'[v] # "poll"
          PROVE  /\ held'[v].copy # held[w].copy /\ outcome'[held'[v].copy] = "pending"
                 /\ \A i \in DOMAIN queue : held'[v].copy # queue[i].copy
      <4>1. CASE v = w BY <2>3, <2>4, <2>5, <3>3, <4>1
      <4>2. CASE v # w
        <5>1. held'[v] = held[v] /\ pc[v] # "poll" BY <2>1, <2>5, <3>5, <4>2
        <5>2. held[v].copy # c /\ held[v].copy # n /\ held[v].copy \in Copies
          BY <1>msgs, <2>3, <2>6, <4>2, <5>1
        <5>3. QED BY <1>0, <2>4, <3>3, <5>1, <5>2 DEF CopiesPending, QueuedOrHeld
      <4>3. QED BY <4>1, <4>2
    <3>6. \A i \in DOMAIN queue :
            queue[i].attempts = runs'[queue[i].copy] /\ queue[i].attempts < MaxAttempts
      BY <1>0, <1>msgs, <2>3, <2>4 DEF AttemptsCountRuns
    <3>7. queue \in Seq(Message) BY <1>0 DEF TypeOK
    <3>8. \A k \in Copies \ {held[w].copy} :
            outcome'[k] = "pending" => IsQueued(k) \/ IsHeld(k)'
      BY <3>2, <3>3
    <3>9. QED BY <1>0, <2>1, <2>2, <3>1, <3>3, <3>4, <3>5, <3>6, <3>7, <3>8, PushedOnce
  <2>8. TypeOK' BY <1>0, <2>1, <2>4, <2>5, <2>7 DEF TypeOK
  <2>9. HeldIsMessage' BY <1>0, <2>1, <2>3, <2>5 DEF HeldIsMessage
  <2>10. AttemptsCountRuns'
    <3>1. ASSUME NEW v \in Workers
          PROVE  /\ pc'[v] = "run" => held'[v].attempts + 1 = runs'[held'[v].copy]
                 /\ pc'[v] = "backoff" => /\ held'[v].attempts = runs'[held'[v].copy]
                                          /\ held'[v].attempts < MaxAttempts
                 /\ pc'[v] \in {"pushDlq", "persistDlq"} =>
                      /\ held'[v].attempts = runs'[held'[v].copy]
                      /\ held'[v].attempts = MaxAttempts
      <4>1. CASE v = w BY <2>1, <2>2, <2>4, <2>5, <4>1
      <4>2. CASE v # w
        <5>1. pc[v] # "poll" => runs'[held[v].copy] = runs[held[v].copy]
          BY <1>msgs, <2>3, <2>4
        <5>2. QED BY <1>0, <2>1, <2>5, <4>2, <5>1 DEF AttemptsCountRuns
      <4>3. QED BY <4>1, <4>2
    <3>2. ASSUME NEW k \in Copies PROVE runs'[k] <= MaxAttempts /\ orphans'[k] <= runs'[k]
      <4>1. /\ runs[k] <= MaxAttempts /\ orphans[k] <= runs[k]
            /\ runs[c] <= MaxAttempts /\ runs[c] \in Nat
        BY <1>0, <2>2 DEF AttemptsCountRuns, TypeOK
      <4>2. QED BY <2>1, <2>3, <2>4, <4>1
    <3>3. QED BY <2>7, <3>1, <3>2 DEF AttemptsCountRuns
  <2>11. RunsCounted'
    <3>1. \A k \in Copies : outcome'[k] \in {"none", "unsent"} => runs'[k] = 0
      BY <1>0, <2>2, <2>3, <2>4 DEF RunsCounted
    <3>2. \A v \in Workers : pc[v] = "run" => v # w /\ runs'[held[v].copy] = runs[held[v].copy]
      BY <1>msgs, <2>1, <2>3, <2>4
    <3>3. QED BY <1>0, <2>1, <2>5, <3>1, <3>2 DEF RunsCounted
  <2>12. DeadLetterStage'
    <3>1. ASSUME NEW k \in Copies
          PROVE  /\ redisDlq'[k] <= 1 /\ dbDlq'[k] <= 1
                 /\ redisDlq'[k] > 0 =>
                      \/ outcome'[k] = "dead"
                      \/ \E v \in Workers : pc'[v] = "persistDlq" /\ held'[v].copy = k
                 /\ dbDlq'[k] > 0 => outcome'[k] = "dead"
                 /\ outcome'[k] = "dead" /\ k \notin Unparseable => runs'[k] = MaxAttempts
      <4>1. CASE k = n BY <2>1, <2>3, <2>4, <4>1
      <4>2. CASE k # n
        <5>1. /\ outcome'[k] = "dead" <=> outcome[k] = "dead"
              /\ runs'[k] = runs[k]
          BY <2>2, <2>4, <4>2
        <5>2. \A v \in Workers : pc[v] = "persistDlq" => pc'[v] = pc[v] /\ held'[v] = held[v]
          BY <2>1, <2>5
        <5>3. QED BY <1>0, <2>1, <5>1, <5>2 DEF DeadLetterStage
      <4>3. QED BY <4>1, <4>2
    <3>2. QED BY <3>1 DEF DeadLetterStage
  <2>13. QED BY <2>7, <2>8, <2>9, <2>10, <2>11, <2>12 DEF Placed
<1>18. QED
  BY <1>1, <1>2, <1>3, <1>4, <1>5, <1>6, <1>7, <1>8, <1>9, <1>10, <1>11, <1>12, <1>13,
     <1>14, <1>15, <1>16, <1>17
  DEF Next, Work

(* A copy is made by a lost reply, and numbered next.                      *)
LEMMA NextCopiesMade == IInv /\ [Next]_vars => CopiesMade'
<1> SUFFICES ASSUME IInv, [Next]_vars
             PROVE  CopiesMade'
  OBVIOUS
<1>0. /\ TypeOK /\ HeldIsMessage /\ OnePlace /\ CopiesMade
      /\ resends \in [Jobs -> Nat] /\ faults \in 0..MaxFaults
      /\ outcome \in [Copies -> {"none", "unsent", "pending", "done", "dead", "lost"}]
  BY DEF IInv, Placed, TypeOK
<1>1. /\ \A i \in DOMAIN queue : queue[i].copy \in Copies /\ outcome[queue[i].copy] = "pending"
      /\ \A w \in Workers : pc[w] # "poll" =>
           held[w].copy \in Copies /\ outcome[held[w].copy] = "pending"
  BY <1>0, MessageFacts DEF OnePlace, CopiesPending
<1>2. queue # <<>> => Last.copy \in Copies /\ outcome[Last.copy] = "pending"
  <2>1. queue # <<>> => Len(queue) \in DOMAIN queue BY <1>0 DEF TypeOK
  <2>2. QED BY <1>1, <2>1 DEF Last
<1>3. ASSUME resends' = resends, faults' \in {faults, faults + 1},
             \A c \in Copies : outcome'[c] = "none" <=> outcome[c] = "none"
      PROVE  CopiesMade'
  BY <1>0, <1>3 DEF CopiesMade
<1>4. ASSUME NEW c \in Copies, outcome[c] # "none",
             NEW result \in {"pending", "done", "dead", "lost"}, Settle(c, result),
             resends' = resends, faults' \in {faults, faults + 1}
      PROVE  CopiesMade'
  <2>1. \A k \in Copies : outcome'[k] = "none" <=> outcome[k] = "none"
    BY <1>0, <1>4 DEF Settle
  <2>2. QED BY <1>3, <1>4, <2>1
<1>5. ASSUME NEW c \in Copies, outcome[c] # "none", ReplyLost(c),
             NEW result \in {"pending", "dead"}, NEW rest \in {"pending", "unsent"},
             Becomes(c, result, rest)
      PROVE  CopiesMade'
  <2>1. /\ faults' = faults + 1 /\ faults < MaxFaults
        /\ resends' = [resends EXCEPT ![c[1]] = @ + 1]
        /\ Another(c) = <<c[1], resends[c[1]] + 2>>
    BY <1>5 DEF ReplyLost, Add, Another
  <2>2. c[1] \in Jobs BY DEF Copies
  <2>3. Another(c)[1] = c[1] /\ Another(c)[2] = resends[c[1]] + 2 BY <2>1
  <2>4. /\ outcome'[c] = result
        /\ \A k \in Copies : k # c /\ k # Another(c) => outcome'[k] = outcome[k]
    BY <1>5, ReplyLostFacts
  <2>5. \A j \in Jobs : resends'[j] <= faults' /\ resends[j] <= resends'[j]
    BY <1>0, <2>1, <2>2 DEF CopiesMade
  <2>6. ASSUME NEW k \in Copies, outcome'[k] # "none" PROVE k[2] <= 1 + resends'[k[1]]
    <3>1. k[1] \in Jobs /\ k[2] \in Nat BY DEF Copies
    <3>2. CASE k = Another(c) BY <1>0, <2>1, <2>2, <2>3, <3>2
    <3>3. CASE k # Another(c)
      <4>1. outcome[k] # "none" BY <1>5, <2>4, <2>6, <3>3
      <4>2. k[2] <= 1 + resends[k[1]] BY <1>0, <4>1 DEF CopiesMade
      <4>3. resends[k[1]] \in Nat /\ resends'[k[1]] \in Nat BY <1>0, <2>1, <3>1
      <4>4. QED BY <2>5, <3>1, <4>2, <4>3
    <3>4. QED BY <3>2, <3>3
  <2>7. QED BY <2>5, <2>6 DEF CopiesMade
<1> USE DEF deadLetters, disturbances
<1>6. ASSUME NEW c \in Copies, Produce(c) \/ ProduceFails(c) PROVE CopiesMade'
  <2>1. /\ outcome[c] # "none" /\ resends' = resends /\ faults' = faults
        /\ Settle(c, "pending") \/ Settle(c, "lost")
    BY <1>6 DEF Produce, ProduceFails
  <2>2. QED BY <1>4, <2>1
<1>7. ASSUME NEW c \in Copies, ProduceReplyLost(c) PROVE CopiesMade'
  BY <1>5, <1>7 DEF ProduceReplyLost
<1>8. ASSUME NEW w \in Workers,
             RequeueReplyLost(w) \/ PushDlqReplyLost(w) \/ PoisonPushReplyLost(w)
      PROVE  CopiesMade'
  <2>1. PICK c \in Copies : c = held[w].copy /\ outcome[c] # "none"
    BY <1>1, <1>8 DEF RequeueReplyLost, PushDlqReplyLost, PoisonPushReplyLost
  <2>2. ReplyLost(c) /\ (Becomes(c, "pending", "pending") \/ Becomes(c, "dead", "pending"))
    BY <1>8, <2>1 DEF RequeueReplyLost, PushDlqReplyLost, PoisonPushReplyLost
  <2>3. QED BY <1>5, <2>1, <2>2
<1>9. ASSUME NEW w \in Workers, PopReplyLost(w) PROVE CopiesMade'
  BY <1>2, <1>4, <1>9 DEF PopReplyLost
<1>10. ASSUME NEW w \in Workers,
              \/ RunSucceeds(w) \/ RequeueFails(w) \/ PoisonPushFails(w) \/ PoisonPush(w)
              \/ PersistDlq(w) \/ PersistDlqFails(w) \/ Crash(w)
       PROVE  CopiesMade'
  <2>1. PICK c \in Copies : c = held[w].copy /\ outcome[c] # "none"
    BY <1>1, <1>10 DEF RunSucceeds, RequeueFails, PoisonPushFails, PoisonPush, PersistDlq,
                       PersistDlqFails, Crash
  <2>2. resends' = resends /\ faults' \in {faults, faults + 1}
    BY <1>10 DEF RunSucceeds, RequeueFails, PoisonPushFails, PoisonPush, PersistDlq,
                 PersistDlqFails, Crash
  <2>3. Settle(c, "done") \/ Settle(c, "lost") \/ Settle(c, "dead")
    BY <1>10, <2>1 DEF RunSucceeds, RequeueFails, PoisonPushFails, PoisonPush, PersistDlq,
                       PersistDlqFails, Crash, SettleDead
  <2>4. QED BY <1>4, <2>1, <2>2, <2>3
<1>11. ASSUME \/ \E c \in Copies : OrphanEnds(c)
              \/ \E w \in Workers : \/ Pop(w) \/ RunFails(w) \/ RunTimesOut(w)
                                    \/ Requeue(w) \/ PushDlq(w) \/ PushDlqFails(w)
              \/ Quiet \/ UNCHANGED vars
       PROVE  CopiesMade'
  <2>1. UNCHANGED <<outcome, resends, faults>>
    BY <1>11 DEF OrphanEnds, Pop, RunFails, RunTimesOut, Requeue, PushDlq, PushDlqFails,
                 Quiet, vars
  <2>2. QED BY <1>3, <2>1
<1>12. QED
  BY <1>6, <1>7, <1>8, <1>9, <1>10, <1>11 DEF Next, Work

(* Both parts together.                                                    *)
LEMMA NextIInv == IInv /\ [Next]_vars => IInv'
BY NextPlaced, NextCopiesMade DEF IInv

(* IInv holds of every reachable state.                                    *)
THEOREM Invariance == Spec => []IInv
BY InitIInv, NextIInv, PTL DEF Spec

(* Types: what the list and the workers hold stays a message whose attempt *)
(* count is within JOB_MAX_ATTEMPTS.                                       *)
THEOREM TypeCorrect == Spec => []TypeOK
<1>1. IInv => TypeOK BY DEF IInv, Placed
<1>2. QED BY <1>1, Invariance, PTL

(* A pending copy of a job is in one place and a settled one in none, and  *)
(* a job has no copy but one for each lost reply beside the first, for any *)
(* number of jobs, workers, retries, timed out runs and faults.            *)
THEOREM JobHasOneCopy == Spec => []OneCopy
<1>1. IInv => OneCopy
  <2>0. IInv => \A c \in Copies : outcome[c] # "none" => c[2] <= 1 + resends[c[1]]
    BY DEF IInv, CopiesMade
  <2> SUFFICES ASSUME IInv, NEW c \in Copies
               PROVE  Cardinality(Queued(c)) + Cardinality(HeldBy(c)) =
                        IF outcome[c] = "pending" THEN 1 ELSE 0
    BY <2>0 DEF OneCopy
  <2>1. CASE outcome[c] # "pending"
    <3>1. Queued(c) = {} /\ HeldBy(c) = {}
      BY <2>1 DEF IInv, Placed, OnePlace, CopiesPending, Queued, HeldBy
    <3>2. QED BY <2>1, <3>1, FS_EmptySet
  <2>2. CASE outcome[c] = "pending" /\ IsQueued(c)
    <3>1. PICK i \in DOMAIN queue : queue[i].copy = c BY <2>2 DEF IsQueued
    <3>2. Queued(c) = {i}
      <4>1. \A k \in DOMAIN queue : queue[k].copy = c <=> k = i
        BY <3>1 DEF IInv, Placed, OnePlace, QueuedOnce
      <4>2. QED BY <4>1 DEF Queued
    <3>3. HeldBy(c) = {}
      BY <3>1 DEF IInv, Placed, OnePlace, QueuedOrHeld, HeldBy
    <3>4. Cardinality({i}) = 1 /\ Cardinality({}) = 0 BY FS_EmptySet, FS_Singleton
    <3>5. QED BY <2>2, <3>2, <3>3, <3>4
  <2>3. CASE outcome[c] = "pending" /\ ~ IsQueued(c)
    <3>1. PICK w \in Workers : pc[w] # "poll" /\ held[w].copy = c
      BY <2>3 DEF IInv, Placed, OnePlace, PendingSomewhere, IsHeld
    <3>2. HeldBy(c) = {w}
      <4>1. \A v \in Workers : pc[v] # "poll" /\ held[v].copy = c <=> v = w
        BY <3>1 DEF IInv, Placed, OnePlace, HeldOnce
      <4>2. QED BY <4>1 DEF HeldBy
    <3>3. Queued(c) = {}
      BY <2>3 DEF IsQueued, Queued
    <3>4. Cardinality({w}) = 1 /\ Cardinality({}) = 0 BY FS_EmptySet, FS_Singleton
    <3>5. QED BY <2>3, <3>2, <3>3, <3>4
  <2>4. QED BY <2>1, <2>2, <2>3
<1>2. QED BY <1>1, Invariance, PTL

(* The count in the payload is the number of runs, so a job is run at most *)
(* JOB_MAX_ATTEMPTS times on all workers together.                         *)
THEOREM AttemptsAreRuns == Spec => []AttemptsCountRuns
<1>1. IInv => AttemptsCountRuns BY DEF IInv, Placed
<1>2. QED BY <1>1, Invariance, PTL

(* A dead letter is written once, of a job that is out of attempts and has *)
(* no copy left to run.                                                    *)
THEOREM DeadLettersOnce == Spec => []DeadLetterOnce
<1>1. IInv => DeadLetterOnce
  <2> SUFFICES ASSUME IInv, NEW c \in Copies
               PROVE  /\ redisDlq[c] <= 1 /\ dbDlq[c] <= 1
                      /\ redisDlq[c] + dbDlq[c] > 0 =>
                           /\ c \notin Unparseable => runs[c] = MaxAttempts
                           /\ Queued(c) = {}
                           /\ outcome[c] = "dead" \/ \E w \in HeldBy(c) : pc[w] = "persistDlq"
    BY DEF DeadLetterOnce
  <2>1. redisDlq[c] \in Nat /\ dbDlq[c] \in Nat BY DEF IInv, Placed, TypeOK
  <2>2. redisDlq[c] <= 1 /\ dbDlq[c] <= 1 BY DEF IInv, Placed, DeadLetterStage
  <2>3. ASSUME redisDlq[c] + dbDlq[c] > 0
        PROVE  outcome[c] = "dead" \/ \E w \in HeldBy(c) : pc[w] = "persistDlq"
    BY <2>1, <2>3 DEF IInv, Placed, DeadLetterStage, HeldBy
  <2>4. CASE outcome[c] = "dead"
    <3>1. c \notin Unparseable => runs[c] = MaxAttempts BY <2>4 DEF IInv, Placed, DeadLetterStage
    <3>2. Queued(c) = {} BY <2>4 DEF IInv, Placed, OnePlace, CopiesPending, Queued
    <3>3. QED BY <2>2, <2>4, <3>1, <3>2
  <2>5. ASSUME NEW w \in HeldBy(c), pc[w] = "persistDlq"
        PROVE  runs[c] = MaxAttempts /\ Queued(c) = {}
    BY <2>5 DEF IInv, Placed, OnePlace, QueuedOrHeld, AttemptsCountRuns, Queued, HeldBy
  <2>6. QED BY <2>2, <2>3, <2>4, <2>5
<1>2. QED BY <1>1, Invariance, PTL
=============================================================================
