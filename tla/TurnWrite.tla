------------------------------ MODULE TurnWrite ------------------------------
(***************************************************************************)
(* The write path of the memory service: createTurn and the transaction it *)
(* runs in.  Several requests, also several requests for the same turn (a  *)
(* client that retries), run concurrently; the idempotency ledger          *)
(* turn_writes has a unique index on the turn's key.  Postgres runs READ   *)
(* COMMITTED: a statement sees committed rows only, an INSERT of a key     *)
(* another open transaction has inserted waits for that transaction to end *)
(* and then either fails (it committed) or proceeds (it rolled back).      *)
(*                                                                         *)
(* After the commit the request pushes the embedding job: a push that      *)
(* fails is logged and swallowed, a server that dies before it loses it.   *)
(***************************************************************************)
EXTENDS Integers, FiniteSets

CONSTANTS
  Requests,   \* the calls of createTurn
  Turns,      \* idempotency keys (tenant, workspace, session, turn_id)
  TurnOf,     \* the turn a request writes
  Memories,   \* memory ids: gen_random_uuid never repeats one
  NoMemory,   \* "no memory id"
  PoolSize    \* connections of the pg pool

ASSUME TurnOfAssumption == TurnOf \in [Requests -> Turns]
ASSUME NoMemoryAssumption == NoMemory \notin Memories
ASSUME PoolSizeAssumption == PoolSize \in Nat \ {0}

VARIABLES
  ledger,        \* ledger[t]: the committed status of t's turn_writes row
  ledgerMemory,  \* ledgerMemory[t]: its committed memory_ids
  rows,          \* committed rows of memories, as <<memory_id, turn>>
  pc,            \* pc[r]: the next statement of request r
  txStatus,      \* txStatus[r]: status of the turn_writes row r's transaction wrote
  txMemory,      \* txMemory[r]: memory id r's transaction inserted
  answer,        \* answer[r]: memory id of r's successful response
  embedJobs      \* embedJobs[m]: jobs for m pushed to embed:jobs

vars == <<ledger, ledgerMemory, rows, pc, txStatus, txMemory, answer, embedJobs>>

RowStatus == {"absent", "processing", "complete", "failed"}

(* The statements of an open transaction. *)
InTransaction == {"find", "insertTurn", "insertMemory", "markComplete", "commit"}

(* The transaction has inserted its turn_writes row: it holds the key. *)
HoldsKey == {"insertMemory", "markComplete", "commit"}

Ended == {"answered", "failed"}

TypeOK ==
  /\ ledger \in [Turns -> RowStatus]
  /\ ledgerMemory \in [Turns -> Memories \cup {NoMemory}]
  /\ rows \in SUBSET (Memories \X Turns)
  /\ pc \in [Requests -> {"idle", "enqueue"} \cup InTransaction \cup Ended]
  /\ txStatus \in [Requests -> RowStatus]
  /\ txMemory \in [Requests -> Memories \cup {NoMemory}]
  /\ answer \in [Requests -> Memories \cup {NoMemory}]
  /\ embedJobs \in [Memories -> Nat]

Init ==
  /\ ledger = [t \in Turns |-> "absent"]
  /\ ledgerMemory = [t \in Turns |-> NoMemory]
  /\ rows = {}
  /\ pc = [r \in Requests |-> "idle"]
  /\ txStatus = [r \in Requests |-> "absent"]
  /\ txMemory = [r \in Requests |-> NoMemory]
  /\ answer = [r \in Requests |-> NoMemory]
  /\ embedJobs = [m \in Memories |-> 0]

database == <<ledger, ledgerMemory, rows>>
transaction == <<txStatus, txMemory>>

Goto(r, label) == pc' = [pc EXCEPT ![r] = label]

Connected == {r \in Requests : pc[r] \in InTransaction}

(* Requests whose transaction keeps an uncommitted row of turn t. *)
KeyHolders(t) == {r \in Requests : TurnOf[r] = t /\ pc[r] \in HoldsKey}

-----------------------------------------------------------------------------
(* pool.connect and BEGIN: waits for a free connection of the pool. *)
Connect(r) ==
  /\ pc[r] = "idle"
  /\ Cardinality(Connected) < PoolSize
  /\ Goto(r, "find")
  /\ UNCHANGED <<database, transaction, answer, embedJobs>>

(* The outcomes of the idempotency check on the row the SELECT returned:   *)
(* a complete turn is replayed, one in progress is a 409, a failed or an   *)
(* absent one is written.                                                  *)
AfterFind(status) ==
  IF status = "complete" THEN "answered"
  ELSE IF status = "processing" THEN "failed"
  ELSE "insertTurn"

(* Variant, not the code: the replay indexes memory_ids one too far. *)
FindByKeyOffByOne(r) ==
  LET t == TurnOf[r] IN
  /\ pc[r] = "find"
  /\ Goto(r, AfterFind(ledger[t]))
  /\ answer' = [answer EXCEPT ![r] =
                  IF ledger[t] = "complete" THEN "undefined" ELSE @]
  /\ UNCHANGED <<database, transaction, embedJobs>>

(* findByKey; the replay commits its empty transaction and answers with    *)
(* the memory_ids of the row it read, and pushes no job.                   *)
FindByKey(r) ==
  LET t == TurnOf[r] IN
  /\ pc[r] = "find"
  /\ Goto(r, AfterFind(ledger[t]))
  /\ answer' = [answer EXCEPT ![r] =
                  IF ledger[t] = "complete" THEN ledgerMemory[t] ELSE @]
  /\ UNCHANGED <<database, transaction, embedJobs>>

(* Variant, not the code: ON CONFLICT DO NOTHING, and the write goes on. *)
InsertTurnUpsert(r) ==
  /\ pc[r] = "insertTurn"
  /\ KeyHolders(TurnOf[r]) = {}
  /\ Goto(r, "insertMemory")
  /\ txStatus' = [txStatus EXCEPT ![r] = "processing"]
  /\ UNCHANGED <<database, txMemory, answer, embedJobs>>

(* Variant, not the code: a unique violation is retried in place. *)
InsertTurnRetried(r) ==
  /\ pc[r] = "insertTurn"
  /\ KeyHolders(TurnOf[r]) = {}
  /\ ledger[TurnOf[r]] \in {"absent", "failed"}
  /\ Goto(r, "insertMemory")
  /\ txStatus' = [txStatus EXCEPT ![r] = "processing"]
  /\ UNCHANGED <<database, txMemory, answer, embedJobs>>

(* insertProcessing (or retryFailed): waits while another transaction      *)
(* holds the key; a key committed since the check is a unique violation,   *)
(* which rolls the transaction back and fails the request.                 *)
InsertTurn(r) ==
  LET t == TurnOf[r] IN
  /\ pc[r] = "insertTurn"
  /\ KeyHolders(t) = {}
  /\ IF ledger[t] \in {"absent", "failed"}
     THEN /\ Goto(r, "insertMemory")
          /\ txStatus' = [txStatus EXCEPT ![r] = "processing"]
     ELSE /\ Goto(r, "failed")
          /\ UNCHANGED txStatus
  /\ UNCHANGED <<database, txMemory, answer, embedJobs>>

(* Variant, not the code: the job is pushed inside the transaction. *)
InsertMemoryAndEnqueue(r, m) ==
  /\ pc[r] = "insertMemory"
  /\ \A q \in Requests : txMemory[q] # m
  /\ txMemory' = [txMemory EXCEPT ![r] = m]
  /\ embedJobs' = [embedJobs EXCEPT ![m] = @ + 1]
  /\ Goto(r, "markComplete")
  /\ UNCHANGED <<database, txStatus, answer>>

(* insertMemory and insertChunks: the id is new. *)
InsertMemory(r, m) ==
  /\ pc[r] = "insertMemory"
  /\ \A q \in Requests : txMemory[q] # m
  /\ txMemory' = [txMemory EXCEPT ![r] = m]
  /\ Goto(r, "markComplete")
  /\ UNCHANGED <<database, txStatus, answer, embedJobs>>

(* Variants, not the code: the status is not updated; the answer is given  *)
(* before the commit.                                                      *)
MarkCompleteSkipped(r) ==
  /\ pc[r] = "markComplete"
  /\ Goto(r, "commit")
  /\ UNCHANGED <<database, transaction, answer, embedJobs>>

MarkCompleteAndAnswer(r) ==
  /\ pc[r] = "markComplete"
  /\ txStatus' = [txStatus EXCEPT ![r] = "complete"]
  /\ answer' = [answer EXCEPT ![r] = txMemory[r]]
  /\ Goto(r, "commit")
  /\ UNCHANGED <<database, txMemory, embedJobs>>

MarkComplete(r) ==
  /\ pc[r] = "markComplete"
  /\ txStatus' = [txStatus EXCEPT ![r] = "complete"]
  /\ Goto(r, "commit")
  /\ UNCHANGED <<database, txMemory, answer, embedJobs>>

(* COMMIT makes the transaction's rows visible, all at once. *)
Publish(r) ==
  LET t == TurnOf[r] IN
  /\ ledger' = [ledger EXCEPT ![t] = txStatus[r]]
  /\ ledgerMemory' = [ledgerMemory EXCEPT ![t] = txMemory[r]]
  /\ rows' = rows \cup {<<txMemory[r], t>>}

Commit(r) ==
  /\ pc[r] = "commit"
  /\ Publish(r)
  /\ Goto(r, "enqueue")
  /\ UNCHANGED <<transaction, answer, embedJobs>>

(* The server committed but the connection broke before the reply: the     *)
(* driver raises, the ROLLBACK is void, and the request fails.             *)
CommitReplyLost(r) ==
  /\ pc[r] = "commit"
  /\ Publish(r)
  /\ Goto(r, "failed")
  /\ UNCHANGED <<transaction, answer, embedJobs>>

(* Any statement may fail: ROLLBACK, and the error goes to the caller. *)
Rollback(r) ==
  /\ pc[r] \in InTransaction
  /\ Goto(r, "failed")
  /\ txStatus' = [txStatus EXCEPT ![r] = "absent"]
  /\ txMemory' = [txMemory EXCEPT ![r] = NoMemory]
  /\ UNCHANGED <<database, answer, embedJobs>>

(* enqueueEmbedJob, then the response, whether or not the LPUSH worked. *)
Respond(r) ==
  /\ Goto(r, "answered")
  /\ answer' = [answer EXCEPT ![r] = txMemory[r]]
  /\ UNCHANGED <<database, transaction>>

EnqueueEmbedJob(r) ==
  /\ pc[r] = "enqueue"
  /\ embedJobs' = [embedJobs EXCEPT ![txMemory[r]] = @ + 1]
  /\ Respond(r)

EnqueueFails(r) ==
  /\ pc[r] = "enqueue"
  /\ Respond(r)
  /\ UNCHANGED embedJobs

(* The process dies: Postgres rolls its open transactions back, and the    *)
(* requests it was serving, committed or not, get no answer.               *)
ServerCrash ==
  LET Lost == {r \in Requests : pc[r] \in InTransaction \cup {"enqueue"}}
      Undone == Connected
  IN
  /\ Lost # {}
  /\ pc' = [r \in Requests |-> IF r \in Lost THEN "failed" ELSE pc[r]]
  /\ txStatus' = [r \in Requests |-> IF r \in Undone THEN "absent" ELSE txStatus[r]]
  /\ txMemory' = [r \in Requests |-> IF r \in Undone THEN NoMemory ELSE txMemory[r]]
  /\ UNCHANGED <<database, answer, embedJobs>>

(* Nothing is left to do: the model stops here, the service waits. *)
AllEnded ==
  /\ \A r \in Requests : pc[r] \in Ended
  /\ UNCHANGED vars

Step(r) ==
  \/ Connect(r)
  \/ FindByKey(r)
  \/ InsertTurn(r)
  \/ \E m \in Memories : InsertMemory(r, m)
  \/ MarkComplete(r)
  \/ Commit(r)
  \/ EnqueueEmbedJob(r)

Failure(r) == CommitReplyLost(r) \/ Rollback(r) \/ EnqueueFails(r)

Next ==
  \/ \E r \in Requests : Step(r) \/ Failure(r)
  \/ ServerCrash
  \/ AllEnded

Spec == Init /\ [][Next]_vars

(* A request that can execute its next statement executes it or fails: the *)
(* event loop and Postgres serve every one; nothing is fair about crashes. *)
Fairness == \A r \in Requests : WF_vars(Step(r))

FairSpec == Spec /\ Fairness

-----------------------------------------------------------------------------
(* A transaction's rows become visible complete or not at all, so the      *)
(* idempotency check of writeTurnService never reads a row in progress or  *)
(* failed, whatever the interleaving, the failures and the crashes: its    *)
(* 409 branch and retryFailed are dead code, and a duplicate of a turn in  *)
(* flight waits on the unique index instead.                               *)
OnlyCompleteVisible == \A t \in Turns : ledger[t] \in {"absent", "complete"}

(* Exactly one memory per recorded turn, the one the ledger replays, and   *)
(* none for a turn that is not recorded: concurrent duplicates, rollbacks  *)
(* and lost commits never leave a second memory or an orphan.              *)
OneMemoryPerTurn ==
  \A t \in Turns :
    {m \in Memories : <<m, t>> \in rows} =
      IF ledger[t] = "complete" THEN {ledgerMemory[t]} ELSE {}

(* A job in embed:jobs is for a committed memory and no memory gets two: a *)
(* replay, a duplicate or a rolled back write pushes none.                 *)
JobsOfCommittedMemories ==
  \A m \in Memories :
    /\ embedJobs[m] <= 1
    /\ embedJobs[m] = 1 => \E t \in Turns : <<m, t>> \in rows

(* Every request is answered or fails: waiting for a connection of the     *)
(* pool or for the holder of the key never blocks a request for ever.      *)
EveryRequestEnds == \A r \in Requests : <>(pc[r] \in Ended)

(* The answers implement WriteOnce: a turn is recorded once and every      *)
(* successful answer, first or replayed, names the memory it recorded.     *)
Recorded == [t \in Turns |-> IF ledger[t] = "complete" THEN ledgerMemory[t] ELSE NoMemory]

Promise == INSTANCE WriteOnce WITH recorded <- Recorded

WriteOnceSpec == Promise!Spec
=============================================================================
