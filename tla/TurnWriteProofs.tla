--------------------------- MODULE TurnWriteProofs ---------------------------
(***************************************************************************)
(* Proofs about TurnWrite, for any set of requests and turns and any pool: *)
(* its type invariant, one memory per turn, and that it implements         *)
(* WriteOnce.  The inductive invariant IInv says who may hold a turn's key *)
(* (nobody once the turn is recorded) and which request owns a memory id.  *)
(***************************************************************************)
EXTENDS TurnWrite, TLAPS

(* An open transaction that inserted its turn_writes row is alone with it, *)
(* and the turn has no committed row.                                      *)
KeyHeldOnce ==
  \A r \in Requests : pc[r] \in HoldsKey =>
    /\ ledger[TurnOf[r]] = "absent"
    /\ \A q \in Requests : pc[q] \in HoldsKey /\ TurnOf[q] = TurnOf[r] => q = r

(* What the transaction has written when it reaches a statement. *)
TransactionState ==
  \A r \in Requests :
    /\ pc[r] \in {"idle", "find", "insertTurn", "insertMemory"} => txMemory[r] = NoMemory
    /\ pc[r] \in {"markComplete", "commit", "enqueue"} => txMemory[r] \in Memories
    /\ pc[r] = "commit" => txStatus[r] = "complete"
    /\ pc[r] = "enqueue" => /\ ledger[TurnOf[r]] = "complete"
                            /\ ledgerMemory[TurnOf[r]] = txMemory[r]
    /\ pc[r] # "answered" => answer[r] = NoMemory

(* A memory id belongs to one request. *)
MemoryOwned ==
  \A r, q \in Requests : txMemory[r] = txMemory[q] /\ txMemory[r] # NoMemory => r = q

(* A committed memory row is the ledger's, and the request that inserted   *)
(* it has left its transaction.                                            *)
RowsRecorded ==
  /\ \A t \in Turns : ledger[t] = "complete" => ledgerMemory[t] \in Memories
  /\ \A m \in Memories, t \in Turns :
       <<m, t>> \in rows <=> ledger[t] = "complete" /\ ledgerMemory[t] = m
  /\ \A t \in Turns : ledger[t] = "complete" =>
       \E r \in Requests : /\ txMemory[r] = ledgerMemory[t]
                           /\ pc[r] \in {"enqueue"} \cup Ended

(* The request that pushed the job for m is over, and m is committed. *)
JobsOwned ==
  \A m \in Memories :
    /\ embedJobs[m] <= 1
    /\ embedJobs[m] = 1 =>
         \E r \in Requests : /\ txMemory[r] = m
                             /\ pc[r] \in Ended
                             /\ <<m, TurnOf[r]>> \in rows

IInv ==
  /\ TypeOK
  /\ OnlyCompleteVisible
  /\ KeyHeldOnce
  /\ TransactionState
  /\ MemoryOwned
  /\ RowsRecorded
  /\ JobsOwned

USE TurnOfAssumption, NoMemoryAssumption

-----------------------------------------------------------------------------
(* The inductive invariant holds at first.                                 *)
LEMMA InitIInv == Init => IInv
BY DEF Init, IInv, TypeOK, OnlyCompleteVisible, KeyHeldOnce, TransactionState,
       MemoryOwned, RowsRecorded, JobsOwned, RowStatus, HoldsKey, InTransaction, Ended

(* Every step keeps the inductive invariant.                               *)
LEMMA NextIInv == IInv /\ [Next]_vars => IInv'
<1> SUFFICES ASSUME TypeOK, OnlyCompleteVisible, KeyHeldOnce, TransactionState,
                    MemoryOwned, RowsRecorded, JobsOwned, [Next]_vars
             PROVE  IInv'
  BY DEF IInv
<1> USE DEF TypeOK, Goto, database, transaction, HoldsKey, InTransaction, Ended, RowStatus
<1>1. ASSUME NEW r \in Requests, Connect(r) PROVE IInv'
  <2>1. TypeOK' BY <1>1 DEF Connect, Connected, TransactionState
  <2>2. OnlyCompleteVisible'
    BY <1>1 DEF Connect, Connected, OnlyCompleteVisible
  <2>3. KeyHeldOnce'
    BY <1>1 DEF Connect, Connected, KeyHeldOnce
  <2>4. TransactionState'
    BY <1>1 DEF Connect, Connected, TransactionState
  <2>5. MemoryOwned'
    BY <1>1 DEF Connect, Connected, MemoryOwned
  <2>6. RowsRecorded'
    BY <1>1 DEF Connect, Connected, RowsRecorded
  <2>7. JobsOwned'
    BY <1>1 DEF Connect, Connected, JobsOwned
  <2>8. QED BY <2>1, <2>2, <2>3, <2>4, <2>5, <2>6, <2>7 DEF IInv
<1>2. ASSUME NEW r \in Requests, FindByKey(r) PROVE IInv'
  <2>1. TypeOK' BY <1>2 DEF FindByKey, AfterFind, TransactionState
  <2>2. OnlyCompleteVisible'
    BY <1>2 DEF FindByKey, AfterFind, OnlyCompleteVisible
  <2>3. KeyHeldOnce'
    BY <1>2 DEF FindByKey, AfterFind, KeyHeldOnce
  <2>4. TransactionState'
    BY <1>2 DEF FindByKey, AfterFind, TransactionState
  <2>5. MemoryOwned'
    BY <1>2 DEF FindByKey, AfterFind, MemoryOwned
  <2>6. RowsRecorded'
    BY <1>2 DEF FindByKey, AfterFind, RowsRecorded
  <2>7. JobsOwned'
    BY <1>2 DEF FindByKey, AfterFind, JobsOwned
  <2>8. QED BY <2>1, <2>2, <2>3, <2>4, <2>5, <2>6, <2>7 DEF IInv
<1>3. ASSUME NEW r \in Requests, InsertTurn(r) PROVE IInv'
  <2>1. TypeOK' BY <1>3 DEF InsertTurn, KeyHolders, TransactionState
  <2>2. OnlyCompleteVisible'
    BY <1>3 DEF InsertTurn, KeyHolders, OnlyCompleteVisible
  <2>3. KeyHeldOnce'
    BY <1>3 DEF InsertTurn, KeyHolders, KeyHeldOnce, OnlyCompleteVisible
  <2>4. TransactionState'
    BY <1>3 DEF InsertTurn, KeyHolders, TransactionState
  <2>5. MemoryOwned'
    BY <1>3 DEF InsertTurn, KeyHolders, MemoryOwned
  <2>6. RowsRecorded'
    BY <1>3 DEF InsertTurn, KeyHolders, RowsRecorded
  <2>7. JobsOwned'
    BY <1>3, ZenonT(30) DEF InsertTurn, KeyHolders, JobsOwned
  <2>8. QED BY <2>1, <2>2, <2>3, <2>4, <2>5, <2>6, <2>7 DEF IInv
<1>4. ASSUME NEW r \in Requests, NEW m \in Memories, InsertMemory(r, m) PROVE IInv'
  <2>1. TypeOK' BY <1>4 DEF InsertMemory, TransactionState
  <2>2. OnlyCompleteVisible'
    BY <1>4 DEF InsertMemory, OnlyCompleteVisible
  <2>3. KeyHeldOnce'
    BY <1>4 DEF InsertMemory, KeyHeldOnce
  <2>4. TransactionState'
    BY <1>4 DEF InsertMemory, TransactionState
  <2>5. MemoryOwned'
    BY <1>4 DEF InsertMemory, MemoryOwned
  <2>6. RowsRecorded'
    BY <1>4 DEF InsertMemory, RowsRecorded, TransactionState
  <2>7. JobsOwned'
    BY <1>4 DEF InsertMemory, JobsOwned, TransactionState
  <2>8. QED BY <2>1, <2>2, <2>3, <2>4, <2>5, <2>6, <2>7 DEF IInv
<1>5. ASSUME NEW r \in Requests, MarkComplete(r) PROVE IInv'
  <2>1. TypeOK' BY <1>5 DEF MarkComplete, TransactionState
  <2>2. OnlyCompleteVisible'
    BY <1>5 DEF MarkComplete, OnlyCompleteVisible
  <2>3. KeyHeldOnce'
    BY <1>5 DEF MarkComplete, KeyHeldOnce
  <2>4. TransactionState'
    BY <1>5 DEF MarkComplete, TransactionState
  <2>5. MemoryOwned'
    BY <1>5 DEF MarkComplete, MemoryOwned
  <2>6. RowsRecorded'
    BY <1>5 DEF MarkComplete, RowsRecorded
  <2>7. JobsOwned'
    BY <1>5 DEF MarkComplete, JobsOwned
  <2>8. QED BY <2>1, <2>2, <2>3, <2>4, <2>5, <2>6, <2>7 DEF IInv
<1>6. ASSUME NEW r \in Requests, Commit(r) PROVE IInv'
  <2>1. TypeOK' BY <1>6 DEF Commit, Publish, TransactionState
  <2>2. OnlyCompleteVisible'
    BY <1>6 DEF Commit, Publish, OnlyCompleteVisible, TransactionState
  <2>3. KeyHeldOnce'
    BY <1>6 DEF Commit, Publish, KeyHeldOnce
  <2>4. TransactionState'
    BY <1>6 DEF Commit, Publish, TransactionState, KeyHeldOnce
  <2>5. MemoryOwned'
    BY <1>6 DEF Commit, Publish, MemoryOwned
  <2>6. RowsRecorded'
    BY <1>6 DEF Commit, Publish, RowsRecorded, TransactionState, KeyHeldOnce,
         MemoryOwned
  <2>7. JobsOwned'
    BY <1>6 DEF Commit, Publish, JobsOwned, TransactionState
  <2>8. QED BY <2>1, <2>2, <2>3, <2>4, <2>5, <2>6, <2>7 DEF IInv
<1>7. ASSUME NEW r \in Requests, EnqueueEmbedJob(r) PROVE IInv'
  <2>1. TypeOK' BY <1>7 DEF EnqueueEmbedJob, Respond, TransactionState
  <2>2. OnlyCompleteVisible'
    BY <1>7 DEF EnqueueEmbedJob, Respond, OnlyCompleteVisible
  <2>3. KeyHeldOnce'
    BY <1>7 DEF EnqueueEmbedJob, Respond, KeyHeldOnce
  <2>4. TransactionState'
    BY <1>7 DEF EnqueueEmbedJob, Respond, TransactionState
  <2>5. MemoryOwned'
    BY <1>7 DEF EnqueueEmbedJob, Respond, MemoryOwned
  <2>6. RowsRecorded'
    BY <1>7 DEF EnqueueEmbedJob, Respond, RowsRecorded
  <2>7. JobsOwned'
    <3>1. embedJobs[txMemory[r]] = 0
      <4>1. pc[r] \notin Ended /\ txMemory[r] \in Memories
        BY <1>7 DEF EnqueueEmbedJob, TransactionState
      <4>2. embedJobs[txMemory[r]] # 1
        BY <4>1 DEF JobsOwned, MemoryOwned
      <4>3. QED BY <4>1, <4>2 DEF JobsOwned
    <3>2. <<txMemory[r], TurnOf[r]>> \in rows /\ txMemory[r] \in Memories
      BY <1>7 DEF EnqueueEmbedJob, TransactionState, RowsRecorded
    <3>3. ASSUME NEW m \in Memories, m # txMemory[r]
          PROVE  embedJobs'[m] = embedJobs[m]
      BY <1>7, <3>3 DEF EnqueueEmbedJob
    <3>4. embedJobs'[txMemory[r]] = 1 /\ pc'[r] \in Ended /\ UNCHANGED <<rows, txMemory>>
      BY <1>7, <3>1, <3>2 DEF EnqueueEmbedJob, Respond
    <3>5. \A q \in Requests : pc[q] \in Ended => pc'[q] \in Ended
      BY <1>7 DEF EnqueueEmbedJob, Respond
    <3>6. SUFFICES ASSUME NEW m \in Memories
                   PROVE  /\ embedJobs'[m] <= 1
                          /\ embedJobs'[m] = 1 =>
                               \E q \in Requests : /\ txMemory'[q] = m
                                                   /\ pc'[q] \in Ended
                                                   /\ <<m, TurnOf[q]>> \in rows'
      BY DEF JobsOwned
    <3>7. CASE m = txMemory[r]
      <4>1. txMemory'[r] = m /\ pc'[r] \in Ended
        BY <3>4, <3>7
      <4>2. <<m, TurnOf[r]>> \in rows'
        BY <3>2, <3>4, <3>7
      <4>3. embedJobs'[m] = 1
        BY <3>4, <3>7
      <4>4. embedJobs'[m] <= 1 BY <4>3
      <4>5. \E q \in Requests : /\ txMemory'[q] = m
                                 /\ pc'[q] \in Ended
                                 /\ <<m, TurnOf[q]>> \in rows'
        BY <4>1, <4>2, Zenon
      <4>6. QED BY <4>4, <4>5
    <3>8. CASE m # txMemory[r]
      <4>1. embedJobs'[m] = embedJobs[m] BY <3>3, <3>8
      <4>2. embedJobs[m] <= 1 BY DEF JobsOwned
      <4>3. ASSUME embedJobs[m] = 1
            PROVE  \E q \in Requests : /\ txMemory'[q] = m
                                        /\ pc'[q] \in Ended
                                        /\ <<m, TurnOf[q]>> \in rows'
        <5>1. PICK q \in Requests : /\ txMemory[q] = m
                                    /\ pc[q] \in Ended
                                    /\ <<m, TurnOf[q]>> \in rows
          BY <4>3 DEF JobsOwned
        <5>2. QED BY <5>1, <3>4, <3>5
      <4>4. QED BY <4>1, <4>2, <4>3
    <3>9. QED BY <3>7, <3>8
  <2>8. QED BY <2>1, <2>2, <2>3, <2>4, <2>5, <2>6, <2>7 DEF IInv
<1>8. ASSUME NEW r \in Requests, CommitReplyLost(r) PROVE IInv'
  <2>1. TypeOK' BY <1>8 DEF CommitReplyLost, Publish, TransactionState
  <2>2. OnlyCompleteVisible'
    BY <1>8 DEF CommitReplyLost, Publish, OnlyCompleteVisible, TransactionState
  <2>3. KeyHeldOnce'
    BY <1>8 DEF CommitReplyLost, Publish, KeyHeldOnce
  <2>4. TransactionState'
    BY <1>8 DEF CommitReplyLost, Publish, TransactionState, KeyHeldOnce
  <2>5. MemoryOwned'
    BY <1>8 DEF CommitReplyLost, Publish, MemoryOwned
  <2>6. RowsRecorded'
    BY <1>8 DEF CommitReplyLost, Publish, RowsRecorded, TransactionState,
         KeyHeldOnce, MemoryOwned
  <2>7. JobsOwned'
    BY <1>8 DEF CommitReplyLost, Publish, JobsOwned, TransactionState
  <2>8. QED BY <2>1, <2>2, <2>3, <2>4, <2>5, <2>6, <2>7 DEF IInv
<1>9. ASSUME NEW r \in Requests, Rollback(r) PROVE IInv'
  <2>1. TypeOK' BY <1>9 DEF Rollback, TransactionState
  <2>2. OnlyCompleteVisible'
    BY <1>9 DEF Rollback, OnlyCompleteVisible
  <2>3. KeyHeldOnce'
    BY <1>9 DEF Rollback, KeyHeldOnce
  <2>4. TransactionState'
    BY <1>9 DEF Rollback, TransactionState
  <2>5. MemoryOwned'
    BY <1>9 DEF Rollback, MemoryOwned
  <2>6. RowsRecorded'
    BY <1>9 DEF Rollback, RowsRecorded
  <2>7. JobsOwned'
    BY <1>9 DEF Rollback, JobsOwned
  <2>8. QED BY <2>1, <2>2, <2>3, <2>4, <2>5, <2>6, <2>7 DEF IInv
<1>10. ASSUME NEW r \in Requests, EnqueueFails(r) PROVE IInv'
  <2>1. TypeOK' BY <1>10 DEF EnqueueFails, Respond, TransactionState
  <2>2. OnlyCompleteVisible'
    BY <1>10 DEF EnqueueFails, Respond, OnlyCompleteVisible
  <2>3. KeyHeldOnce'
    BY <1>10 DEF EnqueueFails, Respond, KeyHeldOnce
  <2>4. TransactionState'
    BY <1>10 DEF EnqueueFails, Respond, TransactionState
  <2>5. MemoryOwned'
    BY <1>10 DEF EnqueueFails, Respond, MemoryOwned
  <2>6. RowsRecorded'
    BY <1>10 DEF EnqueueFails, Respond, RowsRecorded
  <2>7. JobsOwned'
    BY <1>10 DEF EnqueueFails, Respond, JobsOwned
  <2>8. QED BY <2>1, <2>2, <2>3, <2>4, <2>5, <2>6, <2>7 DEF IInv
<1>11. CASE ServerCrash
  <2>1. TypeOK' /\ OnlyCompleteVisible' /\ KeyHeldOnce'
    BY <1>11 DEF ServerCrash, Connected, OnlyCompleteVisible, KeyHeldOnce
  <2>2. TransactionState' /\ MemoryOwned'
    BY <1>11 DEF ServerCrash, Connected, TransactionState, MemoryOwned
  <2>3. RowsRecorded' /\ JobsOwned'
    BY <1>11 DEF ServerCrash, Connected, RowsRecorded, JobsOwned
  <2>4. QED BY <2>1, <2>2, <2>3 DEF IInv
<1>12. CASE AllEnded \/ UNCHANGED vars
  <2>1. UNCHANGED vars
    BY <1>12 DEF AllEnded
  <2>2. TypeOK' /\ OnlyCompleteVisible' /\ KeyHeldOnce' /\ TransactionState'
    BY <2>1 DEF vars, OnlyCompleteVisible, KeyHeldOnce, TransactionState
  <2>3. MemoryOwned' BY <2>1 DEF vars, MemoryOwned
  <2>4. RowsRecorded' BY <2>1 DEF vars, RowsRecorded
  <2>5. JobsOwned' BY <2>1 DEF vars, JobsOwned
  <2> HIDE DEF TypeOK
  <2>6. QED BY <2>2, <2>3, <2>4, <2>5 DEF IInv
<1>13. QED
  <2> HIDE DEF TypeOK, Goto, database, transaction, HoldsKey, InTransaction, Ended, RowStatus
  <2> QED
    BY <1>1, <1>2, <1>3, <1>4, <1>5, <1>6, <1>7, <1>8, <1>9, <1>10, <1>11, <1>12
       DEF Next, Step, Failure

(* Every reachable state satisfies the strengthening: the fact the         *)
(* theorems below rest on.                                                 *)
THEOREM Invariance == Spec => []IInv
BY InitIInv, NextIInv, PTL DEF Spec

(* Types: no step of a request, failure or crash leaves the domains of the *)
(* write path's state.                                                     *)
THEOREM TypeCorrect == Spec => []TypeOK
<1>1. IInv => TypeOK BY DEF IInv
<1>2. QED BY <1>1, Invariance, PTL

(* The idempotency check never reads a turn_writes row in progress or      *)
(* failed, for any number of requests.                                     *)
THEOREM VisibleComplete == Spec => []OnlyCompleteVisible
<1>1. IInv => OnlyCompleteVisible BY DEF IInv
<1>2. QED BY <1>1, Invariance, PTL

(* A recorded turn has exactly the memory its ledger row names, however    *)
(* many requests write it and whichever of them fail.                      *)
THEOREM TurnHasOneMemory == Spec => []OneMemoryPerTurn
<1>1. IInv => OneMemoryPerTurn
  <2> SUFFICES ASSUME RowsRecorded, NEW t \in Turns
               PROVE  {m \in Memories : <<m, t>> \in rows} =
                        IF ledger[t] = "complete" THEN {ledgerMemory[t]} ELSE {}
    BY DEF IInv, OneMemoryPerTurn
  <2> QED BY DEF RowsRecorded
<1>2. QED BY <1>1, Invariance, PTL

(* An embedding job is pushed for a committed memory, and once.            *)
THEOREM JobsAfterCommit == Spec => []JobsOfCommittedMemories
<1>1. IInv => JobsOfCommittedMemories
  <2> SUFFICES ASSUME JobsOwned PROVE JobsOfCommittedMemories
    BY DEF IInv
  <2> QED BY DEF JobsOwned, JobsOfCommittedMemories
<1>2. QED BY <1>1, Invariance, PTL

-----------------------------------------------------------------------------
(* A step of the write path is a step of WriteOnce or leaves it alone.     *)
LEMMA StepRefines ==
  IInv /\ [Next]_vars => [Promise!Next]_(Promise!vars)
<1> SUFFICES ASSUME TypeOK, TransactionState, RowsRecorded, MemoryOwned, KeyHeldOnce,
                    OnlyCompleteVisible, [Next]_vars
             PROVE  [Promise!Next]_(Promise!vars)
  BY DEF IInv
<1> USE DEF TypeOK, Goto, database, transaction
<1>1. ASSUME UNCHANGED <<ledger, ledgerMemory, answer>>
      PROVE  UNCHANGED Promise!vars
  BY <1>1 DEF Promise!vars, Recorded
<1>2. ASSUME NEW r \in Requests, pc[r] = "commit", Publish(r), UNCHANGED answer
      PROVE  Promise!Next
  <2>1. /\ ledger[TurnOf[r]] = "absent"
        /\ txStatus[r] = "complete"
        /\ txMemory[r] \in Memories
    BY <1>2 DEF KeyHeldOnce, TransactionState, HoldsKey
  <2>2. ASSUME NEW u \in Turns PROVE Recorded[u] # txMemory[r]
    <3>1. CASE ledger[u] = "complete"
      <4>1. PICK q \in Requests : /\ txMemory[q] = ledgerMemory[u]
                                  /\ pc[q] \in {"enqueue"} \cup Ended
        BY <3>1 DEF RowsRecorded
      <4>2. q # r BY <4>1, <1>2 DEF Ended
      <4>3. QED BY <4>1, <4>2, <3>1, <2>1 DEF MemoryOwned, Recorded
    <3>2. CASE ledger[u] # "complete"
      BY <3>2, <2>1 DEF Recorded
    <3>3. QED BY <3>1, <3>2
  <2>3. Recorded' = [Recorded EXCEPT ![TurnOf[r]] = txMemory[r]]
    BY <1>2, <2>1 DEF Publish, Recorded
  <2>4. Recorded[TurnOf[r]] = NoMemory
    BY <2>1 DEF Recorded
  <2>5. Promise!Record(TurnOf[r], txMemory[r])
    BY <1>2, <2>2, <2>3, <2>4 DEF Promise!Record
  <2>6. QED BY <2>1, <2>5 DEF Promise!Next
<1>3. ASSUME NEW r \in Requests, answer[r] = NoMemory, ledger[TurnOf[r]] = "complete",
             answer' = [answer EXCEPT ![r] = ledgerMemory[TurnOf[r]]],
             UNCHANGED <<ledger, ledgerMemory>>
      PROVE  Promise!Next
  <2>1. /\ Recorded[TurnOf[r]] = ledgerMemory[TurnOf[r]]
        /\ ledgerMemory[TurnOf[r]] # NoMemory
    BY <1>3 DEF Recorded, RowsRecorded
  <2>2. UNCHANGED Recorded BY <1>3 DEF Recorded
  <2>3. Promise!Answer(r) BY <1>3, <2>1, <2>2 DEF Promise!Answer
  <2>4. QED BY <2>3 DEF Promise!Next
<1>4. ASSUME NEW r \in Requests, FindByKey(r) PROVE [Promise!Next]_(Promise!vars)
  <2>1. CASE ledger[TurnOf[r]] = "complete"
    BY <1>3, <1>4, <2>1 DEF FindByKey, TransactionState
  <2>2. CASE ledger[TurnOf[r]] # "complete"
    BY <1>1, <1>4, <2>2 DEF FindByKey
  <2>3. QED BY <2>1, <2>2
<1>5. ASSUME NEW r \in Requests, EnqueueEmbedJob(r) \/ EnqueueFails(r)
      PROVE  Promise!Next
  BY <1>3, <1>5 DEF EnqueueEmbedJob, EnqueueFails, Respond, TransactionState
<1>6. ASSUME NEW r \in Requests, Commit(r) \/ CommitReplyLost(r)
      PROVE  Promise!Next
  BY <1>2, <1>6 DEF Commit, CommitReplyLost
<1>7. ASSUME NEW r \in Requests,
             Connect(r) \/ InsertTurn(r) \/ MarkComplete(r) \/ Rollback(r)
             \/ \E m \in Memories : InsertMemory(r, m)
      PROVE  UNCHANGED Promise!vars
  BY <1>1, <1>7 DEF Connect, InsertTurn, MarkComplete, Rollback, InsertMemory
<1>8. CASE ServerCrash \/ AllEnded \/ UNCHANGED vars
  BY <1>1, <1>8 DEF ServerCrash, AllEnded, vars
<1>9. QED
  <2> HIDE DEF TypeOK, Goto, database, transaction
  <2> QED BY <1>4, <1>5, <1>6, <1>7, <1>8 DEF Next, Step, Failure

(* The write path implements WriteOnce: for any number of requests and any *)
(* failures, a turn is recorded once and every success names that memory.  *)
THEOREM Implements == Spec => WriteOnceSpec
<1>1. Init => Promise!Init
  BY DEF Init, Promise!Init, Recorded
<1>2. QED BY <1>1, StepRefines, Invariance, PTL DEF Spec, WriteOnceSpec, Promise!Spec
=============================================================================
