------------------------- MODULE CircuitBreakerProofs -------------------------
(***************************************************************************)
(* Proofs about CircuitBreaker, for any callers, threshold, timeout and    *)
(* number of attempts: its type invariant, what "closed" means, and what   *)
(* the overlap of late results can and cannot do to the state.             *)
(*                                                                         *)
(* The meaning of "closed" is inductive once the types are known: it rests *)
(* on entering half-open without a reset of the count, so that the failed  *)
(* probe is already at the threshold.                                      *)
(***************************************************************************)
EXTENDS CircuitBreaker, TLAPS

(* A loop that sleeps has an attempt left. *)
AttemptLeft == \A c \in Callers : pc[c] = "backoff" => attempt[c] < MaxAttempts

IInv ==
  /\ TypeOK
  /\ AttemptLeft
  /\ ClosedBelowThreshold

USE ThresholdAssumption, ResetTicksAssumption, MaxAttemptsAssumption

-----------------------------------------------------------------------------
(* The breaker starts closed with no failure counted.                      *)
LEMMA InitIInv == Init => IInv
BY DEF Init, IInv, TypeOK, AttemptLeft, ClosedBelowThreshold

(* One step per operation of the breaker and of withRetry. *)
LEMMA NextIInv == IInv /\ [Next]_vars => IInv'
<1> SUFFICES ASSUME TypeOK, AttemptLeft, ClosedBelowThreshold, [Next]_vars
             PROVE  IInv'
  BY DEF IInv
<1> USE DEF IInv, TypeOK, AttemptLeft, ClosedBelowThreshold, Goto, FetchBegins, FetchEnds
<1>1. ASSUME NEW c \in Callers, Call(c) PROVE IInv'
  BY <1>1 DEF Call, Admit
<1>2. ASSUME NEW c \in Callers, Succeed(c) PROVE IInv'
  BY <1>2 DEF Succeed, OnSuccess
<1>3. ASSUME NEW c \in Callers, Fail(c) PROVE IInv'
  BY <1>3 DEF Fail, OnFailure, Capped
<1>4. ASSUME NEW c \in Callers, Backoff(c) PROVE IInv'
  BY <1>4 DEF Backoff, breaker
<1>5. ASSUME NEW c \in Callers, FetchAgain(c) PROVE IInv'
  BY <1>5 DEF FetchAgain, breaker
<1>6. ASSUME Tick PROVE IInv'
  BY <1>6 DEF Tick, Capped
<1>7. ASSUME Downstream PROVE IInv'
  BY <1>7 DEF Downstream, breaker
<1>8. CASE UNCHANGED vars
  BY <1>8 DEF vars
<1>9. QED BY <1>1, <1>2, <1>3, <1>4, <1>5, <1>6, <1>7, <1>8 DEF Next, End

(* IInv holds of every reachable state.                                    *)
THEOREM Invariance == Spec => []IInv
BY InitIInv, NextIInv, PTL DEF Spec

(* Types: the attempt of a withRetry loop stays within MaxAttempts, and    *)
(* the breaker within its three states, in any overlap of calls.           *)
THEOREM TypeCorrect == Spec => []TypeOK
<1>1. IInv => TypeOK BY DEF IInv
<1>2. QED BY <1>1, Invariance, PTL

(* The breaker is closed exactly below the threshold, for any number of    *)
(* callers whose results arrive in any order.                              *)
THEOREM ClosedMeaning == Spec => []ClosedBelowThreshold
<1>1. IInv => ClosedBelowThreshold BY DEF IInv
<1>2. QED BY <1>1, Invariance, PTL

-----------------------------------------------------------------------------
(* A call that fails while the breaker is not closed leaves it open: the   *)
(* count is still at the threshold, probe or late result alike.            *)
FailedProbeReopens ==
  \A c \in Callers : state # "closed" /\ Fail(c) => state' = "open"

(* Nothing but a successful call closes the breaker.                       *)
ClosesOnSuccess ==
  state # "closed" /\ state' = "closed" => \E c \in Callers : Succeed(c)

(* Whatever the overlap of calls, a failure that ends while the breaker is *)
(* open or half-open leaves it open, and only a success closes it.         *)
THEOREM OnlySuccessCloses == Spec => [][FailedProbeReopens /\ ClosesOnSuccess]_vars
<1>1. IInv /\ [Next]_vars => [FailedProbeReopens /\ ClosesOnSuccess]_vars
  <2> SUFFICES ASSUME TypeOK, ClosedBelowThreshold, Next
               PROVE  FailedProbeReopens /\ ClosesOnSuccess
    BY DEF IInv
  <2>1. FailedProbeReopens
    BY DEF FailedProbeReopens, Fail, OnFailure, Capped, TypeOK, ClosedBelowThreshold
  <2>2. ASSUME state # "closed", state' = "closed"
        PROVE  \E c \in Callers : Succeed(c)
    <3>1. PICK c \in Callers : Call(c) \/ End(c)
      BY <2>2 DEF Next, Tick, Downstream, breaker
    <3>2. ~ Call(c) BY <2>2 DEF Call, Admit
    <3>3. ~ Fail(c)
      BY <2>2 DEF Fail, OnFailure, Capped, TypeOK, ClosedBelowThreshold
    <3>4. ~ Backoff(c) /\ ~ FetchAgain(c)
      BY <2>2 DEF Backoff, FetchAgain, breaker
    <3>5. QED BY <3>1, <3>2, <3>3, <3>4 DEF End
  <2>3. QED BY <2>1, <2>2 DEF ClosesOnSuccess
<1>2. QED BY <1>1, Invariance, PTL DEF Spec
=============================================================================
