---------------------------- MODULE CircuitBreaker ----------------------------
(***************************************************************************)
(* The in-process circuit breaker of packages/observability, as the        *)
(* gateway's clients use it: concurrent calls, each a withRetry loop of    *)
(* fetches inside one breaker.execute.  The check of the state and the     *)
(* start of a call are one step of the event loop; its end is another, and *)
(* it may find the breaker in any state.                                   *)
(*                                                                         *)
(* A caller that retries around the breaker (the embedding provider) is a  *)
(* caller that calls again; one caller alone is the embedding worker's     *)
(* sequential breaker.                                                     *)
(***************************************************************************)
EXTENDS Integers, FiniteSets

CONSTANTS
  Callers,      \* concurrent users of one breaker
  Threshold,    \* failureThreshold
  ResetTicks,   \* resetTimeoutMs, in ticks of the clock
  MaxAttempts   \* withRetry's maxAttempts

ASSUME ThresholdAssumption == Threshold \in Nat \ {0}
ASSUME ResetTicksAssumption == ResetTicks \in Nat \ {0}
ASSUME MaxAttemptsAssumption == MaxAttempts \in Nat \ {0}

VARIABLES
  state,         \* the breaker's state
  failureCount,  \* capped at Threshold: only ">= Threshold" is ever asked
  sinceFailure,  \* Date.now() - lastFailureTime, capped at ResetTicks
  pc,            \* pc[c]: what caller c does
  attempt,       \* attempt[c]: the attempt c's withRetry loop is at
  healthy,       \* the downstream service answers
  met            \* met[c]: how c's fetch found the service, since it began

vars == <<state, failureCount, sinceFailure, pc, attempt, healthy, met>>
breaker == <<state, failureCount, sinceFailure>>

TypeOK ==
  /\ state \in {"closed", "open", "half-open"}
  /\ failureCount \in 0..Threshold
  /\ sinceFailure \in 0..ResetTicks
  /\ pc \in [Callers -> {"idle", "fetch", "backoff"}]
  /\ attempt \in [Callers -> 1..MaxAttempts]
  /\ healthy \in BOOLEAN
  /\ met \in [Callers -> SUBSET BOOLEAN]

Init ==
  /\ state = "closed"
  /\ failureCount = 0
  /\ sinceFailure = ResetTicks
  /\ pc = [c \in Callers |-> "idle"]
  /\ attempt = [c \in Callers |-> 1]
  /\ healthy = TRUE
  /\ met = [c \in Callers |-> {}]

Goto(c, label) == pc' = [pc EXCEPT ![c] = label]

Capped(n, cap) == IF n < cap THEN n ELSE cap

(* A fetch ends as the service was at some time during it, not as it is    *)
(* at the end: an answer may be on its way when the service goes down, and *)
(* a fetch it has hung may time out long after it is back.                 *)
FetchBegins(c) == Goto(c, "fetch") /\ met' = [met EXCEPT ![c] = {healthy}]
FetchEnds(c, label) == Goto(c, label) /\ met' = [met EXCEPT ![c] = {}]

-----------------------------------------------------------------------------
(* execute's check: an open breaker lets a call through, as a probe, once  *)
(* the reset timeout has passed; otherwise the call is rejected, which     *)
(* changes nothing.  Calls that arrive while the probe is in flight are    *)
(* let through as well, though circuitBreaker.ts:37 speaks of one.         *)
Admit ==
  /\ state = "open" => sinceFailure >= ResetTicks
  /\ state' = IF state = "open" THEN "half-open" ELSE state

(* Variant, not the code: a rejection counts as a failure. *)
CallRejectionCounts(c) ==
  \/ /\ pc[c] = "idle"
     /\ Admit
     /\ FetchBegins(c)
     /\ attempt' = [attempt EXCEPT ![c] = 1]
     /\ UNCHANGED <<failureCount, sinceFailure, healthy>>
  \/ /\ pc[c] = "idle"
     /\ state = "open" /\ sinceFailure < ResetTicks
     /\ sinceFailure' = 0
     /\ UNCHANGED <<state, failureCount, pc, attempt, healthy, met>>

Call(c) ==
  /\ pc[c] = "idle"
  /\ Admit
  /\ FetchBegins(c)
  /\ attempt' = [attempt EXCEPT ![c] = 1]
  /\ UNCHANGED <<failureCount, sinceFailure, healthy>>

(* Variant, not the code: the count survives a success. *)
OnSuccessKeepsCount ==
  /\ state' = "closed"
  /\ UNCHANGED <<failureCount, sinceFailure>>

OnSuccess ==
  /\ failureCount' = 0
  /\ state' = "closed"
  /\ UNCHANGED sinceFailure

(* Any failed call counts and restarts the clock, also one that ends while *)
(* the breaker is open.                                                    *)
OnFailure ==
  /\ failureCount' = Capped(failureCount + 1, Threshold)
  /\ sinceFailure' = 0
  /\ state' = IF state = "half-open" \/ failureCount' >= Threshold
              THEN "open" ELSE state

Succeed(c) ==
  /\ pc[c] = "fetch"
  /\ TRUE \in met[c]
  /\ OnSuccess
  /\ FetchEnds(c, "idle")
  /\ UNCHANGED <<attempt, healthy>>

(* The last attempt, or an error withRetry does not retry (a 5xx status, a *)
(* timeout).                                                               *)
Fail(c) ==
  /\ pc[c] = "fetch"
  /\ FALSE \in met[c]
  /\ OnFailure
  /\ FetchEnds(c, "idle")
  /\ UNCHANGED <<attempt, healthy>>

(* Variant, not the code: the attempts are not counted. *)
BackoffForever(c) ==
  /\ pc[c] = "fetch"
  /\ FALSE \in met[c]
  /\ FetchEnds(c, "backoff")
  /\ UNCHANGED <<breaker, attempt, healthy>>

(* A network error with attempts left: sleep, and fetch again.  The loop   *)
(* is inside execute: the breaker is not asked.                            *)
Backoff(c) ==
  /\ pc[c] = "fetch"
  /\ FALSE \in met[c]
  /\ attempt[c] < MaxAttempts
  /\ FetchEnds(c, "backoff")
  /\ UNCHANGED <<breaker, attempt, healthy>>

FetchAgain(c) ==
  /\ pc[c] = "backoff"
  /\ attempt' = [attempt EXCEPT ![c] = @ + 1]
  /\ FetchBegins(c)
  /\ UNCHANGED <<breaker, healthy>>

Tick ==
  /\ sinceFailure' = Capped(sinceFailure + 1, ResetTicks)
  /\ UNCHANGED <<state, failureCount, pc, attempt, healthy, met>>

(* The downstream service fails and recovers as it likes. *)
Downstream ==
  /\ healthy' = ~ healthy
  /\ met' = [c \in Callers |-> IF pc[c] = "fetch" THEN BOOLEAN ELSE met[c]]
  /\ UNCHANGED <<breaker, pc, attempt>>

End(c) == Succeed(c) \/ Fail(c) \/ Backoff(c) \/ FetchAgain(c)

Next ==
  \/ \E c \in Callers : Call(c) \/ End(c)
  \/ Tick
  \/ Downstream

Spec == Init /\ [][Next]_vars

(* Requests keep arriving, the fetch timeout ends every attempt, and time  *)
(* passes.                                                                 *)
Fairness ==
  /\ \A c \in Callers : WF_vars(Call(c)) /\ WF_vars(End(c))
  /\ WF_vars(Tick)

FairSpec == Spec /\ Fairness

-----------------------------------------------------------------------------
(* The breaker is closed exactly when fewer than Threshold calls have      *)
(* failed since the last success, however late the ends of overlapping     *)
(* calls arrive: entering half-open does not reset the count, so a failed  *)
(* probe reopens the breaker at once.                                      *)
ClosedBelowThreshold == state = "closed" <=> failureCount < Threshold

(* When the service stays up, the breaker ends up closed for good.  Calls  *)
(* begun while it was down still fail one by one after it is back, reopen  *)
(* a breaker that has just closed and restart its clock; those begun since *)
(* do not, and a rejected call changes nothing.                            *)
RecoversWithService == <>[]healthy => <>[](state = "closed")
=============================================================================
