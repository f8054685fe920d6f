---------------------------- MODULE LifecycleProofs ----------------------------
(***************************************************************************)
(* Proofs about Lifecycle, for any memories, similarities, thresholds and  *)
(* bounds: its type invariant, the audit trail, that a deletion purges the *)
(* embeddings, that a memory is merged once, that no status moves back,    *)
(* and that the cooldown holds.  None needs fairness.                      *)
(*                                                                         *)
(* Merging and the cooldown rest on what is kept from a sweep's or a job's *)
(* read to its transaction: a cluster's sources are in no summary while    *)
(* the sweep holds them, and the memories a job is about to reinforce are  *)
(* not cooling down.                                                       *)
(***************************************************************************)
EXTENDS Lifecycle, FiniteSetTheorems, TLAPS

USE DEF embeddings

(* The type invariant in two parts: the tables, and what is under way.     *)
RowsOK ==
  /\ status \in [Memories -> {"absent", "active", "archived", "deleted"}]
  /\ stability \in [Memories -> Floor..Cap]
  /\ idle \in [Memories -> 0..IdleCap]
  /\ age \in [Memories -> 0..AgeCap]
  /\ cooling \in [Memories -> BOOLEAN]
  /\ embedded \in [Memories -> BOOLEAN] /\ toEmbed \subseteq Memories
  /\ events \in [Memories -> SUBSET {"archived", "consolidated", "deleted"}]
  /\ summaries \in Seq(SUBSET Memories) /\ Len(summaries) =< MaxSummaries

DecayingOK ==
  /\ DOMAIN decaying \subseteq Memories
  /\ \A m \in DOMAIN decaying : decaying[m] \in 0..IdleCap

WorkOK ==
  /\ DecayingOK
  /\ archiving \subseteq Memories
  /\ expiring \subseteq Memories
  /\ merging \in [clusters : SUBSET SUBSET Memories, sources : SUBSET Memories]
  /\ job \in [pc : {"none", "batch", "fallback", "single"},
              todo : SUBSET Memories, eligible : SUBSET Memories]
  /\ faults \in 0..MaxFaults

(* What was merged is not active any more, what a sweep has read to merge  *)
(* exists and is not merged yet, and no two summaries share a source.      *)
MergedApart ==
  /\ \A i \in DOMAIN summaries : \A m \in summaries[i] : status[m] \in {"archived", "deleted"}
  /\ \A m \in merging.sources : status[m] # "absent"
  /\ \A i \in DOMAIN summaries : summaries[i] \cap merging.sources = {}
  /\ \A i, k \in DOMAIN summaries : i # k => summaries[i] \cap summaries[k] = {}

(* A job only holds memories to reinforce that are not cooling down.       *)
EligibleNotCooling == \A m \in job.eligible : ~ cooling[m]

IInv ==
  /\ TypeOK
  /\ AuditTrail
  /\ MergedApart
  /\ EligibleNotCooling

-----------------------------------------------------------------------------
(* What the type invariant says of the variables that the steps read.      *)
LEMMA TypeParts == TypeOK <=> RowsOK /\ WorkOK
BY DEF TypeOK, RowsOK, WorkOK, DecayingOK, Range

(* The larger and the smaller of two levels.                               *)
LEMMA MaxOfTwo ==
  ASSUME NEW a \in Int, NEW b \in Int
  PROVE  Max({a, b}) = IF a >= b THEN a ELSE b
<1> DEFINE larger == IF a >= b THEN a ELSE b
<1>1. larger \in {a, b} /\ \A y \in {a, b} : larger >= y
  OBVIOUS
<1>2. \A x \in {a, b} : (\A y \in {a, b} : x >= y) => x = larger
  OBVIOUS
<1>3. QED BY <1>1, <1>2 DEF Max

(* The lesser of two numbers.                                              *)
LEMMA MinOfTwo ==
  ASSUME NEW a \in Int, NEW b \in Int
  PROVE  Min({a, b}) = IF a =< b THEN a ELSE b
<1> DEFINE smaller == IF a =< b THEN a ELSE b
<1>1. smaller \in {a, b} /\ \A y \in {a, b} : smaller =< y
  OBVIOUS
<1>2. \A x \in {a, b} : (\A y \in {a, b} : x =< y) => x = smaller
  OBVIOUS
<1>3. QED BY <1>1, <1>2 DEF Min

(* The levels and times the code compares are numbers.                     *)
LEMMA Levels ==
  /\ Floor \in Nat /\ Cap \in Nat /\ InitialStability \in Nat
  /\ Floor =< InitialStability /\ InitialStability =< Cap
  /\ IdleCap \in Nat /\ AgeCap \in Nat
  /\ MaxSummaries \in Nat /\ MaxFaults \in Nat
<1>1. Max({DecayArchiveIdle, ArchiveIdle}) \in Nat BY TimeAssumption, MaxOfTwo
<1>2. IdleCap \in Nat BY <1>1, TimeAssumption, MaxOfTwo DEF IdleCap
<1>3. AgeCap \in Nat BY TimeAssumption, MaxOfTwo DEF AgeCap
<1>4. QED BY <1>2, <1>3, StabilityAssumption, BoundsAssumption

(* A decay stays above the floor and raises no level.                      *)
LEMMA DecayBounds ==
  ASSUME RowsOK, NEW S
  PROVE  /\ Decayed(S) \in [Memories -> Floor..Cap]
         /\ \A m \in Memories : Decayed(S)[m] =< stability[m]
<1>1. ASSUME NEW m \in Memories
      PROVE  /\ Max({Floor, stability[m] - 1}) \in Floor..Cap
             /\ Max({Floor, stability[m] - 1}) =< stability[m]
  <2>1. stability[m] \in Floor..Cap /\ Floor \in Int /\ Cap \in Int /\ stability[m] - 1 \in Int
    BY Levels DEF RowsOK
  <2>2. Max({Floor, stability[m] - 1}) = IF Floor >= stability[m] - 1 THEN Floor
                                         ELSE stability[m] - 1
    BY <2>1, MaxOfTwo
  <2>3. QED BY <2>1, <2>2
<1>2. DOMAIN stability = Memories /\ \A m \in Memories : stability[m] \in Floor..Cap
  BY DEF RowsOK
<1>3. \A m \in Memories : stability[m] =< stability[m] BY <1>2, Levels
<1>4. Decayed(S) = [m \in Memories |-> IF m \in S THEN Max({Floor, stability[m] - 1})
                                      ELSE stability[m]]
  BY <1>2 DEF Decayed, Set
<1>5. QED BY <1>1, <1>2, <1>3, <1>4

(* A reinforcement stays below the cap and touches no other memory.        *)
LEMMA ReinforceBounds ==
  ASSUME RowsOK, NEW S, Reinforced(S)
  PROVE  /\ RowsOK'
         /\ \A m \in Memories \ S : stability'[m] = stability[m]
         /\ UNCHANGED <<status, embedded, toEmbed, events, summaries>>
<1>1. ASSUME NEW m \in Memories
      PROVE  Min({Cap, stability[m] + 1}) \in Floor..Cap
  <2>1. stability[m] \in Floor..Cap /\ Floor \in Int /\ Cap \in Int /\ stability[m] + 1 \in Int
    BY Levels DEF RowsOK
  <2>2. Min({Cap, stability[m] + 1}) = IF Cap =< stability[m] + 1 THEN Cap
                                       ELSE stability[m] + 1
    BY <2>1, MinOfTwo
  <2>3. QED BY <2>1, <2>2
<1>2. DOMAIN stability = Memories /\ \A m \in Memories : stability[m] \in Floor..Cap
  BY DEF RowsOK
<1>3. stability' = [m \in Memories |-> IF m \in S THEN Min({Cap, stability[m] + 1})
                                      ELSE stability[m]]
  BY <1>2 DEF Reinforced, Set
<1>4. stability' \in [Memories -> Floor..Cap]
  BY <1>1, <1>2, <1>3
<1>5. idle' \in [Memories -> 0..IdleCap] /\ cooling' \in [Memories -> BOOLEAN]
  <2>1. DOMAIN idle = Memories /\ DOMAIN cooling = Memories /\ 0 \in 0..IdleCap
    BY Levels DEF RowsOK
  <2>2. /\ idle' = [m \in Memories |-> IF m \in S THEN 0 ELSE idle[m]]
        /\ cooling' = [m \in Memories |-> IF m \in S THEN TRUE ELSE cooling[m]]
    BY <2>1 DEF Reinforced, Set
  <2>3. QED BY <2>1, <2>2 DEF RowsOK
<1>6. RowsOK' BY <1>4, <1>5 DEF Reinforced, RowsOK
<1>7. QED BY <1>3, <1>6 DEF Reinforced

-----------------------------------------------------------------------------
(* No memory exists, and no sweep or job is under way.                     *)
LEMMA InitIInv == Init => IInv
<1> SUFFICES ASSUME Init PROVE IInv OBVIOUS
<1>1. RowsOK BY Levels DEF Init, RowsOK
<1>2. WorkOK BY Levels DEF Init, WorkOK, DecayingOK, NoDecay, NoMerge, NoJob
<1>3. QED
  BY <1>1, <1>2, TypeParts
  DEF Init, IInv, AuditTrail, MergedApart, EligibleNotCooling, NoMerge, NoJob

(* Types, action by action.                                                *)
LEMMA NextTypeOK == TypeOK /\ [Next]_vars => TypeOK'
<1> SUFFICES ASSUME RowsOK, WorkOK, [Next]_vars PROVE RowsOK' /\ WorkOK'
  BY DEF TypeOK, RowsOK, WorkOK, DecayingOK, Range
<1>1. ASSUME NEW m \in Memories, WriteMemory(m) PROVE RowsOK' /\ WorkOK'
  <2>1. RowsOK' BY <1>1, Levels DEF WriteMemory, RowsOK, rows
  <2>2. WorkOK' BY <1>1, Levels DEF WriteMemory, WorkOK, DecayingOK, sweeps
  <2>3. QED BY <2>1, <2>2
<1>2. ASSUME NEW S \in SUBSET Memories, Forget(S) PROVE RowsOK' /\ WorkOK'
  <2>1. RowsOK' BY <1>2, Levels DEF Forget, Set, Log, RowsOK, rows
  <2>2. WorkOK' BY <1>2, Levels DEF Forget, Set, Log, WorkOK, DecayingOK, sweeps
  <2>3. QED BY <2>1, <2>2
<1>3. ASSUME NEW m \in Memories, CooldownEnds(m) PROVE RowsOK' /\ WorkOK'
  <2>1. RowsOK' BY <1>3, Levels DEF CooldownEnds, RowsOK, rows
  <2>2. WorkOK' BY <1>3, Levels DEF CooldownEnds, WorkOK, DecayingOK, sweeps
  <2>3. QED BY <2>1, <2>2
<1>4. ASSUME DecayFails PROVE RowsOK' /\ WorkOK'
  <2>1. RowsOK' BY <1>4, Levels DEF DecayFails, Fault, RowsOK, rows
  <2>2. WorkOK' BY <1>4, Levels DEF DecayFails, Fault, NoDecay, WorkOK, DecayingOK, sweeps
  <2>3. QED BY <2>1, <2>2
<1>5. ASSUME FindArchivable \/ FindExpired PROVE RowsOK' /\ WorkOK'
  <2>1. RowsOK' BY <1>5, Levels DEF FindArchivable, FindExpired, RowsOK, rows
  <2>2. WorkOK' BY <1>5, Levels DEF FindArchivable, FindExpired, Active, WorkOK, DecayingOK, sweeps
  <2>3. QED BY <2>1, <2>2
<1>6. ASSUME NEW m \in Memories, CommitArchive(m) PROVE RowsOK' /\ WorkOK'
  <2>1. RowsOK' BY <1>6, Levels DEF CommitArchive, Archive, Active, Set, Log, RowsOK, rows
  <2>2. WorkOK' BY <1>6, Levels DEF CommitArchive, WorkOK, DecayingOK, sweeps
  <2>3. QED BY <2>1, <2>2
<1>7. ASSUME NEW m \in Memories, ArchiveFails(m) \/ RetentionFails(m) PROVE RowsOK' /\ WorkOK'
  <2>1. RowsOK' BY <1>7, Levels DEF ArchiveFails, RetentionFails, Fault, RowsOK, rows
  <2>2. WorkOK' BY <1>7, Levels DEF ArchiveFails, RetentionFails, Fault, WorkOK, DecayingOK, sweeps
  <2>3. QED BY <2>1, <2>2
<1>8. ASSUME NEW m \in Memories, CommitRetention(m) PROVE RowsOK' /\ WorkOK'
  <2>1. RowsOK' BY <1>8, Levels DEF CommitRetention, Set, Log, RowsOK, rows
  <2>2. WorkOK' BY <1>8, Levels DEF CommitRetention, WorkOK, DecayingOK, sweeps
  <2>3. QED BY <2>1, <2>2
<1>9. ASSUME FindClusters PROVE RowsOK' /\ WorkOK'
  <2>1. RowsOK' BY <1>9, Levels DEF FindClusters, RowsOK, rows
  <2>2. WorkOK' BY <1>9, Levels DEF FindClusters, Clusters, Active, NoMerge, WorkOK, DecayingOK, sweeps
  <2>3. QED BY <2>1, <2>2
<1>10. ASSUME NEW C \in merging.clusters, ReadSources(C) PROVE RowsOK' /\ WorkOK'
  <2>1. RowsOK' BY <1>10, Levels DEF ReadSources, RowsOK, rows
  <2>2. WorkOK' BY <1>10, Levels DEF ReadSources, WorkOK, DecayingOK, sweeps
  <2>3. QED BY <2>1, <2>2
<1>11. ASSUME MergeFails PROVE RowsOK' /\ WorkOK'
  <2>1. RowsOK' BY <1>11, Levels DEF MergeFails, Fault, RowsOK, rows
  <2>2. WorkOK' BY <1>11, Levels DEF MergeFails, Fault, WorkOK, DecayingOK, sweeps
  <2>3. QED BY <2>1, <2>2
<1>12. ASSUME NEW S \in Retrieved, Access(S) PROVE RowsOK' /\ WorkOK'
  <2>1. RowsOK' BY <1>12, Levels DEF Access, Set, RowsOK, rows
  <2>2. WorkOK' BY <1>12, Levels DEF Access, WorkOK, DecayingOK, sweeps
  <2>3. QED BY <2>1, <2>2
<1>13. ASSUME NEW S \in Retrieved, CheckCooldowns(S) PROVE RowsOK' /\ WorkOK'
  <2>1. RowsOK' BY <1>13, Levels DEF CheckCooldowns, RowsOK, rows
  <2>2. WorkOK' BY <1>13, Levels DEF CheckCooldowns, Retrieved, WorkOK, DecayingOK, sweeps
  <2>3. QED BY <2>1, <2>2
<1>14. ASSUME NEW m \in Memories, ReinforceOne(m) PROVE RowsOK' /\ WorkOK'
  <2>1. RowsOK' BY <1>14, Levels DEF ReinforceOne, RowsOK, rows
  <2>2. WorkOK' BY <1>14, Levels DEF ReinforceOne, Fallback, NoJob, WorkOK, DecayingOK, sweeps
  <2>3. QED BY <2>1, <2>2
<1>15. ASSUME Crash PROVE RowsOK' /\ WorkOK'
  <2>1. RowsOK' BY <1>15, Levels DEF Crash, Fault, RowsOK, rows
  <2>2. WorkOK' BY <1>15, Levels DEF Crash, Fault, NoDecay, NoMerge, NoJob, WorkOK, DecayingOK, sweeps
  <2>3. QED BY <2>1, <2>2
<1>16. ASSUME FindDecayable PROVE RowsOK' /\ WorkOK'
  <2>1. RowsOK' BY <1>16 DEF FindDecayable, RowsOK, rows
  <2>2. \A m \in Active : m \in Memories /\ idle[m] \in 0..IdleCap
    BY DEF Active, RowsOK
  <2>3. DecayingOK'
    <3>1. PICK found \in SUBSET Active : decaying' = [m \in found |-> idle[m]]
      BY <1>16 DEF FindDecayable
    <3>2. DOMAIN decaying' = found /\ \A m \in found : decaying'[m] = idle[m]
      BY <3>1
    <3>3. QED BY <2>2, <3>2 DEF DecayingOK
  <2>4. WorkOK' BY <1>16, <2>3 DEF FindDecayable, WorkOK
  <2>5. QED BY <2>1, <2>4
<1>17. ASSUME Tick PROVE RowsOK' /\ WorkOK'
  <2> DEFINE Older(t, max) == IF t < max THEN t + 1 ELSE max
  <2>1. \A max \in Nat : \A t \in 0..max : Older(t, max) \in 0..max
    OBVIOUS
  <2>2. /\ idle' = [m \in Memories |-> IF m \in Active THEN Older(idle[m], IdleCap) ELSE idle[m]]
        /\ age' = [m \in Memories |-> IF m \in Active THEN Older(age[m], AgeCap) ELSE age[m]]
        /\ cooling' = [m \in Memories |-> FALSE]
        /\ decaying' = [m \in DOMAIN decaying |-> Older(decaying[m], IdleCap)]
        /\ UNCHANGED <<status, stability, embedded, toEmbed, events, summaries, archiving,
                       expiring, merging, job, faults>>
    BY <1>17 DEF Tick, Set, RowsOK
  <2> HIDE DEF Older
  <2>3. RowsOK' BY <2>1, <2>2, Levels DEF RowsOK
  <2>4. WorkOK' BY <2>1, <2>2, Levels DEF WorkOK, DecayingOK
  <2>5. QED BY <2>3, <2>4
<1>18. ASSUME CommitDecay PROVE RowsOK' /\ WorkOK'
  <2>1. stability' \in [Memories -> Floor..Cap]
    BY <1>18, DecayBounds DEF CommitDecay
  <2>2. RowsOK' BY <1>18, <2>1 DEF RowsOK, CommitDecay, Archive, Set, Log
  <2>3. WorkOK' BY <1>18 DEF WorkOK, DecayingOK, CommitDecay, NoDecay
  <2>4. QED BY <2>2, <2>3
<1>19. ASSUME CommitMerge PROVE RowsOK' /\ WorkOK'
  <2>1. merging.sources \in SUBSET Memories BY DEF WorkOK
  <2>2. summaries' \in Seq(SUBSET Memories) /\ Len(summaries') =< MaxSummaries
    BY <1>19, <2>1, Levels DEF CommitMerge, RowsOK
  <2>3. RowsOK' BY <1>19, <2>2 DEF RowsOK, CommitMerge, Archive, Set, Log
  <2>4. WorkOK' BY <1>19 DEF WorkOK, DecayingOK, CommitMerge
  <2>5. QED BY <2>3, <2>4
<1>20. ASSUME CommitReinforce \/ ReinforceFails PROVE RowsOK' /\ WorkOK'
  <2>1. RowsOK'
    <3>1. CASE UNCHANGED rows BY <3>1 DEF rows, RowsOK
    <3>2. CASE Reinforced(job.eligible) BY <3>2, ReinforceBounds
    <3>3. QED BY <1>20, <3>1, <3>2 DEF CommitReinforce, ReinforceFails
  <2>2. WorkOK'
    <3>1. /\ Fallback(job.todo) \in [pc : {"none", "batch", "fallback", "single"},
                                    todo : SUBSET Memories, eligible : SUBSET Memories]
          /\ NoJob \in [pc : {"none", "batch", "fallback", "single"},
                        todo : SUBSET Memories, eligible : SUBSET Memories]
      BY DEF Fallback, NoJob, WorkOK
    <3>2. faults' \in 0..MaxFaults
      BY <1>20, Levels DEF CommitReinforce, ReinforceFails, Fault, WorkOK
    <3>3. QED BY <1>20, <3>1, <3>2 DEF CommitReinforce, ReinforceFails, sweeps, WorkOK, DecayingOK
  <2>3. QED BY <2>1, <2>2
<1>21. ASSUME EmbeddingWorker PROVE RowsOK' /\ WorkOK'
  <2>1. RowsOK' BY <1>21 DEF EmbeddingWorker, UpsertEmbeddings, EmbedFails, RowsOK
  <2>2. WorkOK' BY <1>21 DEF EmbeddingWorker, UpsertEmbeddings, EmbedFails, WorkOK, DecayingOK, sweeps
  <2>3. QED BY <2>1, <2>2
<1>22. CASE UNCHANGED vars
  BY <1>22 DEF vars, rows, sweeps, RowsOK, WorkOK, DecayingOK
<1>23. QED
  BY <1>1, <1>2, <1>3, <1>4, <1>5, <1>6, <1>7, <1>8, <1>9, <1>10, <1>11,
     <1>12, <1>13, <1>14, <1>15, <1>16, <1>17, <1>18, <1>19, <1>20, <1>21, <1>22
  DEF Next, Users, Decay, ArchiveSweep, RetentionSweep, ConsolidationSweep, Consumer

(* What a step may do to a status: write a memory, archive an active one,  *)
(* delete one that is not deleted yet.                                     *)
StatusMoves ==
  \A m \in Memories :
    \/ status'[m] = status[m]
    \/ status[m] = "absent" /\ status'[m] = "active"
    \/ status[m] = "active" /\ status'[m] \in {"archived", "deleted"}
    \/ status[m] = "archived" /\ status'[m] = "deleted"

(* The sweeps look at the status again in their transactions, and so do    *)
(* users who forget: no status moves in any other way.                     *)
LEMMA StepMoves == TypeOK /\ [Next]_vars => StatusMoves
<1> SUFFICES ASSUME RowsOK, [Next]_vars PROVE StatusMoves
  BY TypeParts
<1> USE DEF StatusMoves, RowsOK
<1>1. ASSUME NEW m \in Memories, WriteMemory(m) PROVE StatusMoves
  BY <1>1 DEF WriteMemory
<1>2. ASSUME NEW S \in SUBSET Memories, Forget(S) PROVE StatusMoves
  BY <1>2 DEF Forget, Set
<1>3. ASSUME NEW S, status' = Archive(S) PROVE StatusMoves
  BY <1>3 DEF Archive, Set, Active
<1>4. ASSUME CommitDecay \/ CommitMerge \/ \E m \in Memories : CommitArchive(m)
      PROVE  StatusMoves
  BY <1>3, <1>4 DEF CommitDecay, CommitMerge, CommitArchive
<1>5. ASSUME NEW m \in Memories, CommitRetention(m) PROVE StatusMoves
  BY <1>5 DEF CommitRetention, Set, Active
<1>6. ASSUME UNCHANGED status PROVE StatusMoves
  BY <1>6
<1>7. ASSUME \/ Tick \/ FindDecayable \/ DecayFails \/ FindArchivable \/ FindExpired
             \/ FindClusters \/ MergeFails \/ Crash \/ UNCHANGED vars
             \/ \E m \in Memories : CooldownEnds(m) \/ ArchiveFails(m) \/ RetentionFails(m)
             \/ \E C \in merging.clusters : ReadSources(C)
      PROVE  UNCHANGED status
  BY <1>7 DEF Tick, FindDecayable, DecayFails, FindArchivable, FindExpired, FindClusters,
              MergeFails, Crash, CooldownEnds, ArchiveFails, RetentionFails, ReadSources,
              rows, vars
<1>8. ASSUME Consumer \/ EmbeddingWorker PROVE UNCHANGED status
  BY <1>8 DEF EmbeddingWorker, UpsertEmbeddings, EmbedFails, Consumer, Access, CheckCooldowns,
              ReinforceOne, CommitReinforce, ReinforceFails, Reinforced, rows
<1>9. QED
  BY <1>1, <1>2, <1>4, <1>5, <1>6, <1>7, <1>8
  DEF Next, Users, Decay, ArchiveSweep, RetentionSweep, ConsolidationSweep

(* The steps that leave status, embeddings, events and summaries alone.    *)
LEMMA QuietSteps ==
  ASSUME \/ Tick \/ FindDecayable \/ DecayFails \/ FindArchivable \/ FindExpired
         \/ FindClusters \/ MergeFails \/ Crash \/ UNCHANGED vars
         \/ \E m \in Memories : CooldownEnds(m) \/ ArchiveFails(m) \/ RetentionFails(m)
         \/ \E C \in merging.clusters : ReadSources(C)
         \/ Consumer
  PROVE  UNCHANGED <<status, embedded, toEmbed, events, summaries>>
<1>1. ASSUME Consumer PROVE UNCHANGED <<status, embedded, toEmbed, events, summaries>>
  BY <1>1 DEF Consumer, Access, CheckCooldowns, ReinforceOne, CommitReinforce,
              ReinforceFails, Reinforced, rows
<1>2. QED
  BY <1>1 DEF Tick, FindDecayable, DecayFails, FindArchivable, FindExpired, FindClusters,
              MergeFails, Crash, CooldownEnds, ArchiveFails, RetentionFails, ReadSources,
              rows, vars

(* Whoever archives or deletes a memory logs it in the same transaction.   *)
LEMMA NextAudit == TypeOK /\ AuditTrail /\ [Next]_vars => AuditTrail'
<1> SUFFICES ASSUME RowsOK, AuditTrail, [Next]_vars PROVE AuditTrail'
  BY TypeParts
<1> USE DEF AuditTrail, RowsOK
<1>1. ASSUME NEW m \in Memories, WriteMemory(m) PROVE AuditTrail'
  BY <1>1 DEF WriteMemory
<1>2. ASSUME NEW S \in SUBSET Memories, Forget(S) PROVE AuditTrail'
  BY <1>2 DEF Forget, Set, Log
<1>3. ASSUME NEW S, status' = Archive(S),
             events' = Log(S, "archived") \/ events' = Log(S, "consolidated")
      PROVE  AuditTrail'
  <2> SUFFICES ASSUME NEW m \in Memories
               PROVE  /\ status'[m] = "archived" => {"archived", "consolidated"} \cap events'[m] # {}
                      /\ status'[m] = "deleted" => "deleted" \in events'[m]
    BY DEF AuditTrail
  <2>1. status'[m] = IF m \in S \cap Active THEN "archived" ELSE status[m]
    BY <1>3 DEF Archive, Set
  <2>2. \/ events'[m] = IF m \in S THEN events[m] \cup {"archived"} ELSE events[m]
        \/ events'[m] = IF m \in S THEN events[m] \cup {"consolidated"} ELSE events[m]
    BY <1>3 DEF Log, Set
  <2>3. QED BY <2>1, <2>2
<1>4. ASSUME CommitDecay \/ CommitMerge \/ \E m \in Memories : CommitArchive(m)
      PROVE  AuditTrail'
  BY <1>3, <1>4 DEF CommitDecay, CommitMerge, CommitArchive
<1>5. ASSUME NEW m \in Memories, CommitRetention(m) PROVE AuditTrail'
  BY <1>5 DEF CommitRetention, Set, Log, Active
<1>6. ASSUME UNCHANGED <<status, events>> PROVE AuditTrail'
  BY <1>6
<1>7. ASSUME EmbeddingWorker PROVE UNCHANGED <<status, events>>
  BY <1>7 DEF EmbeddingWorker, UpsertEmbeddings, EmbedFails
<1>8. QED
  BY <1>1, <1>2, <1>4, <1>5, <1>6, <1>7, QuietSteps
  DEF Next, Users, Decay, ArchiveSweep, RetentionSweep, ConsolidationSweep

(* What a step may leave of a deleted memory's embeddings: DeletionPurges. *)
PurgeStep ==
  \A m \in Memories :
    status'[m] = "deleted" /\ embedded'[m] =>
      status[m] = "deleted" /\ (embedded[m] \/ m \in toEmbed)

(* Both who delete a memory purge it in the same transaction; the others   *)
(* delete none, and only an embedding job writes embeddings.               *)
LEMMA StepPurges == TypeOK /\ [Next]_vars => PurgeStep
<1> SUFFICES ASSUME RowsOK, [Next]_vars PROVE PurgeStep
  BY TypeParts
<1> USE DEF PurgeStep, RowsOK
<1>1. ASSUME UNCHANGED embedded,
             \A m \in Memories : status'[m] = "deleted" => status[m] = "deleted"
      PROVE  PurgeStep
  BY <1>1
<1>2. ASSUME NEW m \in Memories, WriteMemory(m) PROVE PurgeStep
  BY <1>1, <1>2 DEF WriteMemory
<1>3. ASSUME NEW S \in SUBSET Memories, Forget(S) PROVE PurgeStep
  BY <1>3 DEF Forget, Set
<1>4. ASSUME NEW m \in Memories, CommitRetention(m) PROVE PurgeStep
  BY <1>4 DEF CommitRetention, Set, Active
<1>5. ASSUME CommitDecay \/ CommitMerge \/ \E m \in Memories : CommitArchive(m)
      PROVE  PurgeStep
  <2>1. ASSUME NEW S, status' = Archive(S), NEW m \in Memories
        PROVE  status'[m] = "deleted" => status[m] = "deleted"
    BY <2>1 DEF Archive, Set
  <2>2. UNCHANGED embedded /\ \E S : status' = Archive(S)
    BY <1>5 DEF CommitDecay, CommitMerge, CommitArchive
  <2>3. QED BY <1>1, <2>1, <2>2
<1>6. ASSUME EmbeddingWorker PROVE PurgeStep
  BY <1>6 DEF EmbeddingWorker, UpsertEmbeddings, EmbedFails
<1>7. ASSUME UNCHANGED <<status, embedded>> PROVE PurgeStep
  BY <1>7
<1>8. QED
  BY <1>2, <1>3, <1>4, <1>5, <1>6, <1>7, QuietSteps
  DEF Next, Users, Decay, ArchiveSweep, RetentionSweep, ConsolidationSweep

(* What is merged has left the active memories in the same transaction, so *)
(* a sweep that reads its sources later finds none of them.                *)
LEMMA NextMerged == TypeOK /\ MergedApart /\ [Next]_vars => MergedApart'
<1> SUFFICES ASSUME TypeOK, MergedApart, [Next]_vars PROVE MergedApart'
  OBVIOUS
<1>1. StatusMoves BY StepMoves
<1>2. /\ \A i \in DOMAIN summaries : summaries[i] \subseteq Memories
      /\ merging.sources \subseteq Memories
  BY TypeParts DEF RowsOK, WorkOK
<1>3. ASSUME UNCHANGED summaries, merging'.sources \subseteq merging.sources
      PROVE  MergedApart'
  <2>1. \A m \in Memories :
          /\ status[m] \in {"archived", "deleted"} => status'[m] \in {"archived", "deleted"}
          /\ status[m] # "absent" => status'[m] # "absent"
    BY <1>1 DEF StatusMoves
  <2>2. QED BY <1>2, <1>3, <2>1 DEF MergedApart
<1>4. ASSUME NEW C \in merging.clusters, ReadSources(C) PROVE MergedApart'
  <2>1. /\ UNCHANGED <<summaries, status>>
        /\ merging'.sources \subseteq Active
    BY <1>4 DEF ReadSources, rows
  <2>2. QED BY <2>1, <1>2 DEF MergedApart, Active
<1>5. ASSUME CommitMerge PROVE MergedApart'
  <2>1. /\ summaries' = Append(summaries, merging.sources)
        /\ merging'.sources = {}
        /\ status' = Archive(merging.sources)
    BY <1>5, TypeParts DEF CommitMerge, WorkOK
  <2>2. /\ \A i \in DOMAIN summaries' :
             \/ i \in DOMAIN summaries /\ summaries'[i] = summaries[i]
             \/ i = Len(summaries) + 1 /\ summaries'[i] = merging.sources
    BY <2>1, TypeParts DEF RowsOK, WorkOK
  <2>3. \A m \in merging.sources : status'[m] \in {"archived", "deleted"}
    BY <1>2, <2>1, TypeParts DEF MergedApart, Archive, Set, Active, RowsOK
  <2>4. \A i \in DOMAIN summaries' : \A m \in summaries'[i] : status'[m] \in {"archived", "deleted"}
    BY <1>1, <1>2, <2>2, <2>3 DEF MergedApart, StatusMoves
  <2>5. \A i, k \in DOMAIN summaries' : i # k => summaries'[i] \cap summaries'[k] = {}
    <3> SUFFICES ASSUME NEW i \in DOMAIN summaries', NEW k \in DOMAIN summaries', i # k
                 PROVE  summaries'[i] \cap summaries'[k] = {}
      OBVIOUS
    <3>1. CASE i \in DOMAIN summaries /\ k \in DOMAIN summaries
              /\ summaries'[i] = summaries[i] /\ summaries'[k] = summaries[k]
      BY <3>1 DEF MergedApart
    <3>2. CASE i \in DOMAIN summaries /\ summaries'[i] = summaries[i]
              /\ summaries'[k] = merging.sources
      BY <3>2 DEF MergedApart
    <3>3. CASE k \in DOMAIN summaries /\ summaries'[k] = summaries[k]
              /\ summaries'[i] = merging.sources
      BY <3>3 DEF MergedApart
    <3>4. QED BY <2>2, <3>1, <3>2, <3>3
  <2>6. QED BY <2>1, <2>4, <2>5 DEF MergedApart
<1>6. ASSUME Users \/ EmbeddingWorker \/ Tick \/ Decay \/ ArchiveSweep \/ RetentionSweep
             \/ Consumer \/ Crash \/ FindClusters \/ MergeFails \/ UNCHANGED vars
             \/ \E m \in Memories : CooldownEnds(m)
      PROVE  UNCHANGED summaries /\ merging'.sources \subseteq merging.sources
  <2>1. CASE Users \/ EmbeddingWorker
    BY <2>1 DEF Users, WriteMemory, Forget, EmbeddingWorker, UpsertEmbeddings, EmbedFails, sweeps
  <2>2. CASE Tick \/ Decay
    BY <2>2 DEF Tick, Decay, FindDecayable, CommitDecay, DecayFails, rows
  <2>3. CASE ArchiveSweep \/ RetentionSweep
    BY <2>3 DEF ArchiveSweep, RetentionSweep, FindArchivable, CommitArchive, ArchiveFails,
                FindExpired, CommitRetention, RetentionFails, rows
  <2>4. CASE Consumer
    BY <2>4 DEF Consumer, Access, CheckCooldowns, ReinforceOne, CommitReinforce,
                ReinforceFails, Reinforced, rows, sweeps
  <2>5. CASE Crash \/ FindClusters \/ UNCHANGED vars \/ \E m \in Memories : CooldownEnds(m)
    BY <2>5 DEF Crash, FindClusters, NoMerge, CooldownEnds, vars, rows, sweeps
  <2>6. CASE MergeFails
    BY <2>6, TypeParts DEF MergeFails, WorkOK, rows
  <2>7. QED BY <1>6, <2>1, <2>2, <2>3, <2>4, <2>5, <2>6
<1>7. QED BY <1>3, <1>4, <1>5, <1>6 DEF Next, ConsolidationSweep

(* A cooldown starts only in the transaction of a job, which then holds no *)
(* memory any more; the next one is taken after its cooldown was read.     *)
LEMMA NextEligible ==
  TypeOK /\ EligibleNotCooling /\ [Next]_vars => EligibleNotCooling'
<1> SUFFICES ASSUME RowsOK, WorkOK, EligibleNotCooling, [Next]_vars
             PROVE  EligibleNotCooling'
  BY TypeParts
<1>0. job.eligible \subseteq Memories BY DEF WorkOK
<1>1. ASSUME UNCHANGED job, \A m \in Memories : cooling'[m] => cooling[m]
      PROVE  EligibleNotCooling'
  BY <1>0, <1>1 DEF EligibleNotCooling
<1>2. ASSUME NEW S \in Retrieved, CheckCooldowns(S) PROVE EligibleNotCooling'
  BY <1>2 DEF CheckCooldowns, EligibleNotCooling, rows
<1>3. ASSUME CommitReinforce \/ ReinforceFails \/ Crash PROVE EligibleNotCooling'
  <2>1. job' = NoJob \/ job' = Fallback(job.todo)
    BY <1>3 DEF CommitReinforce, ReinforceFails, Crash
  <2>2. QED BY <2>1 DEF Fallback, NoJob, EligibleNotCooling
<1>4. ASSUME NEW m \in Memories, ReinforceOne(m) PROVE EligibleNotCooling'
  BY <1>4 DEF ReinforceOne, Fallback, NoJob, EligibleNotCooling, rows
<1>5. ASSUME Users \/ EmbeddingWorker \/ Tick \/ Decay \/ ArchiveSweep \/ RetentionSweep
             \/ ConsolidationSweep \/ UNCHANGED vars \/ (\E m \in Memories : CooldownEnds(m))
             \/ \E S \in Retrieved : Access(S)
      PROVE  UNCHANGED job /\ \A m \in Memories : cooling'[m] => cooling[m]
  <2>1. CASE Users \/ EmbeddingWorker \/ \E S \in Retrieved : Access(S)
    BY <2>1 DEF Users, WriteMemory, Forget, EmbeddingWorker, UpsertEmbeddings, EmbedFails, Access
  <2>2. CASE Tick \/ (\E m \in Memories : CooldownEnds(m)) \/ UNCHANGED vars
    BY <2>2 DEF Tick, CooldownEnds, RowsOK, vars, rows
  <2>3. CASE Decay
    BY <2>3 DEF Decay, FindDecayable, CommitDecay, DecayFails, rows
  <2>4. CASE ArchiveSweep \/ RetentionSweep
    BY <2>4 DEF ArchiveSweep, RetentionSweep, FindArchivable, CommitArchive, ArchiveFails,
                FindExpired, CommitRetention, RetentionFails, rows
  <2>5. CASE ConsolidationSweep
    BY <2>5 DEF ConsolidationSweep, FindClusters, ReadSources, CommitMerge, MergeFails, rows
  <2>6. QED BY <1>5, <2>1, <2>2, <2>3, <2>4, <2>5
<1>6. QED BY <1>1, <1>2, <1>3, <1>4, <1>5 DEF Next, Consumer

(* Every step keeps the inductive invariant.                               *)
LEMMA NextIInv == IInv /\ [Next]_vars => IInv'
BY NextTypeOK, NextAudit, NextMerged, NextEligible DEF IInv

(* IInv holds of every reachable state.                                    *)
THEOREM Invariance == Spec => []IInv
BY InitIInv, NextIInv, PTL DEF Spec

-----------------------------------------------------------------------------
(* Types: stability stays between floor and cap, and what sweeps and jobs  *)
(* hold stays within what they may have read.                              *)
THEOREM TypeCorrect == Spec => []TypeOK
<1>1. IInv => TypeOK BY DEF IInv
<1>2. QED BY <1>1, Invariance, PTL

(* Every archived or deleted memory has the event that says so, through    *)
(* any interleaving of sweeps, users, failures and crashes.                *)
THEOREM Audited == Spec => []AuditTrail
<1>1. IInv => AuditTrail BY DEF IInv
<1>2. QED BY <1>1, Invariance, PTL

(* A deletion purges the embeddings of what it deletes, by whoever and     *)
(* from whatever status; only an embedding job writes any after it.        *)
THEOREM PurgedAtDeletion == Spec => DeletionPurges
<1>1. IInv /\ [Next]_vars =>
        [\A m \in Memories :
           status'[m] = "deleted" /\ embedded'[m] =>
             status[m] = "deleted" /\ (embedded[m] \/ m \in toEmbed)]_vars
  BY StepPurges DEF IInv, PurgeStep
<1>2. QED BY <1>1, Invariance, PTL DEF Spec, DeletionPurges

(* A memory is a source of one summary at most.                            *)
THEOREM MergedAtMostOnce == Spec => []MergedOnce
<1>1. IInv => MergedOnce
  <2> SUFFICES ASSUME MergedApart, NEW m \in Memories
               PROVE  Cardinality({i \in DOMAIN summaries : m \in summaries[i]}) =< 1
    BY DEF IInv, MergedOnce
  <2> DEFINE homes == {i \in DOMAIN summaries : m \in summaries[i]}
  <2>1. CASE homes = {} BY <2>1, FS_EmptySet
  <2>2. CASE homes # {}
    <3>1. PICK i \in homes : TRUE BY <2>2
    <3>2. \A k \in homes : k = i BY DEF MergedApart
    <3>3. homes = {i} BY <3>1, <3>2
    <3>4. Cardinality({i}) = 1 BY FS_Singleton
    <3>5. QED BY <3>3, <3>4
  <2>3. QED BY <2>1, <2>2
<1>2. QED BY <1>1, Invariance, PTL

(* No status moves back: what a user has forgotten stays forgotten,        *)
(* whatever the sweeps had read before.                                    *)
THEOREM NeverBack == Spec => NothingComesBack
<1>1. IInv /\ [Next]_vars =>
        [\A m \in Memories : Rank[status[m]] =< Rank[status'[m]]]_vars
  <2> SUFFICES ASSUME TypeOK, [Next]_vars, NEW m \in Memories
               PROVE  Rank[status[m]] =< Rank[status'[m]]
    BY DEF IInv
  <2>1. /\ Rank["absent"] = 0 /\ Rank["active"] = 1
        /\ Rank["archived"] = 2 /\ Rank["deleted"] = 3
    BY DEF Rank
  <2>2. status[m] \in {"absent", "active", "archived", "deleted"}
    BY TypeParts DEF RowsOK
  <2>3. QED BY <2>1, <2>2, StepMoves DEF StatusMoves
<1>2. QED BY <1>1, Invariance, PTL DEF Spec, NothingComesBack

(* No memory that is cooling down gains stability, also when a job is      *)
(* tried again after a reply was lost.                                     *)
THEOREM CooldownHolds == Spec => CooldownRespected
<1>1. IInv /\ [Next]_vars =>
        [\A m \in Memories : cooling[m] => stability'[m] =< stability[m]]_vars
  <2> SUFFICES ASSUME RowsOK, EligibleNotCooling, [Next]_vars,
                      NEW m \in Memories, cooling[m]
               PROVE  stability'[m] =< stability[m]
    BY TypeParts DEF IInv
  <2>0. stability[m] \in Int BY Levels DEF RowsOK
  <2>1. CASE CommitDecay BY <2>1, DecayBounds DEF CommitDecay
  <2>2. CASE Reinforced(job.eligible)
    BY <2>0, <2>2, ReinforceBounds DEF EligibleNotCooling
  <2>3. CASE UNCHANGED stability BY <2>0, <2>3
  <2>4. ASSUME Consumer PROVE UNCHANGED stability \/ Reinforced(job.eligible)
    BY <2>4 DEF Consumer, Access, CheckCooldowns, ReinforceOne, CommitReinforce,
                ReinforceFails, rows
  <2>5. ASSUME Users \/ EmbeddingWorker \/ Tick \/ FindDecayable \/ DecayFails
               \/ ArchiveSweep \/ RetentionSweep \/ ConsolidationSweep \/ Crash \/ UNCHANGED vars
               \/ \E n \in Memories : CooldownEnds(n)
        PROVE  UNCHANGED stability
    <3>1. CASE Users \/ EmbeddingWorker \/ Tick \/ Crash \/ UNCHANGED vars
               \/ \E n \in Memories : CooldownEnds(n)
      BY <3>1 DEF Users, WriteMemory, Forget, EmbeddingWorker, UpsertEmbeddings, EmbedFails,
                  Tick, Crash, CooldownEnds, vars, rows
    <3>2. CASE FindDecayable \/ DecayFails
      BY <3>2 DEF FindDecayable, DecayFails, rows
    <3>3. CASE ArchiveSweep \/ RetentionSweep
      BY <3>3 DEF ArchiveSweep, RetentionSweep, FindArchivable, CommitArchive, ArchiveFails,
                  FindExpired, CommitRetention, RetentionFails, rows
    <3>4. CASE ConsolidationSweep
      BY <3>4 DEF ConsolidationSweep, FindClusters, ReadSources, CommitMerge, MergeFails, rows
    <3>5. QED BY <2>5, <3>1, <3>2, <3>3, <3>4
  <2>6. QED BY <2>1, <2>2, <2>3, <2>4, <2>5 DEF Next, Decay
<1>2. QED BY <1>1, Invariance, PTL DEF Spec, CooldownRespected
=============================================================================
