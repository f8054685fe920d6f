------------------------------- MODULE Lifecycle -------------------------------
(***************************************************************************)
(* The lifecycle worker: four sweeps on timers of their own (decay,        *)
(* archive, consolidation, retention), all started at once when the worker *)
(* starts, and a consumer of access and reinforce jobs, in one process and *)
(* over the same memories, which users forget meanwhile.  Each sweep reads *)
(* its candidates through the pool and acts on them later, in              *)
(* transactions that lock the rows they update; a transaction is one step. *)
(*                                                                         *)
(* Time is counted in ticks, a tick being longer than the reinforcement    *)
(* cooldown.  Stability is counted in levels, a decay or a reinforcement   *)
(* being one level; the drift of decay_rate is left out, and so are pinned *)
(* memories, which nothing in the repository creates.  A sweep's LIMIT is  *)
(* taken not to be reached, and a sweep to end before its timer starts it  *)
(* again.  Summaries only count as what they were merged from: they are    *)
(* semantic, never merged again, and otherwise live like any memory.       *)
(***************************************************************************)
EXTENDS Integers, FiniteSets, FiniteSetsExt, Sequences, SequencesExt, Functions

CONSTANTS
  Memories,          \* episodic memories
  Similar,           \* pairs {m, n} with a similar_to edge over the threshold
  Floor,             \* DECAY_STABILITY_FLOOR
  Cap,               \* REINFORCE_STABILITY_CAP
  InitialStability,  \* default of stability_score
  DecayArchive,      \* DECAY_ARCHIVE_STABILITY: the decay sweep archives below it
  ArchiveBelow,      \* ARCHIVE_STABILITY_THRESHOLD: the archive sweep does
  DecayIdle,         \* DECAY_MIN_IDLE_HOURS, in ticks
  DecayArchiveIdle,  \* DECAY_ARCHIVE_MIN_AGE_DAYS
  ArchiveIdle,       \* ARCHIVE_MIN_IDLE_DAYS
  Window,            \* CONSOLIDATION_MAX_AGE_DAYS: merged while younger
  Retention,         \* retention_config.max_age_hours of episodic memories
  MinCluster,        \* CONSOLIDATION_MIN_CLUSTER_SIZE
  MaxSweeps,         \* bound: sweeps under way at once
  MaxSummaries,      \* bound: summaries written
  MaxFaults          \* bound: failed transactions and crashes of the worker

ASSUME SimilarAssumption == Similar \subseteq kSubset(2, Memories)
ASSUME StabilityAssumption ==
  /\ {Floor, Cap, InitialStability, DecayArchive, ArchiveBelow} \subseteq Nat
  /\ Floor =< InitialStability /\ InitialStability =< Cap
ASSUME TimeAssumption ==
  /\ {DecayIdle, DecayArchiveIdle, ArchiveIdle} \subseteq Nat \ {0}
  /\ {Window, Retention} \subseteq Nat \ {0}
  /\ MinCluster \in Nat /\ MinCluster >= 2
ASSUME BoundsAssumption == {MaxSweeps, MaxSummaries, MaxFaults} \subseteq Nat

(* Nothing asks how much longer than this a memory has been idle, or is    *)
(* old.                                                                    *)
IdleCap == Max({DecayIdle, Max({DecayArchiveIdle, ArchiveIdle})})
AgeCap == Max({Window, Retention})

VARIABLES
  status,      \* status[m]: memories.status
  stability,   \* stability[m]: stability_score, in levels
  idle,        \* idle[m]: ticks since last_accessed_at, up to IdleCap
  age,         \* age[m]: ticks since created_at, up to AgeCap
  cooling,     \* cooling[m]: last_reinforced_at is within the cooldown
  embedded,    \* embedded[m]: the chunks of m have rows in chunk_embeddings
  toEmbed,     \* memories whose embedding job is queued or under way
  events,      \* events[m]: which events of memory_events m has
  summaries,   \* the sources of each consolidated memory
  decaying,    \* candidates of the decay sweep, with their idle time as read
  archiving,   \* candidates of the archive sweep that are left
  expiring,    \* candidates of the retention sweep that are left
  merging,     \* the consolidation sweep: clusters left, sources as read
  job,         \* the reinforce job the consumer is running
  faults       \* failures and crashes so far

embeddings == <<embedded, toEmbed>>
rows == <<status, stability, idle, age, cooling, embeddings, events, summaries>>
sweeps == <<decaying, archiving, expiring, merging>>
vars == <<rows, sweeps, job, faults>>

NoMerge == [clusters |-> {}, sources |-> {}]
NoJob == [pc |-> "none", todo |-> {}, eligible |-> {}]
NoDecay == <<>>

(* The sweeps between two runs of their timers, and whether another may    *)
(* begin: two of them are what a race needs.                               *)
Resting == <<NoDecay, {}, {}, NoMerge>>
Room == Cardinality({i \in DOMAIN Resting : sweeps[i] # Resting[i]}) < MaxSweeps

TypeOK ==
  /\ status \in [Memories -> {"absent", "active", "archived", "deleted"}]
  /\ stability \in [Memories -> Floor..Cap]
  /\ idle \in [Memories -> 0..IdleCap]
  /\ age \in [Memories -> 0..AgeCap]
  /\ cooling \in [Memories -> BOOLEAN]
  /\ embedded \in [Memories -> BOOLEAN] /\ toEmbed \subseteq Memories
  /\ events \in [Memories -> SUBSET {"archived", "consolidated", "deleted"}]
  /\ summaries \in Seq(SUBSET Memories) /\ Len(summaries) =< MaxSummaries
  /\ DOMAIN decaying \subseteq Memories /\ Range(decaying) \subseteq 0..IdleCap
  /\ archiving \subseteq Memories
  /\ expiring \subseteq Memories
  /\ merging \in [clusters : SUBSET SUBSET Memories, sources : SUBSET Memories]
  /\ job \in [pc : {"none", "batch", "fallback", "single"},
              todo : SUBSET Memories, eligible : SUBSET Memories]
  /\ faults \in 0..MaxFaults

Active == {m \in Memories : status[m] = "active"}

Init ==
  /\ status = [m \in Memories |-> "absent"]
  /\ stability = [m \in Memories |-> InitialStability]
  /\ idle = [m \in Memories |-> 0]
  /\ age = [m \in Memories |-> 0]
  /\ cooling = [m \in Memories |-> FALSE]
  /\ embedded = [m \in Memories |-> FALSE] /\ toEmbed = {}
  /\ events = [m \in Memories |-> {}]
  /\ summaries = <<>>
  /\ decaying = NoDecay /\ archiving = {} /\ expiring = {} /\ merging = NoMerge
  /\ job = NoJob
  /\ faults = 0
-----------------------------------------------------------------------------
(* f with the value of e(m) at the memories m of S. *)
Set(f, S, e(_)) == [m \in DOMAIN f |-> IF m \in S THEN e(m) ELSE f[m]]

(* Rows of memory_events for the memories of S. *)
Log(S, type) == Set(events, S, LAMBDA m : events[m] \cup {type})

(* Variant, not the code: the update does not look at the status again. *)
ArchiveAny(S) == Set(status, S, LAMBDA m : "archived")

(* UPDATE memories SET status = 'archived' WHERE ... AND status = 'active'. *)
Archive(S) == Set(status, S \cap Active, LAMBDA m : "archived")

Fault == faults < MaxFaults /\ faults' = faults + 1
-----------------------------------------------------------------------------
(* A memory is written, and its embedding job pushed or lost. *)
WriteMemory(m) ==
  /\ status[m] = "absent"
  /\ status' = [status EXCEPT ![m] = "active"]
  /\ toEmbed' \in {toEmbed, toEmbed \cup {m}}
  /\ UNCHANGED <<stability, idle, age, cooling, embedded, events, summaries, sweeps, job, faults>>

(* The embedding worker upserts what it made of the chunks, which it read  *)
(* whatever has become of the memory since, and nothing changes chunks.    *)
(* If the reply is lost the job is run again.                              *)
UpsertEmbeddings(m) ==
  /\ m \in toEmbed
  /\ embedded' = [embedded EXCEPT ![m] = TRUE]
  /\ toEmbed' \in {toEmbed, toEmbed \ {m}}
  /\ UNCHANGED <<status, stability, idle, age, cooling, events, summaries, sweeps, job, faults>>

(* The last attempt at the embedding job fails. *)
EmbedFails(m) ==
  /\ m \in toEmbed
  /\ toEmbed' = toEmbed \ {m}
  /\ UNCHANGED <<status, stability, idle, age, cooling, embedded, events, summaries, sweeps, job,
                 faults>>

(* Variant, not the code: the embeddings are left to the retention sweep. *)
ForgetWithoutPurge(S) ==
  LET hits == {m \in S : status[m] \in {"active", "archived"}} IN
  /\ hits # {}
  /\ status' = Set(status, hits, LAMBDA m : "deleted")
  /\ events' = Log(hits, "deleted")
  /\ UNCHANGED <<stability, idle, age, cooling, embeddings, summaries, sweeps, job, faults>>

(* forgetMemories: those not deleted yet are, with their embeddings. *)
Forget(S) ==
  LET hits == {m \in S : status[m] \in {"active", "archived"}} IN
  /\ hits # {}
  /\ status' = Set(status, hits, LAMBDA m : "deleted")
  /\ embedded' = Set(embedded, hits, LAMBDA m : FALSE)
  /\ events' = Log(hits, "deleted")
  /\ UNCHANGED <<stability, idle, age, cooling, toEmbed, summaries, sweeps, job, faults>>

(* Time passes, for active memories: nobody reads the times of the others  *)
(* again.  What a sweep has read as last_accessed_at grows older too.      *)
Tick ==
  LET Older(t, max) == IF t < max THEN t + 1 ELSE max IN
  /\ \E m \in Active : age[m] < AgeCap \/ idle[m] < IdleCap
  /\ idle' = Set(idle, Active, LAMBDA m : Older(idle[m], IdleCap))
  /\ age' = Set(age, Active, LAMBDA m : Older(age[m], AgeCap))
  /\ cooling' = [m \in Memories |-> FALSE]
  /\ decaying' = [m \in DOMAIN decaying |-> Older(decaying[m], IdleCap)]
  /\ UNCHANGED <<status, stability, embeddings, events, summaries, archiving, expiring, merging,
                 job, faults>>

(* The cooldown of m is over before the tick is. *)
CooldownEnds(m) ==
  /\ cooling[m]
  /\ cooling' = [cooling EXCEPT ![m] = FALSE]
  /\ UNCHANGED <<status, stability, idle, age, embeddings, events, summaries, sweeps, job, faults>>
-----------------------------------------------------------------------------
(* Variant, not the code: nothing decays below the archive threshold. *)
FindDecayableAboveArchive ==
  LET found == {m \in Active : stability[m] > ArchiveBelow /\ idle[m] >= DecayIdle} IN
  /\ decaying = NoDecay /\ found # {} /\ Room
  /\ decaying' = [m \in found |-> idle[m]]
  /\ UNCHANGED <<rows, archiving, expiring, merging, job, faults>>

(* runDecaySweep: active memories above the floor, idle for a day. *)
FindDecayable ==
  LET found == {m \in Active : stability[m] > Floor /\ idle[m] >= DecayIdle} IN
  /\ decaying = NoDecay /\ found # {} /\ Room
  /\ decaying' = [m \in found |-> idle[m]]
  /\ UNCHANGED <<rows, archiving, expiring, merging, job, faults>>

(* One decay of the memories of S, whatever their status. *)
Decayed(S) == Set(stability, S, LAMBDA m : Max({Floor, stability[m] - 1}))

(* One transaction decays every candidate, whatever its status is by now,  *)
(* and archives those that fell below DECAY_ARCHIVE_STABILITY and had been *)
(* idle long enough when they were read.                                   *)
CommitDecay ==
  LET decayed == Decayed(DOMAIN decaying)
      gone == {m \in DOMAIN decaying :
                 decayed[m] < DecayArchive /\ decaying[m] >= DecayArchiveIdle} IN
  /\ decaying # NoDecay
  /\ stability' = decayed
  /\ status' = Archive(gone)
  /\ events' = Log(gone, "archived")
  /\ decaying' = NoDecay
  /\ UNCHANGED <<idle, age, cooling, embeddings, summaries, archiving, expiring, merging, job,
                 faults>>

(* The transaction is rolled back, and the sweep is over. *)
DecayFails ==
  /\ decaying # NoDecay
  /\ Fault
  /\ decaying' = NoDecay
  /\ UNCHANGED <<rows, archiving, expiring, merging, job>>
-----------------------------------------------------------------------------
(* runArchiveSweep: active memories of little stability, idle for long. *)
FindArchivable ==
  LET found == {m \in Active : stability[m] < ArchiveBelow /\ idle[m] >= ArchiveIdle} IN
  /\ archiving = {} /\ found # {} /\ Room
  /\ archiving' = found
  /\ UNCHANGED <<rows, decaying, expiring, merging, job, faults>>

(* One transaction per candidate; the event is logged even if the update   *)
(* finds the memory no longer active.                                      *)
CommitArchive(m) ==
  /\ m \in archiving
  /\ status' = Archive({m})
  /\ events' = Log({m}, "archived")
  /\ archiving' = archiving \ {m}
  /\ UNCHANGED <<stability, idle, age, cooling, embeddings, summaries, decaying, expiring, merging,
                 job, faults>>

ArchiveFails(m) ==
  /\ m \in archiving
  /\ Fault
  /\ archiving' = archiving \ {m}
  /\ UNCHANGED <<rows, decaying, expiring, merging, job>>
-----------------------------------------------------------------------------
(* runRetentionSweep: active memories past the retention of their type. *)
FindExpired ==
  LET found == {m \in Active : age[m] >= Retention} IN
  /\ expiring = {} /\ found # {} /\ Room
  /\ expiring' = found
  /\ UNCHANGED <<rows, decaying, archiving, merging, job, faults>>

(* One transaction per candidate: only the status depends on its being     *)
(* still active; the embeddings go and the event is logged in any case.    *)
CommitRetention(m) ==
  /\ m \in expiring
  /\ status' = Set(status, {m} \cap Active, LAMBDA n : "deleted")
  /\ embedded' = [embedded EXCEPT ![m] = FALSE]
  /\ events' = Log({m}, "deleted")
  /\ expiring' = expiring \ {m}
  /\ UNCHANGED <<stability, idle, age, cooling, toEmbed, summaries, decaying, archiving, merging,
                 job, faults>>

RetentionFails(m) ==
  /\ m \in expiring
  /\ Fault
  /\ expiring' = expiring \ {m}
  /\ UNCHANGED <<rows, decaying, archiving, merging, job>>
-----------------------------------------------------------------------------
(* The connected components of S under Similar that are large enough. *)
Clusters(S) ==
  LET Closed(C) == \A m \in C, n \in S : {m, n} \in Similar => n \in C IN
  {C \in SUBSET S : /\ Cardinality(C) >= MinCluster
                    /\ Closed(C)
                    /\ \A D \in SUBSET C \ {{}, C} : ~ Closed(D)}

(* runConsolidationSweep: the clusters of young active memories. *)
FindClusters ==
  LET found == Clusters({m \in Active : age[m] < Window}) IN
  /\ merging = NoMerge /\ found # {} /\ Room
  /\ merging' = [NoMerge EXCEPT !.clusters = found]
  /\ UNCHANGED <<rows, decaying, archiving, expiring, job, faults>>

(* processCluster reads the members still active, and drops the cluster if *)
(* they have become too few.                                               *)
ReadSources(C) ==
  LET sources == C \cap Active IN
  /\ merging.sources = {} /\ C \in merging.clusters
  /\ merging' = [clusters |-> merging.clusters \ {C},
                 sources |-> IF Cardinality(sources) >= MinCluster THEN sources ELSE {}]
  /\ UNCHANGED <<rows, decaying, archiving, expiring, job, faults>>

(* Variant, not the code: the sources are left active. *)
CommitMergeOnly ==
  /\ merging.sources # {} /\ Len(summaries) < MaxSummaries
  /\ summaries' = Append(summaries, merging.sources)
  /\ events' = Log(merging.sources, "consolidated")
  /\ merging' = [merging EXCEPT !.sources = {}]
  /\ UNCHANGED <<status, stability, idle, age, cooling, embeddings, decaying, archiving, expiring,
                 job, faults>>

(* One transaction writes the summary and archives the sources it was read *)
(* from, those that are still active.                                      *)
CommitMerge ==
  /\ merging.sources # {} /\ Len(summaries) < MaxSummaries
  /\ summaries' = Append(summaries, merging.sources)
  /\ status' = Archive(merging.sources)
  /\ events' = Log(merging.sources, "consolidated")
  /\ merging' = [merging EXCEPT !.sources = {}]
  /\ UNCHANGED <<stability, idle, age, cooling, embeddings, decaying, archiving, expiring, job,
                 faults>>

(* Variant, not the code: no transaction, and it fails before the events. *)
MergeFailsHalfWay ==
  /\ merging.sources # {} /\ Len(summaries) < MaxSummaries
  /\ Fault
  /\ summaries' = Append(summaries, merging.sources)
  /\ status' = Archive(merging.sources)
  /\ merging' = [merging EXCEPT !.sources = {}]
  /\ UNCHANGED <<stability, idle, age, cooling, embeddings, events, decaying, archiving, expiring,
                 job>>

MergeFails ==
  /\ merging.sources # {}
  /\ Fault
  /\ merging' = [merging EXCEPT !.sources = {}]
  /\ UNCHANGED <<rows, decaying, archiving, expiring, job>>
-----------------------------------------------------------------------------
(* Jobs name memories that a retrieval returned: the queue may hold one    *)
(* for any set of memories written so far, deleted since or not.           *)
Retrieved == SUBSET {m \in Memories : status[m] # "absent"} \ {{}}

(* processAccessJob. *)
Access(S) ==
  /\ job = NoJob /\ S \cap Active # {}
  /\ idle' = Set(idle, S \cap Active, LAMBDA m : 0)
  /\ UNCHANGED <<status, stability, age, cooling, embeddings, events, summaries, sweeps, job,
                 faults>>

(* processReinforceJob reads which memories are not cooling down. *)
CheckCooldowns(S) ==
  LET eligible == {m \in S : ~ cooling[m]} IN
  /\ job = NoJob /\ eligible # {}
  /\ job' = [pc |-> "batch", todo |-> S, eligible |-> eligible]
  /\ UNCHANGED <<rows, sweeps, faults>>

(* Variant, not the code: REINFORCE_STABILITY_CAP is not applied. *)
ReinforcedUncapped(S) ==
  /\ stability' = Set(stability, S, LAMBDA m : stability[m] + 1)
  /\ idle' = Set(idle, S, LAMBDA m : 0)
  /\ cooling' = Set(cooling, S, LAMBDA m : TRUE)
  /\ UNCHANGED <<status, age, embeddings, events, summaries>>

Reinforced(S) ==
  /\ stability' = Set(stability, S, LAMBDA m : Min({Cap, stability[m] + 1}))
  /\ idle' = Set(idle, S, LAMBDA m : 0)
  /\ cooling' = Set(cooling, S, LAMBDA m : TRUE)
  /\ UNCHANGED <<status, age, embeddings, events, summaries>>

(* The memories left after a failure, one by one; none left, the job ends. *)
Fallback(todo) == IF todo = {} THEN NoJob ELSE [pc |-> "fallback", todo |-> todo, eligible |-> {}]

(* The transaction of the batch, or of one memory. *)
CommitReinforce ==
  /\ job.pc \in {"batch", "single"}
  /\ Reinforced(job.eligible)
  /\ job' = IF job.pc = "batch" THEN NoJob ELSE Fallback(job.todo)
  /\ UNCHANGED <<sweeps, faults>>

(* It fails, or it is committed and the reply is lost; after a batch every *)
(* memory of the job is tried on its own.                                  *)
ReinforceFails ==
  /\ job.pc \in {"batch", "single"}
  /\ Fault
  /\ Reinforced(job.eligible) \/ UNCHANGED rows
  /\ job' = Fallback(job.todo)
  /\ UNCHANGED sweeps

(* Variant, not the code: the fallback does not look at the cooldown. *)
ReinforceOneUnchecked(m) ==
  /\ job.pc = "fallback" /\ m \in job.todo
  /\ job' = [pc |-> "single", todo |-> job.todo \ {m}, eligible |-> {m}]
  /\ UNCHANGED <<rows, sweeps, faults>>

(* reinforceMemory: the cooldown of m is read again first. *)
ReinforceOne(m) ==
  /\ job.pc = "fallback" /\ m \in job.todo
  /\ job' = IF cooling[m] THEN Fallback(job.todo \ {m})
            ELSE [pc |-> "single", todo |-> job.todo \ {m}, eligible |-> {m}]
  /\ UNCHANGED <<rows, sweeps, faults>>
-----------------------------------------------------------------------------
(* The worker dies and is started again: open transactions are rolled back *)
(* and the job it had taken is gone.                                       *)
Crash ==
  /\ sweeps # Resting \/ job # NoJob
  /\ Fault
  /\ decaying' = NoDecay /\ archiving' = {} /\ expiring' = {} /\ merging' = NoMerge
  /\ job' = NoJob
  /\ UNCHANGED rows

Decay == FindDecayable \/ CommitDecay \/ DecayFails
ArchiveSweep == FindArchivable \/ \E m \in Memories : CommitArchive(m) \/ ArchiveFails(m)
RetentionSweep == FindExpired \/ \E m \in Memories : CommitRetention(m) \/ RetentionFails(m)
ConsolidationSweep ==
  FindClusters \/ CommitMerge \/ MergeFails \/ \E C \in merging.clusters : ReadSources(C)
Consumer ==
  \/ \E S \in Retrieved : Access(S) \/ CheckCooldowns(S)
  \/ \E m \in Memories : ReinforceOne(m)
  \/ CommitReinforce \/ ReinforceFails
Users ==
  \/ \E m \in Memories : WriteMemory(m) \/ Forget({m})
  \/ Forget(Memories)
EmbeddingWorker == \E m \in Memories : UpsertEmbeddings(m) \/ EmbedFails(m)

Next ==
  \/ Users \/ EmbeddingWorker \/ Tick \/ \E m \in Memories : CooldownEnds(m)
  \/ Decay \/ ArchiveSweep \/ RetentionSweep \/ ConsolidationSweep \/ Consumer \/ Crash

(* The timers start the decay and archive sweeps again, and every sweep    *)
(* goes on to its end.                                                     *)
Fairness ==
  /\ WF_vars(FindDecayable \/ CommitDecay)
  /\ WF_vars(FindArchivable \/ \E m \in Memories : CommitArchive(m))
  /\ WF_vars(\E m \in Memories : CommitRetention(m))
  /\ WF_vars(CommitMerge \/ \E C \in merging.clusters : ReadSources(C))

Spec == Init /\ [][Next]_vars /\ Fairness
-----------------------------------------------------------------------------
(* A status only moves from active to archived to deleted: no sweep that   *)
(* acts on a list it read earlier brings a memory back that a user has     *)
(* forgotten meanwhile.                                                    *)
Rank == [absent |-> 0, active |-> 1, archived |-> 2, deleted |-> 3]
NothingComesBack ==
  [][\A m \in Memories : Rank[status[m]] =< Rank[status'[m]]]_vars

(* "Tracks every lifecycle mutation for debugging and compliance"          *)
(* (007_memory_events.sql:2): an archived memory has an event that says    *)
(* who archived it, a deleted one a deletion, whichever of the sweeps and  *)
(* the user got to it first and whatever failed in between.                *)
AuditTrail ==
  \A m \in Memories :
    /\ status[m] = "archived" => {"archived", "consolidated"} \cap events[m] # {}
    /\ status[m] = "deleted" => "deleted" \in events[m]

(* A memory goes into one summary at most, through sweeps that fail half   *)
(* way, crash, or lose a member between finding the cluster and reading it *)
(* (consolidate_job.ts:99).  It rests on one sweep at a time.              *)
MergedOnce ==
  \A m \in Memories : Cardinality({i \in DOMAIN summaries : m \in summaries[i]}) =< 1

(* "Respects cooldown to avoid over-reinforcing on repeated queries"       *)
(* (reinforce_job.ts:28): a memory that is cooling down gains no stability, *)
(* even when a batch was committed, the reply was lost and its memories    *)
(* are tried again one by one.  It rests on one consumer.                  *)
CooldownRespected ==
  [][\A m \in Memories : cooling[m] => stability'[m] =< stability[m]]_vars

(* "so deleted memories don't appear in vector search"                     *)
(* (retention_job.ts:39): whoever deletes a memory, from whatever status   *)
(* and whatever became of it since a sweep listed it, leaves no embeddings *)
(* behind; those a deleted memory has are of an embedding job that was not *)
(* done at its deletion (embed_memory.py:43).                              *)
DeletionPurges ==
  [][\A m \in Memories :
       status'[m] = "deleted" /\ embedded'[m] =>
         status[m] = "deleted" /\ (embedded[m] \/ m \in toEmbed)]_vars

(* An active memory that nobody uses is decayed and archived in the end,   *)
(* whatever the other sweeps and the user do: none rests between the two   *)
(* thresholds, or on the floor, once no job touches it any more.  It takes *)
(* a floor below the archive threshold, two settings that are independent  *)
(* (env.ts:25, :33).                                                       *)
Abandoned(m) == status[m] = "active" /\ idle[m] = IdleCap
AbandonedLeave ==
  Floor < ArchiveBelow => \A m \in Memories : Abandoned(m) ~> ~ Abandoned(m)

(* "Purge embeddings so deleted memories don't appear in vector search"    *)
(* (retention_job.ts:39): the memories whose embeddings are purged are     *)
(* deleted ones.  The code purges a candidate that another sweep has       *)
(* archived in between, which stays archived, and no search finds it.      *)
PurgedOnlyIfDeleted ==
  [][\A m \in Memories : embedded[m] /\ ~ embedded'[m] => status'[m] = "deleted"]_vars
=============================================================================
