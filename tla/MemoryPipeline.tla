---------------------------- MODULE MemoryPipeline ----------------------------
(***************************************************************************)
(* What happens to a memory after its turn is committed: the embedding     *)
(* worker embeds its chunks and then asks for its graph edges, the graph   *)
(* worker builds them in one transaction whose reads go through other      *)
(* connections, and forget requests delete it at any moment.               *)
(*                                                                         *)
(* Memories are numbered by created_at, the start of their transaction;    *)
(* they are committed in any order.  All belong to one session.  The queue *)
(* protocol (attempts, dead letters, lost messages) is JobWorker's: here a *)
(* failed job is tried again or given up.  A search compares the centroid  *)
(* of one memory with the chunks of another, so it is not symmetric; its   *)
(* limit is taken not to be reached.                                       *)
(***************************************************************************)
EXTENDS Integers, FiniteSets, FiniteSetsExt

CONSTANTS
  Memories,    \* numbers, in the order of created_at
  Alike,       \* pairs <<m, n>>: m's search finds n over SIMILAR_EDGE_THRESHOLD
  Sharing,     \* pairs {m, n} with an entity in common
  Forgets,     \* forget requests
  Target,      \* Target[f]: the memories request f names, by id or by user
  Runs,        \* runs of the graph worker's handler that can be alive at once
  MaxRetries   \* bound: graph jobs pushed back after a failure or a timeout

ASSUME MemoriesAssumption == Memories \subseteq Nat /\ Memories # {}
ASSUME AlikeAssumption == Alike \subseteq Memories \X Memories
ASSUME SharingAssumption == Sharing \subseteq kSubset(2, Memories)
ASSUME TargetAssumption == Target \in [Forgets -> SUBSET Memories]

VARIABLES
  status,      \* status[m]: the committed status of memory m
  embedded,    \* embedded[m]: m's chunks have rows in chunk_embeddings
  events,      \* events[m]: 'deleted' rows of m in memory_events
  embedJob,    \* embedJob[m]: where m's embedding job is
  graphJobs,   \* graphJobs[m]: jobs for m in graph:jobs
  entities,    \* entities[m]: m's rows in memory_entities are committed
  edges,       \* memory_edges, as <<edge_type, src, dst>>
  run,         \* run[r]: a run of buildGraphForMemory
  timedOut,    \* a graph run has timed out
  retries,     \* graph jobs pushed back
  forget       \* forget[f]: the transaction of request f

vars == <<status, embedded, events, embedJob, graphJobs, entities, edges, run,
          timedOut, retries, forget>>
graph == <<graphJobs, entities, edges, run, timedOut, retries>>

EdgeTypes == {"same_session", "follows", "similar_to", "shares_entity"}

(* No memory is linked to itself. *)
Edges == {e \in EdgeTypes \X Memories \X Memories : e[2] # e[3]}

TypeOK ==
  /\ status \in [Memories -> {"absent", "active", "deleted"}]
  /\ embedded \in [Memories -> BOOLEAN]
  /\ events \in [Memories -> Nat]
  /\ embedJob \in [Memories ->
       {"none", "queued", "fetched", "enqueueGraph", "done", "lost"}]
  /\ graphJobs \in [Memories -> Nat]
  /\ entities \in [Memories -> BOOLEAN]
  /\ edges \subseteq Edges
  /\ run \in [Runs ->
       [pc : {"free", "session", "previous", "similar", "entities", "commit"},
        memory : Memories, attached : BOOLEAN,
        found : SUBSET Edges]]
  /\ timedOut \in BOOLEAN
  /\ retries \in Nat
  /\ forget \in [Forgets ->
       [pc : {"idle", "purge", "commit", "done"},
        hits : SUBSET Memories, purged : SUBSET Memories]]

FreeRun == [pc |-> "free", memory |-> Min(Memories), attached |-> FALSE, found |-> {}]

Init ==
  /\ status = [m \in Memories |-> "absent"]
  /\ embedded = [m \in Memories |-> FALSE]
  /\ events = [m \in Memories |-> 0]
  /\ embedJob = [m \in Memories |-> "none"]
  /\ graphJobs = [m \in Memories |-> 0]
  /\ entities = [m \in Memories |-> FALSE]
  /\ edges = {}
  /\ run = [r \in Runs |-> FreeRun]
  /\ timedOut = FALSE
  /\ retries = 0
  /\ forget = [f \in Forgets |-> [pc |-> "idle", hits |-> {}, purged |-> {}]]

Active == {m \in Memories : status[m] = "active"}
-----------------------------------------------------------------------------
(* createTurn committed the memory (TurnWrite) and pushed its job, or lost *)
(* it.                                                                     *)
WriteMemory(m) ==
  /\ status[m] = "absent"
  /\ status' = [status EXCEPT ![m] = "active"]
  /\ \E job \in {"queued", "lost"} : embedJob' = [embedJob EXCEPT ![m] = job]
  /\ UNCHANGED <<embedded, events, graph, forget>>

EmbedStep(m, from, to) ==
  /\ embedJob[m] = from
  /\ embedJob' = [embedJob EXCEPT ![m] = to]
  /\ UNCHANGED <<status, events, forget>>

(* fetch_chunks reads the chunks, whatever the memory's status. *)
FetchChunks(m) ==
  /\ EmbedStep(m, "queued", "fetched")
  /\ UNCHANGED <<embedded, graph>>

(* A row that an open forget transaction has deleted makes the upsert wait *)
(* for its end.                                                            *)
Purging == UNION {forget[f].purged : f \in {g \in Forgets : forget[g].pc = "commit"}}

(* The provider answered; upsert_embeddings commits the rows. *)
UpsertEmbeddings(m) ==
  /\ m \notin Purging
  /\ EmbedStep(m, "fetched", "enqueueGraph")
  /\ embedded' = [embedded EXCEPT ![m] = TRUE]
  /\ UNCHANGED graph

(* They are committed but the reply is lost: the job failed all the same. *)
UpsertReplyLost(m) ==
  /\ m \notin Purging
  /\ \E to \in {"queued", "lost"} : EmbedStep(m, "fetched", to)
  /\ embedded' = [embedded EXCEPT ![m] = TRUE]
  /\ UNCHANGED graph

(* The provider or the database failed: the job is retried, or given up. *)
EmbedFails(m) ==
  /\ \E to \in {"queued", "lost"} : EmbedStep(m, "fetched", to)
  /\ UNCHANGED <<embedded, graph>>

(* enqueue_graph_job, which swallows its failure. *)
EnqueueGraphJob(m) ==
  /\ EmbedStep(m, "enqueueGraph", "done")
  /\ graphJobs' = [graphJobs EXCEPT ![m] = @ + 1]
  /\ UNCHANGED <<embedded, entities, edges, run, timedOut, retries>>

EnqueueGraphFails(m) ==
  /\ EmbedStep(m, "enqueueGraph", "lost")
  /\ UNCHANGED <<embedded, graph>>

Embed(m) ==
  \/ FetchChunks(m) \/ UpsertEmbeddings(m) \/ UpsertReplyLost(m) \/ EmbedFails(m)
  \/ EnqueueGraphJob(m) \/ EnqueueGraphFails(m)
-----------------------------------------------------------------------------
(* The worker takes the next job; the runs it gave up on go on beside it.  *)
(* getById finds an active memory only.                                    *)
StartRun(r, m) ==
  /\ \A q \in Runs : ~ run[q].attached
  /\ run[r].pc = "free"
  /\ graphJobs[m] > 0
  /\ graphJobs' = [graphJobs EXCEPT ![m] = @ - 1]
  /\ run' = IF status[m] = "active"
            THEN [run EXCEPT ![r] = [pc |-> "session", memory |-> m,
                                     attached |-> TRUE, found |-> {}]]
            ELSE run
  /\ UNCHANGED <<status, embedded, events, embedJob, entities, edges,
                 timedOut, retries, forget>>

(* A read of the run adds the edges it finds to those its transaction will *)
(* commit.                                                                 *)
RunReads(r, from, to, found) ==
  /\ run[r].pc = from
  /\ run' = [run EXCEPT ![r].pc = to, ![r].found = @ \cup found]
  /\ UNCHANGED <<status, embedded, events, embedJob, graphJobs, entities, edges,
                 timedOut, retries, forget>>

FindBySession(r) ==
  LET m == run[r].memory IN
  RunReads(r, "session", "previous", {<<"same_session", m, n>> : n \in Active \ {m}})

FindPreviousInSession(r) ==
  LET m == run[r].memory
      earlier == {n \in Active : n < m}
  IN
  RunReads(r, "previous", "similar",
           IF earlier = {} THEN {} ELSE {<<"follows", Max(earlier), m>>})

(* Variant, not the code: searches earlier memories only. *)
FindSimilarEarlier(r) ==
  LET m == run[r].memory IN
  RunReads(r, "similar", "entities",
           {<<"similar_to", m, n>> :
              n \in {n \in Memories : n < m /\ embedded[m] /\ embedded[n] /\ <<m, n>> \in Alike}})

(* The centroid of no rows is NULL: a memory without embeddings has no     *)
(* similar ones.  Their status is not looked at.                           *)
FindSimilarByEmbedding(r) ==
  LET m == run[r].memory IN
  RunReads(r, "similar", "entities",
           {<<"similar_to", m, n>> :
              n \in {n \in Memories \ {m} : embedded[m] /\ embedded[n] /\ <<m, n>> \in Alike}})

(* Variant, not the code: the join on entities finds the memory itself. *)
FindMemoriesSharingEntitiesAndSelf(r) ==
  LET m == run[r].memory IN
  RunReads(r, "entities", "commit",
           {<<"shares_entity", m, n>> :
              n \in {n \in Memories : n = m \/ (entities[n] /\ {m, n} \in Sharing)}})

(* The entities are upserted first, then joined with the committed ones. *)
FindMemoriesSharingEntities(r) ==
  LET m == run[r].memory IN
  RunReads(r, "entities", "commit",
           {<<"shares_entity", m, n>> :
              n \in {n \in Memories \ {m} : entities[n] /\ {m, n} \in Sharing}})

(* Every edge and entity is upserted, in one transaction. *)
CommitRun(r) ==
  /\ run[r].pc = "commit"
  /\ edges' = edges \cup run[r].found
  /\ entities' = [entities EXCEPT ![run[r].memory] = TRUE]
  /\ run' = [run EXCEPT ![r] = FreeRun]
  /\ UNCHANGED <<status, embedded, events, embedJob, graphJobs, timedOut, retries,
                 forget>>

(* The worker pushes the job of its run back, while attempts are left. *)
PushBack(r) ==
  /\ retries < MaxRetries
  /\ retries' = retries + 1
  /\ graphJobs' = [graphJobs EXCEPT ![run[r].memory] = @ + 1]

(* The job of a run that failed in the worker's eyes is pushed back, or    *)
(* dead-lettered or lost.  Nobody looks at the end of a detached run.      *)
JobFails(r) ==
  \/ run[r].attached /\ PushBack(r)
  \/ UNCHANGED <<graphJobs, retries>>

(* A statement failed: the transaction is rolled back. *)
RunFails(r) ==
  /\ run[r].pc # "free"
  /\ run' = [run EXCEPT ![r] = FreeRun]
  /\ JobFails(r)
  /\ UNCHANGED <<status, embedded, events, embedJob, entities, edges, timedOut, forget>>

(* withTimeout gives the run up; the run goes on. *)
RunTimesOut(r) ==
  /\ run[r].attached
  /\ JobFails(r)
  /\ timedOut' = TRUE
  /\ run' = [run EXCEPT ![r].attached = FALSE]
  /\ UNCHANGED <<status, embedded, events, embedJob, entities, edges, forget>>

(* The edges are committed but the reply is lost. *)
CommitReplyLost(r) ==
  /\ run[r].pc = "commit"
  /\ JobFails(r)
  /\ edges' = edges \cup run[r].found
  /\ entities' = [entities EXCEPT ![run[r].memory] = TRUE]
  /\ run' = [run EXCEPT ![r] = FreeRun]
  /\ UNCHANGED <<status, embedded, events, embedJob, timedOut, forget>>

RunStep(r) ==
  \/ FindBySession(r) \/ FindPreviousInSession(r) \/ FindSimilarByEmbedding(r)
  \/ FindMemoriesSharingEntities(r) \/ CommitRun(r)
-----------------------------------------------------------------------------
(* Rows an open forget transaction has updated stay locked until it ends. *)
Locked == UNION {forget[f].hits : f \in {g \in Forgets : forget[g].pc \in {"purge", "commit"}}}

(* Variant, not the code: the rows are read first and updated later. *)
SoftDeleteUnlocked(f) ==
  LET hits == Target[f] \cap Active IN
  /\ forget[f].pc = "idle"
  /\ forget' = [forget EXCEPT ![f] =
                  [pc |-> IF hits = {} THEN "done" ELSE "purge",
                   hits |-> hits, purged |-> {}]]
  /\ UNCHANGED <<status, embedded, events, embedJob, graph>>

(* softDeleteById or softDeleteByUser: waits for the rows other requests   *)
(* hold and then takes those still not deleted; no row, and the empty      *)
(* transaction is over.                                                    *)
SoftDelete(f) ==
  LET hits == Target[f] \cap Active IN
  /\ forget[f].pc = "idle"
  /\ hits \cap Locked = {}
  /\ forget' = [forget EXCEPT ![f] =
                  [pc |-> IF hits = {} THEN "done" ELSE "purge",
                   hits |-> hits, purged |-> {}]]
  /\ UNCHANGED <<status, embedded, events, embedJob, graph>>

(* purgeEmbeddings deletes the embeddings that are there when it runs. *)
PurgeEmbeddings(f) ==
  /\ forget[f].pc = "purge"
  /\ forget' = [forget EXCEPT ![f].pc = "commit",
                              ![f].purged = {m \in forget[f].hits : embedded[m]}]
  /\ UNCHANGED <<status, embedded, events, embedJob, graph>>

(* The events are inserted, and all of it is committed. *)
CommitForget(f) ==
  /\ forget[f].pc = "commit"
  /\ status' = [m \in Memories |-> IF m \in forget[f].hits THEN "deleted" ELSE status[m]]
  /\ embedded' = [m \in Memories |-> embedded[m] /\ m \notin forget[f].purged]
  /\ events' = [m \in Memories |-> IF m \in forget[f].hits THEN events[m] + 1 ELSE events[m]]
  /\ forget' = [forget EXCEPT ![f].pc = "done"]
  /\ UNCHANGED <<embedJob, graph>>

(* A statement failed or the service died: nothing happened. *)
AbortForget(f) ==
  /\ forget[f].pc \in {"idle", "purge", "commit"}
  /\ forget' = [forget EXCEPT ![f].pc = "done"]
  /\ UNCHANGED <<status, embedded, events, embedJob, graph>>

Forget(f) == SoftDelete(f) \/ PurgeEmbeddings(f) \/ CommitForget(f) \/ AbortForget(f)
-----------------------------------------------------------------------------
Quiet ==
  /\ \A m \in Memories : embedJob[m] \in {"done", "lost"} /\ graphJobs[m] = 0
  /\ \A r \in Runs : run[r].pc = "free"

(* Nothing is left to do. *)
Rest ==
  /\ Quiet
  /\ \A f \in Forgets : forget[f].pc = "done"
  /\ UNCHANGED vars

Next ==
  \/ \E m \in Memories : WriteMemory(m) \/ Embed(m)
  \/ \E r \in Runs, m \in Memories : StartRun(r, m)
  \/ \E r \in Runs : RunStep(r) \/ RunFails(r) \/ RunTimesOut(r) \/ CommitReplyLost(r)
  \/ \E f \in Forgets : Forget(f)
  \/ Rest

Spec == Init /\ [][Next]_vars

-----------------------------------------------------------------------------
Linked(type, m, n) == <<type, m, n>> \in edges \/ <<type, n, m>> \in edges

(* Memories whose graph transaction is committed and that are not deleted. *)
Built == {m \in Active : entities[m]}

(* Two built memories are linked, whatever the order in which they are     *)
(* committed, embedded and built (edgeBuilder.ts:40, :81, :117): of two     *)
(* reads the later sees the other memory; of two searches that would find  *)
(* each other the later has both embeddings, for a graph job exists only   *)
(* once its memory is embedded.  Entities are visible at commit, so runs   *)
(* that overlap miss each other's: one worker runs its jobs one by one,    *)
(* but not those that timed out.                                           *)
BuiltAreLinked ==
  \A m, n \in Built : m # n =>
    /\ Linked("same_session", m, n)
    /\ {<<m, n>>, <<n, m>>} \subseteq Alike => Linked("similar_to", m, n)
    /\ ~ timedOut /\ {m, n} \in Sharing => Linked("shares_entity", m, n)

(* The audit trail has one 'deleted' event per deleted memory and none for *)
(* another: concurrent forgets by id and by user wait for each other's     *)
(* rows and look at the status again.                                      *)
DeletedEventOnce ==
  \A m \in Memories : events[m] = IF status[m] = "deleted" THEN 1 ELSE 0
=============================================================================
