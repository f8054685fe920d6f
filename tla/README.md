# Verification of the hybrid memory engine

TLA+ models of the hybrid memory engine, checked with TLC on small instances; their
safety properties are proved with TLAPS for every instance. Paths below are
relative to `src/`.

## The system

The engine stores conversation turns as memories, embeds them, links them in a
graph, distils facts from them and answers retrieval requests. Its parts share one
Postgres database and a set of Redis lists; no part calls another's functions.

| part | state | operations | talks to |
|---|---|---|---|
| memory-service, turn writes (`apps/memory-service/src/services/writeTurnService.ts`) | `turn_writes` (idempotency ledger), `memories`, `memory_chunks` | `createTurn` | pushes `embed:jobs` after its commit |
| memory-service, forgetting (`forgetService.ts`) | `memories.status`, `chunk_embeddings`, `memory_events` | `forgetMemories` by id or by user | - |
| memory-service, fact feedback (`feedbackService.ts`) | trust, counters and status of `semantic_facts`, `fact_feedback`, `fact_events`, `fact_contradictions` | `confirmFact`, `rejectFact`, `correctFact` | truth worker through the tables |
| embedding worker (`apps/embedding-worker`, Python) | `chunk_embeddings` | `process_embed_job` | pops `embed:jobs`, pushes `graph:jobs` |
| graph worker | `memory_entities`, `memory_edges` | `buildGraphForMemory` | pops `graph:jobs` |
| consolidation worker | `semantic_facts`, `fact_evidence`, `fact_events`, `fact_conflicts` | handler of `consolidation:jobs`, scheduled sweep | - (nothing in the repository pushes its queue) |
| lifecycle worker | scores and status of `memories`, summaries | decay, archive, retention and consolidation sweeps; access and reinforce jobs | pops `lifecycle:jobs` |
| truth worker | the same tables | sweeps on timers: `resolveContradictions`, `reviewStaleFacts` | - (nothing in the repository but its tests inserts a contradiction that is not resolved) |
| retrieval orchestrator | result cache, configuration cache, embedding cache | `retrieveContext`, admin configuration | pushes `lifecycle:jobs` |
| api-gateway | one circuit breaker per downstream service | forwards requests, repeats one whose connection broke | memory-service, orchestrator over HTTP |
| packages/observability | - | `CircuitBreaker`, `withRetry`, `withTimeout`, the retry and dead-letter protocol | used by all |

What is hard in it: several processes and requests on the same rows under READ
COMMITTED; work that is committed but not acknowledged (COMMIT, BRPOP, LPUSH whose
reply is lost); timeouts that give a run up without stopping it; steps after a
commit that may fail silently; and state read before an update that depends on it.

What makes each part correct:

- turn writes: a turn is stored once, whatever is repeated, concurrent or lost,
  and who is answered is answered with the stored memory;
- queue workers: only a push whose reply is lost copies a job; each copy is in one place,
  is run a bounded number of times and ends in one outcome;
- circuit breaker: closed, it has fewer failures than the threshold; it closes again
  once the service is back, however late calls begun before still fail;
- embedding, graph, forgetting: memories whose graphs are built are linked whatever the
  order of their jobs; a deletion is recorded once and leaves nothing behind;
- lifecycle: no sweep undoes what a user or another sweep did since it read its
  candidates; every change of status is recorded; nothing is merged twice; who deletes
  a memory takes its embeddings along; unused memories, and no others, leave;
- retrieval: private memories reach their user only; forgotten memories and superseded
  facts leave every answer and every cache; a new configuration takes effect;
- consolidation: one active fact per subject and predicate; chains of superseded
  facts end; the audit trail explains every fact; no adjustment is lost; every
  memory with a fact is consolidated;
- fact feedback and truth worker: no feedback is lost or counted twice, a correction
  is complete, who reads a superseded fact leaves it superseded, and a contradiction is
  settled together with what settles it.

Some of these promises the code does not keep: see the findings among the runs, and the observations.

## Modules

| module | models | built on |
|---|---|---|
| `WriteOnce` | abstract: a register per turn, written once, and the answers given | - |
| `TurnWrite` | `createTurn` and `withTransaction`, statement by statement | refines `WriteOnce` |
| `JobWorker` | the BRPOP loop the queue workers share, with retries, timeouts and dead letters | - |
| `CircuitBreaker` | `circuitBreaker.ts` with `withRetry.ts` inside, as the gateway's clients use it | - |
| `MemoryPipeline` | embedding job, graph job and forget requests on shared rows | its memories are `TurnWrite`'s, its queues `JobWorker`'s, abstracted |
| `BeliefRevision` | `detectConflict` and the statements of `reviseFact`, as operators | - |
| `Consolidation` | handler runs and sweeps as concurrent transactions | `BeliefRevision` |
| `FactTrust` | feedback requests through the gateway, and the two sweeps of the truth worker, on shared rows | its facts are `Consolidation`'s |
| `Lifecycle` | decay, archive, retention and consolidation sweeps, access and reinforce jobs, forgets | its queue is `JobWorker`'s, abstracted |
| `Retrieval` | the retrieval pipeline through its two caches, forgets, the administration of the configuration | its breaker is `CircuitBreaker`'s, abstracted |
| `TurnWriteProofs`, `JobWorkerProofs`, `CircuitBreakerProofs`, `MemoryPipelineProofs`, `ConsolidationProofs`, `LifecycleProofs`, `RetrievalProofs`, `FactTrustProofs` | the theorems about the module each is named after | that module, TLAPS |

`MC*` modules give the constants that a .cfg cannot write, each `.cfg` is one run.
Definitions marked "Variant, not the code" are plausible bugs. No behaviour of the
specifications uses them: substituting one for the definition that follows it shows
that a property notices.

### TurnWrite

`ledger` and `rows` are the committed rows of `turn_writes` and `memories`; a
request's `pc`, `txStatus` and `txMemory` are where its transaction is and what it
has written. `InsertTurn` waits while another open transaction holds the unique key
of the turn, and fails when that one has committed. A statement can fail
(`Rollback`), a COMMIT can succeed without its reply (`CommitReplyLost`), the server
can die (`ServerCrash`), and the push after the commit can fail (`EnqueueFails`).
The client's retries are further requests for the same turn. `request_hash` is left
out: the code stores it and never compares it. `markFailed` is never called, so no
run of the code leaves a row `failed`; the type allows the status and the branch
for it is there.

### JobWorker

`queue` is the Redis list, a message carries the attempt count. `Pop` takes a
message and starts its run; `StampAndDecide` is `stampRetryMeta` and `retryOrDlq`.
Every push can fail and be swallowed. `RunTimesOut` is `withTimeout`: the worker
goes on and the run becomes an orphan, whose end changes nothing. `Crash` covers
death and shutdown, which does not wait for the job in hand.

No client in the repository turns off ioredis's `autoResendUnfulfilledCommands`: an LPUSH that
Redis has applied and whose reply is lost is sent again when the connection is back, or
reported as failed when the retries are used up. `ProduceReplyLost`, `RequeueReplyLost`,
`PushDlqReplyLost` and `PoisonPushReplyLost` are the first half of that: the push takes effect,
and its pusher still has the message in hand, to push it (the second copy) or to give it up
(applied, and reported as failed). The model numbers the copies of a job (`Copies`, `Another`):
the first is what the producer pushes, and `resends` counts the others. No guard looks at the
number; it is there for the properties, which speak of copies. So a job may be run more often than
the attempts allow, or be dead-lettered twice, but only as two copies, of which a lost reply
made the second; timeouts and retries make none. `PopReplyLost` is the reply of a BRPOP, whose
job is gone.

The sweeps the consolidation and lifecycle workers run beside this loop are not part of it. The
Python consumer has no timeout (the instance `TimedRuns = FALSE`) and leaves its process when
BRPOP raises (`PopReplyLost`).

### CircuitBreaker

The check of the state and the start of a call are one step of the event loop, its
end another. `sinceFailure` is the time since the last failure, in ticks, capped:
only `>= resetTimeoutMs` is asked. `met[c]` are the states of the service a fetch has met since it
began: it may succeed if the service was up at some point, and fail if it was down at some
point, so a fetch begun while the service was down can still time out long after it is back
(`Downstream` lets a fetch under way notice the change or not). `Admit` lets any number of calls through a
half-open breaker until the first one ends, as the code does, although the comment at
`circuitBreaker.ts:37` speaks of one probe. The caller in `embeddingProvider.ts` retries
around the breaker; in the model it is a caller that calls again.

### MemoryPipeline

A run of the graph worker reads through the pool, outside its transaction, so each
read is a step; its edges and entities become visible at its commit. A timed out
run goes on beside the next job. One graph worker process is assumed, as deployed
in `infra/docker/docker-compose.dev.yml`; two would overlap their runs as timed out ones do. A forget
request is a transaction whose updated rows stay locked until it ends. Memories of
one session only; which memories are alike, and which share an entity, are
constants.

### BeliefRevision and Consolidation

Confidences count twentieths. `Kinds` gives the answers `detectConflict` may give;
it is a set where a double comparison at exactly 0.2 or the age of a fact decides.
`Statements` lists the statements of `reviseFact` for each answer. `Consolidation`
executes them one by one: a statement reads what is committed and what its own
transaction wrote; an UPDATE waits for the transaction that updated the row first;
COMMIT publishes. `TimesOut` rolls back and leaves the run going: each of its later
statements is committed by itself, or fails on a foreign key to the fact that was
rolled back (`ForeignKeyFails`: links, events and conflicts refer to facts, and so does
`superseded_by`); an UPDATE of such a fact finds no row and writes none. Its ids are not
used again while a run still holds them (`UsedIds`). `overlapped` are the subjects that two
open transactions had candidates for at the same time; nothing in the code records that, and
`OneActiveFact` needs it. The sweep lists the `BatchSize` oldest memories without evidence, once,
and takes them one by one. Transactions that wait for each
other's rows in a circle lose one of their number (`DeadlockVictim`). Not modelled: the
released connection handed to another request, whose
transaction the statement would then join.

### FactTrust

`facts` are the rows of `semantic_facts`, with scores in 1/400; `status` and
`truth_status` are two columns, as in the code: consolidation sets the first only,
everything here sets both. `feedback`, `audit` and `resolution` are the other tables.
`call[c]` is the gateway's request for a client: `ConnectionBreaks` is the `TypeError`
that makes it send the request again, `GatewayTimesOut` its deadline, and in both the
service goes on with what it has (`handler`). A request reads its fact without a lock
(`ReadFact`); its rate limit is a read too, and whether the last feedback is younger
than 30 s is a choice. From its first UPDATE to its COMMIT it holds one row and waits for no
other, so that part is one step (`CommitFeedback`), on the row as it is by then, except
for what `seen` decided.

`run` is a run of a sweep: the contradictions it has still to judge, oldest first (`todo`, their
positions), the statements of the contradiction under way, the writes of its transaction
(`tx`), and `seen`: the facts it has read as not superseded, which no guard
looks at and `SupersededStays` needs. It locks several rows, one after the other, so its
statements are steps (`Execute`); those that update no row are neither seen nor waited for, and
go with the one before (`Together`). The two UPDATEs of a batch of stale facts take their rows
one by one in any order, each a step (`UpdateRow`), so that two sweeps can wait for
each other also within a statement. Postgres fails one of every circle of runs that wait
for each other (`DeadlockVictim`). `SweepTimesOut` rolls back and leaves the run going, at any of
its statements, the first SELECT included: each of its later statements is committed by
itself, and the one under way is lost. A sweep that fails is tried again after a backoff, from the
beginning, then dead-lettered.

`accepts` says whether the schema takes what these writers insert. The
migrations of the repository do not make it so (`fact_events` has no
`delta_confidence`, and its `tenant_id` and `workspace_id` are NOT NULL; the CHECK on
`source` has no `user_correction`): with them every feedback, every automatic
supersede and every review is rolled back. `Schemas` says which of the two a run starts
from: `fact_trust` starts from either, and its properties hold of both. What that means for the
repository as it stands is under Observations.

Left out: the numbers in the answer to a client, which `computeTrustScore` computes and no
row holds; the age that makes a fact stale, which is a flag (confirming clears it); the
sweeps that run once at the start, which are like any other; the released connection of a timed out run
handed to another transaction. The runs of one sweep that are waited for do not overlap. Facts are
never deleted, so the branch for a contradiction with fewer than two facts is not reached.

### Lifecycle

`decaying`, `archiving`, `expiring` and `merging` are the candidates a sweep has read
through the pool and not yet acted on; its transactions lock the rows they update, so
each is one step, and the condition `status = 'active'` of an UPDATE is evaluated in
it, on the row as it is by then (`Archive`, `CommitRetention`). `CommitDecay` has no
such condition on the scores, as in the code. `job` is the reinforce job in hand:
its cooldowns are read first, the batch is a transaction, and after a failure, or a
lost reply to a COMMIT (`ReinforceFails`), every memory is tried again with its own
cooldown read. A memory is embedded by a job that comes later, also after it was archived or
deleted, and may come twice or never (`toEmbed`, `UpsertEmbeddings`, `EmbedFails`). Stability is counted
in levels; the drift of `decay_rate` is left out,
and so are pinned memories (nothing in the repository sets `pinned`) and the contents
of summaries. Thresholds, floor, cap and times are settings of their own, as in `env.ts`, and no
assumption relates them but one: the default of `stability_score` is between floor and cap
(otherwise its first change takes it there). Idle times and ages are counted as far as any of
the settings asks (`IdleCap`, `AgeCap`). One process is assumed, and a sweep that ends before its timer
fires again; the hazards in PROJECT.json say what would break otherwise.

### Retrieval

The retrieval process is one event loop: between two awaits a request is one step.
`run[r]` is where the request is (`fetch`, `store`: the configuration; `search`,
`expand`, `neighbours`: the stages; `facts`: the lookup of facts, after whose reply the
selection follows at once; `finish`: what is left before the answer is put
in the cache) with what it carries. `answers` and `config` are the Maps of the
process, with the age of their entries in ticks. `MayRead` is the condition that
every query on memories repeats (status and `privacy_scope`); `Relevant` are the facts
the two lookups find, by keywords for the user and by evidence for anybody. The memories nearest to
the query, the edges and the facts that have its words are constants. Scores are left
out: the selection of stage 3 takes any memories and facts, as many as its
limits say (`SelectedFacts`, `SelectedMemories`; a memory with several chunks may take
several places, for `maxChunksPerMemory` is 2 unless configured). The answer is what the cache
holds; `retrieveController.ts:45` sends the blocks made of its facts but not the facts. The cache of
query embeddings, the eviction of the oldest answers
and debug requests (which bypass the cache) are left out. `fallbacks.ts` and
`safeRetrieve.ts` are never called, so a failed search fails its request.

## Runs

| run | instance | result |
|---|---|---|
| `turn_write` | four requests, three of them for one turn, a pool of two connections | 32 thousand states, all properties hold |
| `job_worker` | two workers, a job and a poison payload, three attempts, one fault (a death or a lost reply) | 177 thousand states, all hold |
| `circuit_breaker` | three callers, threshold 2, two ticks, two attempts | 6 thousand states, all hold |
| `memory_pipeline` | two memories, alike both ways and sharing an entity, two runs, one retry, two forgets, one by id and one by user | 2.8 million states, all hold |
| `consolidation` | three memories, the oldest without an acceptable fact, the others on two subjects in opposite orders; a handler and a sweep with batches of two, one fault, up to ten facts | 251 thousand states, all hold |
| `consolidation_timeout` | two handlers on one subject, one timeout | `TimeoutRollsBack` is violated (finding) |
| `lifecycle` | two similar memories, two levels of stability, two sweeps at once, one fault | 2 million states, all hold |
| `lifecycle_thresholds` | one memory, four levels of stability, the archive threshold below that of the decay sweep, two faults | 32 thousand states, `AbandonedLeave` holds |
| `lifecycle_purged` | as `lifecycle` | `PurgedOnlyIfDeleted` is violated (finding) |
| `fact_trust` | two stale facts that contradict each other, one request the gateway may send twice, both sweeps, two attempts, one fault, either schema | 331 thousand states, all hold |
| `retrieval` | two requests at once, of two users, for one item, a private memory with a fact, linked from a memory that is not private, answers that live two ticks | 664 thousand states, all hold |
| `retrieval_session` | one user who asks with and without a session | `OwnSessionOnly` is violated (finding) |

The bounds. Two requests for one turn are what the unique key arbitrates; the third is the
retry after a failure or a lost COMMIT, and the fourth, for another turn, shows that
turns do not disturb each other. A pool of two makes requests wait for a connection
while two others wait for or hold the key.
Two workers and three attempts give every interleaving of a retry that is not the last with
another worker's pop, of a copy that a lost reply makes with the copy before, and one fault at any
point; a second job that parses is one more of the same. The properties of `MemoryPipeline` relate
two memories, so two are enough for a violation; two runs are one job and one that
timed out before it. In `Consolidation` two memories have four candidates between
them: a fact, one that agrees with it, one that replaces it, and one that contradicts it. Two
transactions are what a race needs, and two subjects in opposite orders are what a deadlock needs.
The oldest memory never gets evidence, so that every sweep lists it first and has one place left
for the others; its transaction overlaps the handler's on one subject and not on the other, of which
`OneActiveFact` goes on speaking. Ten facts are more than the retries of
this instance insert. In `Lifecycle` two memories make a
cluster, and thresholds of one
tick make each sweep's candidates overlap with every other's; two sweeps at once are
every pair of sweeps, beside the consumer and the users. A memory starts at the
floor (as with `DECAY_STABILITY_FLOOR` at 0.2, the default of `stability_score`), so
that it can wait for the archive sweep without having passed the decay sweep, and a
reinforcement lifts it above both thresholds. In `lifecycle_thresholds` a memory starts
above both, and there is a level between them and one below; the decay sweep lowers it after a tick and
archives it after three, the archive sweep after two. In `FactTrust` the trust of the two
facts, the gap and the penalty are such that the same contradiction is resolved or
contested depending on what feedback and review did before it was judged; a request
that is sent twice gives two overlapping transactions, and a second client is beyond
reach (1.4 million states). In `Retrieval` two
requests are the one that reads and the one that stores later; a life of two ticks is
what an answer needs to be used between two of them; with one place in an answer a
fact and the memories compete for it, and one change (a forget or a superseded fact)
is what each statement about staleness speaks of.
Retries, faults and ids are bounded by the constants whose comment says "bound".

`OneActiveFact` excepts the subjects that two open transactions had candidates for
together, and the part of `BuiltAreLinked` about shared entities is for histories without a
timeout: the code has nothing that
keeps them otherwise, and their hazards in PROJECT.json say why. `timeouts = 0` in
`AuditExplains` and `ConfidenceAddsUp` excludes what `consolidation_timeout` shows.
`SweepCatchesBatch` speaks of the memories that older ones without a fact leave a place in the
batch; the others are left out for ever, against `memoryRepo.ts:39` (see Observations). `AbandonedLeave` is for a floor
below `ARCHIVE_STABILITY_THRESHOLD`: with one at or above it, which the settings allow, a memory on the
floor stays. `SupersededStays` excepts a request or a sweep that read the fact before it was
superseded (`DecidedBefore`): nothing makes it look again. `DeletionPurges` is what the
deletion does, and not that nothing comes after it: the embedding worker may.

Deadlock is checked in every run; where the system comes to rest, an action that
changes nothing says so by its guard (`AllEnded`, `Quiet`, `Rest`).

### Fairness

- `TurnWrite`: each request's own steps are weakly fair. A statement returns, fails
  or waits for a transaction that itself goes on. Failures are never fair.
- `JobWorker`: each worker's loop. It is never left, and each await in it settles:
  the handler by its timeout, the sleep by its timer, Redis and Postgres by an
  answer or an error. The producers are not fair.
- `CircuitBreaker`: calls keep arriving, the fetch timeout ends an attempt, time
  passes. The service's recovery is the hypothesis of the property, not assumed; fetches begun before
  it may fail or succeed after it, those begun since succeed.
- `Consolidation`: the timer starts sweeps for ever (`setInterval`) and a handler
  takes jobs. Handlers and sweeps are fair separately: neither waits for the other
  except for a row lock, whose holder goes on. A statement is strongly fair, for Postgres
  hands a released row to the transaction that waits in its queue: without that, a sweep
  could find the row taken again whenever it is its turn.
- `Lifecycle`: the decay and archive timers, and the transactions of every sweep
  that has begun (`AbandonedLeave`). Neither time nor the consumer nor any failure is fair.
- `Retrieval`: a request that was received goes on. Embedding, search and graph have
  timeouts; the reads of the configuration and of neighbours have none, and are
  taken to be answered or refused by Postgres in the end. The administrator's
  request goes on from its UPDATE to the invalidation, or the process, and its caches,
  are gone. Time passes. New requests are not fair.

`MemoryPipeline` has no liveness property: any of its steps may fail for good. `FactTrust` has none
either: that its sweeps end needs fairness for every run of a sweep, and with a request beside them that
is out of TLC's reach.

## Proofs

Each `*Proofs` module proves, for every value of the constants, the invariants and
the action properties that the runs check on small instances. What the proofs take for
granted are the named assumptions of the module the theorems are about, and TLC
evaluates them in every run: they say what kind of thing a constant is (a set of
memories, a positive number of attempts), and no more of the program than is said
below. Every proof has the same shape. The properties alone are not kept by each step,
so `IInv` adds what they rest on; `InitIInv` and `NextIInv` (one step per action, the
long ones lemmas of their own) make `Invariance`, and the other theorems follow from it.

**TurnWrite** (`TypeCorrect`, `VisibleComplete`, `TurnHasOneMemory`, `JobsAfterCommit`,
`Implements`), for any requests, turns and memories, with the assumptions that each request is for one of the turns,
`NoMemory` is not a memory, and the pool is not empty. `IInv` says at each `pc` what the
transaction has written (`txStatus`, `txMemory`), and that one open transaction at most holds a turn's
key, none once the turn is recorded: that is what keeps a second memory out.
`Implements` is the refinement of `WriteOnce`: its register is read off the committed
ledger, `Answer` and `Commit` map to its steps, all others to stuttering.

**CircuitBreaker** (`TypeCorrect`, `ClosedMeaning`, `OnlySuccessCloses`), for any callers,
threshold and attempts. `IInv` adds that a caller that backs off has an attempt left.
`OnlySuccessCloses` is proved here and is in no run: a failure while the breaker is open or
half-open leaves it open, and only a success closes it.

**JobWorker** (`TypeCorrect`, `JobHasOneCopy`, `AttemptsAreRuns`, `DeadLettersOnce`), for any
workers, jobs, attempts and faults. `OneCopy` counts the places a copy is in; `IInv` says it
without counting (`OnePlace`): two places that hold the same copy are the same place. `CopiesMade`
says that no copy is numbered beyond the pushes that were applied without their reply, so that the
next such push makes one nobody has had. `RunsCounted` says that a
copy that was not sent has not run, and that the run in progress is not one of those that timed
out; `DeadLetterStage`, that a copy has a dead-letter entry when the worker is about to
persist it or the copy is settled, and not before.

**MemoryPipeline** (`TypeCorrect`, `BuiltLinked`, `OneDeletedEvent`), for any memories, likeness and
entities; `MemoriesAssumption` says there is a memory. `BuiltAreLinked` speaks of edges that
are committed, while the graph worker reads long before it commits: `IInv` says of the
searches (`HitsHeld`) and the shared entities (`EntitiesSeen`) in a run's
hand that what it missed was not there yet, so that the other memory's run will find it
(`HeldLinks`), that only an embedded memory has a graph job (`EmbeddedFirst`), and that a worker
waits for one run at most, the others having timed out (`OneAttached`). The links are
proved for each of the three kinds of edge.

**Consolidation** (`TypeCorrect`, `SupersededLater`, `OneActivePerKey`, `TrailExplains`,
`ConfidencesAddUp`), for any candidates, with several handlers and sweeps. A transaction's rows
stand over the committed ones: `Apart` (row locks keep two transactions off one row)
makes what one of them sees of a row what its commit will overwrite. A second active fact
of a subject can only come from two transactions with a candidate for it that are open together:
`OwnKeys` says that a transaction touches no row of another subject, and `OneActiveOf` that, of a
subject that never overlapped, the committed rows have one active fact, and whoever revises it
sees that one, or, between two of its own statements, that one and its own. The audit trail and the
confidences do not add up in the middle of `reviseFact`, so `Accounted` counts the
statements still to come as written. `AllPointOn` is about committed, written and pending
rows alike, since a timeout may commit any of them; `Accounted` holds until the first
timeout, as the properties say.

**FactTrust** (`TypeCorrect`, `FeedbackCountedOnce`, `CorrectionsComplete`, `SupersededKept`,
`SettlesTogether`), for any facts, contradictions, clients, sweeps' settings and either schema.
`RowsApart` and `CountsKept` say that a sweep's own version of a row has the counters the table
has: a commit that puts it over the table's loses no feedback, because feedback waits for
the row. `RowsSettled` says that a transaction has the event and the settled
contradiction of each fact it supersedes, and `PlanSettles` that its next statements, which go together, will
write them and take none of it back. `SeenOK` says that the rows a run has updated and those it is
still to update are facts it read as not superseded: `SupersededKept` rests on that. A run without a transaction has
rows only while a batch UPDATE is under way (`Shape`). `Counted` and `Corrected` also say that an id no fact
has yet has no feedback, no event and no contradiction, so that a correction's fact starts from nothing.

**Lifecycle** (`TypeCorrect`, `Audited`, `PurgedAtDeletion`, `MergedAtMostOnce`, `NeverBack`,
`CooldownHolds`), for any
memories, likeness and thresholds, in any order of the latter. `EligibleNotCooling` says that what the reinforce job
is about to reinforce is not cooling, and `MergedApart` that a merged memory is not active, that the
sources a sweep is about to merge are in no summary, and that no two summaries share one. `NeverBack`,
`CooldownHolds` and `PurgedAtDeletion` are action properties: the first two hold because each UPDATE repeats
its condition, the last because each deletion purges in its own transaction.

**Retrieval** (`TypeCorrect`, `PrivateStaysPrivate`), for any users, memories, facts and limits.
`PrivateToOwner` is about answers: `IInv` says it of what every request carries at every stage
(`PrivateInHand`) and of every cached answer under its key (`PrivateInCache`).

Only model-checked:

- liveness, which these provers cannot do (fairness is `ENABLED`): `EveryRequestEnds`, `EveryJobSettles`,
  `RecoversWithService`, `SweepCatchesBatch`, `AbandonedLeave`, `ForgottenLeave`, `ConfigSettles`;
- the three findings: a violation is one behaviour, and TLC shows it.

## Observations

Behaviour met while modelling that no run states: either the text of the repository is
not definite enough to quote as a claim, or the run would only repeat a guard. They
are where a property is weaker than one might wish.

- With the tables of the repository's migrations no contradiction is ever resolved automatically and no
  stale fact is ever downgraded, though `resolve_contradictions.ts:34` says "Resolve unresolved contradictions
  where trust_score gap is clear enough": the INSERT into `fact_events`
  (`resolve_contradictions.ts:183`) names `delta_confidence`, which `013_fact_events.sql` does not have, and
  leaves out `tenant_id` and `workspace_id`, which are NOT NULL there. The batch is rolled back, by every
  sweep (`SchemaRejectsSweep`); feedback fails likewise (`SchemaRejectsFeedback`).
- `memoryRepo.ts:39` says the sweep of the consolidation worker is there "to catch memories that were not processed
  via queue". It lists the oldest `SWEEP_BATCH_SIZE` memories without an evidence row (`memoryRepo.ts:55`), and a
  memory without an acceptable fact never gets one: as soon as there is a batch of those, no
  later memory is reached. `SweepCatchesBatch` is what holds.
- `forgetService.ts:56` says embeddings are purged so that deleted memories do not appear in vector search. A
  forget that commits before the embedding worker's upsert (`embed_memory.py:43`) purges nothing, and
  the embeddings of a deleted memory stay for ever (retrieval filters them again by status). `DeletionPurges`
  is what holds, and `MemoryPipeline` has the steps of the race.
- `env.ts:34` says of `ARCHIVE_MIN_IDLE_DAYS` "Minimum days since last access before archival", and `env.ts:28` the
  like of the decay sweep. Both look at the last access only when they list their candidates
  (`archive_job.ts:34`, `decay_job.ts:65`): a memory used in between is archived all the same.
- Rate limit of feedback: the last feedback is read and then inserted without a lock
  (`feedbackService.ts:55`), so two requests at once, also the two of a gateway's retry,
  both pass (`feedbackRepo.ts:47` says it is there to prevent duplicates). `correctFact` has no
  limit: a repeated correction makes two corrected facts, both active.
- `resolve_contradictions.ts:40` says that a contradiction without a clear winner is skipped and left
  unresolved; the code makes both facts contested and marks it so.
- `safeTruthUpdate.ts:11` says that one fact that fails does not crash the sweep; the
  sweep is one transaction, and all of it is rolled back.
- After a timeout the abandoned run may mark a contradiction superseded whose losing fact
  is not, since that statement was rolled back (`SettledTogether` excepts it).
- `reviewStaleFacts` writes trust and confidence absolutely, from the rows it has listed: a
  confirm between the two is lost from the scores, though not from the counters (`FeedbackCounted`).
- Consolidation sets `status` only. A fact it has superseded is still active for
  `rejectFact`, which makes it contested, and a confirm after that active.
- A job of which a push was sent again is run more often than `JOB_MAX_ATTEMPTS` says, and may be
  dead-lettered twice, in `dead_letter_jobs` too. Its handlers stand being run again: that is
  what the other modules check.
- `edgeBuilder.ts:58` finds the predecessor of a memory by a read: a run repeated after an
  earlier memory was committed late gives it a second one.
- `retentionRepo.ts:25` takes the retention of any tenant that has one over the default.
- `stage3ContextSelector.ts:10` says one chunk per memory, the caller passes 2: a memory
  may take two places of an answer. With `k` up to 3 the facts may take all of them.

## Plan

Left to do, in this order:

1. An abstract specification of fact feedback (a correction replaces one fact by one fact,
   each request is counted at most once per attempt of the gateway), implemented by
   `FactTrust`, as `WriteOnce` is by `TurnWrite`.
2. Action properties that no run states yet: in `Retrieval`, that an answer cached after a
   forget does not have the forgotten memory; in `MemoryPipeline`, that edges and
   entities stay. Both to be checked with TLC, then proved.
3. That the truth worker's sweeps end, through deadlocks and timeouts, in an abstraction of `FactTrust`
   small enough for fairness.
4. Properties for the hazards that have none yet (the two status columns, overlapping sweeps, a memory
   used while a sweep holds it as a candidate), where the code keeps a promise that can be stated.

## Not modelled

- HTTP routes and validation: no state. The gateway's facts routes and their retries are
  in `FactTrust`, the clients of memories and retrieval are callers in `CircuitBreaker`, and
  what a repeated write does is `TurnWrite`'s.
- `factExtractor.ts`, `entityExtractor.ts`, `deterministicChunker.ts`: text
  patterns; what they yield is a constant or a relation in the models.
- Vectors and scores of the graph: a search finds a memory or does not.
- Logging, metrics, tracing and health endpoints, SDKs, the evaluation harness and
  load tests.
