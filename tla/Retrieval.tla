------------------------------- MODULE Retrieval -------------------------------
(***************************************************************************)
(* The retrieval orchestrator: requests run the pipeline (configuration,   *)
(* vector search, graph expansion, neighbours, facts, selection)           *)
(* concurrently in one process, through two caches of that process:        *)
(* answers, by user, query and filters, and the configuration of the       *)
(* tenant.  Meanwhile users forget memories, facts are superseded, and an  *)
(* administrator changes the configuration.                                *)
(*                                                                         *)
(* There is one workspace and one query, and the memories nearest to it and *)
(* the facts whose words it has are given.  Scores are left out: the       *)
(* selection takes any of the memories and facts found, as many as its     *)
(* limits say.  The limit on cache entries, the cache of query embeddings, *)
(* which changes no answer, and debug requests, which use no cache of      *)
(* answers, are left out too.                                              *)
(* Archived memories are found like active ones.  The circuit breaker of   *)
(* the graph is CircuitBreaker's: here the expansion may fail at any time. *)
(***************************************************************************)
EXTENDS Integers, FiniteSets, FiniteSetsExt

CONSTANTS
  Memories,
  Users,
  Sessions,
  None,          \* no session
  Owner,         \* Owner[m]: the user of memory m
  SessionOf,     \* SessionOf[m]: the session of memory m
  Private,       \* memories whose privacy_scope is 'private'
  Nearest,       \* the memories nearest to the query
  Edges,         \* memory_edges, as <<src, dst>>
  Facts,
  About,         \* About[f]: the user of fact f
  Matching,      \* facts with a keyword of the query
  Evidence,      \* fact_evidence, as <<fact, memory>>
  K,             \* k of the requests, clamped
  Requests,      \* the requests users send: [user, filter, session]
  Runs,          \* requests that can be under way at once
  ResultTTL,     \* RETRIEVAL_CACHE_TTL_MS, in ticks
  ConfigTTL,     \* CACHE_TTL_MS of the configuration, in ticks
  MaxChanges,    \* bound: memories forgotten and facts superseded
  MaxVersion,    \* bound: updates of the configuration
  MaxFaults      \* bound: failed reads of the configuration

ASSUME MemoriesAssumption ==
  /\ Owner \in [Memories -> Users]
  /\ SessionOf \in [Memories -> Sessions]
  /\ Private \subseteq Memories /\ Nearest \subseteq Memories
  /\ Edges \subseteq Memories \X Memories
ASSUME FactsAssumption ==
  /\ About \in [Facts -> Users]
  /\ Matching \subseteq Facts /\ Evidence \subseteq Facts \X Memories
  /\ K \in 1..50
ASSUME RequestsAssumption ==
  /\ None \notin Sessions
  /\ Requests \subseteq [user : Users, filter : Sessions \cup {None},
                         session : Sessions \cup {None}]
ASSUME BoundsAssumption ==
  {ResultTTL, ConfigTTL} \subseteq Nat \ {0} /\ {MaxChanges, MaxVersion, MaxFaults} \subseteq Nat

VARIABLES
  forgotten,     \* memories whose status is 'deleted'
  superseded,    \* facts whose status is neither 'active' nor 'contested'
  version,       \* version of the configuration in the database; 0, no row
  answers,       \* the cache of answers
  config,        \* the cached configuration
  put,           \* the administrator's request
  run,           \* run[r]: a request under way
  faults         \* failed reads of the configuration so far

vars == <<forgotten, superseded, version, answers, config, put, run, faults>>

(* buildRetrievalCacheKey: the session of the request itself is no part.   *)
Key(q) == <<q.user, q.filter>>
Keys == {Key(q) : q \in Requests}

(* The session the search is restricted to. *)
Session(q) == IF q.filter # None THEN q.filter ELSE q.session

NoEntry == [age |-> -1]
Idle == [pc |-> "idle"]

TypeOK ==
  /\ forgotten \subseteq Memories
  /\ superseded \subseteq Facts
  /\ version \in 0..MaxVersion
  /\ answers \in [Keys -> {NoEntry} \cup
       [age : 0..(ResultTTL - 1), memories : SUBSET Memories, facts : SUBSET Facts]]
  /\ config \in {NoEntry} \cup [age : 0..ConfigTTL, version : 0..MaxVersion]
  /\ put \in {"idle", "written"}
  /\ run \in [Runs ->
       {Idle}
         \cup [pc : {"fetch", "store", "search"}, request : Requests, config : 0..MaxVersion]
         \cup [pc : {"expand", "facts"}, request : Requests, memories : SUBSET Memories]
         \cup [pc : {"neighbours"}, request : Requests,
               memories : SUBSET Memories, neighbours : SUBSET Memories]
         \cup [pc : {"finish", "answered"}, request : Requests,
               memories : SUBSET Memories, facts : SUBSET Facts]]
  /\ faults \in 0..MaxFaults

Init ==
  /\ forgotten = {}
  /\ superseded = {}
  /\ version = 0
  /\ answers = [k \in Keys |-> NoEntry]
  /\ config = NoEntry
  /\ put = "idle"
  /\ run = [r \in Runs |-> Idle]
  /\ faults = 0
-----------------------------------------------------------------------------
At(r, pc) == run[r].pc = pc
Become(r, next) == run' = [run EXCEPT ![r] = next]

(* Variant, not the code: memories are read whoever owns them. *)
MayReadAll(u) == Memories \ forgotten

(* Status and privacy, the conditions of every read of memories. *)
MayRead(u) == {m \in Memories \ forgotten : m \notin Private \/ Owner[m] = u}

Answer(q, memories, facts) ==
  [pc |-> "answered", request |-> q, memories |-> memories, facts |-> facts]

Fresh(entry, ttl) == entry # NoEntry /\ entry.age < ttl

(* Variant, not the code: an answer that is used lives longer. *)
ReturnCachedSliding(r, q) ==
  /\ At(r, "idle") /\ answers[Key(q)] # NoEntry
  /\ Become(r, Answer(q, answers[Key(q)].memories, answers[Key(q)].facts))
  /\ answers' = [answers EXCEPT ![Key(q)].age = 0]
  /\ UNCHANGED <<forgotten, superseded, version, config, put, faults>>

(* A request arrives whose answer is in the cache. *)
ReturnCached(r, q) ==
  /\ At(r, "idle") /\ answers[Key(q)] # NoEntry
  /\ Become(r, Answer(q, answers[Key(q)].memories, answers[Key(q)].facts))
  /\ UNCHANGED <<forgotten, superseded, version, answers, config, put, faults>>

(* Variant, not the code: the cached configuration does not expire. *)
StartForEver(r, q) ==
  /\ At(r, "idle") /\ answers[Key(q)] = NoEntry
  /\ Become(r, [pc |-> IF config # NoEntry THEN "search" ELSE "fetch", request |-> q,
                config |-> IF config # NoEntry THEN config.version ELSE 0])
  /\ UNCHANGED <<forgotten, superseded, version, answers, config, put, faults>>

(* A request arrives that is not in the cache.  getRetrievalConfigForTenant *)
(* uses a cached configuration while it is fresh, and keeps it in hand     *)
(* otherwise; the defaults are version 0.                                  *)
Start(r, q) ==
  /\ At(r, "idle") /\ answers[Key(q)] = NoEntry
  /\ Become(r, [pc |-> IF Fresh(config, ConfigTTL) THEN "search" ELSE "fetch", request |-> q,
                config |-> IF config # NoEntry THEN config.version ELSE 0])
  /\ UNCHANGED <<forgotten, superseded, version, answers, config, put, faults>>

(* The row is read; the process goes on when the reply is there. *)
ReadConfig(r) ==
  /\ At(r, "fetch")
  /\ Become(r, [run[r] EXCEPT !.pc = "store", !.config = version])
  /\ UNCHANGED <<forgotten, superseded, version, answers, config, put, faults>>

StoreConfig(r) ==
  /\ At(r, "store")
  /\ config' = [age |-> 0, version |-> run[r].config]
  /\ Become(r, [run[r] EXCEPT !.pc = "search"])
  /\ UNCHANGED <<forgotten, superseded, version, answers, put, faults>>

(* The read fails: the expired configuration is used, or the defaults. *)
ReadConfigFails(r) ==
  /\ At(r, "fetch") /\ faults < MaxFaults
  /\ faults' = faults + 1
  /\ Become(r, [run[r] EXCEPT !.pc = "search"])
  /\ UNCHANGED <<forgotten, superseded, version, answers, config, put>>
-----------------------------------------------------------------------------
(* vectorSearch: of the memories nearest to the query, those the user may  *)
(* read, and of one session only if the request names one.                 *)
Hits(q) == {m \in Nearest \cap MayRead(q.user) : Session(q) \in {None, SessionOf[m]}}

(* stage1CandidateSearch: the query is embedded and the memories searched. *)
Search(r) ==
  LET q == run[r].request IN
  /\ At(r, "search")
  /\ Become(r, [pc |-> IF Hits(q) = {} THEN "facts" ELSE "expand", request |-> q,
                memories |-> Hits(q)])
  /\ UNCHANGED <<forgotten, superseded, version, answers, config, put, faults>>

(* The embedding or the search fails after its retries, and so does the    *)
(* request: there is no fallback.                                          *)
SearchFails(r) ==
  /\ At(r, "search")
  /\ Become(r, Idle)
  /\ UNCHANGED <<forgotten, superseded, version, answers, config, put, faults>>

(* What the memories found point to, without themselves. *)
Reached(found) == {n \in Memories \ found : \E m \in found : <<m, n>> \in Edges}

(* graphExpand yields nothing if it fails, is late or its breaker is open. *)
Expand(r) ==
  LET found == run[r].memories IN
  /\ At(r, "expand")
  /\ \/ /\ Reached(found) # {}
        /\ Become(r, [pc |-> "neighbours", request |-> run[r].request, memories |-> found,
                      neighbours |-> Reached(found)])
     \/ Become(r, [run[r] EXCEPT !.pc = "facts"])
  /\ UNCHANGED <<forgotten, superseded, version, answers, config, put, faults>>

(* getMemoriesByIds reads the neighbours, later and by another query; they *)
(* are left out if it fails.                                               *)
ReadNeighbours(r) ==
  /\ At(r, "neighbours")
  /\ \E more \in {run[r].neighbours \cap MayRead(run[r].request.user), {}} :
       Become(r, [pc |-> "facts", request |-> run[r].request,
                  memories |-> run[r].memories \cup more])
  /\ UNCHANGED <<forgotten, superseded, version, answers, config, put, faults>>

(* assembleFacts: the facts of the user that match the query, and whoever's *)
(* facts rest on a memory found.                                           *)
Relevant(q, found) ==
  {f \in Facts \ superseded :
     \/ f \in Matching /\ About[f] = q.user
     \/ \E m \in found : <<f, m>> \in Evidence}

(* stage3ContextSelector: up to three facts, whichever score best, then     *)
(* memories in the places left; one may take two of them, with two chunks. *)
SelectedFacts(found) == kSubset(Min({3, K, Cardinality(found)}), found)
Places(facts) == Min({Max({2, K - 3}), K - Cardinality(facts)})
SelectedMemories(found, facts) ==
  {S \in SUBSET found : /\ Cardinality(S) =< Places(facts)
                        /\ S # {} \/ found = {} \/ Places(facts) = 0}

(* The two lookups of facts, side by side; if they fail or are late, there *)
(* are none.  When they have ended, the answer is selected.                *)
LookUpAndSelect(r) ==
  LET q == run[r].request
      memories == run[r].memories
  IN
  /\ At(r, "facts")
  /\ \E found \in {Relevant(q, memories), {}} :
       \E facts \in SelectedFacts(found) : \E selected \in SelectedMemories(memories, facts) :
         Become(r, [pc |-> "finish", request |-> q, memories |-> selected, facts |-> facts])
  /\ UNCHANGED <<forgotten, superseded, version, answers, config, put, faults>>

(* The answer is put in the cache and returned. *)
Finish(r) ==
  /\ At(r, "finish")
  /\ answers' = [answers EXCEPT ![Key(run[r].request)] =
                   [age |-> 0, memories |-> run[r].memories, facts |-> run[r].facts]]
  /\ Become(r, [run[r] EXCEPT !.pc = "answered"])
  /\ UNCHANGED <<forgotten, superseded, version, config, put, faults>>

(* The response is sent. *)
Respond(r) ==
  /\ At(r, "answered")
  /\ Become(r, Idle)
  /\ UNCHANGED <<forgotten, superseded, version, answers, config, put, faults>>
-----------------------------------------------------------------------------
Settled == Cardinality(forgotten) + Cardinality(superseded) >= MaxChanges

(* forgetMemories in the memory service, which knows nothing of the cache. *)
Forget(m) ==
  /\ m \notin forgotten /\ ~ Settled
  /\ forgotten' = forgotten \cup {m}
  /\ UNCHANGED <<superseded, version, answers, config, put, run, faults>>

(* The consolidation worker, a correction or the truth worker supersedes f. *)
SupersedeFact(f) ==
  /\ f \notin superseded /\ ~ Settled
  /\ superseded' = superseded \cup {f}
  /\ UNCHANGED <<forgotten, version, answers, config, put, run, faults>>

(* putConfigController: the row is written, then the cache invalidated. *)
UpsertConfig ==
  /\ put = "idle" /\ version < MaxVersion
  /\ version' = version + 1
  /\ put' = "written"
  /\ UNCHANGED <<forgotten, superseded, answers, config, run, faults>>

InvalidateConfig ==
  /\ put = "written"
  /\ config' = NoEntry
  /\ put' = "idle"
  /\ UNCHANGED <<forgotten, superseded, version, answers, run, faults>>

(* Variant, not the code: answers do not expire. *)
TickWithoutExpiry ==
  /\ Fresh(config, ConfigTTL) \/ \E k \in Keys : answers[k] # NoEntry
  /\ answers' = [k \in Keys |->
       IF answers[k] = NoEntry THEN NoEntry ELSE [answers[k] EXCEPT !.age = @ + 1]]
  /\ config' = IF Fresh(config, ConfigTTL) THEN [config EXCEPT !.age = @ + 1] ELSE config
  /\ UNCHANGED <<forgotten, superseded, version, put, run, faults>>

(* Time passes for both caches.  An expired answer is as good as none; an  *)
(* expired configuration still serves when the read of the next one fails. *)
Tick ==
  /\ Fresh(config, ConfigTTL) \/ \E k \in Keys : answers[k] # NoEntry
  /\ answers' = [k \in Keys |->
       IF answers[k] = NoEntry \/ answers[k].age + 1 = ResultTTL THEN NoEntry
       ELSE [answers[k] EXCEPT !.age = @ + 1]]
  /\ config' = IF Fresh(config, ConfigTTL) THEN [config EXCEPT !.age = @ + 1] ELSE config
  /\ UNCHANGED <<forgotten, superseded, version, put, run, faults>>

Step(r) ==
  \/ ReadConfig(r) \/ StoreConfig(r) \/ ReadConfigFails(r)
  \/ Search(r) \/ SearchFails(r) \/ Expand(r) \/ ReadNeighbours(r) \/ LookUpAndSelect(r)
  \/ Finish(r) \/ Respond(r)

Next ==
  \/ \E r \in Runs : Step(r) \/ \E q \in Requests : ReturnCached(r, q) \/ Start(r, q)
  \/ \E m \in Memories : Forget(m)
  \/ \E f \in Facts : SupersedeFact(f)
  \/ UpsertConfig \/ InvalidateConfig \/ Tick

(* A request that was received goes on to its end, and time passes. *)
Spec ==
  /\ Init /\ [][Next]_vars
  /\ \A r \in Runs : WF_vars(Step(r))
  /\ WF_vars(InvalidateConfig)
  /\ WF_vars(Tick)
-----------------------------------------------------------------------------
(* Private memories only return for their user (retrieval-debugging.md:36): *)
(* none reaches another user as a neighbour of what he found, or through   *)
(* an answer cached for somebody else.                                     *)
PrivateToOwner ==
  \A r \in Runs : At(r, "answered") =>
    \A m \in run[r].memories \cap Private : Owner[m] = run[r].request.user

(* A forgotten memory and a superseded fact are out of every answer in the *)
(* end: no cached answer outlives its time to live, however often it is    *)
(* asked for and however slow the requests are that put it there again.    *)
ForgottenLeave ==
  <>[](\A r \in Runs : At(r, "answered") =>
         run[r].memories \cap forgotten = {} /\ run[r].facts \cap superseded = {})

(* Once the administrator stops changing it, every request runs with the   *)
(* configuration of the database in the end, even when a request that had  *)
(* read the old one stores it after the cache was invalidated, or reads    *)
(* fail.                                                                   *)
ConfigSettles ==
  <>[](\A r \in Runs : At(r, "search") => run[r].config = version)

(* "Build a deterministic cache key from retrieval request parameters"     *)
(* (retrievalCache.ts:15): an answer from the cache is the answer to the   *)
(* request, so every memory in it is of the session the request is         *)
(* restricted to or was reached from one.  The key leaves session_id out.  *)
OwnSessionOnly ==
  \A r \in Runs : At(r, "answered") /\ Session(run[r].request) # None =>
    LET own == {m \in Memories : SessionOf[m] = Session(run[r].request)} IN
      run[r].memories \subseteq own \cup Reached(own)
=============================================================================
