------------------------- MODULE MemoryPipelineProofs -------------------------
(***************************************************************************)
(* Proofs about MemoryPipeline, for any memories, similarities, forget     *)
(* requests, runs and retries: its type invariant, one 'deleted' event per *)
(* deleted memory, and that built memories are linked.                     *)
(*                                                                         *)
(* The last is about pairs of runs that overlap at will.  What makes it    *)
(* inductive is to say of two runs that have both done the same read, on   *)
(* two memories, that one of them holds the edge, and of a run and a built *)
(* memory that the edge is committed or held.                              *)
(***************************************************************************)
EXTENDS MemoryPipeline, WellFoundedInduction, TLAPS

RunRecord == [pc : {"free", "session", "previous", "similar", "entities", "commit"},
              memory : Memories, attached : BOOLEAN, found : SUBSET Edges]
ForgetRecord == [pc : {"idle", "purge", "commit", "done"},
                 hits : SUBSET Memories, purged : SUBSET Memories]

RowsTyped ==
  /\ status \in [Memories -> {"absent", "active", "deleted"}]
  /\ embedded \in [Memories -> BOOLEAN]
  /\ events \in [Memories -> Nat]
  /\ entities \in [Memories -> BOOLEAN]
  /\ edges \subseteq Edges
  /\ forget \in [Forgets -> ForgetRecord]
JobsTyped ==
  /\ embedJob \in [Memories -> {"none", "queued", "fetched", "enqueueGraph", "done", "lost"}]
  /\ graphJobs \in [Memories -> Nat]
  /\ run \in [Runs -> RunRecord]
  /\ timedOut \in BOOLEAN
  /\ retries \in Nat

(* An open forget transaction holds active rows, and no row is held twice. *)
HitsHeld ==
  /\ \A f \in Forgets : forget[f].pc \in {"purge", "commit"} =>
       \A m \in forget[f].hits : status[m] = "active"
  /\ \A f \in Forgets : forget[f].pc = "commit" => forget[f].purged \subseteq forget[f].hits
  /\ \A f, g \in Forgets :
       f # g /\ forget[f].pc \in {"purge", "commit"} /\ forget[g].pc \in {"purge", "commit"} =>
         forget[f].hits \cap forget[g].hits = {}

(* A graph job or run is only there for a memory that was embedded; only   *)
(* deleting the memory takes its embeddings away.                          *)
HasRun(m) == \E r \in Runs : run[r].pc # "free" /\ run[r].memory = m

Graphed(m) ==
  graphJobs[m] > 0 \/ embedJob[m] \in {"enqueueGraph", "done"} \/ entities[m] \/ HasRun(m)

EmbeddedFirst ==
  \A m \in Memories :
    /\ embedJob[m] # "none" => status[m] # "absent"
    /\ Graphed(m) => status[m] # "absent" /\ (embedded[m] \/ status[m] = "deleted")

(* The worker waits for one run; the others have timed out.                *)
OneAttached ==
  /\ \A r \in Runs : run[r].attached => run[r].pc # "free"
  /\ \A r \in Runs : run[r].pc # "free" /\ ~ run[r].attached => timedOut
  /\ \A r, q \in Runs : run[r].attached /\ run[q].attached => r = q

(* The stages after the read of an edge type, and the pairs it links.      *)
After(type) == IF type = "same_session" THEN {"previous", "similar", "entities", "commit"}
               ELSE {"entities", "commit"}
Wanted(type, m, n) ==
  m # n /\ (type = "similar_to" => {<<m, n>>, <<n, m>>} \subseteq Alike)

(* Of two runs past the read, on memories still active, one holds the edge *)
(* of the pair; of a run and a built memory, the run does or it is there.  *)
HeldLinks(type) ==
  /\ \A r, q \in Runs :
       LET m == run[r].memory
           n == run[q].memory
       IN  /\ run[r].pc \in After(type) /\ run[q].pc \in After(type)
           /\ status[m] = "active" /\ status[n] = "active" /\ Wanted(type, m, n)
           => <<type, m, n>> \in run[r].found \/ <<type, n, m>> \in run[q].found
  /\ \A r \in Runs, n \in Memories :
       LET m == run[r].memory
       IN  /\ run[r].pc \in After(type) /\ entities[n]
           /\ status[m] = "active" /\ status[n] = "active" /\ Wanted(type, m, n)
           => Linked(type, m, n) \/ <<type, m, n>> \in run[r].found
  /\ \A m, n \in Memories :
       /\ entities[m] /\ entities[n] /\ status[m] = "active" /\ status[n] = "active"
       /\ Wanted(type, m, n)
       => Linked(type, m, n)

(* As long as no run has timed out they follow each other, and each finds  *)
(* the entities of all that were built before.                             *)
EntitiesSeen ==
  ~ timedOut =>
    /\ \A r \in Runs, n \in Memories :
         LET m == run[r].memory
         IN  run[r].pc = "commit" /\ entities[n] /\ m # n /\ {m, n} \in Sharing
             => <<"shares_entity", m, n>> \in run[r].found
    /\ \A m, n \in Memories :
         entities[m] /\ entities[n] /\ m # n /\ {m, n} \in Sharing
         => Linked("shares_entity", m, n)

IInv ==
  /\ TypeOK
  /\ DeletedEventOnce
  /\ HitsHeld
  /\ EmbeddedFirst
  /\ OneAttached
  /\ HeldLinks("same_session")
  /\ HeldLinks("similar_to")
  /\ EntitiesSeen

-----------------------------------------------------------------------------
(* Numbers have a least element, and bounded ones a greatest.              *)
LEMMA LeastExists ==
  ASSUME NEW S \in SUBSET Nat, S # {}
  PROVE  Min(S) \in S /\ \A y \in S : Min(S) =< y
<1> DEFINE R == OpToRel(<, Nat)
<1>1. \A x, y \in Nat : <<y, x>> \in R <=> y < x
  BY DEF OpToRel
<1>2. IsWellFoundedOn(R, Nat) BY NatLessThanWellFounded
<1> HIDE DEF R
<1>3. PICK x \in S : \A y \in S : ~ (<<y, x>> \in R)
  BY <1>2, WFMin
<1>4. \A y \in S : x \in Nat /\ y \in Nat /\ ~ (y < x)
  BY <1>1, <1>3
<1>5. \A y \in S : x =< y BY <1>4
<1>6. QED BY <1>5 DEF Min

(* A set of numbers below a bound has a greatest element.                  *)
LEMMA GreatestExists ==
  ASSUME NEW S \in SUBSET Nat, S # {}, NEW b \in Nat, \A x \in S : x < b
  PROVE  Max(S) \in S
<1> DEFINE Gaps == {b - x : x \in S}
<1>1. Gaps \in SUBSET Nat /\ Gaps # {}
  <2>1. \A x \in S : b - x \in Nat OBVIOUS
  <2>2. QED BY <2>1
<1>2. PICK g \in Gaps : \A h \in Gaps : g =< h
  <2> HIDE DEF Gaps
  <2>1. QED BY <1>1, LeastExists
<1>3. PICK x \in S : g = b - x BY <1>2
<1>4. \A y \in S : x >= y
  <2> TAKE y \in S
  <2>1. b - x =< b - y BY <1>2, <1>3
  <2>2. x \in Nat /\ y \in Nat OBVIOUS
  <2>3. QED BY <2>1, <2>2
<1>5. QED BY <1>4 DEF Max

(* The record of a free run is one of RunRecord.                           *)
LEMMA FreeRunType == FreeRun \in RunRecord /\ FreeRun.pc = "free" /\ FreeRun.attached = FALSE
<1>1. Min(Memories) \in Memories BY MemoriesAssumption, LeastExists
<1>2. QED BY <1>1 DEF FreeRun, RunRecord

(* Types in terms of the records.                                          *)
LEMMA TypeParts == TypeOK <=> RowsTyped /\ JobsTyped
BY DEF TypeOK, RowsTyped, JobsTyped, RunRecord, ForgetRecord, Edges

(* A read moves its run one stage on and adds to what it has found.        *)
Moved(r, to, found) ==
  /\ run'[r].pc = to /\ run'[r].memory = run[r].memory
  /\ run'[r].attached = run[r].attached
  /\ run'[r].found = run[r].found \cup found
  /\ \A q \in Runs \ {r} : run'[q] = run[q]

(* A read adds to what the run has found, and the next query is up.        *)
LEMMA ReadFacts ==
  ASSUME TypeOK, NEW r \in Runs, NEW from, NEW to \in {"previous", "similar", "entities", "commit"},
         NEW found \in SUBSET Edges, RunReads(r, from, to, found)
  PROVE  run' \in [Runs -> RunRecord] /\ Moved(r, to, found)
<1>1. run \in [Runs -> RunRecord] BY TypeParts DEF JobsTyped
<1>2. run[r] \in RunRecord BY <1>1
<1> DEFINE next == [run[r] EXCEPT !.pc = to, !.found = @ \cup found]
<1>3. next \in RunRecord BY <1>2 DEF RunRecord
<1>4. /\ next.pc = to /\ next.found = run[r].found \cup found
      /\ next.memory = run[r].memory /\ next.attached = run[r].attached
  BY <1>2 DEF RunRecord
<1>5. run' = [run EXCEPT ![r].pc = to, ![r].found = @ \cup found] BY DEF RunReads
<1>6. run'[r] = next
  BY <1>1, <1>2, <1>5 DEF RunRecord
<1>7. \A q \in Runs \ {r} : run'[q] = run[q] BY <1>1, <1>5
<1>8. run' = [q \in Runs |-> run'[q]] BY <1>1, <1>5
<1> HIDE DEF next
<1>9. run' \in [Runs -> RunRecord]
  BY <1>1, <1>3, <1>6, <1>7, <1>8
<1>10. QED BY <1>4, <1>6, <1>7, <1>9 DEF Moved

(* The edges a run reads are edges from its memory to others.              *)
LEMMA FoundEdges ==
  ASSUME TypeOK, NEW r \in Runs, NEW type \in EdgeTypes, NEW S \in SUBSET (Memories \ {run[r].memory})
  PROVE  /\ {<<type, run[r].memory, n>> : n \in S} \in SUBSET Edges
         /\ \A n \in S : <<type, run[r].memory, n>> \in {<<type, run[r].memory, k>> : k \in S}
<1>1. run[r].memory \in Memories BY TypeParts DEF JobsTyped, RunRecord
<1>2. QED BY <1>1 DEF Edges

-----------------------------------------------------------------------------
(* No memory is written, no run or request has started.                    *)
LEMMA InitIInv == Init => IInv
<1> SUFFICES ASSUME Init PROVE IInv OBVIOUS
<1>1. TypeOK BY FreeRunType, TypeParts DEF Init, RowsTyped, JobsTyped, ForgetRecord
<1>2. QED
  BY <1>1, FreeRunType
  DEF Init, IInv, DeletedEventOnce, HitsHeld, EmbeddedFirst, Graphed, HasRun, OneAttached,
      HeldLinks,
      After, EntitiesSeen

-----------------------------------------------------------------------------
(* A run that ends, well or not, leaves its place free.                    *)
LEMMA DropFacts ==
  ASSUME TypeOK, NEW r \in Runs, run' = [run EXCEPT ![r] = FreeRun]
  PROVE  /\ run' \in [Runs -> RunRecord]
         /\ run'[r].pc = "free" /\ run'[r].attached = FALSE
         /\ \A q \in Runs \ {r} : run'[q] = run[q]
<1>1. run \in [Runs -> RunRecord] BY TypeParts DEF JobsTyped
<1>2. run'[r] = FreeRun /\ \A q \in Runs \ {r} : run'[q] = run[q] BY <1>1
<1>3. run' \in [Runs -> RunRecord] BY <1>1, FreeRunType
<1>4. QED BY <1>2, <1>3, FreeRunType

(* A run that starts is attached; the job of an inactive memory starts     *)
(* none.                                                                   *)
LEMMA StartFacts ==
  ASSUME TypeOK, NEW r \in Runs, NEW m \in Memories, StartRun(r, m)
  PROVE  /\ run' \in [Runs -> RunRecord]
         /\ \A q \in Runs \ {r} : run'[q] = run[q]
         /\ \/ run' = run
            \/ /\ run'[r].pc = "session" /\ run'[r].memory = m
               /\ run'[r].attached = TRUE /\ run'[r].found = {}
<1> DEFINE new == [pc |-> "session", memory |-> m, attached |-> TRUE, found |-> {}]
<1>1. run \in [Runs -> RunRecord] BY TypeParts DEF JobsTyped
<1>2. new \in RunRecord BY DEF RunRecord
<1>3. run' = run \/ run' = [run EXCEPT ![r] = new] BY DEF StartRun
<1>4. new.pc = "session" /\ new.memory = m /\ new.attached = TRUE /\ new.found = {} OBVIOUS
<1> HIDE DEF new
<1>5. QED BY <1>1, <1>2, <1>3, <1>4

(* A run given up goes on as it was.                                       *)
LEMMA TimeoutFacts ==
  ASSUME TypeOK, NEW r \in Runs, RunTimesOut(r)
  PROVE  /\ run' \in [Runs -> RunRecord]
         /\ run'[r].pc = run[r].pc /\ run'[r].memory = run[r].memory
         /\ run'[r].found = run[r].found /\ run'[r].attached = FALSE
         /\ \A q \in Runs \ {r} : run'[q] = run[q]
<1>1. run \in [Runs -> RunRecord] BY TypeParts DEF JobsTyped
<1>2. run[r] \in RunRecord BY <1>1
<1> DEFINE next == [run[r] EXCEPT !.attached = FALSE]
<1>3. next \in RunRecord BY <1>2 DEF RunRecord
<1>4. /\ next.pc = run[r].pc /\ next.memory = run[r].memory
      /\ next.found = run[r].found /\ next.attached = FALSE
  BY <1>2 DEF RunRecord
<1>5. run' = [run EXCEPT ![r] = next] BY DEF RunTimesOut
<1> HIDE DEF next
<1>6. QED BY <1>1, <1>3, <1>4, <1>5

(* The four reads of a run add edges between memories.                     *)
LEMMA SessionRead ==
  ASSUME TypeOK, NEW r \in Runs, FindBySession(r)
  PROVE  \E found \in SUBSET Edges :
           /\ RunReads(r, "session", "previous", found)
           /\ \A n \in Active : n # run[r].memory => <<"same_session", run[r].memory, n>> \in found
<1> DEFINE found == {<<"same_session", run[r].memory, n>> : n \in Active \ {run[r].memory}}
<1>1. found \in SUBSET Edges
  <2>1. Active \ {run[r].memory} \in SUBSET (Memories \ {run[r].memory}) BY DEF Active
  <2>2. QED BY <2>1, FoundEdges DEF EdgeTypes
<1>2. RunReads(r, "session", "previous", found) BY DEF FindBySession
<1>3. \A n \in Active : n # run[r].memory => <<"same_session", run[r].memory, n>> \in found
  OBVIOUS
<1>4. QED BY <1>1, <1>2, <1>3

(* The query for the previous memory finds one edge at most.               *)
LEMMA PreviousRead ==
  ASSUME TypeOK, NEW r \in Runs, FindPreviousInSession(r)
  PROVE  \E found \in SUBSET Edges : RunReads(r, "previous", "similar", found)
<1> DEFINE m == run[r].memory
           earlier == {n \in Active : n < m}
           found == IF earlier = {} THEN {} ELSE {<<"follows", Max(earlier), m>>}
<1>1. m \in Memories BY TypeParts DEF JobsTyped, RunRecord
<1>2. earlier # {} => Max(earlier) \in Memories /\ Max(earlier) # m
  <2> SUFFICES ASSUME earlier # {} PROVE Max(earlier) \in Memories /\ Max(earlier) # m
    OBVIOUS
  <2>1. /\ m \in Nat /\ earlier \in SUBSET Nat /\ earlier \in SUBSET Memories
        /\ \A n \in earlier : n < m /\ n # m
    BY <1>1, MemoriesAssumption DEF Active
  <2> HIDE DEF earlier, m
  <2>2. Max(earlier) \in earlier BY <2>1, GreatestExists
  <2>3. QED BY <2>1, <2>2
<1>3. found \in SUBSET Edges
  <2> HIDE DEF earlier, m
  <2>1. CASE earlier = {} BY <2>1
  <2>2. CASE earlier # {} BY <1>1, <1>2, <2>2 DEF Edges, EdgeTypes
  <2>3. QED BY <2>1, <2>2
<1>4. RunReads(r, "previous", "similar", found) BY DEF FindPreviousInSession
<1>5. QED BY <1>3, <1>4

(* The query by embedding finds every similar memory that is embedded.     *)
LEMMA SimilarRead ==
  ASSUME TypeOK, NEW r \in Runs, FindSimilarByEmbedding(r)
  PROVE  \E found \in SUBSET Edges :
           /\ RunReads(r, "similar", "entities", found)
           /\ \A n \in Memories :
                n # run[r].memory /\ embedded[run[r].memory] /\ embedded[n]
                  /\ <<run[r].memory, n>> \in Alike
                => <<"similar_to", run[r].memory, n>> \in found
<1> DEFINE m == run[r].memory
           near == {n \in Memories \ {m} : embedded[m] /\ embedded[n] /\ <<m, n>> \in Alike}
           found == {<<"similar_to", m, n>> : n \in near}
<1>1. found \in SUBSET Edges BY FoundEdges DEF EdgeTypes
<1>2. RunReads(r, "similar", "entities", found) BY DEF FindSimilarByEmbedding
<1>3. QED BY <1>1, <1>2

(* The query by entities finds every memory whose entities share one.      *)
LEMMA EntitiesRead ==
  ASSUME TypeOK, NEW r \in Runs, FindMemoriesSharingEntities(r)
  PROVE  \E found \in SUBSET Edges :
           /\ RunReads(r, "entities", "commit", found)
           /\ \A n \in Memories :
                n # run[r].memory /\ entities[n] /\ {run[r].memory, n} \in Sharing
                => <<"shares_entity", run[r].memory, n>> \in found
<1> DEFINE m == run[r].memory
           near == {n \in Memories \ {m} : entities[n] /\ {m, n} \in Sharing}
           found == {<<"shares_entity", m, n>> : n \in near}
<1>1. found \in SUBSET Edges BY FoundEdges DEF EdgeTypes
<1>2. RunReads(r, "entities", "commit", found) BY DEF FindMemoriesSharingEntities
<1>3. QED BY <1>1, <1>2

(* A read of any kind.                                                     *)
LEMMA Reads ==
  ASSUME TypeOK, NEW r \in Runs,
         \/ FindBySession(r) \/ FindPreviousInSession(r)
         \/ FindSimilarByEmbedding(r) \/ FindMemoriesSharingEntities(r)
  PROVE  \E from \in {"session", "previous", "similar", "entities"},
            to \in {"previous", "similar", "entities", "commit"},
            found \in SUBSET Edges :
              /\ RunReads(r, from, to, found) /\ Moved(r, to, found)
              /\ run' \in [Runs -> RunRecord]
<1>1. CASE FindBySession(r) BY <1>1, SessionRead, ReadFacts
<1>2. CASE FindPreviousInSession(r) BY <1>2, PreviousRead, ReadFacts
<1>3. CASE FindSimilarByEmbedding(r) BY <1>3, SimilarRead, ReadFacts
<1>4. CASE FindMemoriesSharingEntities(r) BY <1>4, EntitiesRead, ReadFacts
<1>5. QED BY <1>1, <1>2, <1>3, <1>4

(* Pushing a job back counts it.                                           *)
LEMMA FailedJobTypes ==
  ASSUME TypeOK, NEW r \in Runs, JobFails(r)
  PROVE  graphJobs' \in [Memories -> Nat] /\ retries' \in Nat
<1>1. run[r].memory \in Memories /\ graphJobs \in [Memories -> Nat] /\ retries \in Nat
  BY TypeParts DEF JobsTyped, RunRecord
<1>2. CASE UNCHANGED <<graphJobs, retries>> BY <1>1, <1>2
<1>3. CASE PushBack(r) BY <1>1, <1>3 DEF PushBack
<1>4. QED BY <1>2, <1>3 DEF JobFails

(* What the request holds and has purged are memories.                     *)
LEMMA ForgetTypes ==
  ASSUME TypeOK, NEW f \in Forgets, Forget(f)
  PROVE  forget' \in [Forgets -> ForgetRecord]
<1>1. forget \in [Forgets -> ForgetRecord] /\ forget[f] \in ForgetRecord BY TypeParts DEF RowsTyped
<1>2. CASE SoftDelete(f)
  <2> DEFINE hits == Target[f] \cap Active
             new == [pc |-> IF hits = {} THEN "done" ELSE "purge", hits |-> hits, purged |-> {}]
  <2>1. hits \subseteq Memories BY DEF Active
  <2>2. new \in ForgetRecord
    <3> HIDE DEF hits
    <3>1. QED BY <2>1 DEF ForgetRecord
  <2>3. forget' = [forget EXCEPT ![f] = new] BY <1>2 DEF SoftDelete
  <2> HIDE DEF new
  <2>4. QED BY <1>1, <2>2, <2>3
<1>3. CASE PurgeEmbeddings(f)
  <2> DEFINE next == [forget[f] EXCEPT !.pc = "commit",
                                       !.purged = {m \in forget[f].hits : embedded[m]}]
  <2>1. next \in ForgetRecord BY <1>1 DEF ForgetRecord
  <2>2. forget' = [forget EXCEPT ![f].pc = "commit",
                                 ![f].purged = {m \in forget[f].hits : embedded[m]}]
    BY <1>3 DEF PurgeEmbeddings
  <2>3. forget'[f] = next /\ \A g \in Forgets \ {f} : forget'[g] = forget[g]
    BY <1>1, <2>2 DEF ForgetRecord
  <2>4. forget' = [g \in Forgets |-> forget'[g]] BY <1>1, <2>2
  <2> HIDE DEF next
  <2>5. QED BY <1>1, <2>1, <2>3, <2>4
<1>4. CASE CommitForget(f) \/ AbortForget(f)
  <2> DEFINE next == [forget[f] EXCEPT !.pc = "done"]
  <2>1. next \in ForgetRecord BY <1>1 DEF ForgetRecord
  <2>2. forget' = [forget EXCEPT ![f] = next] BY <1>4 DEF CommitForget, AbortForget
  <2> HIDE DEF next
  <2>3. QED BY <1>1, <2>1, <2>2
<1>5. QED BY <1>2, <1>3, <1>4 DEF Forget

(* Every step keeps the types.                                             *)
LEMMA NextTypeOK == TypeOK /\ [Next]_vars => TypeOK'
<1> SUFFICES ASSUME RowsTyped, JobsTyped, [Next]_vars PROVE RowsTyped' /\ JobsTyped'
  BY TypeParts DEF TypeOK, RowsTyped, JobsTyped, RunRecord, ForgetRecord, Edges
<1>a. TypeOK BY TypeParts
<1>1. ASSUME NEW m \in Memories, WriteMemory(m) PROVE RowsTyped' /\ JobsTyped'
  <2>1. RowsTyped' BY <1>1 DEF WriteMemory, RowsTyped, graph
  <2>2. JobsTyped' BY <1>1 DEF WriteMemory, JobsTyped, graph
  <2>3. QED BY <2>1, <2>2
<1>2. ASSUME NEW m \in Memories, Embed(m) PROVE RowsTyped' /\ JobsTyped'
  <2> USE DEF Embed, EmbedStep, FetchChunks, UpsertEmbeddings, UpsertReplyLost, EmbedFails,
              EnqueueGraphJob, EnqueueGraphFails, graph
  <2>1. RowsTyped' BY <1>2 DEF RowsTyped
  <2>2. JobsTyped' BY <1>2 DEF JobsTyped
  <2>3. QED BY <2>1, <2>2
<1>3. ASSUME NEW r \in Runs, NEW m \in Memories, StartRun(r, m) PROVE RowsTyped' /\ JobsTyped'
  <2>1. RowsTyped' BY <1>3 DEF StartRun, RowsTyped
  <2>2. run' \in [Runs -> RunRecord] BY <1>3, <1>a, StartFacts
  <2>3. graphJobs' \in [Memories -> Nat] BY <1>3 DEF StartRun, JobsTyped
  <2>4. JobsTyped' BY <1>3, <2>2, <2>3 DEF StartRun, JobsTyped
  <2>5. QED BY <2>1, <2>4
<1>4. ASSUME NEW r \in Runs,
             \/ FindBySession(r) \/ FindPreviousInSession(r)
             \/ FindSimilarByEmbedding(r) \/ FindMemoriesSharingEntities(r)
      PROVE RowsTyped' /\ JobsTyped'
  <2>1. PICK from \in {"session", "previous", "similar", "entities"},
             to \in {"previous", "similar", "entities", "commit"},
             found \in SUBSET Edges :
               /\ RunReads(r, from, to, found) /\ Moved(r, to, found)
               /\ run' \in [Runs -> RunRecord]
    BY <1>4, <1>a, Reads
  <2>2. run' \in [Runs -> RunRecord] BY <2>1
  <2>3. RowsTyped' BY <2>1 DEF RunReads, RowsTyped
  <2>4. JobsTyped' BY <2>1, <2>2 DEF RunReads, JobsTyped
  <2>5. QED BY <2>3, <2>4
<1>5. ASSUME NEW r \in Runs, CommitRun(r) \/ CommitReplyLost(r) PROVE RowsTyped' /\ JobsTyped'
  <2>1. run[r].memory \in Memories /\ run[r].found \subseteq Edges
    BY DEF JobsTyped, RunRecord
  <2>2. run' \in [Runs -> RunRecord] BY <1>5, <1>a, DropFacts DEF CommitRun, CommitReplyLost
  <2>3. graphJobs' \in [Memories -> Nat] /\ retries' \in Nat
    BY <1>5, <1>a, FailedJobTypes DEF CommitRun, CommitReplyLost, JobsTyped
  <2>4. edges' \subseteq Edges /\ entities' \in [Memories -> BOOLEAN]
    BY <1>5, <2>1 DEF CommitRun, CommitReplyLost, RowsTyped
  <2>5. RowsTyped' BY <1>5, <2>4 DEF CommitRun, CommitReplyLost, RowsTyped
  <2>6. JobsTyped' BY <1>5, <2>2, <2>3 DEF CommitRun, CommitReplyLost, JobsTyped
  <2>7. QED BY <2>5, <2>6
<1>6. ASSUME NEW r \in Runs, RunFails(r) PROVE RowsTyped' /\ JobsTyped'
  <2>1. run' \in [Runs -> RunRecord] BY <1>6, <1>a, DropFacts DEF RunFails
  <2>2. graphJobs' \in [Memories -> Nat] /\ retries' \in Nat BY <1>6, <1>a, FailedJobTypes DEF RunFails
  <2>3. RowsTyped' BY <1>6 DEF RunFails, RowsTyped
  <2>4. JobsTyped' BY <1>6, <2>1, <2>2 DEF RunFails, JobsTyped
  <2>5. QED BY <2>3, <2>4
<1>7. ASSUME NEW r \in Runs, RunTimesOut(r) PROVE RowsTyped' /\ JobsTyped'
  <2>1. run' \in [Runs -> RunRecord] BY <1>7, <1>a, TimeoutFacts
  <2>2. graphJobs' \in [Memories -> Nat] /\ retries' \in Nat
    BY <1>7, <1>a, FailedJobTypes DEF RunTimesOut
  <2>3. RowsTyped' BY <1>7 DEF RunTimesOut, RowsTyped
  <2>4. JobsTyped' BY <1>7, <2>1, <2>2 DEF RunTimesOut, JobsTyped
  <2>5. QED BY <2>3, <2>4
<1>8. ASSUME NEW f \in Forgets, Forget(f) PROVE RowsTyped' /\ JobsTyped'
  <2>1. forget' \in [Forgets -> ForgetRecord] BY <1>8, <1>a, ForgetTypes
  <2>2. /\ status' \in [Memories -> {"absent", "active", "deleted"}]
        /\ embedded' \in [Memories -> BOOLEAN]
        /\ events' \in [Memories -> Nat]
    <3>1. CASE CommitForget(f) BY <3>1 DEF CommitForget, RowsTyped
    <3>2. CASE SoftDelete(f) \/ PurgeEmbeddings(f) \/ AbortForget(f)
      BY <3>2 DEF SoftDelete, PurgeEmbeddings, AbortForget, RowsTyped
    <3>3. QED BY <1>8, <3>1, <3>2 DEF Forget
  <2>3. UNCHANGED <<embedJob, graph>>
    BY <1>8 DEF Forget, SoftDelete, PurgeEmbeddings, CommitForget, AbortForget
  <2>4. RowsTyped' BY <2>1, <2>2, <2>3 DEF RowsTyped, graph
  <2>5. JobsTyped' BY <2>3 DEF JobsTyped, graph
  <2>6. QED BY <2>4, <2>5
<1>9. CASE UNCHANGED vars
  BY <1>9 DEF vars, RowsTyped, JobsTyped
<1>10. QED
  BY <1>1, <1>2, <1>3, <1>4, <1>5, <1>6, <1>7, <1>8, <1>9 DEF Next, RunStep, Rest

(* Only the steps of a run change what runs hold, and the graph's tables.  *)
LEMMA RunsMove ==
  ASSUME [Next]_vars
  PROVE  \/ UNCHANGED <<run, timedOut, entities, edges>>
         \/ \E r \in Runs, m \in Memories : StartRun(r, m)
         \/ \E r \in Runs : \/ FindBySession(r) \/ FindPreviousInSession(r)
                            \/ FindSimilarByEmbedding(r) \/ FindMemoriesSharingEntities(r)
         \/ \E r \in Runs : CommitRun(r) \/ CommitReplyLost(r) \/ RunFails(r)
         \/ \E r \in Runs : RunTimesOut(r)
<1>1. ASSUME NEW m \in Memories, WriteMemory(m) PROVE UNCHANGED <<run, timedOut, entities, edges>>
  BY <1>1 DEF WriteMemory, graph
<1>2. ASSUME NEW m \in Memories, Embed(m) PROVE UNCHANGED <<run, timedOut, entities, edges>>
  BY <1>2
  DEF Embed, EmbedStep, FetchChunks, UpsertEmbeddings, UpsertReplyLost, EmbedFails,
      EnqueueGraphJob, EnqueueGraphFails, graph
<1>3. ASSUME NEW f \in Forgets, Forget(f) PROVE UNCHANGED <<run, timedOut, entities, edges>>
  BY <1>3 DEF Forget, SoftDelete, PurgeEmbeddings, CommitForget, AbortForget, graph
<1>4. CASE UNCHANGED vars BY <1>4 DEF vars
<1>5. QED BY <1>1, <1>2, <1>3, <1>4 DEF Next, RunStep, Rest

-----------------------------------------------------------------------------
(* Two requests that hold a row have it counted once: the second finds it  *)
(* locked, and then deleted.                                               *)
LEMMA NextForgetting ==
  ASSUME TypeOK, DeletedEventOnce, HitsHeld, [Next]_vars
  PROVE  DeletedEventOnce' /\ HitsHeld'
<1>a. RowsTyped BY TypeParts
<1>1. ASSUME NEW m \in Memories, WriteMemory(m) PROVE DeletedEventOnce' /\ HitsHeld'
  <2>1. \A f \in Forgets : forget[f].hits \subseteq Memories BY <1>a DEF RowsTyped, ForgetRecord
  <2>2. DeletedEventOnce' BY <1>1, <1>a DEF WriteMemory, DeletedEventOnce, RowsTyped
  <2>3. \A n \in Memories : status[n] = "active" => status'[n] = "active"
    BY <1>1, <1>a DEF WriteMemory, RowsTyped
  <2>4. HitsHeld' BY <1>1, <2>1, <2>3 DEF WriteMemory, HitsHeld
  <2>5. QED BY <2>2, <2>4
<1>2. ASSUME UNCHANGED <<status, events, forget>> PROVE DeletedEventOnce' /\ HitsHeld'
  BY <1>2 DEF DeletedEventOnce, HitsHeld
<1>3. ASSUME NEW f \in Forgets, SoftDelete(f) PROVE DeletedEventOnce' /\ HitsHeld'
  <2> DEFINE hits == Target[f] \cap Active
             pc == IF hits = {} THEN "done" ELSE "purge"
  <2>1. forget'[f].hits = hits /\ forget'[f].pc = pc /\ \A g \in Forgets \ {f} : forget'[g] = forget[g]
    BY <1>3, <1>a DEF SoftDelete, RowsTyped
  <2>2. pc # "commit" OBVIOUS
  <2>3. \A m \in hits : status[m] = "active" BY DEF Active
  <2>4. \A g \in Forgets : forget[g].pc \in {"purge", "commit"} => forget[g].hits \cap hits = {}
    BY <1>3 DEF SoftDelete, Locked
  <2>5. UNCHANGED <<status, events>> BY <1>3 DEF SoftDelete
  <2> HIDE DEF hits, pc
  <2>6. HitsHeld' BY <2>1, <2>2, <2>3, <2>4, <2>5 DEF HitsHeld
  <2>7. QED BY <2>5, <2>6 DEF DeletedEventOnce
<1>4. ASSUME NEW f \in Forgets, PurgeEmbeddings(f) PROVE DeletedEventOnce' /\ HitsHeld'
  <2>1. /\ forget[f].pc = "purge" /\ forget'[f].pc = "commit"
        /\ forget'[f].hits = forget[f].hits /\ forget'[f].purged \subseteq forget[f].hits
        /\ \A g \in Forgets \ {f} : forget'[g] = forget[g]
    BY <1>4, <1>a DEF PurgeEmbeddings, RowsTyped, ForgetRecord
  <2>2. UNCHANGED <<status, events>> BY <1>4 DEF PurgeEmbeddings
  <2>3. HitsHeld' BY <2>1, <2>2 DEF HitsHeld
  <2>4. QED BY <2>2, <2>3 DEF DeletedEventOnce
<1>5. ASSUME NEW f \in Forgets, CommitForget(f) PROVE DeletedEventOnce' /\ HitsHeld'
  <2>1. /\ forget[f].pc = "commit" /\ forget'[f].pc = "done"
        /\ \A g \in Forgets \ {f} : forget'[g] = forget[g]
    BY <1>5, <1>a DEF CommitForget, RowsTyped, ForgetRecord
  <2>2. \A m \in forget[f].hits : status[m] = "active" BY <2>1 DEF HitsHeld
  <2>3. \A m \in Memories :
          /\ m \in forget[f].hits => status'[m] = "deleted" /\ events'[m] = events[m] + 1
          /\ m \notin forget[f].hits => status'[m] = status[m] /\ events'[m] = events[m]
    BY <1>5 DEF CommitForget
  <2>4. DeletedEventOnce' BY <1>a, <2>2, <2>3 DEF DeletedEventOnce, RowsTyped
  <2>5. \A g \in Forgets : forget[g].hits \subseteq Memories BY <1>a DEF RowsTyped, ForgetRecord
  <2>6. \A g \in Forgets \ {f} : forget[g].pc \in {"purge", "commit"} =>
          forget[f].hits \cap forget[g].hits = {}
    BY <2>1 DEF HitsHeld
  <2>7. HitsHeld' BY <2>1, <2>3, <2>5, <2>6 DEF HitsHeld
  <2>8. QED BY <2>4, <2>7
<1>6. ASSUME NEW f \in Forgets, AbortForget(f) PROVE DeletedEventOnce' /\ HitsHeld'
  <2>1. forget'[f].pc = "done" /\ \A g \in Forgets \ {f} : forget'[g] = forget[g]
    BY <1>6, <1>a DEF AbortForget, RowsTyped, ForgetRecord
  <2>2. UNCHANGED <<status, events>> BY <1>6 DEF AbortForget
  <2>3. HitsHeld' BY <2>1, <2>2 DEF HitsHeld
  <2>4. QED BY <2>2, <2>3 DEF DeletedEventOnce
<1>7. ASSUME NEW m \in Memories, Embed(m) PROVE UNCHANGED <<status, events, forget>>
  BY <1>7
  DEF Embed, EmbedStep, FetchChunks, UpsertEmbeddings, UpsertReplyLost, EmbedFails,
      EnqueueGraphJob, EnqueueGraphFails
<1>8. ASSUME NEW r \in Runs,
             \/ \E m \in Memories : StartRun(r, m)
             \/ RunStep(r) \/ RunFails(r) \/ RunTimesOut(r) \/ CommitReplyLost(r)
      PROVE  UNCHANGED <<status, events, forget>>
  BY <1>8
  DEF StartRun, RunStep, FindBySession, FindPreviousInSession, FindSimilarByEmbedding,
      FindMemoriesSharingEntities, RunReads, CommitRun, RunFails, RunTimesOut, CommitReplyLost
<1>9. CASE UNCHANGED vars BY <1>2, <1>9 DEF vars
<1>10. QED
  BY <1>1, <1>2, <1>3, <1>4, <1>5, <1>6, <1>7, <1>8, <1>9 DEF Next, Forget, Rest

-----------------------------------------------------------------------------
(* Memories are not forgotten to have existed, nor deleted ones revived.   *)
LEMMA StatusMoves ==
  ASSUME TypeOK, HitsHeld, [Next]_vars, NEW m \in Memories
  PROVE  /\ status[m] # "absent" => status'[m] # "absent"
         /\ status[m] = "deleted" => status'[m] = "deleted"
         /\ embedded[m] => embedded'[m] \/ status'[m] = "deleted"
<1>a. RowsTyped BY TypeParts
<1>1. ASSUME NEW n \in Memories, WriteMemory(n) PROVE status[m] # "absent" =>
        status'[m] = status[m] /\ embedded'[m] = embedded[m]
  BY <1>1, <1>a DEF WriteMemory, RowsTyped
<1>2. ASSUME NEW n \in Memories, Embed(n)
      PROVE  status' = status /\ (embedded[m] => embedded'[m])
  BY <1>2, <1>a
  DEF Embed, EmbedStep, FetchChunks, UpsertEmbeddings, UpsertReplyLost, EmbedFails,
      EnqueueGraphJob, EnqueueGraphFails, RowsTyped
<1>3. ASSUME NEW r \in Runs,
             \/ \E n \in Memories : StartRun(r, n)
             \/ RunStep(r) \/ RunFails(r) \/ RunTimesOut(r) \/ CommitReplyLost(r)
      PROVE  UNCHANGED <<status, embedded>>
  BY <1>3
  DEF StartRun, RunStep, FindBySession, FindPreviousInSession, FindSimilarByEmbedding,
      FindMemoriesSharingEntities, RunReads, CommitRun, RunFails, RunTimesOut, CommitReplyLost
<1>4. ASSUME NEW f \in Forgets, CommitForget(f)
      PROVE  /\ m \in forget[f].hits => status'[m] = "deleted"
             /\ m \notin forget[f].hits => status'[m] = status[m] /\ embedded'[m] = embedded[m]
  BY <1>4, <1>a DEF CommitForget, HitsHeld, RowsTyped
<1>5. ASSUME NEW f \in Forgets, SoftDelete(f) \/ PurgeEmbeddings(f) \/ AbortForget(f)
      PROVE  UNCHANGED <<status, embedded>>
  BY <1>5 DEF SoftDelete, PurgeEmbeddings, AbortForget
<1>6. CASE UNCHANGED vars BY <1>6 DEF vars
<1>7. ASSUME NEW n \in Memories, WriteMemory(n)
      PROVE  UNCHANGED embedded
  BY <1>7 DEF WriteMemory
<1>8. QED
  BY <1>1, <1>2, <1>3, <1>4, <1>5, <1>6, <1>7 DEF Next, Forget, Rest

(* Graph work appears only where there was some, or an embedding.          *)
LEMMA KeepEmbedded ==
  ASSUME TypeOK, HitsHeld, EmbeddedFirst, [Next]_vars,
         \A m \in Memories :
           /\ embedJob'[m] # "none" => embedJob[m] # "none" \/ status'[m] # "absent"
           /\ Graphed(m)' => Graphed(m) \/ (embedJob[m] # "none" /\ embedded'[m])
  PROVE  EmbeddedFirst'
BY StatusMoves DEF EmbeddedFirst

(* No step brings a memory to the graph before it was embedded.            *)
LEMMA NextEmbeddedFirst ==
  ASSUME TypeOK, HitsHeld, OneAttached, EmbeddedFirst, [Next]_vars
  PROVE  EmbeddedFirst'
<1>a. RowsTyped /\ JobsTyped BY TypeParts
<1> DEFINE Fine(m) == /\ embedJob'[m] # "none" => embedJob[m] # "none" \/ status'[m] # "absent"
                      /\ Graphed(m)' => Graphed(m) \/ (embedJob[m] # "none" /\ embedded'[m])
<1> SUFFICES ASSUME NEW n \in Memories PROVE Fine(n) BY KeepEmbedded
<1>1. ASSUME NEW m \in Memories, WriteMemory(m) PROVE Fine(n)
  BY <1>1, <1>a DEF WriteMemory, graph, Graphed, HasRun, RowsTyped, JobsTyped
<1>2. ASSUME NEW m \in Memories, Embed(m) PROVE Fine(n)
  <2>1. CASE FetchChunks(m)
    BY <2>1, <1>a DEF FetchChunks, EmbedStep, graph, Graphed, HasRun, JobsTyped
  <2>2. CASE UpsertEmbeddings(m)
    BY <2>2, <1>a DEF UpsertEmbeddings, EmbedStep, graph, Graphed, HasRun, RowsTyped, JobsTyped
  <2>3. CASE UpsertReplyLost(m) \/ EmbedFails(m)
    BY <2>3, <1>a DEF UpsertReplyLost, EmbedFails, EmbedStep, graph, Graphed, HasRun, JobsTyped
  <2>4. CASE EnqueueGraphJob(m)
    BY <2>4, <1>a DEF EnqueueGraphJob, EmbedStep, Graphed, HasRun, JobsTyped
  <2>5. CASE EnqueueGraphFails(m)
    BY <2>5, <1>a DEF EnqueueGraphFails, EmbedStep, graph, Graphed, HasRun, JobsTyped
  <2>6. QED BY <1>2, <2>1, <2>2, <2>3, <2>4, <2>5 DEF Embed
<1>3. ASSUME NEW r \in Runs, NEW m \in Memories, StartRun(r, m) PROVE Fine(n)
  <2>1. HasRun(n)' => HasRun(n) \/ n = m
    <3>1. \A q \in Runs : run'[q] = run[q] \/ run'[q].memory = m BY <1>3, StartFacts
    <3>2. QED BY <3>1 DEF HasRun
  <2>2. graphJobs[m] > 0 /\ (graphJobs'[n] > 0 => graphJobs[n] > 0)
    BY <1>3, <1>a DEF StartRun, JobsTyped
  <2>3. QED BY <1>3, <2>1, <2>2 DEF StartRun, Graphed
<1>4. ASSUME NEW r \in Runs,
             \/ FindBySession(r) \/ FindPreviousInSession(r)
             \/ FindSimilarByEmbedding(r) \/ FindMemoriesSharingEntities(r)
      PROVE Fine(n)
  <2>1. PICK from \in {"session", "previous", "similar", "entities"},
             to \in {"previous", "similar", "entities", "commit"},
             found \in SUBSET Edges :
               /\ RunReads(r, from, to, found) /\ Moved(r, to, found)
               /\ run' \in [Runs -> RunRecord]
    BY <1>4, Reads
  <2>2. HasRun(n)' => HasRun(n)
    <3>1. run[r].pc # "free" BY <2>1 DEF RunReads
    <3>2. run'[r].memory = run[r].memory /\ \A q \in Runs \ {r} : run'[q] = run[q]
      BY <2>1 DEF Moved
    <3>3. QED BY <3>1, <3>2 DEF HasRun
  <2>3. QED BY <2>1, <2>2 DEF RunReads, Graphed
<1>5. ASSUME NEW r \in Runs, CommitRun(r) \/ CommitReplyLost(r) \/ RunFails(r) PROVE Fine(n)
  <2>1. run[r].memory \in Memories /\ run[r].pc # "free"
    BY <1>5, <1>a DEF CommitRun, CommitReplyLost, RunFails, JobsTyped, RunRecord
  <2>2. HasRun(n)' => HasRun(n)
    BY <1>5, DropFacts DEF CommitRun, CommitReplyLost, RunFails, HasRun
  <2>3. graphJobs'[n] > 0 => graphJobs[n] > 0 \/ HasRun(n)
    BY <1>5, <1>a, <2>1
    DEF CommitRun, CommitReplyLost, RunFails, JobFails, PushBack, HasRun, JobsTyped
  <2>4. entities'[n] => entities[n] \/ HasRun(n)
    BY <1>5, <1>a, <2>1 DEF CommitRun, CommitReplyLost, RunFails, HasRun, RowsTyped
  <2>5. UNCHANGED <<embedJob, status>> BY <1>5 DEF CommitRun, CommitReplyLost, RunFails
  <2>6. QED BY <2>2, <2>3, <2>4, <2>5 DEF Graphed
<1>6. ASSUME NEW r \in Runs, RunTimesOut(r) PROVE Fine(n)
  <2>1. HasRun(n)' => HasRun(n) BY <1>6, TimeoutFacts DEF HasRun
  <2>2. graphJobs'[n] > 0 => graphJobs[n] > 0 \/ HasRun(n)
    <3>1. run[r].memory \in Memories /\ run[r].pc # "free"
      BY <1>6, <1>a DEF RunTimesOut, OneAttached, JobsTyped, RunRecord
    <3>2. QED BY <1>6, <1>a, <3>1 DEF RunTimesOut, JobFails, PushBack, HasRun, JobsTyped
  <2>3. QED BY <1>6, <2>1, <2>2 DEF RunTimesOut, Graphed
<1>7. ASSUME NEW f \in Forgets, Forget(f) PROVE Fine(n)
  <2>1. UNCHANGED <<embedJob, graph>>
    BY <1>7 DEF Forget, SoftDelete, PurgeEmbeddings, CommitForget, AbortForget
  <2>2. QED BY <2>1 DEF graph, Graphed, HasRun
<1>8. CASE UNCHANGED vars BY <1>8 DEF vars, Graphed, HasRun
<1>9. QED
  BY <1>1, <1>2, <1>3, <1>4, <1>5, <1>6, <1>7, <1>8 DEF Next, RunStep, Rest

-----------------------------------------------------------------------------
(* The worker starts a run only when it waits for none.                    *)
LEMMA NextOneAttached ==
  ASSUME TypeOK, OneAttached, [Next]_vars
  PROVE  OneAttached'
<1>1. ASSUME UNCHANGED <<run, timedOut>> PROVE OneAttached' BY <1>1 DEF OneAttached
<1>2. ASSUME NEW r \in Runs, NEW m \in Memories, StartRun(r, m) PROVE OneAttached'
  <2>1. timedOut' = timedOut /\ \A q \in Runs : ~ run[q].attached BY <1>2 DEF StartRun
  <2>2. \A q \in Runs \ {r} : run'[q] = run[q] BY <1>2, StartFacts
  <2>3. run'[r] = run[r] \/ (run'[r].pc = "session" /\ run'[r].attached = TRUE)
    BY <1>2, StartFacts
  <2>4. QED BY <2>1, <2>2, <2>3 DEF OneAttached
<1>3. ASSUME NEW r \in Runs,
             \/ FindBySession(r) \/ FindPreviousInSession(r)
             \/ FindSimilarByEmbedding(r) \/ FindMemoriesSharingEntities(r)
      PROVE OneAttached'
  <2>1. PICK from \in {"session", "previous", "similar", "entities"},
             to \in {"previous", "similar", "entities", "commit"},
             found \in SUBSET Edges :
               /\ RunReads(r, from, to, found) /\ Moved(r, to, found)
               /\ run' \in [Runs -> RunRecord]
    BY <1>3, Reads
  <2>2. timedOut' = timedOut /\ run[r].pc = from BY <2>1 DEF RunReads
  <2>3. /\ run'[r].pc = to /\ run'[r].attached = run[r].attached
        /\ \A q \in Runs \ {r} : run'[q] = run[q]
    BY <2>1 DEF Moved
  <2>4. QED BY <2>2, <2>3 DEF OneAttached
<1>4. ASSUME NEW r \in Runs, CommitRun(r) \/ CommitReplyLost(r) \/ RunFails(r) PROVE OneAttached'
  <2>1. timedOut' = timedOut BY <1>4 DEF CommitRun, CommitReplyLost, RunFails
  <2>2. /\ run'[r].pc = "free" /\ run'[r].attached = FALSE
        /\ \A q \in Runs \ {r} : run'[q] = run[q]
    BY <1>4, DropFacts DEF CommitRun, CommitReplyLost, RunFails
  <2>3. QED BY <2>1, <2>2 DEF OneAttached
<1>5. ASSUME NEW r \in Runs, RunTimesOut(r) PROVE OneAttached'
  <2>1. timedOut' = TRUE BY <1>5 DEF RunTimesOut
  <2>2. /\ run'[r].pc = run[r].pc /\ run'[r].attached = FALSE
        /\ \A q \in Runs \ {r} : run'[q] = run[q]
    BY <1>5, TimeoutFacts
  <2>3. QED BY <2>1, <2>2 DEF OneAttached
<1>6. QED BY <1>1, <1>2, <1>3, <1>4, <1>5, RunsMove

-----------------------------------------------------------------------------
(* Steps that make no new edge necessary and take none away.               *)
LEMMA KeepLinks ==
  ASSUME TypeOK, EmbeddedFirst, NEW type, HeldLinks(type),
         TypeOK', entities' = entities, edges \subseteq edges',
         \A m \in Memories : status'[m] = "active" => status[m] \in {"active", "absent"},
         \A r \in Runs : run'[r].pc \in After(type) =>
           /\ run[r].pc \in After(type) /\ run'[r].memory = run[r].memory
           /\ run[r].found \subseteq run'[r].found
  PROVE  HeldLinks(type)'
<1>1. \A r \in Runs : run[r].memory \in Memories BY TypeParts DEF JobsTyped, RunRecord
<1>2. \A r \in Runs : run[r].pc \in After(type) => status[run[r].memory] # "absent"
  <2> SUFFICES ASSUME NEW r \in Runs, run[r].pc \in After(type)
               PROVE  status[run[r].memory] # "absent"
    OBVIOUS
  <2>1. run[r].pc # "free" BY DEF After
  <2>2. QED BY <1>1, <2>1 DEF EmbeddedFirst, Graphed, HasRun
<1>3. \A m \in Memories : entities[m] => status[m] # "absent" BY DEF EmbeddedFirst, Graphed
<1>4. \A m, n \in Memories : Linked(type, m, n) => Linked(type, m, n)' BY DEF Linked
<1>5. (\A r, q \in Runs :
         run[r].pc \in After(type) /\ run[q].pc \in After(type)
           /\ status[run[r].memory] = "active" /\ status[run[q].memory] = "active"
           /\ Wanted(type, run[r].memory, run[q].memory)
         => <<type, run[r].memory, run[q].memory>> \in run[r].found
              \/ <<type, run[q].memory, run[r].memory>> \in run[q].found)'
  BY <1>1, <1>2 DEF HeldLinks
<1>6. (\A r \in Runs, n \in Memories :
         run[r].pc \in After(type) /\ entities[n]
           /\ status[run[r].memory] = "active" /\ status[n] = "active"
           /\ Wanted(type, run[r].memory, n)
         => Linked(type, run[r].memory, n) \/ <<type, run[r].memory, n>> \in run[r].found)'
  BY <1>1, <1>2, <1>3, <1>4 DEF HeldLinks
<1>7. (\A m, n \in Memories :
         entities[m] /\ entities[n] /\ status[m] = "active" /\ status[n] = "active"
           /\ Wanted(type, m, n)
         => Linked(type, m, n))'
  BY <1>3, <1>4 DEF HeldLinks
<1>8. QED BY <1>5, <1>6, <1>7 DEF HeldLinks

(* The read itself: what it finds links its memory with every active one   *)
(* that is built or that another run has gone as far with.                 *)
LEMMA ReadLinks ==
  ASSUME TypeOK, NEW type, HeldLinks(type), NEW r \in Runs, NEW to, NEW found,
         Moved(r, to, found), UNCHANGED <<status, entities, edges>>,
         run[r].pc \notin After(type),
         \A n \in Memories :
           /\ status[n] = "active" /\ status[run[r].memory] = "active"
           /\ Wanted(type, run[r].memory, n)
           /\ entities[n] \/ (\E q \in Runs : run[q].pc \in After(type) /\ run[q].memory = n)
           => <<type, run[r].memory, n>> \in found
  PROVE  HeldLinks(type)'
<1>1. \A q \in Runs : run[q].memory \in Memories BY TypeParts DEF JobsTyped, RunRecord
<1>2. /\ run'[r].memory = run[r].memory /\ found \subseteq run'[r].found
      /\ \A q \in Runs \ {r} : run'[q] = run[q]
  BY DEF Moved
<1>3. \A m, n \in Memories : Wanted(type, m, n) <=> Wanted(type, n, m)
  BY DEF Wanted
<1>4. \A m : ~ Wanted(type, m, m) BY DEF Wanted
<1>5. \A q \in Runs \ {r} :
        run[q].pc \in After(type) /\ status[run[q].memory] = "active"
          /\ status[run[r].memory] = "active" /\ Wanted(type, run[r].memory, run[q].memory)
        => <<type, run[r].memory, run[q].memory>> \in run'[r].found
  BY <1>1, <1>2
<1>6. \A n \in Memories :
        entities[n] /\ status[n] = "active"
          /\ status[run[r].memory] = "active" /\ Wanted(type, run[r].memory, n)
        => <<type, run[r].memory, n>> \in run'[r].found
  BY <1>1, <1>2
<1>7. (\A p, q \in Runs :
         run[p].pc \in After(type) /\ run[q].pc \in After(type)
           /\ status[run[p].memory] = "active" /\ status[run[q].memory] = "active"
           /\ Wanted(type, run[p].memory, run[q].memory)
         => <<type, run[p].memory, run[q].memory>> \in run[p].found
              \/ <<type, run[q].memory, run[p].memory>> \in run[q].found)'
  <2> SUFFICES ASSUME NEW p \in Runs, NEW q \in Runs,
                      run'[p].pc \in After(type), run'[q].pc \in After(type),
                      status[run'[p].memory] = "active", status[run'[q].memory] = "active",
                      Wanted(type, run'[p].memory, run'[q].memory)
               PROVE  \/ <<type, run'[p].memory, run'[q].memory>> \in run'[p].found
                      \/ <<type, run'[q].memory, run'[p].memory>> \in run'[q].found
    OBVIOUS
  <2>1. CASE p = r /\ q = r BY <2>1, <1>4
  <2>2. CASE p = r /\ q # r BY <2>2, <1>2, <1>5
  <2>3. CASE p # r /\ q = r BY <2>3, <1>1, <1>2, <1>3, <1>5
  <2>4. CASE p # r /\ q # r BY <2>4, <1>2 DEF HeldLinks
  <2>5. QED BY <2>1, <2>2, <2>3, <2>4
<1>8. (\A q \in Runs, n \in Memories :
         run[q].pc \in After(type) /\ entities[n]
           /\ status[run[q].memory] = "active" /\ status[n] = "active"
           /\ Wanted(type, run[q].memory, n)
         => Linked(type, run[q].memory, n) \/ <<type, run[q].memory, n>> \in run[q].found)'
  BY <1>2, <1>6 DEF HeldLinks, Linked
<1>9. (\A m, n \in Memories :
         entities[m] /\ entities[n] /\ status[m] = "active" /\ status[n] = "active"
           /\ Wanted(type, m, n)
         => Linked(type, m, n))'
  BY DEF HeldLinks, Linked
<1>10. QED BY <1>7, <1>8, <1>9 DEF HeldLinks

(* What a run holds is there when it is committed.                         *)
LEMMA BuiltLinks ==
  ASSUME TypeOK, NEW type, HeldLinks(type), NEW r \in Runs, run[r].pc = "commit",
         status' = status, edges' = edges \cup run[r].found,
         entities' = [entities EXCEPT ![run[r].memory] = TRUE],
         run'[r].pc = "free", \A q \in Runs \ {r} : run'[q] = run[q]
  PROVE  HeldLinks(type)'
<1>1. \A q \in Runs : run[q].memory \in Memories BY TypeParts DEF JobsTyped, RunRecord
<1>2. "free" \notin After(type) /\ "commit" \in After(type) BY DEF After
<1>3. \A m, n \in Memories : Wanted(type, m, n) <=> Wanted(type, n, m)
  BY DEF Wanted
<1>4. \A m : ~ Wanted(type, m, m) BY DEF Wanted
<1>5. \A n \in Memories : entities'[n] <=> entities[n] \/ n = run[r].memory
  BY <1>1, TypeParts DEF RowsTyped
<1> DEFINE Link(m, n) == <<type, m, n>> \in edges' \/ <<type, n, m>> \in edges'
<1>6. \A m, n : Linked(type, m, n) => Link(m, n) BY DEF Linked
<1>7. (\A p, q \in Runs :
         run[p].pc \in After(type) /\ run[q].pc \in After(type)
           /\ status[run[p].memory] = "active" /\ status[run[q].memory] = "active"
           /\ Wanted(type, run[p].memory, run[q].memory)
         => <<type, run[p].memory, run[q].memory>> \in run[p].found
              \/ <<type, run[q].memory, run[p].memory>> \in run[q].found)'
  BY <1>2 DEF HeldLinks
<1>8. (\A q \in Runs, n \in Memories :
         run[q].pc \in After(type) /\ entities[n]
           /\ status[run[q].memory] = "active" /\ status[n] = "active"
           /\ Wanted(type, run[q].memory, n)
         => Linked(type, run[q].memory, n) \/ <<type, run[q].memory, n>> \in run[q].found)'
  <2> SUFFICES ASSUME NEW q \in Runs, NEW n \in Memories,
                      run'[q].pc \in After(type), entities'[n],
                      status[run'[q].memory] = "active", status[n] = "active",
                      Wanted(type, run'[q].memory, n)
               PROVE  \/ Link(run'[q].memory, n)
                      \/ <<type, run'[q].memory, n>> \in run'[q].found
    BY DEF Linked
  <2>1. q # r /\ run'[q] = run[q] BY <1>2
  <2>2. CASE entities[n] BY <2>1, <2>2, <1>1, <1>6 DEF HeldLinks
  <2>3. CASE n = run[r].memory
    <3>1. \/ <<type, run[q].memory, n>> \in run[q].found
          \/ <<type, n, run[q].memory>> \in run[r].found
      BY <2>1, <2>3, <1>2 DEF HeldLinks
    <3>2. QED BY <2>1, <3>1
  <2>4. QED BY <1>5, <2>2, <2>3
<1>9. (\A m, n \in Memories :
         entities[m] /\ entities[n] /\ status[m] = "active" /\ status[n] = "active"
           /\ Wanted(type, m, n)
         => Linked(type, m, n))'
  <2> SUFFICES ASSUME NEW m \in Memories, NEW n \in Memories, entities'[m], entities'[n],
                      status[m] = "active", status[n] = "active", Wanted(type, m, n)
               PROVE  Link(m, n)
    BY DEF Linked
  <2>1. \A k \in Memories :
          entities[k] /\ status[k] = "active" /\ status[run[r].memory] = "active"
            /\ Wanted(type, run[r].memory, k)
          => Link(run[r].memory, k)
    BY <1>2, <1>6, <1>1 DEF HeldLinks
  <2>2. CASE entities[m] /\ entities[n] BY <2>2, <1>6 DEF HeldLinks
  <2>3. CASE m = run[r].memory /\ entities[n] BY <2>1, <2>3
  <2>4. CASE n = run[r].memory /\ entities[m] BY <2>1, <2>4, <1>3
  <2>5. CASE m = run[r].memory /\ n = run[r].memory BY <2>5, <1>4
  <2>6. QED BY <1>5, <2>2, <2>3, <2>4, <2>5
<1>10. QED BY <1>7, <1>8, <1>9 DEF HeldLinks

-----------------------------------------------------------------------------
(* A session's memories are read whatever their embeddings.                *)
LEMMA NextSessionLinks ==
  ASSUME IInv, [Next]_vars, TypeOK'
  PROVE  HeldLinks("same_session")'
<1> DEFINE type == "same_session"
<1>a. TypeOK /\ EmbeddedFirst /\ HitsHeld /\ HeldLinks(type) BY DEF IInv
<1>b. \A m \in Memories : status'[m] = "active" => status[m] \in {"active", "absent"}
  BY <1>a, StatusMoves, TypeParts DEF RowsTyped
<1>c. \A q \in Runs : run[q].memory \in Memories /\ run[q].pc \in
        {"free", "session", "previous", "similar", "entities", "commit"}
  BY <1>a, TypeParts DEF JobsTyped, RunRecord
<1>d. type \in {"same_session", "similar_to"} OBVIOUS
<1> HIDE DEF type
<1>1. CASE UNCHANGED <<run, timedOut, entities, edges>>
  BY <1>1, <1>a, <1>b, KeepLinks DEF type
<1>2. ASSUME NEW r \in Runs, NEW m \in Memories, StartRun(r, m) PROVE HeldLinks(type)'
  <2>1. UNCHANGED <<status, entities, edges>> BY <1>2 DEF StartRun
  <2>2. \A q \in Runs : run'[q] = run[q] \/ run'[q].pc = "session"
    BY <1>2, <1>a, StartFacts
  <2>3. "session" \notin After(type) BY DEF After
  <2>4. QED BY <2>1, <2>2, <2>3, <1>a, <1>b, KeepLinks
<1>3. ASSUME NEW r \in Runs, FindBySession(r) PROVE HeldLinks(type)'
  <2>1. PICK found \in SUBSET Edges :
          /\ RunReads(r, "session", "previous", found) /\ Moved(r, "previous", found)
          /\ \A n \in Active : n # run[r].memory => <<"same_session", run[r].memory, n>> \in found
    BY <1>3, <1>a, SessionRead, ReadFacts
  <2>2. UNCHANGED <<status, entities, edges>> /\ run[r].pc \notin After(type)
    BY <2>1 DEF RunReads, After
  <2>3. \A n \in Memories : status[n] = "active" /\ Wanted(type, run[r].memory, n)
          => <<type, run[r].memory, n>> \in found
    BY <2>1 DEF Active, Wanted, type
  <2>4. QED BY <2>1, <2>2, <2>3, <1>a, ReadLinks
<1>4. ASSUME NEW r \in Runs, FindPreviousInSession(r) PROVE HeldLinks(type)'
  <2>1. PICK found \in SUBSET Edges : RunReads(r, "previous", "similar", found) /\ Moved(r, "similar", found)
    BY <1>4, <1>a, PreviousRead, ReadFacts
  <2>2. UNCHANGED <<status, entities, edges>> /\ run[r].pc = "previous" BY <2>1 DEF RunReads
  <2>3. "similar" \in After(type) => "previous" \in After(type) BY <1>d DEF After, type
  <2>4. \A q \in Runs : run'[q].pc \in After(type) =>
          /\ run[q].pc \in After(type) /\ run'[q].memory = run[q].memory
          /\ run[q].found \subseteq run'[q].found
    BY <2>1, <2>2, <2>3 DEF Moved
  <2>5. QED BY <2>2, <2>4, <1>a, <1>b, KeepLinks
<1>5. ASSUME NEW r \in Runs, FindSimilarByEmbedding(r) PROVE HeldLinks(type)'
  <2>1. PICK found \in SUBSET Edges : RunReads(r, "similar", "entities", found) /\ Moved(r, "entities", found)
    BY <1>5, <1>a, SimilarRead, ReadFacts
  <2>2. UNCHANGED <<status, entities, edges>> /\ run[r].pc = "similar" BY <2>1 DEF RunReads
  <2>3. "entities" \in After(type) => "similar" \in After(type) BY <1>d DEF After, type
  <2>4. \A q \in Runs : run'[q].pc \in After(type) =>
          /\ run[q].pc \in After(type) /\ run'[q].memory = run[q].memory
          /\ run[q].found \subseteq run'[q].found
    BY <2>1, <2>2, <2>3 DEF Moved
  <2>5. QED BY <2>2, <2>4, <1>a, <1>b, KeepLinks
<1>6. ASSUME NEW r \in Runs, FindMemoriesSharingEntities(r) PROVE HeldLinks(type)'
  <2>1. PICK found \in SUBSET Edges : RunReads(r, "entities", "commit", found) /\ Moved(r, "commit", found)
    BY <1>6, <1>a, EntitiesRead, ReadFacts
  <2>2. UNCHANGED <<status, entities, edges>> /\ run[r].pc = "entities" BY <2>1 DEF RunReads
  <2>3. "commit" \in After(type) => "entities" \in After(type) BY <1>d DEF After, type
  <2>4. \A q \in Runs : run'[q].pc \in After(type) =>
          /\ run[q].pc \in After(type) /\ run'[q].memory = run[q].memory
          /\ run[q].found \subseteq run'[q].found
    BY <2>1, <2>2, <2>3 DEF Moved
  <2>5. QED BY <2>2, <2>4, <1>a, <1>b, KeepLinks
<1>7. ASSUME NEW r \in Runs, CommitRun(r) \/ CommitReplyLost(r) PROVE HeldLinks(type)'
  <2>1. /\ run[r].pc = "commit" /\ status' = status /\ edges' = edges \cup run[r].found
        /\ entities' = [entities EXCEPT ![run[r].memory] = TRUE]
        /\ run' = [run EXCEPT ![r] = FreeRun]
    BY <1>7 DEF CommitRun, CommitReplyLost
  <2>2. run'[r].pc = "free" /\ \A q \in Runs \ {r} : run'[q] = run[q]
    BY <2>1, <1>a, DropFacts
  <2>3. QED BY <2>1, <2>2, <1>a, BuiltLinks
<1>8. ASSUME NEW r \in Runs, RunFails(r) PROVE HeldLinks(type)'
  <2>1. UNCHANGED <<status, entities, edges>> /\ run' = [run EXCEPT ![r] = FreeRun]
    BY <1>8 DEF RunFails
  <2>2. \A q \in Runs : run'[q] = run[q] \/ run'[q].pc = "free" BY <2>1, <1>a, DropFacts
  <2>3. "free" \notin After(type) BY DEF After
  <2>4. QED BY <2>1, <2>2, <2>3, <1>a, <1>b, KeepLinks
<1>9. ASSUME NEW r \in Runs, RunTimesOut(r) PROVE HeldLinks(type)'
  <2>1. UNCHANGED <<status, entities, edges>> BY <1>9 DEF RunTimesOut
  <2>2. \A q \in Runs : /\ run'[q].pc = run[q].pc /\ run'[q].memory = run[q].memory
                         /\ run'[q].found = run[q].found
    BY <1>9, <1>a, TimeoutFacts
  <2>3. QED BY <2>1, <2>2, <1>a, <1>b, KeepLinks
<1>10. QED BY <1>1, <1>2, <1>3, <1>4, <1>5, <1>6, <1>7, <1>8, <1>9, RunsMove DEF type

(* A graph job exists only for an embedded memory, so that a search finds  *)
(* every one that is built or that another run has searched for.           *)
LEMMA NextSimilarLinks ==
  ASSUME IInv, [Next]_vars, TypeOK'
  PROVE  HeldLinks("similar_to")'
<1> DEFINE type == "similar_to"
<1>a. TypeOK /\ EmbeddedFirst /\ HitsHeld /\ HeldLinks(type) BY DEF IInv
<1>b. \A m \in Memories : status'[m] = "active" => status[m] \in {"active", "absent"}
  BY <1>a, StatusMoves, TypeParts DEF RowsTyped
<1>c. \A q \in Runs : run[q].memory \in Memories /\ run[q].pc \in
        {"free", "session", "previous", "similar", "entities", "commit"}
  BY <1>a, TypeParts DEF JobsTyped, RunRecord
<1>d. type \in {"same_session", "similar_to"} OBVIOUS
<1> HIDE DEF type
<1>1. CASE UNCHANGED <<run, timedOut, entities, edges>>
  BY <1>1, <1>a, <1>b, KeepLinks DEF type
<1>2. ASSUME NEW r \in Runs, NEW m \in Memories, StartRun(r, m) PROVE HeldLinks(type)'
  <2>1. UNCHANGED <<status, entities, edges>> BY <1>2 DEF StartRun
  <2>2. \A q \in Runs : run'[q] = run[q] \/ run'[q].pc = "session"
    BY <1>2, <1>a, StartFacts
  <2>3. "session" \notin After(type) BY DEF After
  <2>4. QED BY <2>1, <2>2, <2>3, <1>a, <1>b, KeepLinks
<1>3. ASSUME NEW r \in Runs, FindBySession(r) PROVE HeldLinks(type)'
  <2>1. PICK found \in SUBSET Edges : RunReads(r, "session", "previous", found) /\ Moved(r, "previous", found)
    BY <1>3, <1>a, SessionRead, ReadFacts
  <2>2. UNCHANGED <<status, entities, edges>> /\ run[r].pc = "session" BY <2>1 DEF RunReads
  <2>3. "previous" \in After(type) => "session" \in After(type) BY <1>d DEF After, type
  <2>4. \A q \in Runs : run'[q].pc \in After(type) =>
          /\ run[q].pc \in After(type) /\ run'[q].memory = run[q].memory
          /\ run[q].found \subseteq run'[q].found
    BY <2>1, <2>2, <2>3 DEF Moved
  <2>5. QED BY <2>2, <2>4, <1>a, <1>b, KeepLinks
<1>4. ASSUME NEW r \in Runs, FindPreviousInSession(r) PROVE HeldLinks(type)'
  <2>1. PICK found \in SUBSET Edges : RunReads(r, "previous", "similar", found) /\ Moved(r, "similar", found)
    BY <1>4, <1>a, PreviousRead, ReadFacts
  <2>2. UNCHANGED <<status, entities, edges>> /\ run[r].pc = "previous" BY <2>1 DEF RunReads
  <2>3. "similar" \in After(type) => "previous" \in After(type) BY <1>d DEF After, type
  <2>4. \A q \in Runs : run'[q].pc \in After(type) =>
          /\ run[q].pc \in After(type) /\ run'[q].memory = run[q].memory
          /\ run[q].found \subseteq run'[q].found
    BY <2>1, <2>2, <2>3 DEF Moved
  <2>5. QED BY <2>2, <2>4, <1>a, <1>b, KeepLinks
<1>5. ASSUME NEW r \in Runs, FindSimilarByEmbedding(r) PROVE HeldLinks(type)'
  <2>1. PICK found \in SUBSET Edges :
          /\ RunReads(r, "similar", "entities", found) /\ Moved(r, "entities", found)
          /\ \A n \in Memories :
               n # run[r].memory /\ embedded[run[r].memory] /\ embedded[n]
                 /\ <<run[r].memory, n>> \in Alike
               => <<"similar_to", run[r].memory, n>> \in found
    BY <1>5, <1>a, SimilarRead, ReadFacts
  <2>2. UNCHANGED <<status, entities, edges>> /\ run[r].pc = "similar"
    BY <2>1 DEF RunReads
  <2>3. \A n \in Memories : status[n] = "active" /\ (entities[n] \/ HasRun(n)) => embedded[n]
    BY <1>a DEF EmbeddedFirst, Graphed
  <2>4. \A q \in Runs : run[q].pc # "free" => HasRun(run[q].memory) BY DEF HasRun
  <2>5. "similar" \notin After(type) /\ "free" \notin After(type) BY DEF After, type
  <2>6. \A n \in Memories :
          /\ status[n] = "active" /\ status[run[r].memory] = "active"
          /\ Wanted(type, run[r].memory, n)
          /\ entities[n] \/ (\E q \in Runs : run[q].pc \in After(type) /\ run[q].memory = n)
          => <<type, run[r].memory, n>> \in found
    <3> SUFFICES ASSUME NEW n \in Memories, status[n] = "active", status[run[r].memory] = "active",
                        Wanted(type, run[r].memory, n), entities[n] \/ HasRun(n)
                 PROVE  <<type, run[r].memory, n>> \in found
      BY <2>4, <2>5
    <3>1. embedded[n] /\ embedded[run[r].memory] BY <2>2, <2>3, <2>4, <1>c
    <3>2. n # run[r].memory /\ <<run[r].memory, n>> \in Alike BY DEF Wanted, type
    <3>3. QED BY <2>1, <3>1, <3>2 DEF type
  <2>7. QED BY <2>1, <2>2, <2>5, <2>6, <1>a, ReadLinks
<1>6. ASSUME NEW r \in Runs, FindMemoriesSharingEntities(r) PROVE HeldLinks(type)'
  <2>1. PICK found \in SUBSET Edges : RunReads(r, "entities", "commit", found) /\ Moved(r, "commit", found)
    BY <1>6, <1>a, EntitiesRead, ReadFacts
  <2>2. UNCHANGED <<status, entities, edges>> /\ run[r].pc = "entities" BY <2>1 DEF RunReads
  <2>3. "commit" \in After(type) => "entities" \in After(type) BY <1>d DEF After, type
  <2>4. \A q \in Runs : run'[q].pc \in After(type) =>
          /\ run[q].pc \in After(type) /\ run'[q].memory = run[q].memory
          /\ run[q].found \subseteq run'[q].found
    BY <2>1, <2>2, <2>3 DEF Moved
  <2>5. QED BY <2>2, <2>4, <1>a, <1>b, KeepLinks
<1>7. ASSUME NEW r \in Runs, CommitRun(r) \/ CommitReplyLost(r) PROVE HeldLinks(type)'
  <2>1. /\ run[r].pc = "commit" /\ status' = status /\ edges' = edges \cup run[r].found
        /\ entities' = [entities EXCEPT ![run[r].memory] = TRUE]
        /\ run' = [run EXCEPT ![r] = FreeRun]
    BY <1>7 DEF CommitRun, CommitReplyLost
  <2>2. run'[r].pc = "free" /\ \A q \in Runs \ {r} : run'[q] = run[q]
    BY <2>1, <1>a, DropFacts
  <2>3. QED BY <2>1, <2>2, <1>a, BuiltLinks
<1>8. ASSUME NEW r \in Runs, RunFails(r) PROVE HeldLinks(type)'
  <2>1. UNCHANGED <<status, entities, edges>> /\ run' = [run EXCEPT ![r] = FreeRun]
    BY <1>8 DEF RunFails
  <2>2. \A q \in Runs : run'[q] = run[q] \/ run'[q].pc = "free" BY <2>1, <1>a, DropFacts
  <2>3. "free" \notin After(type) BY DEF After
  <2>4. QED BY <2>1, <2>2, <2>3, <1>a, <1>b, KeepLinks
<1>9. ASSUME NEW r \in Runs, RunTimesOut(r) PROVE HeldLinks(type)'
  <2>1. UNCHANGED <<status, entities, edges>> BY <1>9 DEF RunTimesOut
  <2>2. \A q \in Runs : /\ run'[q].pc = run[q].pc /\ run'[q].memory = run[q].memory
                         /\ run'[q].found = run[q].found
    BY <1>9, <1>a, TimeoutFacts
  <2>3. QED BY <2>1, <2>2, <1>a, <1>b, KeepLinks
<1>10. QED BY <1>1, <1>2, <1>3, <1>4, <1>5, <1>6, <1>7, <1>8, <1>9, RunsMove DEF type

-----------------------------------------------------------------------------
(* Without timeouts no run is between its read of the entities and its     *)
(* commit when another commits.                                            *)
LEMMA KeepEntities ==
  ASSUME TypeOK, EntitiesSeen, entities' = entities, edges \subseteq edges',
         timedOut => timedOut',
         \A r \in Runs : run'[r].pc = "commit" =>
           /\ run[r].pc = "commit" /\ run'[r].memory = run[r].memory
           /\ run[r].found \subseteq run'[r].found
  PROVE  EntitiesSeen'
BY DEF EntitiesSeen, Linked

(* No step loses sight of a memory that shares an entity.                  *)
LEMMA NextEntitiesSeen ==
  ASSUME IInv, [Next]_vars
  PROVE  EntitiesSeen'
<1>a. TypeOK /\ OneAttached /\ EntitiesSeen BY DEF IInv
<1>b. \A q \in Runs : run[q].memory \in Memories BY <1>a, TypeParts DEF JobsTyped, RunRecord
<1>1. CASE UNCHANGED <<run, timedOut, entities, edges>> BY <1>1, <1>a, KeepEntities
<1>2. ASSUME NEW r \in Runs, NEW m \in Memories, StartRun(r, m) PROVE EntitiesSeen'
  <2>1. UNCHANGED <<timedOut, entities, edges>> BY <1>2 DEF StartRun
  <2>2. \A q \in Runs : run'[q] = run[q] \/ run'[q].pc = "session"
    BY <1>2, <1>a, StartFacts
  <2>3. QED BY <2>1, <2>2, <1>a, KeepEntities
<1>3. ASSUME NEW r \in Runs,
             FindBySession(r) \/ FindPreviousInSession(r) \/ FindSimilarByEmbedding(r)
      PROVE  EntitiesSeen'
  <2>1. PICK to \in {"previous", "similar", "entities"}, found \in SUBSET Edges :
          \E from : RunReads(r, from, to, found) /\ Moved(r, to, found)
    <3>1. CASE FindBySession(r) BY <3>1, <1>a, SessionRead, ReadFacts
    <3>2. CASE FindPreviousInSession(r) BY <3>2, <1>a, PreviousRead, ReadFacts
    <3>3. CASE FindSimilarByEmbedding(r) BY <3>3, <1>a, SimilarRead, ReadFacts
    <3>4. QED BY <1>3, <3>1, <3>2, <3>3
  <2>2. UNCHANGED <<timedOut, entities, edges>> BY <2>1 DEF RunReads
  <2>3. \A q \in Runs : run'[q].pc = "commit" => run'[q] = run[q] BY <2>1 DEF Moved
  <2>4. QED BY <2>2, <2>3, <1>a, KeepEntities
<1>4. ASSUME NEW r \in Runs, FindMemoriesSharingEntities(r) PROVE EntitiesSeen'
  <2>1. PICK found \in SUBSET Edges :
          /\ RunReads(r, "entities", "commit", found) /\ Moved(r, "commit", found)
          /\ \A n \in Memories :
               n # run[r].memory /\ entities[n] /\ {run[r].memory, n} \in Sharing
               => <<"shares_entity", run[r].memory, n>> \in found
    BY <1>4, <1>a, EntitiesRead, ReadFacts
  <2>2. UNCHANGED <<timedOut, entities, edges>> BY <2>1 DEF RunReads
  <2>3. /\ run'[r].memory = run[r].memory /\ found \subseteq run'[r].found
        /\ \A q \in Runs \ {r} : run'[q] = run[q]
    BY <2>1 DEF Moved
  <2>4. \A n \in Memories :
          n # run[r].memory /\ entities[n] /\ {run[r].memory, n} \in Sharing
          => <<"shares_entity", run[r].memory, n>> \in run'[r].found
    BY <2>1, <2>3
  <2>5. QED BY <1>a, <2>2, <2>3, <2>4 DEF EntitiesSeen, Linked
<1>5. ASSUME NEW r \in Runs, CommitRun(r) \/ CommitReplyLost(r) PROVE EntitiesSeen'
  <2>1. /\ run[r].pc = "commit" /\ edges' = edges \cup run[r].found /\ timedOut' = timedOut
        /\ entities' = [entities EXCEPT ![run[r].memory] = TRUE]
        /\ run' = [run EXCEPT ![r] = FreeRun]
    BY <1>5 DEF CommitRun, CommitReplyLost
  <2>2. run'[r].pc = "free" /\ \A q \in Runs \ {r} : run'[q] = run[q]
    BY <2>1, <1>a, DropFacts
  <2>3. \A n \in Memories : entities'[n] <=> entities[n] \/ n = run[r].memory
    BY <2>1, <1>a, <1>b, TypeParts DEF RowsTyped
  <2>4. SUFFICES ASSUME ~ timedOut PROVE EntitiesSeen' BY <2>1 DEF EntitiesSeen
  <2>5. \A q \in Runs : run'[q].pc = "free"
    BY <2>1, <2>2, <2>4, <1>a DEF OneAttached
  <2>6. \A m, n \in Memories : {m, n} = {n, m} OBVIOUS
  <2>7. ASSUME NEW m \in Memories, NEW n \in Memories, entities'[m], entities'[n], m # n,
               {m, n} \in Sharing
        PROVE  Linked("shares_entity", m, n)'
    <3>1. CASE entities[m] /\ entities[n]
      BY <2>1, <2>4, <2>7, <3>1, <1>a DEF EntitiesSeen, Linked
    <3>2. CASE m = run[r].memory /\ entities[n]
      BY <2>1, <2>4, <2>7, <3>2, <1>a DEF EntitiesSeen, Linked
    <3>3. CASE n = run[r].memory /\ entities[m]
      BY <2>1, <2>4, <2>6, <2>7, <3>3, <1>a DEF EntitiesSeen, Linked
    <3>4. QED BY <2>3, <2>7, <3>1, <3>2, <3>3
  <2>8. QED BY <2>5, <2>7 DEF EntitiesSeen
<1>6. ASSUME NEW r \in Runs, RunFails(r) PROVE EntitiesSeen'
  <2>1. UNCHANGED <<timedOut, entities, edges>> /\ run' = [run EXCEPT ![r] = FreeRun]
    BY <1>6 DEF RunFails
  <2>2. \A q \in Runs : run'[q] = run[q] \/ run'[q].pc = "free" BY <2>1, <1>a, DropFacts
  <2>3. QED BY <2>1, <2>2, <1>a, KeepEntities
<1>7. ASSUME NEW r \in Runs, RunTimesOut(r) PROVE EntitiesSeen'
  BY <1>7 DEF RunTimesOut, EntitiesSeen
<1>8. QED BY <1>1, <1>2, <1>3, <1>4, <1>5, <1>6, <1>7, RunsMove

(* Every step keeps the inductive invariant.                               *)
LEMMA NextIInv == IInv /\ [Next]_vars => IInv'
<1> SUFFICES ASSUME IInv, [Next]_vars PROVE IInv' OBVIOUS
<1>1. TypeOK /\ DeletedEventOnce /\ HitsHeld /\ EmbeddedFirst /\ OneAttached BY DEF IInv
<1>2. TypeOK' BY <1>1, NextTypeOK
<1>3. DeletedEventOnce' /\ HitsHeld' BY <1>1, NextForgetting
<1>4. EmbeddedFirst' BY <1>1, NextEmbeddedFirst
<1>5. OneAttached' BY <1>1, NextOneAttached
<1>6. HeldLinks("same_session")' BY <1>2, NextSessionLinks
<1>7. HeldLinks("similar_to")' BY <1>2, NextSimilarLinks
<1>8. EntitiesSeen' BY NextEntitiesSeen
<1>9. QED BY <1>2, <1>3, <1>4, <1>5, <1>6, <1>7, <1>8 DEF IInv

(* IInv holds of every reachable state.                                    *)
THEOREM Invariance == Spec => []IInv
BY InitIInv, NextIInv, PTL DEF Spec

-----------------------------------------------------------------------------
(* Types: what jobs, runs and requests hold is of the system's memories,   *)
(* the predecessor a run picks by created_at included.                     *)
THEOREM TypeCorrect == Spec => []TypeOK
<1>1. IInv => TypeOK BY DEF IInv
<1>2. QED BY <1>1, Invariance, PTL

(* The audit trail has exactly one 'deleted' event per deleted memory.     *)
THEOREM OneDeletedEvent == Spec => []DeletedEventOnce
<1>1. IInv => DeletedEventOnce BY DEF IInv
<1>2. QED BY <1>1, Invariance, PTL

(* Built memories are linked by session and by similarity, however many    *)
(* runs overlap, fail or are given up, and by entities until a run times   *)
(* out.                                                                    *)
THEOREM BuiltLinked == Spec => []BuiltAreLinked
<1>1. IInv => BuiltAreLinked
  <2> SUFFICES ASSUME HeldLinks("same_session"), HeldLinks("similar_to"), EntitiesSeen,
                      NEW m \in Built, NEW n \in Built, m # n
               PROVE  /\ Linked("same_session", m, n)
                      /\ {<<m, n>>, <<n, m>>} \subseteq Alike => Linked("similar_to", m, n)
                      /\ ~ timedOut /\ {m, n} \in Sharing => Linked("shares_entity", m, n)
    BY DEF IInv, BuiltAreLinked
  <2>1. /\ m \in Memories /\ entities[m] /\ status[m] = "active"
        /\ n \in Memories /\ entities[n] /\ status[n] = "active"
    BY DEF Built, Active
  <2>2. Linked("same_session", m, n) BY <2>1 DEF HeldLinks, Wanted
  <2>3. {<<m, n>>, <<n, m>>} \subseteq Alike => Linked("similar_to", m, n)
    BY <2>1 DEF HeldLinks, Wanted
  <2>4. ~ timedOut /\ {m, n} \in Sharing => Linked("shares_entity", m, n)
    BY <2>1 DEF EntitiesSeen
  <2>5. QED BY <2>2, <2>3, <2>4
<1>2. QED BY <1>1, Invariance, PTL
=============================================================================
