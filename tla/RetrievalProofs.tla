---------------------------- MODULE RetrievalProofs ----------------------------
(***************************************************************************)
(* Proofs about Retrieval, for any memories, users, requests and caches:   *)
(* its type invariant, and that private memories only reach their user.    *)
(* The second is no invariant of the answers alone: it follows the         *)
(* memories a request has in hand from the search through the neighbours   *)
(* and the cache, whose key carries the user, to the answer.               *)
(***************************************************************************)
EXTENDS Retrieval, TLAPS

(* What a request holds at the stages of the pipeline.                     *)
Configuring == [pc : {"fetch", "store", "search"}, request : Requests, config : 0..MaxVersion]
Searched == [pc : {"expand", "facts"}, request : Requests, memories : SUBSET Memories]
Expanded == [pc : {"neighbours"}, request : Requests,
             memories : SUBSET Memories, neighbours : SUBSET Memories]
Selected == [pc : {"finish", "answered"}, request : Requests,
             memories : SUBSET Memories, facts : SUBSET Facts]

Cached == [age : 0..(ResultTTL - 1), memories : SUBSET Memories, facts : SUBSET Facts]

(* Memories that may be shown to user u, as far as privacy goes.           *)
ShownTo(u) == {m \in Memories : m \in Private => Owner[m] = u}

(* A request only ever has memories in hand that its user may see.         *)
PrivateInHand ==
  \A r \in Runs : run[r].pc \in {"expand", "neighbours", "facts", "finish", "answered"} =>
    run[r].memories \subseteq ShownTo(run[r].request.user)

(* So does the cache, under the keys of that user.                         *)
PrivateInCache ==
  \A k \in Keys : answers[k] # NoEntry => answers[k].memories \subseteq ShownTo(k[1])

IInv ==
  /\ TypeOK
  /\ PrivateInHand
  /\ PrivateInCache

-----------------------------------------------------------------------------
(* The constants the proofs use.                                           *)
LEMMA Numbers ==
  /\ ResultTTL \in Nat \ {0} /\ ConfigTTL \in Nat \ {0}
  /\ MaxVersion \in Nat /\ MaxFaults \in Nat
BY BoundsAssumption

(* Where a request is tells what it holds.                                 *)
LEMMA Stages ==
  ASSUME TypeOK, NEW r \in Runs
  PROVE  /\ run[r].pc \in {"fetch", "store", "search"} => run[r] \in Configuring
         /\ run[r].pc \in {"expand", "facts"} => run[r] \in Searched
         /\ run[r].pc = "neighbours" => run[r] \in Expanded
         /\ run[r].pc \in {"finish", "answered"} => run[r] \in Selected
<1>1. run[r] \in {Idle} \cup Configuring \cup Searched \cup Expanded \cup Selected
  BY DEF TypeOK, Configuring, Searched, Expanded, Selected
<1>2. QED BY <1>1 DEF Idle, Configuring, Searched, Expanded, Selected

(* A cached answer is no entry, or has memories and facts.                 *)
LEMMA Entries ==
  ASSUME TypeOK, NEW k \in Keys
  PROVE  answers[k] # NoEntry => answers[k] \in Cached
BY DEF TypeOK, Cached

(* A step that moves one request to a stage it has the data for.           *)
LEMMA Moves ==
  ASSUME TypeOK, NEW r \in Runs,
         NEW next \in {Idle} \cup Configuring \cup Searched \cup Expanded \cup Selected,
         Become(r, next)
  PROVE  /\ run' \in [Runs -> {Idle} \cup Configuring \cup Searched \cup Expanded \cup Selected]
         /\ run'[r] = next
         /\ \A s \in Runs \ {r} : run'[s] = run[s]
BY DEF TypeOK, Become, Configuring, Searched, Expanded, Selected

(* TypeOK in terms of the stages.                                          *)
LEMMA TypeParts ==
  TypeOK <=>
    /\ forgotten \subseteq Memories
    /\ superseded \subseteq Facts
    /\ version \in 0..MaxVersion
    /\ answers \in [Keys -> {NoEntry} \cup Cached]
    /\ config \in {NoEntry} \cup [age : 0..ConfigTTL, version : 0..MaxVersion]
    /\ put \in {"idle", "written"}
    /\ run \in [Runs -> {Idle} \cup Configuring \cup Searched \cup Expanded \cup Selected]
    /\ faults \in 0..MaxFaults
BY DEF TypeOK, Cached, Configuring, Searched, Expanded, Selected

(* A request moves to a stage with memories its user may see; the caches,  *)
(* the tables and the other requests stay as they are, except for config.  *)
LEMMA RequestMoves ==
  ASSUME IInv, NEW r \in Runs,
         NEW next \in {Idle} \cup Configuring \cup Searched \cup Expanded \cup Selected,
         Become(r, next),
         next \in Searched \cup Expanded \cup Selected =>
           next.memories \subseteq ShownTo(next.request.user),
         UNCHANGED <<forgotten, superseded, version, answers, put>>,
         config' \in {NoEntry} \cup [age : 0..ConfigTTL, version : 0..MaxVersion],
         faults' \in 0..MaxFaults
  PROVE  IInv'
<1>1. /\ run' \in [Runs -> {Idle} \cup Configuring \cup Searched \cup Expanded \cup Selected]
      /\ run'[r] = next
      /\ \A s \in Runs \ {r} : run'[s] = run[s]
  BY Moves DEF IInv
<1>2. TypeOK'
  <2>1. /\ forgotten \subseteq Memories /\ superseded \subseteq Facts
        /\ version \in 0..MaxVersion /\ put \in {"idle", "written"}
        /\ answers \in [Keys -> {NoEntry} \cup Cached]
    BY TypeParts DEF IInv
  <2>2. QED BY <1>1, <2>1 DEF TypeOK, Cached, Configuring, Searched, Expanded, Selected
<1>3. PrivateInHand'
  <2> SUFFICES ASSUME NEW s \in Runs,
                      run'[s].pc \in {"expand", "neighbours", "facts", "finish", "answered"}
               PROVE  run'[s].memories \subseteq ShownTo(run'[s].request.user)
    BY DEF PrivateInHand, ShownTo
  <2>1. CASE s = r
    <3>1. next \in Searched \cup Expanded \cup Selected
      BY <1>1, <2>1 DEF Idle, Configuring
    <3>2. QED BY <1>1, <2>1, <3>1
  <2>2. CASE s # r BY <1>1, <2>2 DEF IInv, PrivateInHand
  <2>3. QED BY <2>1, <2>2
<1>4. PrivateInCache' BY DEF IInv, PrivateInCache, ShownTo
<1>5. QED BY <1>2, <1>3, <1>4 DEF IInv

(* The tables or the caches change, and no request moves.                  *)
LEMMA NobodyMoves ==
  ASSUME IInv, UNCHANGED run, UNCHANGED faults,
         forgotten' \subseteq Memories, superseded' \subseteq Facts,
         version' \in 0..MaxVersion, put' \in {"idle", "written"},
         config' \in {NoEntry} \cup [age : 0..ConfigTTL, version : 0..MaxVersion],
         answers' \in [Keys -> {NoEntry} \cup Cached],
         \A k \in Keys : answers'[k] # NoEntry =>
           answers[k] # NoEntry /\ answers'[k].memories = answers[k].memories
  PROVE  IInv'
<1>1. /\ run \in [Runs -> {Idle} \cup Configuring \cup Searched \cup Expanded \cup Selected]
      /\ faults \in 0..MaxFaults
  BY TypeParts DEF IInv
<1>2. TypeOK' BY <1>1 DEF TypeOK, Cached, Configuring, Searched, Expanded, Selected
<1>3. PrivateInHand' BY DEF IInv, PrivateInHand, ShownTo
<1>4. PrivateInCache' BY DEF IInv, PrivateInCache, ShownTo
<1>5. QED BY <1>2, <1>3, <1>4 DEF IInv

-----------------------------------------------------------------------------
(* No request is under way and both caches are empty.                      *)
LEMMA InitIInv == Init => IInv
<1> SUFFICES ASSUME Init PROVE IInv OBVIOUS
<1>1. TypeOK BY Numbers, TypeParts DEF Init
<1>2. PrivateInHand BY DEF Init, PrivateInHand, Idle
<1>3. PrivateInCache BY DEF Init, PrivateInCache
<1>4. QED BY <1>1, <1>2, <1>3 DEF IInv

(* One step per stage of the pipeline, then the other actors.              *)
LEMMA NextIInv == IInv /\ [Next]_vars => IInv'
<1> SUFFICES ASSUME IInv, [Next]_vars PROVE IInv' OBVIOUS
<1>0. /\ TypeOK /\ PrivateInHand /\ PrivateInCache
      /\ forgotten \subseteq Memories /\ superseded \subseteq Facts
      /\ version \in 0..MaxVersion /\ put \in {"idle", "written"}
      /\ answers \in [Keys -> {NoEntry} \cup Cached]
      /\ config \in {NoEntry} \cup [age : 0..ConfigTTL, version : 0..MaxVersion]
      /\ faults \in 0..MaxFaults
  BY TypeParts DEF IInv
<1>1. ASSUME NEW r \in Runs, NEW q \in Requests, ReturnCached(r, q) PROVE IInv'
  <2> DEFINE next == Answer(q, answers[Key(q)].memories, answers[Key(q)].facts)
  <2>1. Key(q) \in Keys /\ Key(q)[1] = q.user BY DEF Keys, Key
  <2>2. answers[Key(q)] \in Cached /\ answers[Key(q)].memories \subseteq ShownTo(q.user)
    BY <1>0, <1>1, <2>1, Entries DEF ReturnCached, PrivateInCache
  <2>3. next \in Selected /\ next.memories \subseteq ShownTo(next.request.user)
    BY <2>2 DEF Answer, Selected, Cached
  <2>4. Become(r, next) BY <1>1 DEF ReturnCached
  <2>5. UNCHANGED <<forgotten, superseded, version, answers, config, put, faults>>
    BY <1>1 DEF ReturnCached
  <2> HIDE DEF next
  <2>6. QED BY <1>0, <2>3, <2>4, <2>5, RequestMoves
<1>2. ASSUME NEW r \in Runs, NEW q \in Requests, Start(r, q) PROVE IInv'
  <2> DEFINE next == [pc |-> IF Fresh(config, ConfigTTL) THEN "search" ELSE "fetch",
                      request |-> q, config |-> IF config # NoEntry THEN config.version ELSE 0]
  <2>1. next \in Configuring
    BY <1>0, Numbers DEF Configuring
  <2>2. Become(r, next) BY <1>2 DEF Start
  <2>3. next \notin Searched \cup Expanded \cup Selected
    BY DEF Searched, Expanded, Selected
  <2>4. UNCHANGED <<forgotten, superseded, version, answers, config, put, faults>>
    BY <1>2 DEF Start
  <2> HIDE DEF next
  <2>5. QED BY <1>0, <2>1, <2>2, <2>3, <2>4, RequestMoves
<1>3. ASSUME NEW r \in Runs, NEW label \in {"store", "search"}, NEW v \in 0..MaxVersion,
             run[r].pc \in {"fetch", "store"},
             Become(r, [run[r] EXCEPT !.pc = label, !.config = v]),
             UNCHANGED <<forgotten, superseded, version, answers, put>>,
             config' \in {NoEntry} \cup [age : 0..ConfigTTL, version : 0..MaxVersion],
             faults' \in 0..MaxFaults
      PROVE  IInv'
  <2> DEFINE next == [run[r] EXCEPT !.pc = label, !.config = v]
  <2>1. run[r] \in Configuring BY <1>0, <1>3, Stages
  <2>2. next \in Configuring /\ next.pc = label
    BY <1>3, <2>1 DEF Configuring
  <2> HIDE DEF next
  <2>3. next \notin Searched \cup Expanded \cup Selected
    BY <2>2 DEF Searched, Expanded, Selected
  <2>4. Become(r, next) BY <1>3 DEF next
  <2>5. QED BY <1>0, <1>3, <2>2, <2>3, <2>4, RequestMoves
<1>4. ASSUME NEW r \in Runs, ReadConfig(r) PROVE IInv'
  BY <1>0, <1>3, <1>4 DEF ReadConfig, At
<1>5. ASSUME NEW r \in Runs, StoreConfig(r) \/ ReadConfigFails(r) PROVE IInv'
  <2>1. run[r] \in Configuring
    BY <1>0, <1>5, Stages DEF StoreConfig, ReadConfigFails, At
  <2>2. /\ run[r].config \in 0..MaxVersion
        /\ [run[r] EXCEPT !.pc = "search"] =
             [run[r] EXCEPT !.pc = "search", !.config = run[r].config]
    BY <2>1 DEF Configuring
  <2>3. config' \in {NoEntry} \cup [age : 0..ConfigTTL, version : 0..MaxVersion]
    BY <1>0, <1>5, <2>2, Numbers DEF StoreConfig, ReadConfigFails
  <2>4. faults' \in 0..MaxFaults
    BY <1>0, <1>5, Numbers DEF StoreConfig, ReadConfigFails
  <2>5. Become(r, [run[r] EXCEPT !.pc = "search", !.config = run[r].config])
    BY <1>5, <2>2 DEF StoreConfig, ReadConfigFails
  <2>6. QED BY <1>3, <1>5, <2>2, <2>3, <2>4, <2>5 DEF StoreConfig, ReadConfigFails, At
<1>6. ASSUME NEW r \in Runs, Search(r) PROVE IInv'
  <2> DEFINE q == run[r].request
             next == [pc |-> IF Hits(q) = {} THEN "facts" ELSE "expand", request |-> q,
                      memories |-> Hits(q)]
  <2>1. q \in Requests BY <1>0, <1>6, Stages DEF Search, At, Configuring
  <2>2. Hits(q) \subseteq Memories /\ Hits(q) \subseteq ShownTo(q.user)
    BY DEF Hits, MayRead, ShownTo
  <2>3. next \in Searched /\ next.memories \subseteq ShownTo(next.request.user)
    BY <2>1, <2>2 DEF Searched
  <2>4. Become(r, next) BY <1>6 DEF Search
  <2>5. UNCHANGED <<forgotten, superseded, version, answers, config, put, faults>>
    BY <1>6 DEF Search
  <2> HIDE DEF next
  <2>6. QED BY <1>0, <2>3, <2>4, <2>5, RequestMoves
<1>7. ASSUME NEW r \in Runs, SearchFails(r) \/ Respond(r) PROVE IInv'
  <2>1. Idle \notin Searched \cup Expanded \cup Selected
    BY DEF Idle, Searched, Expanded, Selected
  <2>2. /\ Become(r, Idle)
        /\ UNCHANGED <<forgotten, superseded, version, answers, config, put, faults>>
    BY <1>7 DEF SearchFails, Respond
  <2>3. QED BY <1>0, <2>1, <2>2, RequestMoves
<1>8. ASSUME NEW r \in Runs, Expand(r) PROVE IInv'
  <2>1. run[r] \in Searched /\ run[r].memories \subseteq ShownTo(run[r].request.user)
    BY <1>0, <1>8, Stages DEF Expand, At, PrivateInHand
  <2>2. UNCHANGED <<forgotten, superseded, version, answers, config, put, faults>>
    BY <1>8 DEF Expand
  <2>3. CASE Become(r, [pc |-> "neighbours", request |-> run[r].request,
                        memories |-> run[r].memories, neighbours |-> Reached(run[r].memories)])
    <3> DEFINE next == [pc |-> "neighbours", request |-> run[r].request,
                        memories |-> run[r].memories, neighbours |-> Reached(run[r].memories)]
    <3>1. next \in Expanded /\ next.memories \subseteq ShownTo(next.request.user)
      BY <2>1 DEF Searched, Expanded, Reached
    <3>2. Become(r, next) BY <2>3
    <3> HIDE DEF next
    <3>3. QED BY <1>0, <2>2, <3>1, <3>2, RequestMoves
  <2>4. CASE Become(r, [run[r] EXCEPT !.pc = "facts"])
    <3> DEFINE next == [run[r] EXCEPT !.pc = "facts"]
    <3>1. next \in Searched /\ next.memories \subseteq ShownTo(next.request.user)
      BY <2>1 DEF Searched
    <3>2. Become(r, next) BY <2>4
    <3> HIDE DEF next
    <3>3. QED BY <1>0, <2>2, <3>1, <3>2, RequestMoves
  <2>5. QED BY <1>8, <2>3, <2>4 DEF Expand
<1>9. ASSUME NEW r \in Runs, ReadNeighbours(r) PROVE IInv'
  <2>1. run[r] \in Expanded /\ run[r].memories \subseteq ShownTo(run[r].request.user)
    BY <1>0, <1>9, Stages DEF ReadNeighbours, At, PrivateInHand
  <2>2. PICK more \in {run[r].neighbours \cap MayRead(run[r].request.user), {}} :
          Become(r, [pc |-> "facts", request |-> run[r].request,
                     memories |-> run[r].memories \cup more])
    BY <1>9 DEF ReadNeighbours
  <2> DEFINE next == [pc |-> "facts", request |-> run[r].request,
                      memories |-> run[r].memories \cup more]
  <2>3. more \subseteq Memories /\ more \subseteq ShownTo(run[r].request.user)
    BY <2>2 DEF MayRead, ShownTo
  <2>4. next \in Searched /\ next.memories \subseteq ShownTo(next.request.user)
    BY <2>1, <2>3 DEF Searched, Expanded
  <2>5. Become(r, next) BY <2>2
  <2>6. UNCHANGED <<forgotten, superseded, version, answers, config, put, faults>>
    BY <1>9 DEF ReadNeighbours
  <2> HIDE DEF next
  <2>7. QED BY <1>0, <2>4, <2>5, <2>6, RequestMoves
<1>10. ASSUME NEW r \in Runs, LookUpAndSelect(r) PROVE IInv'
  <2>1. run[r] \in Searched /\ run[r].memories \subseteq ShownTo(run[r].request.user)
    BY <1>0, <1>10, Stages DEF LookUpAndSelect, At, PrivateInHand
  <2>2. PICK found \in {Relevant(run[r].request, run[r].memories), {}} :
          \E facts \in SelectedFacts(found) :
            \E selected \in SelectedMemories(run[r].memories, facts) :
              Become(r, [pc |-> "finish", request |-> run[r].request,
                         memories |-> selected, facts |-> facts])
    BY <1>10 DEF LookUpAndSelect
  <2>0. PICK facts \in SelectedFacts(found) :
          \E selected \in SelectedMemories(run[r].memories, facts) :
            Become(r, [pc |-> "finish", request |-> run[r].request,
                       memories |-> selected, facts |-> facts])
    BY <2>2
  <2>3. PICK selected \in SelectedMemories(run[r].memories, facts) :
          Become(r, [pc |-> "finish", request |-> run[r].request,
                     memories |-> selected, facts |-> facts])
    BY <2>0
  <2> DEFINE next == [pc |-> "finish", request |-> run[r].request,
                      memories |-> selected, facts |-> facts]
  <2>4. facts \subseteq Facts
    <3>1. found \subseteq Facts BY <2>2 DEF Relevant
    <3>2. facts \subseteq found BY DEF SelectedFacts, kSubset
    <3>3. QED BY <3>1, <3>2
  <2>5. selected \subseteq run[r].memories BY DEF SelectedMemories
  <2>6. next \in Selected /\ next.memories \subseteq ShownTo(next.request.user)
    BY <2>1, <2>4, <2>5 DEF Searched, Selected
  <2>7. Become(r, next) BY <2>3
  <2>8. UNCHANGED <<forgotten, superseded, version, answers, config, put, faults>>
    BY <1>10 DEF LookUpAndSelect
  <2> HIDE DEF next
  <2>9. QED BY <1>0, <2>6, <2>7, <2>8, RequestMoves
<1>11. ASSUME NEW r \in Runs, Finish(r) PROVE IInv'
  <2> DEFINE key == Key(run[r].request)
             entry == [age |-> 0, memories |-> run[r].memories, facts |-> run[r].facts]
             next == [run[r] EXCEPT !.pc = "answered"]
  <2>1. run[r] \in Selected /\ run[r].memories \subseteq ShownTo(run[r].request.user)
    BY <1>0, <1>11, Stages DEF Finish, At, PrivateInHand
  <2>2. key \in Keys /\ key[1] = run[r].request.user
    BY <2>1 DEF Keys, Key, Selected
  <2>3. entry \in Cached /\ entry.memories = run[r].memories
    BY <2>1, Numbers DEF Cached, Selected
  <2>4. next \in Selected /\ next.memories = run[r].memories
        /\ next.request = run[r].request
    BY <2>1 DEF Selected
  <2>5. /\ Become(r, next) /\ answers' = [answers EXCEPT ![key] = entry]
        /\ UNCHANGED <<forgotten, superseded, version, config, put, faults>>
    BY <1>11 DEF Finish
  <2> HIDE DEF key, entry, next
  <2>6. /\ run' \in [Runs -> {Idle} \cup Configuring \cup Searched \cup Expanded \cup Selected]
        /\ run'[r] = next
        /\ \A s \in Runs \ {r} : run'[s] = run[s]
    BY <1>0, <2>4, <2>5, Moves
  <2>7. /\ answers' \in [Keys -> {NoEntry} \cup Cached] /\ answers'[key] = entry
        /\ \A k \in Keys \ {key} : answers'[k] = answers[k]
    BY <1>0, <2>2, <2>3, <2>5
  <2>8. TypeOK'
    BY <1>0, <2>5, <2>6, <2>7 DEF TypeOK, Cached, Configuring, Searched, Expanded, Selected
  <2>9. PrivateInHand'
    BY <1>0, <2>1, <2>4, <2>6 DEF PrivateInHand, ShownTo
  <2>10. PrivateInCache'
    BY <1>0, <2>1, <2>2, <2>3, <2>7 DEF PrivateInCache, ShownTo
  <2>11. QED BY <2>8, <2>9, <2>10 DEF IInv
<1>12. ASSUME NEW m \in Memories, Forget(m) PROVE IInv'
  BY <1>0, <1>12, NobodyMoves DEF Forget
<1>13. ASSUME NEW f \in Facts, SupersedeFact(f) PROVE IInv'
  BY <1>0, <1>13, NobodyMoves DEF SupersedeFact
<1>14. ASSUME UpsertConfig \/ InvalidateConfig PROVE IInv'
  BY <1>0, <1>14, Numbers, NobodyMoves DEF UpsertConfig, InvalidateConfig
<1>15. ASSUME Tick PROVE IInv'
  <2>1. \A k \in Keys :
          \/ answers'[k] = NoEntry
          \/ /\ answers[k] # NoEntry /\ answers[k].age + 1 # ResultTTL
             /\ answers'[k] = [answers[k] EXCEPT !.age = @ + 1]
    BY <1>15 DEF Tick
  <2>2. \A k \in Keys : answers[k] # NoEntry => answers[k] \in Cached
    BY <1>0, Entries
  <2>3. \A k \in Keys : answers'[k] # NoEntry =>
          /\ answers[k] # NoEntry /\ answers'[k].memories = answers[k].memories
          /\ answers'[k] \in Cached
    <3> SUFFICES ASSUME NEW k \in Keys, answers'[k] # NoEntry
                 PROVE  /\ answers[k] # NoEntry /\ answers'[k].memories = answers[k].memories
                        /\ answers'[k] \in Cached
      OBVIOUS
    <3>1. PICK e \in Cached : e = answers[k] /\ e.age + 1 # ResultTTL
      BY <2>1, <2>2
    <3>2. answers'[k] = [e EXCEPT !.age = @ + 1] BY <2>1, <3>1
    <3>3. /\ e.age \in 0..(ResultTTL - 1) /\ e.age + 1 \in 0..(ResultTTL - 1)
          /\ e = [age |-> e.age, memories |-> e.memories, facts |-> e.facts]
          /\ e.memories \subseteq Memories /\ e.facts \subseteq Facts
      BY <3>1, Numbers DEF Cached
    <3>4. [e EXCEPT !.age = @ + 1] =
            [age |-> e.age + 1, memories |-> e.memories, facts |-> e.facts]
      BY <3>3
    <3>5. QED BY <2>1, <3>1, <3>2, <3>3, <3>4 DEF Cached
  <2>4. answers' \in [Keys -> {NoEntry} \cup Cached]
    BY <1>15, <2>3 DEF Tick
  <2>5. config' \in {NoEntry} \cup [age : 0..ConfigTTL, version : 0..MaxVersion]
    BY <1>0, <1>15, Numbers DEF Tick, Fresh
  <2>6. UNCHANGED <<forgotten, superseded, version, put, run, faults>>
    BY <1>15 DEF Tick
  <2>7. QED BY <1>0, <2>3, <2>4, <2>5, <2>6, NobodyMoves
<1>16. CASE UNCHANGED vars
  BY <1>0, <1>16, NobodyMoves DEF vars
<1>17. QED
  BY <1>1, <1>2, <1>4, <1>5, <1>6, <1>7, <1>8, <1>9, <1>10, <1>11, <1>12, <1>13, <1>14,
     <1>15, <1>16
  DEF Next, Step

(* IInv holds of every reachable state.                                    *)
THEOREM Invariance == Spec => []IInv
BY InitIInv, NextIInv, PTL DEF Spec

(* Types: a cached answer is dropped when it reaches its time to live, and *)
(* what a request holds fits its stage of the pipeline.                    *)
THEOREM TypeCorrect == Spec => []TypeOK
<1>1. IInv => TypeOK BY DEF IInv
<1>2. QED BY <1>1, Invariance, PTL

(* Private memories reach nobody but their user, over any graph, any cache *)
(* and any overlap of requests.                                            *)
THEOREM PrivateStaysPrivate == Spec => []PrivateToOwner
<1>1. IInv => PrivateToOwner
  <2> SUFFICES ASSUME PrivateInHand, NEW r \in Runs, run[r].pc = "answered",
                      NEW m \in run[r].memories \cap Private
               PROVE  Owner[m] = run[r].request.user
    BY DEF IInv, PrivateToOwner, At
  <2>1. m \in ShownTo(run[r].request.user) BY DEF PrivateInHand
  <2>2. QED BY <2>1 DEF ShownTo
<1>2. QED BY <1>1, Invariance, PTL
=============================================================================
