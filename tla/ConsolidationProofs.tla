------------------------- MODULE ConsolidationProofs -------------------------
(***************************************************************************)
(* Proofs about Consolidation, for any memories, candidates, runs, sweeps  *)
(* and bounds: its type invariant, that a superseded fact points to a      *)
(* later one, and, as long as no run times out, that there is one active   *)
(* fact of a key for which no two open transactions had a candidate, that  *)
(* the audit trail explains every fact and that confidences add up.        *)
(*                                                                         *)
(* What makes them inductive is to say of a transaction what it sees, its  *)
(* own rows over the committed ones, and what the statements it has not    *)
(* executed yet will still add: an event that is pending counts as         *)
(* written.  The row locks keep the rows of two transactions apart.        *)
(***************************************************************************)
EXTENDS Consolidation, FiniteSetTheorems, WellFoundedInduction, TLAPS

Tables == UNION {[S -> Row] : S \in SUBSET FactIds}
Ids == FactIds \cup {NoFact}
Trails == [FactIds -> [Entries -> Nat]]
Writes == [rows : Tables, links : SUBSET (FactIds \X Memories), events : Trails,
           pairs : SUBSET (FactIds \X FactIds)]

(* The statements of a plan that are left when it is carried out.          *)
Rests ==
  {<<"insertFirst", "linkNew", "created">>, <<"linkNew", "created">>, <<"created">>,
   <<"reinforce", "linkOld", "reinforced">>, <<"linkOld", "reinforced">>, <<"reinforced">>,
   <<"insert", "penalise", "supersede", "linkNew", "superseded", "created", "conflict">>,
   <<"penalise", "supersede", "linkNew", "superseded", "created", "conflict">>,
   <<"supersede", "linkNew", "superseded", "created", "conflict">>,
   <<"linkNew", "superseded", "created", "conflict">>,
   <<"superseded", "created", "conflict">>,
   <<"insert", "contestOld", "contestNew", "linkNew", "contested", "created", "conflict">>,
   <<"contestOld", "contestNew", "linkNew", "contested", "created", "conflict">>,
   <<"contestNew", "linkNew", "contested", "created", "conflict">>,
   <<"linkNew", "contested", "created", "conflict">>,
   <<"contested", "created", "conflict">>,
   <<"created", "conflict">>, <<"conflict">>}

RunRecord ==
  [pc : {"idle", "next", "find", "write", "commit"}, todo : SUBSET Memories,
   candidates : Seq(Candidate(Keys, Values)), statements : Rests \cup {<<>>},
   old : Ids, new : Ids, open : BOOLEAN, tx : Writes]

(* The statements a run has before it, as a set: no plan repeats one.      *)
Left(s) == {s[i] : i \in DOMAIN s}

DatabaseTyped ==
  /\ facts \in Tables
  /\ evidence \subseteq (DOMAIN facts) \X Memories
  /\ audit \in Trails
  /\ conflicts \subseteq (DOMAIN facts) \X (DOMAIN facts)
  /\ jobs \in [Memories -> Nat]
  /\ faults \in Nat
  /\ timeouts \in Nat
  /\ overlapped \in SUBSET Keys

(* What goes with each point of a run.  Only one that timed out searches   *)
(* and writes without a transaction.                                       *)
Shape(r) ==
  /\ run[r].pc # "idle" => run[r].todo # {}
  /\ run[r].pc = "write" => run[r].statements \in Rests /\ run[r].candidates # <<>>
  /\ run[r].pc # "write" => run[r].statements = <<>> /\ run[r].old = NoFact /\ run[r].new = NoFact
  /\ run[r].open => run[r].pc \in {"find", "write", "commit"}
  /\ run[r].pc = "commit" => run[r].open
  /\ ~ run[r].open => run[r].tx = NoWrites
  /\ ~ run[r].open /\ timeouts = 0 => run[r].pc \in {"idle", "next"}
  /\ run[r].tx.links \subseteq (DOMAIN Sees(r)) \X Memories
  /\ run[r].tx.pairs \subseteq (DOMAIN Sees(r)) \X (DOMAIN Sees(r))

Typed ==
  /\ DatabaseTyped
  /\ run \in [Runs -> RunRecord]
  /\ \A r \in Runs : Shape(r)

-----------------------------------------------------------------------------
(* A row that is superseded points to a later one that is there as well.   *)
PointsOn(F, there) ==
  \A f \in DOMAIN F :
    F[f].status = "superseded" => F[f].supersededBy \in there /\ F[f].supersededBy > f

SupersedesNext(r) ==
  {"penalise", "supersede"} \cap Left(run[r].statements) # {}
    /\ "insert" \notin Left(run[r].statements)

AllPointOn ==
  /\ PointsOn(facts, DOMAIN facts)
  /\ \A r \in Runs : PointsOn(run[r].tx.rows, DOMAIN Sees(r))
  /\ \A r \in Runs : SupersedesNext(r) => run[r].new > run[r].old

-----------------------------------------------------------------------------
(* The plan of r has inserted its row, or never inserts one.               *)
Inserted(r) ==
  /\ Inserts \cap Left(run[r].statements) = {}
  /\ {"created", "conflict"} \cap Left(run[r].statements) # {}

(* Row locks: two transactions write different rows.  A plan's rows are    *)
(* there when it needs them.                                               *)
Apart == \A q, r \in Runs : q # r => DOMAIN run[q].tx.rows \cap DOMAIN run[r].tx.rows = {}

HasRows(r) ==
  LET L == Left(run[r].statements)
  IN /\ {"reinforced", "conflict"} \cap L # {} => run[r].old \in DOMAIN Sees(r)
     /\ \/ "reinforced" \in L /\ "reinforce" \notin L
        \/ "superseded" \in L /\ "penalise" \notin L
        \/ "contested" \in L /\ "contestOld" \notin L
        => run[r].old \in DOMAIN run[r].tx.rows
     /\ Inserted(r) => run[r].new \in (DOMAIN run[r].tx.rows) \ (DOMAIN facts)
     /\ Inserted(r) /\ "conflict" \in L => run[r].new > run[r].old

(* A transaction revises only the keys that its memory has candidates for: *)
(* it wants no others, and the rows it writes over keep theirs.            *)
Wanted(s) == {s[i].key : i \in DOMAIN s}
KeysIn(r) == KeysOf(MemoryOf(r))

OwnKeys(r) ==
  /\ Wanted(run[r].candidates) \subseteq KeysIn(r)
  /\ \A f \in DOMAIN run[r].tx.rows :
       /\ run[r].tx.rows[f].key \in KeysIn(r)
       /\ f \in DOMAIN facts => facts[f].key = run[r].tx.rows[f].key
  /\ {"reinforced", "conflict"} \cap Left(run[r].statements) # {} =>
       Sees(r)[run[r].old].key \in KeysIn(r)

(* One active fact of a key while its transactions follow each other: one  *)
(* sees two only between its insert and the update of the old row.         *)
ActiveTwins(F, f, g, k) ==
  f # g /\ F[f].key = k /\ F[g].key = k /\ F[f].status = "active" /\ F[g].status = "active"

SeesOne(r, k) ==
  LET L == Left(run[r].statements)
      wants == Head(run[r].candidates).key = k
  IN /\ \A f, g \in DOMAIN Sees(r) :
          ActiveTwins(Sees(r), f, g, k) =>
            {f, g} = {run[r].old, run[r].new} /\ {"supersede", "contestOld"} \cap L # {}
              /\ Inserted(r)
     /\ "insertFirst" \in L /\ wants => ActiveMatches(r, k) = {}
     /\ "insert" \in L /\ wants => ActiveMatches(r, k) \subseteq {run[r].old}

OneActiveOf(k) ==
  /\ \A q, r \in Open : k \in KeysIn(q) /\ k \in KeysIn(r) => q = r
  /\ \A f, g \in DOMAIN facts : ~ ActiveTwins(facts, f, g, k)
  /\ \A r \in Open : k \in KeysIn(r) => SeesOne(r, k)

-----------------------------------------------------------------------------
(* What a transaction of r will have written when its plan is done: its    *)
(* events of a fact with those that are pending, its links, its conflicts. *)
Pending(r, f) ==
  LET L == Left(run[r].statements)
  IN [e \in Entries |->
       CASE e = "created" -> IF Inserted(r) /\ "created" \in L /\ f = run[r].new THEN 1 ELSE 0
         [] e = "boost" ->
              IF "reinforced" \in L /\ "reinforce" \notin L /\ f = run[r].old
              THEN Head(run[r].candidates).boost ELSE 0
         [] e = "superseded" ->
              IF "superseded" \in L /\ {"insert", "penalise"} \cap L = {} /\ f = run[r].old
              THEN 1 ELSE 0
         [] e = "contested" -> 0]

Will(r, f, e) == run[r].tx.events[f][e] + Pending(r, f)[e]

PendingLinks(r) ==
  IF Inserted(r) /\ "linkNew" \in Left(run[r].statements) THEN {run[r].new} ELSE {}
PendingPairs(r) ==
  IF Inserted(r) /\ "conflict" \in Left(run[r].statements)
  THEN {<<run[r].old, run[r].new>>} ELSE {}

(* Events are about rows that are there, in the table or the transaction.  *)
EventsOfRows ==
  /\ \A f \in FactIds \ (DOMAIN facts) : audit[f] = NoEvents
  /\ \A r \in Runs : \A f \in FactIds \ (DOMAIN run[r].tx.rows) : run[r].tx.events[f] = NoEvents

(* A row with the events, links and conflicts that go with it.             *)
InPair(pairs, f) == \E g \in FactIds : {<<f, g>>, <<g, f>>} \cap pairs # {}
Explained(row, f, superseded, pairs) ==
  /\ row.status = "superseded" => superseded >= 1 /\ <<f, row.supersededBy>> \in pairs
  /\ row.status = "contested" => InPair(pairs, f)

HasEvidence(links, f) == \E m \in Memories : <<f, m>> \in links

CommittedExplained ==
  \A f \in DOMAIN facts :
    /\ audit[f]["created"] = 1
    /\ HasEvidence(evidence, f)
    /\ Explained(facts[f], f, audit[f]["superseded"], conflicts)

WrittenExplained(r) ==
  \A f \in DOMAIN run[r].tx.rows :
    /\ Will(r, f, "created") = IF f \in DOMAIN facts THEN 0 ELSE 1
    /\ f \notin DOMAIN facts => HasEvidence(run[r].tx.links, f) \/ f \in PendingLinks(r)
    /\ Explained(run[r].tx.rows[f], f, audit[f]["superseded"] + Will(r, f, "superseded"),
                 conflicts \cup run[r].tx.pairs \cup PendingPairs(r))

(* A confidence is the starting one with what was added and taken, unless  *)
(* that went over the top or below the bottom.                             *)
AddsUp(row, boosts, penalties) ==
  \/ row.confidence = row.start + boosts - Penalty * penalties
  \/ row.start + boosts > Full
  \/ row.start < Penalty * penalties

CommittedAddUp ==
  \A f \in DOMAIN facts : AddsUp(facts[f], audit[f]["boost"], audit[f]["superseded"])

WrittenAddUp(r) ==
  \A f \in DOMAIN run[r].tx.rows :
    AddsUp(run[r].tx.rows[f], audit[f]["boost"] + Will(r, f, "boost"),
           audit[f]["superseded"] + Will(r, f, "superseded"))

Accounted ==
  /\ Apart
  /\ \A r \in Runs : HasRows(r)
  /\ \A r \in Open : OwnKeys(r)
  /\ \A k \in Keys \ overlapped : OneActiveOf(k)
  /\ EventsOfRows
  /\ CommittedExplained
  /\ \A r \in Runs : WrittenExplained(r)
  /\ CommittedAddUp
  /\ \A r \in Runs : WrittenAddUp(r)

IInv ==
  /\ Typed
  /\ AllPointOn
  /\ timeouts = 0 => Accounted
-----------------------------------------------------------------------------
(* A set of numbers has a least, and, below a bound, a greatest element.   *)
LEMMA LeastExists ==
  ASSUME NEW S \in SUBSET Nat, S # {}
  PROVE  Min(S) \in S /\ \A y \in S : Min(S) =< y
<1> DEFINE R == OpToRel(<, Nat)
<1>1. \A x, y \in Nat : <<y, x>> \in R <=> y < x
  BY DEF OpToRel
<1>2. IsWellFoundedOn(R, Nat) BY NatLessThanWellFounded
<1> HIDE DEF R
<1>3. PICK x \in S : \A y \in S : ~ (<<y, x>> \in R)
  BY <1>2, WFMin
<1>4. \A y \in S : x \in Nat /\ y \in Nat /\ ~ (y < x)
  BY <1>1, <1>3
<1>5. \A y \in S : x =< y BY <1>4
<1>6. QED BY <1>5 DEF Min

(* See LeastExists: the distances to the bound have a least.               *)
LEMMA GreatestExists ==
  ASSUME NEW b \in Nat, NEW S \in SUBSET (0..b), S # {}
  PROVE  Max(S) \in S /\ \A y \in S : Max(S) >= y
<1> DEFINE Gaps == {b - x : x \in S}
<1>1. Gaps \in SUBSET Nat /\ Gaps # {}
  <2>1. \A x \in S : b - x \in Nat OBVIOUS
  <2>2. QED BY <2>1
<1>2. PICK g \in Gaps : \A h \in Gaps : g =< h
  <2> HIDE DEF Gaps
  <2>1. QED BY <1>1, LeastExists
<1>3. PICK x \in S : g = b - x BY <1>2
<1>4. \A y \in S : x >= y
  <2> TAKE y \in S
  <2>1. b - x =< b - y BY <1>2, <1>3
  <2>2. x \in Nat /\ y \in Nat OBVIOUS
  <2>3. QED BY <2>1, <2>2
<1>5. QED BY <1>4 DEF Max

(* One table over another has the rows of both, the first's where both.    *)
LEMMA OverFacts ==
  ASSUME NEW f, NEW g
  PROVE  /\ DOMAIN Over(f, g) = DOMAIN f \cup DOMAIN g
         /\ \A x \in DOMAIN f : Over(f, g)[x] = f[x]
         /\ \A x \in (DOMAIN g) \ (DOMAIN f) : Over(f, g)[x] = g[x]
BY DEF Over

(* The rows of a table have the ids of facts, and the fields of a row.     *)
LEMMA TableFacts ==
  ASSUME NEW F \in Tables
  PROVE  DOMAIN F \subseteq FactIds /\ \A f \in DOMAIN F : F[f] \in Row
BY DEF Tables

(* Rows put over the rows of a table make a table.                         *)
LEMMA OverTables ==
  ASSUME NEW F \in Tables, NEW G \in Tables
  PROVE  Over(F, G) \in Tables
<1> DEFINE S == DOMAIN F \cup DOMAIN G
           rows == [x \in S |-> IF x \in DOMAIN F THEN F[x] ELSE G[x]]
<1>1. S \in SUBSET FactIds BY TableFacts
<1>2. \A x \in S : rows[x] \in Row BY TableFacts
<1>3. rows \in [S -> Row] BY <1>2
<1>4. rows = Over(F, G) BY DEF Over
<1>5. QED BY <1>1, <1>3, <1>4 DEF Tables

(* No writes.                                                              *)
LEMMA NoWritesFacts ==
  /\ NoWrites \in Writes
  /\ DOMAIN NoWrites.rows = {}
  /\ NoWrites.links = {} /\ NoWrites.pairs = {}
  /\ \A f \in FactIds : NoWrites.events[f] = NoEvents
<1>1. <<>> \in [{} -> Row] /\ DOMAIN <<>> = {} OBVIOUS
<1>2. <<>> \in Tables BY <1>1 DEF Tables
<1>3. [f \in FactIds |-> NoEvents] \in Trails BY DEF Trails, NoEvents
<1>4. QED BY <1>1, <1>2, <1>3 DEF NoWrites, Writes

(* What a run looks like between transactions.                             *)
IsStopped(R) ==
  /\ R \in RunRecord /\ R.pc \in {"idle", "next"} /\ (R.pc = "next" => R.todo # {})
  /\ R.statements = <<>> /\ R.old = NoFact /\ R.new = NoFact /\ ~ R.open /\ R.tx = NoWrites

(* A run that is over, and a sweep before its next memory, are stopped.    *)
LEMMA StoppedRecords ==
  /\ IsStopped(IdleRun)
  /\ \A S \in SUBSET Memories :
       S # {} => IsStopped([IdleRun EXCEPT !.pc = "next", !.todo = S])
<1>1. <<>> \in Seq(Candidate(Keys, Values)) OBVIOUS
<1>2. IsStopped(IdleRun)
  BY <1>1, NoWritesFacts DEF IsStopped, IdleRun, RunRecord, Ids
<1>3. ASSUME NEW S \in SUBSET Memories, S # {}
      PROVE  IsStopped([IdleRun EXCEPT !.pc = "next", !.todo = S])
  BY <1>1, NoWritesFacts, <1>3 DEF IsStopped, IdleRun, RunRecord, Ids
<1>4. QED BY <1>2, <1>3

-----------------------------------------------------------------------------
(* The statements that are left when the next one is given.                *)
Order(statement, L) ==
  /\ statement = "insertFirst" => L = {"insertFirst", "linkNew", "created"}
  /\ statement = "insert" =>
       L \in {{"insert", "penalise", "supersede", "linkNew", "superseded", "created", "conflict"},
            {"insert", "contestOld", "contestNew", "linkNew", "contested", "created", "conflict"}}
  /\ statement = "reinforce" => L = {"reinforce", "linkOld", "reinforced"}
  /\ statement = "penalise" =>
       L = {"penalise", "supersede", "linkNew", "superseded", "created", "conflict"}
  /\ statement = "supersede" =>
       L = {"supersede", "linkNew", "superseded", "created", "conflict"}
  /\ statement = "contestOld" =>
       L = {"contestOld", "contestNew", "linkNew", "contested", "created", "conflict"}
  /\ statement = "contestNew" =>
       L = {"contestNew", "linkNew", "contested", "created", "conflict"}
  /\ statement = "linkNew" =>
       L \in {{"linkNew", "created"},
            {"linkNew", "superseded", "created", "conflict"},
            {"linkNew", "contested", "created", "conflict"}}
  /\ statement = "linkOld" => L = {"linkOld", "reinforced"}
  /\ statement = "reinforced" => L = {"reinforced"}
  /\ statement = "superseded" => L = {"superseded", "created", "conflict"}
  /\ statement = "contested" => L = {"contested", "created", "conflict"}
  /\ statement = "created" =>
       L \in {{"created"},
            {"created", "conflict"}}
  /\ statement = "conflict" => L = {"conflict"}

(* The rests as sets.                                                      *)
LEMMA RestLefts ==
  /\ Left(<<"insertFirst", "linkNew", "created">>) = {"insertFirst", "linkNew", "created"}
  /\ Left(<<"linkNew", "created">>) = {"linkNew", "created"}
  /\ Left(<<"created">>) = {"created"}
  /\ Left(<<"reinforce", "linkOld", "reinforced">>)
       = {"reinforce", "linkOld", "reinforced"}
  /\ Left(<<"linkOld", "reinforced">>) = {"linkOld", "reinforced"}
  /\ Left(<<"reinforced">>) = {"reinforced"}
  /\ Left(<<"insert", "penalise", "supersede", "linkNew", "superseded", "created", "conflict">>)
       = {"insert", "penalise", "supersede", "linkNew", "superseded", "created", "conflict"}
  /\ Left(<<"penalise", "supersede", "linkNew", "superseded", "created", "conflict">>)
       = {"penalise", "supersede", "linkNew", "superseded", "created", "conflict"}
  /\ Left(<<"supersede", "linkNew", "superseded", "created", "conflict">>)
       = {"supersede", "linkNew", "superseded", "created", "conflict"}
  /\ Left(<<"linkNew", "superseded", "created", "conflict">>)
       = {"linkNew", "superseded", "created", "conflict"}
  /\ Left(<<"superseded", "created", "conflict">>) = {"superseded", "created", "conflict"}
  /\ Left(<<"created", "conflict">>) = {"created", "conflict"}
  /\ Left(<<"conflict">>) = {"conflict"}
  /\ Left(<<"insert", "contestOld", "contestNew", "linkNew", "contested", "created", "conflict">>)
       = {"insert", "contestOld", "contestNew", "linkNew", "contested", "created", "conflict"}
  /\ Left(<<"contestOld", "contestNew", "linkNew", "contested", "created", "conflict">>)
       = {"contestOld", "contestNew", "linkNew", "contested", "created", "conflict"}
  /\ Left(<<"contestNew", "linkNew", "contested", "created", "conflict">>)
       = {"contestNew", "linkNew", "contested", "created", "conflict"}
  /\ Left(<<"linkNew", "contested", "created", "conflict">>)
       = {"linkNew", "contested", "created", "conflict"}
  /\ Left(<<"contested", "created", "conflict">>) = {"contested", "created", "conflict"}
<1>1. Left(<<"insertFirst", "linkNew", "created">>)
      = {"insertFirst", "linkNew", "created"}
  <2>1. DOMAIN <<"insertFirst", "linkNew", "created">> = {1, 2, 3} OBVIOUS
  <2>2. QED BY <2>1 DEF Left
<1>2. Left(<<"linkNew", "created">>) = {"linkNew", "created"}
  <2>1. DOMAIN <<"linkNew", "created">> = {1, 2} OBVIOUS
  <2>2. QED BY <2>1 DEF Left
<1>3. Left(<<"created">>) = {"created"}
  <2>1. DOMAIN <<"created">> = {1} OBVIOUS
  <2>2. QED BY <2>1 DEF Left
<1>4. Left(<<"reinforce", "linkOld", "reinforced">>)
      = {"reinforce", "linkOld", "reinforced"}
  <2>1. DOMAIN <<"reinforce", "linkOld", "reinforced">> = {1, 2, 3} OBVIOUS
  <2>2. QED BY <2>1 DEF Left
<1>5. Left(<<"linkOld", "reinforced">>) = {"linkOld", "reinforced"}
  <2>1. DOMAIN <<"linkOld", "reinforced">> = {1, 2} OBVIOUS
  <2>2. QED BY <2>1 DEF Left
<1>6. Left(<<"reinforced">>) = {"reinforced"}
  <2>1. DOMAIN <<"reinforced">> = {1} OBVIOUS
  <2>2. QED BY <2>1 DEF Left
<1>7. Left(<<"insert", "penalise", "supersede", "linkNew", "superseded", "created", "conflict">>)
      = {"insert", "penalise", "supersede", "linkNew", "superseded", "created", "conflict"}
  <2>1. DOMAIN <<"insert", "penalise", "supersede", "linkNew", "superseded", "created", "conflict">> = {1, 2, 3, 4, 5, 6, 7} OBVIOUS
  <2>2. QED BY <2>1 DEF Left
<1>8. Left(<<"penalise", "supersede", "linkNew", "superseded", "created", "conflict">>)
      = {"penalise", "supersede", "linkNew", "superseded", "created", "conflict"}
  <2>1. DOMAIN <<"penalise", "supersede", "linkNew", "superseded", "created", "conflict">> = {1, 2, 3, 4, 5, 6} OBVIOUS
  <2>2. QED BY <2>1 DEF Left
<1>9. Left(<<"supersede", "linkNew", "superseded", "created", "conflict">>)
      = {"supersede", "linkNew", "superseded", "created", "conflict"}
  <2>1. DOMAIN <<"supersede", "linkNew", "superseded", "created", "conflict">> = {1, 2, 3, 4, 5} OBVIOUS
  <2>2. QED BY <2>1 DEF Left
<1>10. Left(<<"linkNew", "superseded", "created", "conflict">>)
      = {"linkNew", "superseded", "created", "conflict"}
  <2>1. DOMAIN <<"linkNew", "superseded", "created", "conflict">> = {1, 2, 3, 4} OBVIOUS
  <2>2. QED BY <2>1 DEF Left
<1>11. Left(<<"superseded", "created", "conflict">>)
      = {"superseded", "created", "conflict"}
  <2>1. DOMAIN <<"superseded", "created", "conflict">> = {1, 2, 3} OBVIOUS
  <2>2. QED BY <2>1 DEF Left
<1>12. Left(<<"created", "conflict">>) = {"created", "conflict"}
  <2>1. DOMAIN <<"created", "conflict">> = {1, 2} OBVIOUS
  <2>2. QED BY <2>1 DEF Left
<1>13. Left(<<"conflict">>) = {"conflict"}
  <2>1. DOMAIN <<"conflict">> = {1} OBVIOUS
  <2>2. QED BY <2>1 DEF Left
<1>14. Left(<<"insert", "contestOld", "contestNew", "linkNew", "contested", "created", "conflict">>)
      = {"insert", "contestOld", "contestNew", "linkNew", "contested", "created", "conflict"}
  <2>1. DOMAIN <<"insert", "contestOld", "contestNew", "linkNew", "contested", "created", "conflict">> = {1, 2, 3, 4, 5, 6, 7} OBVIOUS
  <2>2. QED BY <2>1 DEF Left
<1>15. Left(<<"contestOld", "contestNew", "linkNew", "contested", "created", "conflict">>)
      = {"contestOld", "contestNew", "linkNew", "contested", "created", "conflict"}
  <2>1. DOMAIN <<"contestOld", "contestNew", "linkNew", "contested", "created", "conflict">> = {1, 2, 3, 4, 5, 6} OBVIOUS
  <2>2. QED BY <2>1 DEF Left
<1>16. Left(<<"contestNew", "linkNew", "contested", "created", "conflict">>)
      = {"contestNew", "linkNew", "contested", "created", "conflict"}
  <2>1. DOMAIN <<"contestNew", "linkNew", "contested", "created", "conflict">> = {1, 2, 3, 4, 5} OBVIOUS
  <2>2. QED BY <2>1 DEF Left
<1>17. Left(<<"linkNew", "contested", "created", "conflict">>)
      = {"linkNew", "contested", "created", "conflict"}
  <2>1. DOMAIN <<"linkNew", "contested", "created", "conflict">> = {1, 2, 3, 4} OBVIOUS
  <2>2. QED BY <2>1 DEF Left
<1>18. Left(<<"contested", "created", "conflict">>) = {"contested", "created", "conflict"}
  <2>1. DOMAIN <<"contested", "created", "conflict">> = {1, 2, 3} OBVIOUS
  <2>2. QED BY <2>1 DEF Left
<1>19. QED
  BY <1>1, <1>2, <1>3, <1>4, <1>5, <1>6, <1>7, <1>8, <1>9, <1>10,
     <1>11, <1>12, <1>13, <1>14, <1>15, <1>16, <1>17, <1>18

(* A rest is a next statement, in its order, and a rest without it.        *)
LEMMA RestParts ==
  ASSUME NEW s \in Rests
  PROVE  /\ s \in Seq(StatementNames)
         /\ Head(s) \in StatementNames
         /\ Head(s) \in Left(s) /\ Order(Head(s), Left(s))
         /\ Len(s) > 1 => Tail(s) \in Rests /\ Left(Tail(s)) = Left(s) \ {Head(s)}
         /\ ~ (Len(s) > 1) => Left(s) = {Head(s)}
<1> USE DEF StatementNames, WritesRow, Inserts, UpdatesOld
<1>1. CASE s = <<"insertFirst", "linkNew", "created">>
  <2>1. Head(s) = "insertFirst" /\ Len(s) = 3 /\ Tail(s) = <<"linkNew", "created">>
    BY <1>1
  <2>2. Left(s) = {"insertFirst", "linkNew", "created"} BY <1>1, RestLefts
  <2>3. Left(Tail(s)) = {"linkNew", "created"} BY <2>1, RestLefts
  <2>4. s \in Seq(StatementNames) BY <1>1
  <2>5. QED BY <2>1, <2>2, <2>3, <2>4 DEF Rests, Order
<1>2. CASE s = <<"linkNew", "created">>
  <2>1. Head(s) = "linkNew" /\ Len(s) = 2 /\ Tail(s) = <<"created">>
    BY <1>2
  <2>2. Left(s) = {"linkNew", "created"} BY <1>2, RestLefts
  <2>3. Left(Tail(s)) = {"created"} BY <2>1, RestLefts
  <2>4. s \in Seq(StatementNames) BY <1>2
  <2>5. QED BY <2>1, <2>2, <2>3, <2>4 DEF Rests, Order
<1>3. CASE s = <<"created">>
  <2>1. Head(s) = "created" /\ Len(s) = 1 BY <1>3
  <2>2. Left(s) = {"created"} BY <1>3, RestLefts
  <2>3. s \in Seq(StatementNames) BY <1>3
  <2>4. QED BY <2>1, <2>2, <2>3 DEF Order
<1>4. CASE s = <<"reinforce", "linkOld", "reinforced">>
  <2>1. Head(s) = "reinforce" /\ Len(s) = 3 /\ Tail(s) = <<"linkOld", "reinforced">>
    BY <1>4
  <2>2. Left(s) = {"reinforce", "linkOld", "reinforced"} BY <1>4, RestLefts
  <2>3. Left(Tail(s)) = {"linkOld", "reinforced"} BY <2>1, RestLefts
  <2>4. s \in Seq(StatementNames) BY <1>4
  <2>5. QED BY <2>1, <2>2, <2>3, <2>4 DEF Rests, Order
<1>5. CASE s = <<"linkOld", "reinforced">>
  <2>1. Head(s) = "linkOld" /\ Len(s) = 2 /\ Tail(s) = <<"reinforced">>
    BY <1>5
  <2>2. Left(s) = {"linkOld", "reinforced"} BY <1>5, RestLefts
  <2>3. Left(Tail(s)) = {"reinforced"} BY <2>1, RestLefts
  <2>4. s \in Seq(StatementNames) BY <1>5
  <2>5. QED BY <2>1, <2>2, <2>3, <2>4 DEF Rests, Order
<1>6. CASE s = <<"reinforced">>
  <2>1. Head(s) = "reinforced" /\ Len(s) = 1 BY <1>6
  <2>2. Left(s) = {"reinforced"} BY <1>6, RestLefts
  <2>3. s \in Seq(StatementNames) BY <1>6
  <2>4. QED BY <2>1, <2>2, <2>3 DEF Order
<1>7. CASE s = <<"insert", "penalise", "supersede", "linkNew", "superseded", "created", "conflict">>
  <2>1. Head(s) = "insert" /\ Len(s) = 7 /\ Tail(s) = <<"penalise", "supersede", "linkNew", "superseded", "created", "conflict">>
    BY <1>7
  <2>2. Left(s) = {"insert", "penalise", "supersede", "linkNew", "superseded", "created", "conflict"} BY <1>7, RestLefts
  <2>3. Left(Tail(s)) = {"penalise", "supersede", "linkNew", "superseded", "created", "conflict"} BY <2>1, RestLefts
  <2>4. s \in Seq(StatementNames) BY <1>7
  <2>5. QED BY <2>1, <2>2, <2>3, <2>4 DEF Rests, Order
<1>8. CASE s = <<"penalise", "supersede", "linkNew", "superseded", "created", "conflict">>
  <2>1. Head(s) = "penalise" /\ Len(s) = 6 /\ Tail(s) = <<"supersede", "linkNew", "superseded", "created", "conflict">>
    BY <1>8
  <2>2. Left(s) = {"penalise", "supersede", "linkNew", "superseded", "created", "conflict"} BY <1>8, RestLefts
  <2>3. Left(Tail(s)) = {"supersede", "linkNew", "superseded", "created", "conflict"} BY <2>1, RestLefts
  <2>4. s \in Seq(StatementNames) BY <1>8
  <2>5. QED BY <2>1, <2>2, <2>3, <2>4 DEF Rests, Order
<1>9. CASE s = <<"supersede", "linkNew", "superseded", "created", "conflict">>
  <2>1. Head(s) = "supersede" /\ Len(s) = 5 /\ Tail(s) = <<"linkNew", "superseded", "created", "conflict">>
    BY <1>9
  <2>2. Left(s) = {"supersede", "linkNew", "superseded", "created", "conflict"} BY <1>9, RestLefts
  <2>3. Left(Tail(s)) = {"linkNew", "superseded", "created", "conflict"} BY <2>1, RestLefts
  <2>4. s \in Seq(StatementNames) BY <1>9
  <2>5. QED BY <2>1, <2>2, <2>3, <2>4 DEF Rests, Order
<1>10. CASE s = <<"linkNew", "superseded", "created", "conflict">>
  <2>1. Head(s) = "linkNew" /\ Len(s) = 4 /\ Tail(s) = <<"superseded", "created", "conflict">>
    BY <1>10
  <2>2. Left(s) = {"linkNew", "superseded", "created", "conflict"} BY <1>10, RestLefts
  <2>3. Left(Tail(s)) = {"superseded", "created", "conflict"} BY <2>1, RestLefts
  <2>4. s \in Seq(StatementNames) BY <1>10
  <2>5. QED BY <2>1, <2>2, <2>3, <2>4 DEF Rests, Order
<1>11. CASE s = <<"superseded", "created", "conflict">>
  <2>1. Head(s) = "superseded" /\ Len(s) = 3 /\ Tail(s) = <<"created", "conflict">>
    BY <1>11
  <2>2. Left(s) = {"superseded", "created", "conflict"} BY <1>11, RestLefts
  <2>3. Left(Tail(s)) = {"created", "conflict"} BY <2>1, RestLefts
  <2>4. s \in Seq(StatementNames) BY <1>11
  <2>5. QED BY <2>1, <2>2, <2>3, <2>4 DEF Rests, Order
<1>12. CASE s = <<"created", "conflict">>
  <2>1. Head(s) = "created" /\ Len(s) = 2 /\ Tail(s) = <<"conflict">>
    BY <1>12
  <2>2. Left(s) = {"created", "conflict"} BY <1>12, RestLefts
  <2>3. Left(Tail(s)) = {"conflict"} BY <2>1, RestLefts
  <2>4. s \in Seq(StatementNames) BY <1>12
  <2>5. QED BY <2>1, <2>2, <2>3, <2>4 DEF Rests, Order
<1>13. CASE s = <<"conflict">>
  <2>1. Head(s) = "conflict" /\ Len(s) = 1 BY <1>13
  <2>2. Left(s) = {"conflict"} BY <1>13, RestLefts
  <2>3. s \in Seq(StatementNames) BY <1>13
  <2>4. QED BY <2>1, <2>2, <2>3 DEF Order
<1>14. CASE s = <<"insert", "contestOld", "contestNew", "linkNew", "contested", "created", "conflict">>
  <2>1. Head(s) = "insert" /\ Len(s) = 7 /\ Tail(s) = <<"contestOld", "contestNew", "linkNew", "contested", "created", "conflict">>
    BY <1>14
  <2>2. Left(s) = {"insert", "contestOld", "contestNew", "linkNew", "contested", "created", "conflict"} BY <1>14, RestLefts
  <2>3. Left(Tail(s)) = {"contestOld", "contestNew", "linkNew", "contested", "created", "conflict"} BY <2>1, RestLefts
  <2>4. s \in Seq(StatementNames) BY <1>14
  <2>5. QED BY <2>1, <2>2, <2>3, <2>4 DEF Rests, Order
<1>15. CASE s = <<"contestOld", "contestNew", "linkNew", "contested", "created", "conflict">>
  <2>1. Head(s) = "contestOld" /\ Len(s) = 6 /\ Tail(s) = <<"contestNew", "linkNew", "contested", "created", "conflict">>
    BY <1>15
  <2>2. Left(s) = {"contestOld", "contestNew", "linkNew", "contested", "created", "conflict"} BY <1>15, RestLefts
  <2>3. Left(Tail(s)) = {"contestNew", "linkNew", "contested", "created", "conflict"} BY <2>1, RestLefts
  <2>4. s \in Seq(StatementNames) BY <1>15
  <2>5. QED BY <2>1, <2>2, <2>3, <2>4 DEF Rests, Order
<1>16. CASE s = <<"contestNew", "linkNew", "contested", "created", "conflict">>
  <2>1. Head(s) = "contestNew" /\ Len(s) = 5 /\ Tail(s) = <<"linkNew", "contested", "created", "conflict">>
    BY <1>16
  <2>2. Left(s) = {"contestNew", "linkNew", "contested", "created", "conflict"} BY <1>16, RestLefts
  <2>3. Left(Tail(s)) = {"linkNew", "contested", "created", "conflict"} BY <2>1, RestLefts
  <2>4. s \in Seq(StatementNames) BY <1>16
  <2>5. QED BY <2>1, <2>2, <2>3, <2>4 DEF Rests, Order
<1>17. CASE s = <<"linkNew", "contested", "created", "conflict">>
  <2>1. Head(s) = "linkNew" /\ Len(s) = 4 /\ Tail(s) = <<"contested", "created", "conflict">>
    BY <1>17
  <2>2. Left(s) = {"linkNew", "contested", "created", "conflict"} BY <1>17, RestLefts
  <2>3. Left(Tail(s)) = {"contested", "created", "conflict"} BY <2>1, RestLefts
  <2>4. s \in Seq(StatementNames) BY <1>17
  <2>5. QED BY <2>1, <2>2, <2>3, <2>4 DEF Rests, Order
<1>18. CASE s = <<"contested", "created", "conflict">>
  <2>1. Head(s) = "contested" /\ Len(s) = 3 /\ Tail(s) = <<"created", "conflict">>
    BY <1>18
  <2>2. Left(s) = {"contested", "created", "conflict"} BY <1>18, RestLefts
  <2>3. Left(Tail(s)) = {"created", "conflict"} BY <2>1, RestLefts
  <2>4. s \in Seq(StatementNames) BY <1>18
  <2>5. QED BY <2>1, <2>2, <2>3, <2>4 DEF Rests, Order
<1>19. QED
  BY <1>1, <1>2, <1>3, <1>4, <1>5, <1>6, <1>7, <1>8, <1>9, <1>10,
     <1>11, <1>12, <1>13, <1>14, <1>15, <1>16, <1>17, <1>18 DEF Rests

(* The plans are rests, of one kind each.                                  *)
LEMMA Plans ==
  ASSUME NEW kind \in {"no_conflict", "reinforcement", "contradiction", "uncertainty"}
  PROVE  /\ Statements(kind) \in Rests
         /\ Left(Statements(kind)) \cap {"insertFirst", "reinforce", "insert"} # {}
         /\ "insertFirst" \in Left(Statements(kind)) <=> kind = "no_conflict"
         /\ {"penalise", "supersede"} \cap Left(Statements(kind)) # {} =>
              "insert" \in Left(Statements(kind))
         /\ Left(Statements(kind)) \in
              {{"insertFirst", "linkNew", "created"},
               {"reinforce", "linkOld", "reinforced"},
               {"insert", "penalise", "supersede", "linkNew", "superseded", "created",
                "conflict"},
               {"insert", "contestOld", "contestNew", "linkNew", "contested", "created",
                "conflict"}}
<1>1. CASE kind = "no_conflict"
  <2>1. Statements(kind) = <<"insertFirst", "linkNew", "created">>
    BY <1>1 DEF Statements
  <2>2. Left(Statements(kind)) = {"insertFirst", "linkNew", "created"}
    BY <2>1, RestLefts
  <2>3. QED BY <1>1, <2>1, <2>2 DEF Rests
<1>2. CASE kind = "reinforcement"
  <2>1. Statements(kind) = <<"reinforce", "linkOld", "reinforced">>
    BY <1>2 DEF Statements
  <2>2. Left(Statements(kind)) = {"reinforce", "linkOld", "reinforced"}
    BY <2>1, RestLefts
  <2>3. QED BY <1>2, <2>1, <2>2 DEF Rests
<1>3. CASE kind = "contradiction"
  <2>1. Statements(kind) = <<"insert", "penalise", "supersede", "linkNew", "superseded", "created", "conflict">>
    BY <1>3 DEF Statements
  <2>2. Left(Statements(kind)) = {"insert", "penalise", "supersede", "linkNew", "superseded", "created", "conflict"}
    BY <2>1, RestLefts
  <2>3. QED BY <1>3, <2>1, <2>2 DEF Rests
<1>4. CASE kind = "uncertainty"
  <2>1. Statements(kind) = <<"insert", "contestOld", "contestNew", "linkNew", "contested", "created", "conflict">>
    BY <1>4 DEF Statements
  <2>2. Left(Statements(kind)) = {"insert", "contestOld", "contestNew", "linkNew", "contested", "created", "conflict"}
    BY <2>1, RestLefts
  <2>3. QED BY <1>4, <2>1, <2>2 DEF Rests
<1>5. QED BY <1>1, <1>2, <1>3, <1>4

-----------------------------------------------------------------------------
(* What a run holds, and the rows it sees.                                 *)
LEMMA RunParts ==
  ASSUME Typed, NEW r \in Runs
  PROVE  /\ run[r] \in RunRecord
         /\ run[r].pc \in {"idle", "next", "find", "write", "commit"}
         /\ run[r].todo \in SUBSET Memories
         /\ run[r].candidates \in Seq(Candidate(Keys, Values))
         /\ run[r].statements \in Rests \cup {<<>>}
         /\ run[r].old \in Ids /\ run[r].new \in Ids
         /\ run[r].open \in BOOLEAN
         /\ run[r].tx \in Writes
         /\ run[r].tx.rows \in Tables
         /\ run[r].tx.links \in SUBSET (FactIds \X Memories)
         /\ run[r].tx.events \in Trails
         /\ run[r].tx.pairs \in SUBSET (FactIds \X FactIds)
         /\ Shape(r)
<1>1. run[r] \in RunRecord /\ Shape(r) BY DEF Typed
<1>2. run[r].tx \in Writes BY <1>1 DEF RunRecord
<1>3. QED BY <1>1, <1>2 DEF RunRecord, Writes

(* What a run sees: its own rows over the committed ones.                  *)
LEMMA SeesFacts ==
  ASSUME Typed, NEW r \in Runs
  PROVE  /\ Sees(r) \in Tables
         /\ DOMAIN Sees(r) = DOMAIN run[r].tx.rows \cup DOMAIN facts
         /\ DOMAIN Sees(r) \subseteq FactIds
         /\ \A f \in DOMAIN Sees(r) : Sees(r)[f] \in Row
         /\ \A f \in DOMAIN run[r].tx.rows : Sees(r)[f] = run[r].tx.rows[f]
         /\ \A f \in (DOMAIN facts) \ (DOMAIN run[r].tx.rows) : Sees(r)[f] = facts[f]
<1>1. facts \in Tables BY DEF Typed, DatabaseTyped
<1>2. run[r].tx.rows \in Tables BY RunParts
<1>3. Sees(r) \in Tables BY <1>1, <1>2, OverTables DEF Sees
<1>4. /\ DOMAIN Sees(r) = DOMAIN run[r].tx.rows \cup DOMAIN facts
      /\ \A f \in DOMAIN run[r].tx.rows : Sees(r)[f] = run[r].tx.rows[f]
      /\ \A f \in (DOMAIN facts) \ (DOMAIN run[r].tx.rows) : Sees(r)[f] = facts[f]
  BY OverFacts DEF Sees
<1>5. QED BY <1>3, <1>4, TableFacts

(* The next id is above every id in use.                                   *)
LEMMA FreshFacts ==
  ASSUME Typed
  PROVE  /\ FreshId \in Nat \ {0}
         /\ FreshId \notin DOMAIN facts
         /\ \A r \in Runs : /\ FreshId \notin DOMAIN run[r].tx.rows
                            /\ FreshId \notin DOMAIN Sees(r)
                            /\ FreshId > run[r].old /\ FreshId > run[r].new
<1> DEFINE Held(r) == DOMAIN run[r].tx.rows \cup {run[r].old, run[r].new}
<1>1. DOMAIN facts \subseteq 0..MaxFacts
  BY TableFacts, MaxFactsAssumption DEF Typed, DatabaseTyped, FactIds
<1>2. \A r \in Runs : Held(r) \subseteq 0..MaxFacts
  <2> TAKE r \in Runs
  <2>1. DOMAIN run[r].tx.rows \subseteq FactIds BY RunParts, TableFacts
  <2>2. run[r].old \in Ids /\ run[r].new \in Ids BY RunParts
  <2>3. QED BY <2>1, <2>2, MaxFactsAssumption DEF Ids, NoFact, FactIds
<1>3. UsedIds = {NoFact} \cup DOMAIN facts \cup UNION {Held(r) : r \in Runs}
  BY DEF UsedIds
<1> HIDE DEF Held
<1>4. UsedIds \in SUBSET (0..MaxFacts) /\ UsedIds # {}
  BY <1>1, <1>2, <1>3, MaxFactsAssumption DEF NoFact
<1>5. Max(UsedIds) \in 0..MaxFacts /\ \A y \in UsedIds : Max(UsedIds) >= y
  BY <1>4, GreatestExists, MaxFactsAssumption
<1>6. \A y \in UsedIds : y \in Int /\ FreshId > y
  BY <1>4, <1>5 DEF FreshId
<1>7. FreshId \in Nat \ {0} BY <1>5 DEF FreshId
<1>8. FreshId \notin UsedIds BY <1>6, <1>7
<1>9. FreshId \notin DOMAIN facts BY <1>3, <1>8
<1>10. ASSUME NEW r \in Runs
       PROVE  /\ FreshId \notin DOMAIN run[r].tx.rows
              /\ FreshId \notin DOMAIN Sees(r)
              /\ FreshId > run[r].old /\ FreshId > run[r].new
  <2>1. Held(r) \subseteq UsedIds BY <1>3
  <2>2. FreshId \notin DOMAIN run[r].tx.rows BY <2>1, <1>8 DEF Held
  <2>3. FreshId > run[r].old /\ FreshId > run[r].new BY <2>1, <1>6 DEF Held
  <2>4. QED BY <2>2, <2>3, <1>9, SeesFacts
<1>11. QED BY <1>7, <1>9, <1>10

-----------------------------------------------------------------------------
(* What the next statement of a run is, the new id it goes with, and the   *)
(* writes of the transaction after it.                                     *)
Statement(r) == Head(run[r].statements)
NewId(r) == IF Statement(r) \in Inserts THEN FreshId ELSE run[r].new
Now(r) == Head(run[r].candidates)
NewRows(r) == RowsWritten(r, Statement(r), NewId(r))
After(r) == Written(r, Statement(r), NewId(r))

(* A statement's rows: the new one, or the one it updates if it is there.  *)
LEMMA RowsFacts ==
  ASSUME Typed, NEW r \in Runs, Statement(r) \in WritesRow, Now(r) \in Candidate(Keys, Values),
         NewId(r) \in Ids, Statement(r) \in Inserts => NewId(r) \in FactIds
  PROVE  /\ NewRows(r) \in Tables
         /\ Statement(r) = "insertFirst" =>
              /\ DOMAIN NewRows(r) = {NewId(r)}
              /\ NewRows(r)[NewId(r)] = NewRow(Now(r), StartingConfidence(Now(r)))
         /\ Statement(r) = "insert" =>
              /\ DOMAIN NewRows(r) = {NewId(r)}
              /\ NewRows(r)[NewId(r)] = NewRow(Now(r), Now(r).confidence)
         /\ Statement(r) \in UpdatesOld =>
              /\ DOMAIN NewRows(r) = {run[r].old} \cap DOMAIN Sees(r)
              /\ \A f \in DOMAIN NewRows(r) :
                   NewRows(r)[f] = UpdatedOld(Statement(r), Sees(r)[f], Now(r), NewId(r))
         /\ Statement(r) = "contestNew" =>
              /\ DOMAIN NewRows(r) = {NewId(r)} \cap DOMAIN Sees(r)
              /\ \A f \in DOMAIN NewRows(r) :
                   NewRows(r)[f] = [Sees(r)[f] EXCEPT !.status = "contested"]
<1> DEFINE c == Now(r)
           there == DOMAIN Sees(r)
<1>c. /\ c.key \in Keys /\ c.value \in Values /\ c.confidence \in 0..Full
      /\ c.default \in 0..Full /\ c.boost \in 1..2
  BY DEF Candidate
<1>s. there \subseteq FactIds /\ \A f \in there : Sees(r)[f] \in Row BY SeesFacts
<1>1. ASSUME NEW n \in 0..Full PROVE NewRow(c, n) \in Row
  BY <1>c DEF NewRow, Row
<1>2. ASSUME NEW n \in Int PROVE Clamp(n) \in 0..Full
  BY DEF Clamp, Full
<1>3. CASE Statement(r) = "insertFirst"
  <2>1. NewRows(r) = [f \in {NewId(r)} |-> NewRow(c, StartingConfidence(c))]
    BY <1>3 DEF NewRows, RowsWritten, Now, UpdatesOld
  <2>2. StartingConfidence(c) \in 0..Full BY <1>c DEF StartingConfidence
  <2>3. NewRows(r) \in [{NewId(r)} -> Row] BY <2>1, <2>2, <1>1
  <2>4. NewRows(r) \in Tables BY <2>3, <1>3 DEF Tables, Inserts
  <2>5. QED BY <1>3, <2>1, <2>4 DEF UpdatesOld
<1>4. CASE Statement(r) = "insert"
  <2>1. NewRows(r) = [f \in {NewId(r)} |-> NewRow(c, c.confidence)]
    BY <1>4 DEF NewRows, RowsWritten, Now, UpdatesOld
  <2>2. NewRows(r) \in [{NewId(r)} -> Row] BY <2>1, <1>c, <1>1
  <2>3. NewRows(r) \in Tables BY <2>2, <1>4 DEF Tables, Inserts
  <2>4. QED BY <1>4, <2>1, <2>3 DEF UpdatesOld
<1>5. CASE Statement(r) \in UpdatesOld
  <2> DEFINE S == {run[r].old} \cap there
             next(f) == UpdatedOld(Statement(r), Sees(r)[f], c, NewId(r))
  <2>1. NewRows(r) = [f \in S |-> next(f)]
    BY <1>5 DEF NewRows, RowsWritten, Now, UpdatesOld
  <2>2. ASSUME NEW f \in S PROVE next(f) \in Row
    <3>1. Sees(r)[f] \in Row BY <1>s
    <3>2. Sees(r)[f].confidence \in Int BY <3>1 DEF Row, Full
    <3>3. Clamp(Sees(r)[f].confidence + c.boost) \in 0..Full
      BY <1>2, <1>c, <3>2
    <3>4. Clamp(Sees(r)[f].confidence - Penalty) \in 0..Full
      BY <1>2, <3>2 DEF Penalty
    <3>5. CASE Statement(r) = "reinforce" BY <3>5, <3>1, <3>3 DEF UpdatedOld, Row
    <3>6. CASE Statement(r) = "penalise" BY <3>6, <3>1, <3>4 DEF UpdatedOld, Row
    <3>7. CASE Statement(r) = "supersede" BY <3>7, <3>1 DEF UpdatedOld, Row, Ids
    <3>8. CASE Statement(r) = "contestOld" BY <3>8, <3>1 DEF UpdatedOld, Row
    <3>9. QED BY <1>5, <3>5, <3>6, <3>7, <3>8 DEF UpdatesOld
  <2> HIDE DEF next
  <2>3. NewRows(r) \in [S -> Row] BY <2>1, <2>2
  <2>4. NewRows(r) \in Tables BY <2>3, <1>s DEF Tables
  <2>5. DOMAIN NewRows(r) = S /\ \A f \in S : NewRows(r)[f] = next(f)
    BY <2>1
  <2>6. QED BY <1>5, <2>4, <2>5 DEF UpdatesOld, next
<1>6. CASE Statement(r) = "contestNew"
  <2> DEFINE S == {NewId(r)} \cap there
             next(f) == [Sees(r)[f] EXCEPT !.status = "contested"]
  <2>1. NewRows(r) = [f \in S |-> next(f)]
    BY <1>6 DEF NewRows, RowsWritten, Now, UpdatesOld
  <2>2. \A f \in S : next(f) \in Row BY <1>s DEF Row
  <2>3. NewRows(r) \in [S -> Row] BY <2>1, <2>2
  <2>4. NewRows(r) \in Tables BY <2>3, <1>s DEF Tables
  <2>5. QED BY <1>6, <2>1, <2>4 DEF UpdatesOld
<1>7. QED BY <1>3, <1>4, <1>5, <1>6 DEF WritesRow, Inserts

(* What a transaction has written after a statement, by statement.         *)
LEMMA WrittenFacts ==
  ASSUME Typed, NEW r \in Runs, Statement(r) \in StatementNames,
         Now(r) \in Candidate(Keys, Values),
         NewId(r) \in Ids, Statement(r) \in Inserts => NewId(r) \in FactIds,
         run[r].todo # {}, Refers(r) \subseteq DOMAIN Sees(r)
  PROVE  LET W == run[r].tx
             m == MemoryOf(r)
             old == run[r].old
             new == NewId(r)
             statement == Statement(r)
         IN  /\ After(r) \in Writes
             /\ m \in Memories
             /\ statement \in WritesRow =>
                  /\ After(r).rows = Over(NewRows(r), W.rows)
                  /\ NewRows(r) \in Tables
             /\ statement \notin WritesRow => After(r).rows = W.rows
             /\ statement = "linkNew" =>
                  After(r).links = W.links \cup {<<new, m>>} /\ new \in DOMAIN Sees(r)
             /\ statement = "linkOld" =>
                  After(r).links = W.links \cup {<<old, m>>} /\ old \in DOMAIN Sees(r)
             /\ statement \notin {"linkNew", "linkOld"} => After(r).links = W.links
             /\ statement = "conflict" =>
                  /\ After(r).pairs = W.pairs \cup {<<old, new>>}
                  /\ new \in DOMAIN Sees(r) /\ old \in DOMAIN Sees(r)
             /\ statement # "conflict" => After(r).pairs = W.pairs
             /\ statement \in {"created", "superseded", "contested", "reinforced"} =>
                  LET event == Event(statement, Now(r), old, new)
                  IN  /\ event.fact \in DOMAIN Sees(r)
                      /\ \A f \in FactIds, e \in Entries :
                           After(r).events[f][e] =
                             W.events[f][e]
                               + (IF f = event.fact /\ e = event.entry THEN event.by ELSE 0)
             /\ statement \notin {"created", "superseded", "contested", "reinforced"} =>
                  After(r).events = W.events
<1> DEFINE W == run[r].tx
           m == MemoryOf(r)
           old == run[r].old
           new == NewId(r)
           event == Event(Statement(r), Now(r), old, new)
<1>w. /\ W \in Writes /\ W.rows \in Tables /\ W.links \in SUBSET (FactIds \X Memories)
      /\ W.events \in Trails /\ W.pairs \in SUBSET (FactIds \X FactIds)
  BY RunParts
<1>m. m \in Memories
  <2>1. run[r].todo \in SUBSET Nat /\ run[r].todo \subseteq Memories
    BY RunParts, MemoriesAssumption
  <2>2. QED BY <2>1, LeastExists DEF MemoryOf
<1>s. DOMAIN Sees(r) \subseteq FactIds BY SeesFacts
<1>1. CASE Statement(r) \in WritesRow
  <2>1. NewRows(r) \in Tables BY <1>1, RowsFacts
  <2>2. After(r) = [W EXCEPT !.rows = Over(NewRows(r), @)]
    BY <1>1 DEF After, Written, NewRows, WritesRow, Inserts, UpdatesOld
  <2>3. Over(NewRows(r), W.rows) \in Tables BY <2>1, <1>w, OverTables
  <2>4. After(r) = [rows |-> Over(NewRows(r), W.rows), links |-> W.links,
                    events |-> W.events, pairs |-> W.pairs]
    BY <2>2, <1>w DEF Writes
  <2>5. After(r) \in Writes BY <2>3, <2>4, <1>w DEF Writes
  <2>6. QED BY <1>1, <1>m, <2>1, <2>4, <2>5 DEF WritesRow, Inserts, UpdatesOld
<1>2. CASE Statement(r) \in {"linkNew", "linkOld"}
  <2> DEFINE f == IF Statement(r) = "linkNew" THEN new ELSE old
  <2>1. After(r) = [W EXCEPT !.links = @ \cup {<<f, m>>}]
    BY <1>2 DEF After, Written, WritesRow, Inserts, UpdatesOld
  <2>2. f \in DOMAIN Sees(r)
    BY <1>2 DEF Refers, Statement, NewId, Inserts
  <2>3. W.links \cup {<<f, m>>} \in SUBSET (FactIds \X Memories)
    BY <2>2, <1>s, <1>m, <1>w
  <2>4. After(r) = [rows |-> W.rows, links |-> W.links \cup {<<f, m>>},
                    events |-> W.events, pairs |-> W.pairs]
    BY <2>1, <1>w DEF Writes
  <2>5. After(r) \in Writes BY <2>3, <2>4, <1>w DEF Writes
  <2>6. QED BY <1>2, <1>m, <2>2, <2>4, <2>5 DEF WritesRow, Inserts, UpdatesOld
<1>3. CASE Statement(r) = "conflict"
  <2>1. After(r) = [W EXCEPT !.pairs = @ \cup {<<old, new>>}]
    BY <1>3 DEF After, Written, WritesRow, Inserts, UpdatesOld
  <2>2. old \in DOMAIN Sees(r) /\ new \in DOMAIN Sees(r)
    BY <1>3 DEF Refers, Statement, NewId, Inserts
  <2>3. W.pairs \cup {<<old, new>>} \in SUBSET (FactIds \X FactIds)
    BY <2>2, <1>s, <1>w
  <2>4. After(r) = [rows |-> W.rows, links |-> W.links,
                    events |-> W.events, pairs |-> W.pairs \cup {<<old, new>>}]
    BY <2>1, <1>w DEF Writes
  <2>5. After(r) \in Writes BY <2>3, <2>4, <1>w DEF Writes
  <2>6. QED BY <1>3, <1>m, <2>2, <2>4, <2>5 DEF WritesRow, Inserts, UpdatesOld
<1>4. CASE Statement(r) \in {"created", "superseded", "contested", "reinforced"}
  <2> DEFINE ev == [W.events EXCEPT ![event.fact][event.entry] = @ + event.by]
  <2>1. After(r) = [W EXCEPT !.events[event.fact][event.entry] = @ + event.by]
    BY <1>4 DEF After, Written, WritesRow, Inserts, UpdatesOld, Now
  <2>2. event.fact \in DOMAIN Sees(r)
    BY <1>4 DEF Refers, Statement, NewId, Inserts, Event
  <2>3. event.entry \in Entries /\ event.by \in Nat
    BY <1>4 DEF Event, Entries, Candidate
  <2>4. event.fact \in FactIds BY <2>2, <1>s
  <2> HIDE DEF event
  <2>5. \A f \in FactIds : W.events[f] \in [Entries -> Nat] BY <1>w DEF Trails
  <2>6. \A f \in FactIds, e \in Entries :
          ev[f][e] = W.events[f][e]
                       + (IF f = event.fact /\ e = event.entry THEN event.by ELSE 0)
    BY <2>3, <2>4, <2>5, <1>w DEF Trails
  <2>7. ev \in Trails
    <3>1. \A f \in FactIds : ev[f] \in [Entries -> Nat]
      BY <2>3, <2>4, <2>5, <1>w DEF Trails
    <3>2. ev = [f \in FactIds |-> ev[f]] BY <1>w DEF Trails
    <3> HIDE DEF ev
    <3>3. QED BY <3>1, <3>2 DEF Trails
  <2>8. After(r) = [rows |-> W.rows, links |-> W.links, events |-> ev, pairs |-> W.pairs]
    BY <2>1, <1>w DEF Writes
  <2> HIDE DEF ev
  <2>9. After(r) \in Writes BY <2>7, <2>8, <1>w DEF Writes
  <2>10. After(r).events = ev /\ After(r).rows = W.rows /\ After(r).links = W.links
         /\ After(r).pairs = W.pairs
    BY <2>8
  <2>11. QED
    BY <1>4, <1>m, <2>2, <2>6, <2>9, <2>10 DEF WritesRow, Inserts, UpdatesOld, event
<1>5. QED BY <1>1, <1>2, <1>3, <1>4 DEF StatementNames

-----------------------------------------------------------------------------
(* The runs other than r stay as they are.                                 *)
OthersStay(r) == \A q \in Runs \ {r} : run'[q] = run[q]

(* A step of r that leaves it without a transaction, or with a new one.    *)
Restarted(r) ==
  /\ run'[r].pc \in {"idle", "next", "find"}
  /\ run'[r].pc # "idle" => run'[r].todo # {}
  /\ run'[r].statements = <<>> /\ run'[r].old = NoFact /\ run'[r].new = NoFact
  /\ run'[r].tx = NoWrites
  /\ run'[r].open <=> run'[r].pc = "find"
  /\ overlapped \subseteq overlapped'
  /\ run'[r].open =>
       /\ ~ run[r].open
       /\ \A q \in Open : KeysIn(q) \cap KeysOf(Min(run'[r].todo)) \subseteq overlapped'
       /\ Wanted(run'[r].candidates) \subseteq KeysOf(Min(run'[r].todo))

(* What Execute does, in terms of the next statement and what is left.     *)
Carried(r) ==
  LET L == Left(run[r].statements)
  IN  /\ run'[r].todo = run[r].todo /\ run'[r].open = run[r].open
      /\ Left(run'[r].statements) = L \ {Statement(r)}
      /\ L = {Statement(r)} =>
           /\ run'[r].pc = "find" /\ run'[r].statements = <<>>
           /\ run'[r].old = NoFact /\ run'[r].new = NoFact
           /\ run'[r].candidates = Tail(run[r].candidates)
      /\ L # {Statement(r)} =>
           /\ run'[r].pc = "write" /\ run'[r].statements \in Rests
           /\ run'[r].candidates = run[r].candidates
           /\ run'[r].old = run[r].old /\ run'[r].new = NewId(r)
      /\ run[r].open => run'[r].tx = After(r) /\ UNCHANGED database
      /\ ~ run[r].open => run'[r].tx = NoWrites /\ Publish(After(r))

(* The situation in which a statement of r is executed.                    *)
MayExecute(r) ==
  /\ run[r].pc = "write" /\ run[r].statements \in Rests /\ run[r].candidates # <<>>
  /\ Statement(r) \in StatementNames /\ Statement(r) \in Left(run[r].statements)
  /\ Order(Statement(r), Left(run[r].statements))
  /\ Now(r) \in Candidate(Keys, Values)
  /\ NewId(r) \in Ids
  /\ Statement(r) \in Inserts => NewId(r) = FreshId /\ FreshId \in FactIds
  /\ Statement(r) \notin Inserts => NewId(r) = run[r].new
  /\ Refers(r) \subseteq DOMAIN Sees(r)
  /\ \A f \in Updates(r), q \in Runs \ {r} : f \notin DOMAIN run[q].tx.rows

(* Execute carries out the next statement of its plan and changes no other *)
(* run.                                                                    *)
LEMMA ExecuteFacts ==
  ASSUME Typed, NEW r \in Runs, Execute(r)
  PROVE  /\ MayExecute(r)
         /\ run' \in [Runs -> RunRecord]
         /\ OthersStay(r)
         /\ Carried(r)
<1> DEFINE s == run[r].statements
           R == run[r]
           A == Advanced(r, NewId(r))
<1>1. /\ R.pc = "write" /\ Refers(r) \subseteq DOMAIN Sees(r) /\ ~ WaitsForRow(r)
      /\ Statement(r) \in Inserts => NewId(r) \in FactIds
      /\ IF R.open
         THEN run' = [run EXCEPT ![r] = [A EXCEPT !.tx = After(r)]] /\ UNCHANGED database
         ELSE run' = [run EXCEPT ![r] = A] /\ Publish(After(r))
  BY DEF Execute, Statement, NewId, After
<1>2. /\ R \in RunRecord /\ R.candidates \in Seq(Candidate(Keys, Values))
      /\ R.old \in Ids /\ R.new \in Ids /\ R.open \in BOOLEAN /\ R.tx \in Writes
      /\ ~ R.open => R.tx = NoWrites
      /\ s \in Rests /\ R.candidates # <<>> /\ R.todo # {}
  BY <1>1, RunParts DEF Shape
<1>3. /\ Statement(r) \in StatementNames /\ Statement(r) \in Left(s)
      /\ Order(Statement(r), Left(s))
      /\ Len(s) > 1 => Tail(s) \in Rests /\ Left(Tail(s)) = Left(s) \ {Statement(r)}
      /\ ~ (Len(s) > 1) => Left(s) = {Statement(r)}
  BY <1>2, RestParts DEF Statement
<1>4. /\ Now(r) \in Candidate(Keys, Values)
      /\ Tail(R.candidates) \in Seq(Candidate(Keys, Values))
  BY <1>2 DEF Now
<1>5. NewId(r) \in Ids
  BY <1>1, <1>2 DEF NewId, Ids
<1>6. \A f \in Updates(r), q \in Runs \ {r} : f \notin DOMAIN run[q].tx.rows
  <2> SUFFICES ASSUME NEW f \in Updates(r), NEW q \in Runs \ {r}, f \in DOMAIN run[q].tx.rows
               PROVE  FALSE
    OBVIOUS
  <2>1. HolderOf(f) \ {r} = {} BY <1>1 DEF WaitsForRow
  <2>2. q \notin HolderOf(f) BY <2>1
  <2>3. ~ run[q].open BY <2>2 DEF HolderOf, Open
  <2>4. run[q].tx = NoWrites BY <2>3, RunParts DEF Shape
  <2>5. QED BY <2>4, NoWritesFacts
<1>7. MayExecute(r)
  BY <1>1, <1>2, <1>3, <1>4, <1>5, <1>6 DEF MayExecute, NewId
<1>8. After(r) \in Writes
  BY <1>1, <1>2, <1>3, <1>4, <1>5, WrittenFacts
<1> DEFINE next == IF R.open THEN [A EXCEPT !.tx = After(r)] ELSE A
<1>9. run \in [Runs -> RunRecord] BY DEF Typed
<1>10. run' = [run EXCEPT ![r] = next] BY <1>1, <1>2
<1>11. CASE Len(s) > 1
  <2>1. A = [R EXCEPT !.statements = Tail(s), !.new = NewId(r)]
    BY <1>11 DEF Advanced
  <2>2. /\ next \in RunRecord
        /\ next.todo = R.todo /\ next.open = R.open /\ next.statements = Tail(s)
        /\ next.pc = "write" /\ next.candidates = R.candidates /\ next.old = R.old
        /\ next.new = NewId(r) /\ next.tx = IF R.open THEN After(r) ELSE R.tx
    BY <1>1, <1>2, <1>3, <1>5, <1>8, <1>11, <2>1 DEF RunRecord
  <2>3. Left(s) # {Statement(r)}
    <3>1. Left(Tail(s)) # {} BY <1>3, <1>11, RestParts
    <3>2. QED BY <3>1, <1>3, <1>11
  <2> HIDE DEF next
  <2>4. run'[r] = next /\ OthersStay(r) /\ run' \in [Runs -> RunRecord]
    BY <1>9, <1>10, <2>2 DEF OthersStay
  <2>5. Carried(r)
    BY <1>1, <1>2, <1>3, <1>11, <2>2, <2>3, <2>4 DEF Carried
  <2>6. QED BY <1>7, <2>4, <2>5
<1>12. CASE ~ (Len(s) > 1)
  <2>1. A = [R EXCEPT !.statements = <<>>, !.new = NoFact, !.old = NoFact, !.pc = "find",
                      !.candidates = Tail(R.candidates)]
    BY <1>12 DEF Advanced
  <2>2. /\ next \in RunRecord
        /\ next.todo = R.todo /\ next.open = R.open /\ next.statements = <<>>
        /\ next.pc = "find" /\ next.old = NoFact /\ next.candidates = Tail(R.candidates)
        /\ next.new = NoFact /\ next.tx = IF R.open THEN After(r) ELSE R.tx
    BY <1>1, <1>2, <1>4, <1>8, <1>12, <2>1 DEF RunRecord, Ids
  <2>3. Left(<<>>) = {} BY DEF Left
  <2> HIDE DEF next
  <2>4. run'[r] = next /\ OthersStay(r) /\ run' \in [Runs -> RunRecord]
    BY <1>9, <1>10, <2>2 DEF OthersStay
  <2>5. Carried(r)
    BY <1>1, <1>2, <1>3, <1>12, <2>2, <2>3, <2>4 DEF Carried
  <2>6. QED BY <1>7, <2>4, <2>5
<1>13. QED BY <1>11, <1>12

(* The other steps, by what they do to a run and the database: one rolls   *)
(* back or has nothing to undo, one commits, one searches, one loses its   *)
(* transaction.                                                            *)
Rolls(r) == Restarted(r) /\ OthersStay(r) /\ UNCHANGED <<database, timeouts>>

Publishes(r) ==
  /\ run[r].pc = "commit" /\ Publish(run[r].tx)
  /\ Restarted(r) /\ OthersStay(r) /\ UNCHANGED timeouts

Decides(r) ==
  \E kind \in {"no_conflict", "reinforcement", "contradiction", "uncertainty"},
     old \in Ids :
    /\ run[r].candidates # <<>>
    /\ run'[r].candidates = run[r].candidates
    /\ run'[r].pc = "write" /\ run'[r].statements = Statements(kind) /\ run'[r].old = old
    /\ IF kind = "no_conflict" THEN old = NoFact /\ ActiveMatches(r, Now(r).key) = {}
       ELSE old \in ActiveMatches(r, Now(r).key)

Skips(r) ==
  /\ run'[r].pc \in {"find", "commit"} /\ (run'[r].pc = "commit" => run[r].open)
  /\ run'[r].statements = <<>> /\ run'[r].old = NoFact
  /\ \/ run'[r].candidates = run[r].candidates
     \/ run[r].candidates # <<>> /\ run'[r].candidates = Tail(run[r].candidates)

Searches(r) ==
  /\ run[r].pc = "find"
  /\ Decides(r) \/ Skips(r)
  /\ run'[r].new = NoFact /\ run'[r].todo = run[r].todo
  /\ run'[r].tx = run[r].tx /\ run'[r].open = run[r].open
  /\ OthersStay(r) /\ UNCHANGED <<database, timeouts, overlapped>>

Loses(r) ==
  /\ run[r].open /\ run[r].pc \in {"find", "write"}
  /\ run'[r].pc = run[r].pc /\ run'[r].todo = run[r].todo
  /\ run'[r].candidates = run[r].candidates /\ run'[r].statements = run[r].statements
  /\ run'[r].old = run[r].old /\ run'[r].new = run[r].new
  /\ ~ run'[r].open /\ run'[r].tx = NoWrites
  /\ OthersStay(r) /\ UNCHANGED <<database, overlapped>> /\ timeouts' = timeouts + 1

(* Assigning one run.                                                      *)
LEMMA Assigned ==
  ASSUME run \in [Runs -> RunRecord], NEW r \in Runs, NEW R \in RunRecord,
         run' = [run EXCEPT ![r] = R]
  PROVE  run' \in [Runs -> RunRecord] /\ run'[r] = R /\ OthersStay(r)
BY DEF OthersStay

(* BEGIN starts a run afresh, and notes the keys for which another         *)
(* transaction that is open has a candidate.                               *)
LEMMA BegunFacts ==
  ASSUME Typed, NEW r \in Runs, NEW S \in SUBSET Memories, S # {}, Begin(r, S),
         run[r].pc \in {"idle", "next"}
  PROVE  /\ run' \in [Runs -> RunRecord] /\ OthersStay(r) /\ Restarted(r)
         /\ overlapped' \in SUBSET Keys
<1>1. Min(S) \in Memories BY LeastExists, MemoriesAssumption
<1>2. Candidates[Min(S)] \in Seq(Candidate(Keys, Values)) BY <1>1, CandidatesAssumption
<1>3. /\ Begun(r, S) \in RunRecord
      /\ Begun(r, S).pc = "find" /\ Begun(r, S).todo = S /\ Begun(r, S).statements = <<>>
      /\ Begun(r, S).old = NoFact /\ Begun(r, S).new = NoFact
      /\ Begun(r, S).open = TRUE /\ Begun(r, S).tx = NoWrites
      /\ Begun(r, S).candidates = Candidates[Min(S)]
  BY <1>2, NoWritesFacts DEF Begun, IdleRun, RunRecord, Ids
<1>4. /\ run' = [run EXCEPT ![r] = Begun(r, S)]
      /\ overlapped' = overlapped
           \cup {k \in KeysOf(Min(S)) : \E q \in Open : k \in KeysIn(q)}
  BY DEF Begin, KeysIn
<1>5. run' \in [Runs -> RunRecord] /\ run'[r] = Begun(r, S) /\ OthersStay(r)
  BY <1>3, <1>4, Assigned DEF Typed
<1>6. ~ run[r].open BY RunParts DEF Shape
<1>7. Wanted(Candidates[Min(S)]) = KeysOf(Min(S)) BY DEF Wanted, KeysOf
<1>8. overlapped' \in SUBSET Keys
  <2>1. \A i \in DOMAIN Candidates[Min(S)] : Candidates[Min(S)][i] \in Candidate(Keys, Values)
    BY <1>2
  <2>2. \A c \in Candidate(Keys, Values) : c.key \in Keys BY DEF Candidate
  <2>3. KeysOf(Min(S)) \subseteq Keys BY <2>1, <2>2 DEF KeysOf
  <2>4. QED BY <1>4, <2>3 DEF Typed, DatabaseTyped
<1>9. \A q \in Open : KeysIn(q) \cap KeysOf(Min(S)) \subseteq overlapped' BY <1>4
<1>10. QED BY <1>3, <1>4, <1>5, <1>6, <1>7, <1>8, <1>9 DEF Restarted

(* A run that is over, or a sweep between two memories.                    *)
LEMMA StoppedFacts ==
  ASSUME Typed, NEW r \in Runs, NEW R, IsStopped(R), overlapped' = overlapped,
         run' = [run EXCEPT ![r] = R]
  PROVE  run' \in [Runs -> RunRecord] /\ OthersStay(r) /\ Restarted(r)
<1>1. R \in RunRecord BY DEF IsStopped
<1>2. run' \in [Runs -> RunRecord] /\ run'[r] = R /\ OthersStay(r)
  BY <1>1, Assigned DEF Typed
<1>3. QED BY <1>2 DEF IsStopped, Restarted

(* The end of a memory leaves the run without a transaction, whichever way *)
(* it ends.                                                                *)
LEMMA DoneFacts ==
  ASSUME Typed, NEW r \in Runs, overlapped' = overlapped,
         run' = [run EXCEPT ![r] = Done(r)] \/ run' = [run EXCEPT ![r] = IdleRun]
  PROVE  run' \in [Runs -> RunRecord] /\ OthersStay(r) /\ Restarted(r)
<1> DEFINE rest == run[r].todo \ {MemoryOf(r)}
<1>1. rest \in SUBSET Memories BY RunParts
<1>2. IsStopped(Done(r)) BY <1>1, StoppedRecords DEF Done
<1>3. QED BY <1>2, StoppedRecords, StoppedFacts

(* The memories a sweep lists are memories, and there is one if any is     *)
(* without evidence.                                                       *)
LEMMA BatchFacts ==
  ASSUME Unconsolidated # {}
  PROVE  Batch(Unconsolidated) \in SUBSET Memories /\ Batch(Unconsolidated) # {}
<1> DEFINE S == Unconsolidated
           m == Min(S)
<1>1. S \in SUBSET Nat /\ S \subseteq Memories
  BY MemoriesAssumption DEF Unconsolidated
<1>2. m \in S /\ \A n \in S : m =< n BY <1>1, LeastExists
<1> HIDE DEF S, m
<1>3. {n \in S : n < m} = {}
  <2>1. \A n \in S : n \in Int /\ m \in Int /\ m =< n BY <1>1, <1>2
  <2>2. QED BY <2>1
<1>4. Cardinality({n \in S : n < m}) < BatchSize
  BY <1>3, FS_EmptySet, BatchSizeAssumption
<1>5. m \in Batch(S) BY <1>2, <1>4 DEF Batch
<1>6. Batch(S) \subseteq S BY DEF Batch
<1>7. QED BY <1>1, <1>5, <1>6 DEF S

(* Jobs pushed back are jobs.                                              *)
LEMMA RetryTyped ==
  ASSUME Typed, NEW r \in Runs, Retry(r)
  PROVE  jobs' \in [Memories -> Nat]
<1>1. jobs \in [Memories -> Nat] BY DEF Typed, DatabaseTyped
<1>2. QED BY <1>1 DEF Retry

(* The search of reviseFact decides on a plan or skips the candidate.      *)
LEMMA ReviseFacts ==
  ASSUME Typed, NEW r \in Runs, ReviseFact(r)
  PROVE  run' \in [Runs -> RunRecord] /\ Searches(r)
<1> DEFINE R == run[r]
           c == Head(R.candidates)
           matches == ActiveMatches(r, c.key)
<1>1. /\ R \in RunRecord /\ R.candidates \in Seq(Candidate(Keys, Values))
      /\ R.pc = "find" /\ R.candidates # <<>>
      /\ R.statements = <<>> /\ R.old = NoFact /\ R.new = NoFact
      /\ UNCHANGED <<database, timeouts, overlapped>>
  BY RunParts DEF ReviseFact, Shape
<1>2. run \in [Runs -> RunRecord] BY DEF Typed
<1>3. CASE run' = [run EXCEPT ![r].candidates = Tail(@)]
  <2> DEFINE N == [R EXCEPT !.candidates = Tail(@)]
  <2>1. run' = [run EXCEPT ![r] = N] BY <1>3
  <2>2. Tail(R.candidates) \in Seq(Candidate(Keys, Values)) BY <1>1
  <2>3. /\ N \in RunRecord /\ N.pc = "find" /\ N.statements = <<>> /\ N.old = NoFact
        /\ N.new = NoFact /\ N.todo = R.todo /\ N.tx = R.tx /\ N.open = R.open
        /\ N.candidates = Tail(R.candidates)
    BY <1>1, <2>2 DEF RunRecord
  <2> HIDE DEF N
  <2>4. run' \in [Runs -> RunRecord] /\ run'[r] = N /\ OthersStay(r)
    BY <1>2, <2>1, <2>3, Assigned
  <2>5. QED BY <1>1, <2>3, <2>4 DEF Searches, Skips
<1>4. ASSUME NEW kind \in {"no_conflict", "reinforcement", "contradiction", "uncertainty"},
             NEW old \in Ids, Decide(r, kind, old),
             IF kind = "no_conflict" THEN old = NoFact /\ matches = {} ELSE old \in matches
      PROVE  run' \in [Runs -> RunRecord] /\ Searches(r)
  <2> DEFINE N == [R EXCEPT !.pc = "write", !.statements = Statements(kind), !.old = old]
  <2>1. run' = [run EXCEPT ![r] = N] BY <1>4 DEF Decide
  <2>2. Statements(kind) \in Rests BY Plans
  <2>3. /\ N \in RunRecord /\ N.pc = "write" /\ N.statements = Statements(kind)
        /\ N.old = old /\ N.new = NoFact /\ N.todo = R.todo /\ N.tx = R.tx
        /\ N.open = R.open /\ N.candidates = R.candidates
    BY <1>1, <2>2 DEF RunRecord
  <2> HIDE DEF N
  <2>4. run' \in [Runs -> RunRecord] /\ run'[r] = N /\ OthersStay(r)
    BY <1>2, <2>1, <2>3, Assigned
  <2>5. Decides(r)
    BY <1>1, <1>4, <2>3, <2>4 DEF Decides, Now
  <2>6. QED BY <1>1, <2>3, <2>4, <2>5 DEF Searches
<1>5. matches \subseteq Ids BY SeesFacts DEF ActiveMatches, Ids
<1>6. \A old \in matches : Kinds(c, Sees(r)[old], old \notin DOMAIN run[r].tx.rows)
                             \subseteq {"reinforcement", "contradiction", "uncertainty"}
  BY DEF Kinds, ByConfidence
<1>7. \/ run' = [run EXCEPT ![r].candidates = Tail(@)]
      \/ matches = {} /\ Decide(r, "no_conflict", NoFact)
      \/ \E old \in matches, kind \in {"reinforcement", "contradiction", "uncertainty"} :
           Decide(r, kind, old)
  BY <1>6 DEF ReviseFact
<1> HIDE DEF matches
<1>8. CASE matches = {} /\ Decide(r, "no_conflict", NoFact)
  BY <1>4, <1>8 DEF Ids
<1>9. CASE \E old \in matches, kind \in {"reinforcement", "contradiction", "uncertainty"} :
             Decide(r, kind, old)
  <2>1. PICK old \in matches, kind \in {"reinforcement", "contradiction", "uncertainty"} :
          Decide(r, kind, old)
    BY <1>9
  <2>2. QED BY <1>4, <1>5, <2>1
<1>10. QED BY <1>3, <1>7, <1>8, <1>9

(* After its last candidate a run goes to its commit, or stops when it has *)
(* timed out.                                                              *)
LEMMA FinishFacts ==
  ASSUME Typed, NEW r \in Runs, Finish(r)
  PROVE  run' \in [Runs -> RunRecord] /\ (Searches(r) \/ Rolls(r))
<1>1. /\ run[r] \in RunRecord /\ run[r].pc = "find" /\ run[r].open \in BOOLEAN
      /\ run[r].statements = <<>> /\ run[r].old = NoFact /\ run[r].new = NoFact
      /\ UNCHANGED <<database, timeouts, overlapped>>
  BY RunParts DEF Finish, Shape
<1>2. CASE run[r].open
  <2> DEFINE N == [run[r] EXCEPT !.pc = "commit"]
  <2>1. run' = [run EXCEPT ![r] = N] BY <1>2 DEF Finish
  <2>2. /\ N \in RunRecord /\ N.pc = "commit" /\ N.statements = <<>> /\ N.old = NoFact
        /\ N.new = NoFact /\ N.todo = run[r].todo /\ N.tx = run[r].tx /\ N.open = run[r].open
        /\ N.candidates = run[r].candidates
    BY <1>1 DEF RunRecord
  <2> HIDE DEF N
  <2>3. run' \in [Runs -> RunRecord] /\ run'[r] = N /\ OthersStay(r)
    BY <2>1, <2>2, Assigned DEF Typed
  <2>4. QED BY <1>1, <1>2, <2>2, <2>3 DEF Searches, Skips
<1>3. CASE ~ run[r].open
  <2>1. run' = [run EXCEPT ![r] = Done(r)] BY <1>3 DEF Finish
  <2>2. QED BY <1>1, <2>1, DoneFacts DEF Rolls
<1>4. QED BY <1>2, <1>3

(* A timeout takes the transaction from the run and leaves its plan.       *)
LEMMA TimesOutFacts ==
  ASSUME Typed, NEW r \in Runs, TimesOut(r)
  PROVE  run' \in [Runs -> RunRecord] /\ Loses(r)
<1> DEFINE N == [run[r] EXCEPT !.open = FALSE, !.tx = NoWrites]
<1>1. /\ run[r].open /\ run[r].pc \in {"find", "write"} /\ timeouts' = timeouts + 1
      /\ UNCHANGED <<database, overlapped>>
      /\ run' = [run EXCEPT ![r] = N]
  BY DEF TimesOut
<1>2. run[r] \in RunRecord BY RunParts
<1>3. /\ N \in RunRecord /\ N.pc = run[r].pc /\ N.todo = run[r].todo
      /\ N.candidates = run[r].candidates /\ N.statements = run[r].statements
      /\ N.old = run[r].old /\ N.new = run[r].new /\ ~ N.open /\ N.tx = NoWrites
  BY <1>2, NoWritesFacts DEF RunRecord
<1> HIDE DEF N
<1>4. run' \in [Runs -> RunRecord] /\ run'[r] = N /\ OthersStay(r)
  BY <1>1, <1>3, Assigned DEF Typed
<1>5. QED BY <1>1, <1>3, <1>4 DEF Loses

(* Every step of Next is of one of the kinds.                              *)
KindOf(r) ==
  \/ Rolls(r) \/ Publishes(r) \/ Searches(r) \/ Loses(r)
  \/ Execute(r) /\ UNCHANGED <<timeouts, overlapped>>

CountersTyped ==
  /\ jobs' \in [Memories -> Nat] /\ faults' \in Nat /\ timeouts' \in Nat
  /\ overlapped' \in SUBSET Keys /\ run' \in [Runs -> RunRecord]

(* A step that handler runs and sweeps have in common is of one of the     *)
(* kinds.                                                                  *)
LEMMA RunStepKind ==
  ASSUME Typed, NEW r \in Runs, RunStep(r)
  PROVE  CountersTyped /\ KindOf(r)
<1>0. /\ jobs \in [Memories -> Nat] /\ faults \in Nat /\ timeouts \in Nat
      /\ overlapped \in SUBSET Keys
  BY DEF Typed, DatabaseTyped
<1>1. CASE ReviseFact(r)
  <2>1. UNCHANGED <<jobs, faults, timeouts, overlapped>> BY <1>1 DEF ReviseFact
  <2>2. QED BY <1>0, <1>1, <2>1, ReviseFacts DEF CountersTyped, KindOf
<1>2. CASE Finish(r)
  <2>1. UNCHANGED <<jobs, faults, timeouts, overlapped>> BY <1>2 DEF Finish
  <2>2. QED BY <1>0, <1>2, <2>1, FinishFacts DEF CountersTyped, KindOf
<1>3. CASE Execute(r)
  <2>1. UNCHANGED <<jobs, faults, timeouts, overlapped>> BY <1>3 DEF Execute
  <2>2. QED BY <1>0, <1>3, <2>1, ExecuteFacts DEF CountersTyped, KindOf
<1>4. CASE ForeignKeyFails(r)
  <2>1. /\ UNCHANGED <<database, jobs, faults, timeouts, overlapped>>
        /\ run' = [run EXCEPT ![r] = IdleRun]
    BY <1>4 DEF ForeignKeyFails
  <2>2. QED BY <1>0, <2>1, DoneFacts DEF CountersTyped, KindOf, Rolls
<1>5. CASE Commit(r)
  <2>1. /\ UNCHANGED <<jobs, faults, timeouts, overlapped>>
        /\ run' = [run EXCEPT ![r] = Done(r)]
        /\ run[r].pc = "commit" /\ Publish(run[r].tx)
    BY <1>5 DEF Commit
  <2>2. QED BY <1>0, <2>1, DoneFacts DEF CountersTyped, KindOf, Publishes
<1>6. CASE DeadlockVictim(r)
  <2>1. /\ UNCHANGED <<database, timeouts, overlapped>>
        /\ run' = [run EXCEPT ![r] = Done(r)]
        /\ Retry(r) \/ UNCHANGED jobs
        /\ faults' = faults \/ faults' = faults + 1
    BY <1>6 DEF DeadlockVictim
  <2>2. run' \in [Runs -> RunRecord] /\ OthersStay(r) /\ Restarted(r) BY <2>1, DoneFacts
  <2>3. jobs' \in [Memories -> Nat] BY <1>0, <2>1, RetryTyped
  <2>4. faults' \in Nat /\ timeouts' \in Nat /\ overlapped' \in SUBSET Keys BY <1>0, <2>1
  <2>5. QED BY <2>1, <2>2, <2>3, <2>4 DEF CountersTyped, KindOf, Rolls
<1>7. QED BY <1>1, <1>2, <1>3, <1>4, <1>5, <1>6 DEF RunStep

(* Every step of Next stutters or is a step of one run, of one of the      *)
(* kinds.                                                                  *)
LEMMA StepKind ==
  ASSUME Typed, Next
  PROVE  CountersTyped /\ (UNCHANGED vars \/ \E r \in Runs : KindOf(r))
<1>0. /\ jobs \in [Memories -> Nat] /\ faults \in Nat /\ timeouts \in Nat
      /\ overlapped \in SUBSET Keys /\ run \in [Runs -> RunRecord]
  BY DEF Typed, DatabaseTyped
<1>1. ASSUME NEW s \in Sweeps, StartSweep(s)
      PROVE  CountersTyped /\ KindOf(s)
  <2> DEFINE B == Batch(Unconsolidated)
  <2>1. /\ run' = [run EXCEPT ![s] = [IdleRun EXCEPT !.pc = "next", !.todo = B]]
        /\ UNCHANGED <<database, jobs, faults, timeouts, overlapped>>
        /\ Unconsolidated # {}
    BY <1>1 DEF StartSweep
  <2>2. B \in SUBSET Memories /\ B # {} BY <2>1, BatchFacts
  <2>3. s \in Runs BY DEF Runs
  <2> HIDE DEF B
  <2>4. IsStopped([IdleRun EXCEPT !.pc = "next", !.todo = B]) BY <2>2, StoppedRecords
  <2>5. run' \in [Runs -> RunRecord] /\ OthersStay(s) /\ Restarted(s)
    BY <2>1, <2>3, <2>4, StoppedFacts
  <2>6. QED BY <1>0, <2>1, <2>5 DEF CountersTyped, KindOf, Rolls
<1>2. ASSUME NEW r \in Runs, NEW S \in SUBSET Memories, S # {}, Begin(r, S),
             run[r].pc \in {"idle", "next"}, jobs' \in [Memories -> Nat], UNCHANGED <<database, faults, timeouts>>
      PROVE  CountersTyped /\ KindOf(r)
  <2>1. /\ run' \in [Runs -> RunRecord] /\ OthersStay(r) /\ Restarted(r)
        /\ overlapped' \in SUBSET Keys
    BY <1>2, BegunFacts
  <2>2. QED BY <1>0, <1>2, <2>1 DEF CountersTyped, KindOf, Rolls
<1>3. ASSUME NEW s \in Sweeps, SweepNext(s)
      PROVE  CountersTyped /\ KindOf(s)
  <2>1. /\ run[s].pc = "next" /\ Begin(s, run[s].todo)
        /\ UNCHANGED <<database, jobs, faults, timeouts>>
    BY <1>3 DEF SweepNext
  <2>2. s \in Runs BY DEF Runs
  <2>3. run[s].todo \in SUBSET Memories /\ run[s].todo # {}
    BY <2>1, <2>2, RunParts DEF Shape
  <2>4. QED BY <1>0, <1>2, <2>1, <2>2, <2>3
<1>4. ASSUME NEW h \in Handlers, NEW m \in Memories, TakeJob(h, m)
      PROVE  CountersTyped /\ KindOf(h)
  <2>1. /\ run[h].pc = "idle" /\ jobs[m] > 0 /\ jobs' = [jobs EXCEPT ![m] = @ - 1]
        /\ Begin(h, {m}) /\ UNCHANGED <<database, faults, timeouts>>
    BY <1>4 DEF TakeJob
  <2>2. jobs' \in [Memories -> Nat] BY <1>0, <2>1
  <2>3. {m} \in SUBSET Memories /\ {m} # {} /\ h \in Runs BY DEF Runs
  <2>4. QED BY <1>2, <2>1, <2>2, <2>3
<1>5. ASSUME NEW h \in Handlers, TimesOut(h)
      PROVE  CountersTyped /\ KindOf(h)
  <2>1. h \in Runs BY DEF Runs
  <2>2. run' \in [Runs -> RunRecord] /\ Loses(h) BY <1>5, <2>1, TimesOutFacts
  <2>3. faults' = faults + 1 /\ timeouts' = timeouts + 1 /\ Retry(h) /\ overlapped' = overlapped
    BY <1>5 DEF TimesOut
  <2>4. QED BY <1>0, <2>1, <2>2, <2>3, RetryTyped DEF CountersTyped, KindOf
<1>6. ASSUME NEW r \in Runs, Failure(r)
      PROVE  CountersTyped /\ KindOf(r)
  <2>1. /\ faults' = faults + 1 /\ Retry(r) /\ UNCHANGED <<timeouts, overlapped>>
        /\ run' = [run EXCEPT ![r] = Done(r)]
        /\ UNCHANGED database \/ (run[r].pc = "commit" /\ Publish(run[r].tx))
    BY <1>6 DEF Failure, CommitReplyLost, StatementFails
  <2>2. run' \in [Runs -> RunRecord] /\ OthersStay(r) /\ Restarted(r) BY <2>1, DoneFacts
  <2>3. jobs' \in [Memories -> Nat] BY <2>1, RetryTyped
  <2>4. faults' \in Nat /\ timeouts' \in Nat /\ overlapped' \in SUBSET Keys BY <1>0, <2>1
  <2>5. QED BY <2>1, <2>2, <2>3, <2>4 DEF CountersTyped, KindOf, Rolls, Publishes
<1>7. Handlers \subseteq Runs /\ Sweeps \subseteq Runs BY DEF Runs
<1>8. CASE \E s \in Sweeps : SweepStep(s)
  BY <1>1, <1>3, <1>7, <1>8, RunStepKind DEF SweepStep
<1>9. CASE \E h \in Handlers : HandlerStep(h) \/ TimesOut(h)
  BY <1>4, <1>5, <1>7, <1>9, RunStepKind DEF HandlerStep
<1>10. CASE \E r \in Runs : Failure(r)
  BY <1>6, <1>10
<1>11. CASE Rest
  BY <1>0, <1>11 DEF Rest, vars, CountersTyped
<1>12. QED BY <1>8, <1>9, <1>10, <1>11 DEF Next

-----------------------------------------------------------------------------
(* The rows a run sees after a step.                                       *)
LEMMA SeesNext ==
  ASSUME NEW q \in Runs
  PROVE  /\ DOMAIN Sees(q)' = DOMAIN run'[q].tx.rows \cup DOMAIN facts'
         /\ \A f \in DOMAIN run'[q].tx.rows : Sees(q)'[f] = run'[q].tx.rows[f]
         /\ \A f \in (DOMAIN facts') \ (DOMAIN run'[q].tx.rows) : Sees(q)'[f] = facts'[f]
BY OverFacts DEF Sees

(* The writes after a statement are about rows that are there.             *)
LEMMA AfterFacts ==
  ASSUME Typed, NEW r \in Runs, MayExecute(r)
  PROVE  /\ After(r) \in Writes
         /\ DOMAIN run[r].tx.rows \subseteq DOMAIN After(r).rows
         /\ After(r).links \subseteq (DOMAIN After(r).rows \cup DOMAIN facts) \X Memories
         /\ After(r).pairs \subseteq (DOMAIN After(r).rows \cup DOMAIN facts)
                                       \X (DOMAIN After(r).rows \cup DOMAIN facts)
<1> DEFINE W == run[r].tx
           old == run[r].old
           new == NewId(r)
<1>1. /\ Statement(r) \in StatementNames /\ Now(r) \in Candidate(Keys, Values)
      /\ NewId(r) \in Ids /\ (Statement(r) \in Inserts => NewId(r) \in FactIds)
      /\ run[r].todo # {} /\ Refers(r) \subseteq DOMAIN Sees(r)
  BY RunParts DEF MayExecute, Shape
<1>2. /\ After(r) \in Writes /\ MemoryOf(r) \in Memories
      /\ Statement(r) \in WritesRow => After(r).rows = Over(NewRows(r), W.rows)
      /\ Statement(r) \notin WritesRow => After(r).rows = W.rows
      /\ Statement(r) = "linkNew" =>
           After(r).links = W.links \cup {<<new, MemoryOf(r)>>} /\ new \in DOMAIN Sees(r)
      /\ Statement(r) = "linkOld" =>
           After(r).links = W.links \cup {<<old, MemoryOf(r)>>} /\ old \in DOMAIN Sees(r)
      /\ Statement(r) \notin {"linkNew", "linkOld"} => After(r).links = W.links
      /\ Statement(r) = "conflict" =>
           /\ After(r).pairs = W.pairs \cup {<<old, new>>}
           /\ new \in DOMAIN Sees(r) /\ old \in DOMAIN Sees(r)
      /\ Statement(r) # "conflict" => After(r).pairs = W.pairs
  BY <1>1, WrittenFacts
<1>3. /\ DOMAIN Sees(r) = DOMAIN W.rows \cup DOMAIN facts
      /\ W.links \subseteq (DOMAIN Sees(r)) \X Memories
      /\ W.pairs \subseteq (DOMAIN Sees(r)) \X (DOMAIN Sees(r))
  BY SeesFacts, RunParts DEF Shape
<1>4. DOMAIN W.rows \subseteq DOMAIN After(r).rows
  <2>1. DOMAIN Over(NewRows(r), W.rows) = DOMAIN NewRows(r) \cup DOMAIN W.rows
    BY DEF Over
  <2>2. QED BY <1>2, <2>1
<1>5. DOMAIN Sees(r) \subseteq DOMAIN After(r).rows \cup DOMAIN facts
  BY <1>3, <1>4
<1>6. After(r).links \subseteq (DOMAIN Sees(r)) \X Memories BY <1>2, <1>3
<1>7. After(r).pairs \subseteq (DOMAIN Sees(r)) \X (DOMAIN Sees(r)) BY <1>2, <1>3
<1>8. QED BY <1>2, <1>4, <1>5, <1>6, <1>7

(* A commit keeps the tables well formed.                                  *)
LEMMA PublishFacts ==
  ASSUME Typed, NEW W \in Writes, Publish(W),
         W.links \subseteq (DOMAIN W.rows \cup DOMAIN facts) \X Memories,
         W.pairs \subseteq (DOMAIN W.rows \cup DOMAIN facts)
                             \X (DOMAIN W.rows \cup DOMAIN facts)
  PROVE  /\ facts' \in Tables
         /\ DOMAIN facts' = DOMAIN W.rows \cup DOMAIN facts
         /\ \A f \in DOMAIN W.rows : facts'[f] = W.rows[f]
         /\ \A f \in (DOMAIN facts) \ (DOMAIN W.rows) : facts'[f] = facts[f]
         /\ evidence' \subseteq (DOMAIN facts') \X Memories
         /\ conflicts' \subseteq (DOMAIN facts') \X (DOMAIN facts')
         /\ audit' \in Trails
         /\ \A f \in FactIds, e \in Entries : audit'[f][e] = audit[f][e] + W.events[f][e]
<1>1. facts \in Tables /\ audit \in Trails BY DEF Typed, DatabaseTyped
<1>2. W.rows \in Tables /\ W.events \in Trails BY DEF Writes
<1>3. facts' = Over(W.rows, facts) BY DEF Publish
<1>4. facts' \in Tables BY <1>1, <1>2, <1>3, OverTables
<1>5. /\ DOMAIN facts' = DOMAIN W.rows \cup DOMAIN facts
      /\ \A f \in DOMAIN W.rows : facts'[f] = W.rows[f]
      /\ \A f \in (DOMAIN facts) \ (DOMAIN W.rows) : facts'[f] = facts[f]
  <2> DEFINE F == Over(W.rows, facts)
  <2>1. /\ DOMAIN F = DOMAIN W.rows \cup DOMAIN facts
        /\ \A f \in DOMAIN W.rows : F[f] = W.rows[f]
        /\ \A f \in (DOMAIN facts) \ (DOMAIN W.rows) : F[f] = facts[f]
    BY OverFacts
  <2>2. QED BY <1>3, <2>1
<1>6. evidence' \subseteq (DOMAIN facts') \X Memories
  BY <1>5 DEF Publish, Typed, DatabaseTyped
<1>7. conflicts' \subseteq (DOMAIN facts') \X (DOMAIN facts')
  BY <1>5 DEF Publish, Typed, DatabaseTyped
<1>8. audit' = [f \in FactIds |-> [e \in Entries |-> audit[f][e] + W.events[f][e]]]
  BY DEF Publish
<1>9. \A f \in FactIds, e \in Entries : audit[f][e] + W.events[f][e] \in Nat
  BY <1>1, <1>2 DEF Trails
<1>10. audit' \in Trails BY <1>8, <1>9 DEF Trails
<1>11. \A f \in FactIds, e \in Entries : audit'[f][e] = audit[f][e] + W.events[f][e]
  BY <1>8
<1>12. QED BY <1>4, <1>5, <1>6, <1>7, <1>10, <1>11

(* The links and conflicts a transaction has written are about rows that   *)
(* it sees.                                                                *)
LEMMA CommitFacts ==
  ASSUME Typed, NEW r \in Runs
  PROVE  /\ run[r].tx \in Writes
         /\ run[r].tx.links \subseteq (DOMAIN run[r].tx.rows \cup DOMAIN facts) \X Memories
         /\ run[r].tx.pairs \subseteq (DOMAIN run[r].tx.rows \cup DOMAIN facts)
                                        \X (DOMAIN run[r].tx.rows \cup DOMAIN facts)
BY RunParts, SeesFacts DEF Shape

(* The tables after a step, whose rows only grow.                          *)
LEMMA DatabaseStep ==
  ASSUME Typed, NEW r \in Runs, KindOf(r)
  PROVE  /\ facts' \in Tables /\ audit' \in Trails
         /\ evidence' \subseteq (DOMAIN facts') \X Memories
         /\ conflicts' \subseteq (DOMAIN facts') \X (DOMAIN facts')
         /\ DOMAIN facts \subseteq DOMAIN facts'
<1>1. CASE UNCHANGED database
  BY <1>1 DEF Typed, DatabaseTyped, database
<1>2. CASE Publishes(r)
  <2>1. Publish(run[r].tx) BY <1>2 DEF Publishes
  <2>2. QED BY <2>1, CommitFacts, PublishFacts
<1>3. CASE Execute(r)
  <2>1. MayExecute(r) /\ Carried(r) BY <1>3, ExecuteFacts
  <2>2. UNCHANGED database \/ Publish(After(r)) BY <2>1, RunParts DEF Carried
  <2>3. CASE Publish(After(r)) BY <2>1, <2>3, AfterFacts, PublishFacts
  <2>4. QED BY <1>1, <2>2, <2>3
<1>4. QED BY <1>1, <1>2, <1>3 DEF KindOf, Rolls, Searches, Loses

(* Each point of a run keeps what goes with it, whichever run takes the    *)
(* step.                                                                   *)
LEMMA ShapeStep ==
  ASSUME Typed, NEW r \in Runs, KindOf(r), CountersTyped, NEW q \in Runs
  PROVE  Shape(q)'
<1>0. /\ DOMAIN facts \subseteq DOMAIN facts' /\ timeouts \in Nat
      /\ DOMAIN Sees(q)' = DOMAIN run'[q].tx.rows \cup DOMAIN facts'
      /\ DOMAIN Sees(q) = DOMAIN run[q].tx.rows \cup DOMAIN facts
      /\ Shape(q)
  BY DatabaseStep, SeesNext, SeesFacts, RunParts DEF Typed, DatabaseTyped
<1>1. timeouts' = timeouts \/ timeouts' # 0
  BY <1>0 DEF KindOf, Rolls, Publishes, Searches, Loses
<1>2. CASE q # r
  <2>1. run'[q] = run[q]
    BY <1>2, ExecuteFacts DEF KindOf, Rolls, Publishes, Searches, Loses, OthersStay
  <2>2. QED BY <1>0, <1>1, <2>1 DEF Shape
<1>3. CASE q = r /\ (Rolls(r) \/ Publishes(r))
  <2>1. Restarted(r) BY <1>3 DEF Rolls, Publishes
  <2>2. QED BY <1>0, <1>3, <2>1, NoWritesFacts DEF Restarted, Shape
<1>4. CASE q = r /\ Searches(r)
  <2>1. /\ run[r].pc = "find" /\ run'[r].tx = run[r].tx /\ run'[r].open = run[r].open
        /\ run'[r].todo = run[r].todo /\ run'[r].new = NoFact /\ UNCHANGED timeouts
    BY <1>4 DEF Searches
  <2>2. CASE Skips(r) BY <1>0, <1>4, <2>1, <2>2 DEF Skips, Shape
  <2>3. CASE Decides(r)
    <3>1. /\ run[r].candidates # <<>> /\ run'[r].candidates = run[r].candidates
          /\ run'[r].pc = "write" /\ run'[r].statements \in Rests
      BY <2>3, Plans DEF Decides
    <3>2. QED BY <1>0, <1>4, <2>1, <3>1 DEF Shape
  <2>4. QED BY <1>4, <2>2, <2>3 DEF Searches
<1>5. CASE q = r /\ Loses(r)
  BY <1>0, <1>5, NoWritesFacts DEF Loses, Shape
<1>6. CASE q = r /\ Execute(r) /\ UNCHANGED timeouts
  <2>1. MayExecute(r) /\ Carried(r) BY <1>6, ExecuteFacts
  <2>2. /\ run'[r].pc = "find" => /\ run'[r].statements = <<>> /\ run'[r].old = NoFact
                                  /\ run'[r].new = NoFact
        /\ run'[r].pc = "write" => /\ run'[r].statements \in Rests
                                   /\ run'[r].candidates = run[r].candidates
        /\ run'[r].pc \in {"find", "write"} /\ run'[r].todo = run[r].todo
        /\ run'[r].open = run[r].open
    BY <2>1 DEF Carried
  <2>3. /\ run[r].pc = "write" /\ run[r].candidates # <<>> /\ run[r].todo # {}
    BY <1>0, <1>6, <2>1 DEF MayExecute, Shape
  <2>4. CASE run[r].open
    <3>1. run'[r].tx = After(r) /\ facts' = facts BY <2>1, <2>4 DEF Carried, database
    <3>2. /\ run'[r].tx.links \subseteq (DOMAIN Sees(r)') \X Memories
          /\ run'[r].tx.pairs \subseteq (DOMAIN Sees(r)') \X (DOMAIN Sees(r)')
      BY <1>0, <1>6, <2>1, <3>1, AfterFacts
    <3>3. QED BY <1>0, <1>6, <2>2, <2>3, <2>4, <3>2 DEF Shape
  <2>5. CASE ~ run[r].open
    <3>1. run'[r].tx = NoWrites BY <2>1, <2>5 DEF Carried
    <3>2. QED BY <1>0, <1>6, <2>2, <2>3, <2>5, <3>1, NoWritesFacts DEF Shape
  <2>6. QED BY <2>4, <2>5
<1>7. QED BY <1>2, <1>3, <1>4, <1>5, <1>6 DEF KindOf

(* No step breaks the types.                                               *)
LEMMA NextTyped == Typed /\ [Next]_vars => Typed'
<1> SUFFICES ASSUME Typed, [Next]_vars PROVE Typed'
  OBVIOUS
<1>1. CASE UNCHANGED vars
  BY <1>1 DEF vars, Typed, DatabaseTyped, Shape, Sees
<1>2. CASE Next /\ ~ UNCHANGED vars
  <2>1. CountersTyped BY <1>2, StepKind
  <2>2. PICK r \in Runs : KindOf(r) BY <1>2, StepKind
  <2>3. \A q \in Runs : Shape(q)' BY <2>1, <2>2, ShapeStep
  <2>4. DatabaseTyped' BY <2>1, <2>2, DatabaseStep DEF CountersTyped, DatabaseTyped
  <2>5. QED BY <2>1, <2>3, <2>4 DEF Typed, CountersTyped
<1>3. QED BY <1>1, <1>2

(* The empty tables and the idle runs have their types.                    *)
LEMMA InitTyped == Init => Typed
<1> SUFFICES ASSUME Init PROVE Typed
  OBVIOUS
<1>1. <<>> \in [{} -> Row] /\ DOMAIN <<>> = {} OBVIOUS
<1>2. facts \in Tables /\ DOMAIN facts = {} BY <1>1 DEF Init, Tables
<1>3. audit \in Trails BY DEF Init, Trails, NoEvents
<1>4. jobs \in [Memories -> Nat] BY DEF Init
<1>5. DatabaseTyped BY <1>2, <1>3, <1>4 DEF Init, DatabaseTyped
<1>6. run = [r \in Runs |-> IdleRun] /\ IsStopped(IdleRun) BY StoppedRecords DEF Init
<1>7. run \in [Runs -> RunRecord] BY <1>6 DEF IsStopped
<1>8. ASSUME NEW r \in Runs PROVE Shape(r)
  <2>1. run[r] = IdleRun /\ IdleRun.pc = "idle" BY <1>6 DEF IdleRun
  <2>2. QED BY <1>6, <2>1, NoWritesFacts DEF IsStopped, Shape
<1>9. QED BY <1>5, <1>7, <1>8 DEF Typed

(* The typed tables and runs satisfy the type invariant of the model.      *)
LEMMA TypedTypes == Typed => TypeOK
<1> SUFFICES ASSUME Typed PROVE TypeOK
  OBVIOUS
<1>1. AreRows(facts) BY TableFacts DEF Typed, DatabaseTyped, AreRows
<1>2. ASSUME NEW r \in Runs
      PROVE  /\ run[r].pc \in {"idle", "next", "find", "write", "commit"}
             /\ run[r].todo \subseteq Memories
             /\ run[r].candidates \in Seq(Candidate(Keys, Values))
             /\ run[r].statements \in Seq(StatementNames)
             /\ {run[r].old, run[r].new} \subseteq FactIds \cup {NoFact}
             /\ run[r].open \in BOOLEAN
             /\ AreRows(run[r].tx.rows)
             /\ run[r].tx.links \subseteq FactIds \X Memories
             /\ run[r].tx.events \in [FactIds -> [Entries -> Nat]]
             /\ run[r].tx.pairs \subseteq FactIds \X FactIds
  <2>1. run[r].statements \in Seq(StatementNames)
    <3>1. <<>> \in Seq(StatementNames) OBVIOUS
    <3>2. QED BY <3>1, RunParts, RestParts
  <2>2. AreRows(run[r].tx.rows) BY RunParts, TableFacts DEF AreRows
  <2>3. QED BY <2>1, <2>2, RunParts DEF Ids, Trails
<1>3. QED BY <1>1, <1>2 DEF TypeOK, Typed, DatabaseTyped, Trails

-----------------------------------------------------------------------------
(* The rows of a transaction after a statement: the new one, the updated   *)
(* one, and those it had.                                                  *)
LEMMA AfterRows ==
  ASSUME Typed, NEW r \in Runs, MayExecute(r)
  PROVE  LET W == run[r].tx
             rows == After(r).rows
         IN  /\ Statement(r) \notin WritesRow => rows = W.rows
             /\ Statement(r) \in Inserts =>
                  /\ DOMAIN rows = DOMAIN W.rows \cup {FreshId}
                  /\ \/ Statement(r) = "insertFirst"
                          /\ rows[FreshId] = NewRow(Now(r), StartingConfidence(Now(r)))
                     \/ Statement(r) = "insert" /\ rows[FreshId] = NewRow(Now(r), Now(r).confidence)
                  /\ \A f \in DOMAIN W.rows : rows[f] = W.rows[f]
             /\ Statement(r) \in UpdatesOld =>
                  /\ DOMAIN rows = DOMAIN W.rows \cup ({run[r].old} \cap DOMAIN Sees(r))
                  /\ \A f \in DOMAIN rows :
                       rows[f] = IF f = run[r].old
                                 THEN UpdatedOld(Statement(r), Sees(r)[f], Now(r), run[r].new)
                                 ELSE W.rows[f]
             /\ Statement(r) = "contestNew" =>
                  /\ DOMAIN rows = DOMAIN W.rows \cup ({run[r].new} \cap DOMAIN Sees(r))
                  /\ \A f \in DOMAIN rows :
                       rows[f] = IF f = run[r].new
                                 THEN [Sees(r)[f] EXCEPT !.status = "contested"]
                                 ELSE W.rows[f]
<1> DEFINE W == run[r].tx
           N == NewRows(r)
           F == Over(N, W.rows)
<1>1. /\ Statement(r) \in StatementNames /\ Now(r) \in Candidate(Keys, Values)
      /\ NewId(r) \in Ids /\ (Statement(r) \in Inserts => NewId(r) \in FactIds)
      /\ run[r].todo # {} /\ Refers(r) \subseteq DOMAIN Sees(r)
      /\ (Statement(r) \in Inserts => NewId(r) = FreshId)
      /\ (Statement(r) \notin Inserts => NewId(r) = run[r].new)
  BY RunParts DEF MayExecute, Shape
<1>2. /\ Statement(r) \in WritesRow => After(r).rows = F
      /\ Statement(r) \notin WritesRow => After(r).rows = W.rows
  BY <1>1, WrittenFacts
<1>3. /\ DOMAIN F = DOMAIN N \cup DOMAIN W.rows
      /\ \A f \in DOMAIN N : F[f] = N[f]
      /\ \A f \in (DOMAIN W.rows) \ (DOMAIN N) : F[f] = W.rows[f]
  BY OverFacts
<1>4. DOMAIN W.rows \subseteq DOMAIN Sees(r) /\ FreshId \notin DOMAIN W.rows
  BY SeesFacts, FreshFacts
<1> HIDE DEF F, N, W
<1>5. CASE Statement(r) \in Inserts
  <2>1. /\ DOMAIN N = {FreshId}
        /\ \/ Statement(r) = "insertFirst"
                /\ N[FreshId] = NewRow(Now(r), StartingConfidence(Now(r)))
           \/ Statement(r) = "insert" /\ N[FreshId] = NewRow(Now(r), Now(r).confidence)
    BY <1>1, <1>5, RowsFacts DEF Inserts, WritesRow, N
  <2>2. After(r).rows = F BY <1>2, <1>5 DEF WritesRow
  <2>3. QED BY <1>3, <1>4, <1>5, <2>1, <2>2 DEF Inserts, UpdatesOld, WritesRow, W
<1>6. CASE Statement(r) \in UpdatesOld
  <2>1. /\ DOMAIN N = {run[r].old} \cap DOMAIN Sees(r)
        /\ \A f \in DOMAIN N : N[f] = UpdatedOld(Statement(r), Sees(r)[f], Now(r), run[r].new)
    BY <1>1, <1>6, RowsFacts DEF Inserts, WritesRow, UpdatesOld, N
  <2>2. After(r).rows = F BY <1>2, <1>6 DEF WritesRow
  <2>3. QED BY <1>3, <1>4, <1>6, <2>1, <2>2 DEF Inserts, UpdatesOld, WritesRow, W
<1>7. CASE Statement(r) = "contestNew"
  <2>1. /\ DOMAIN N = {run[r].new} \cap DOMAIN Sees(r)
        /\ \A f \in DOMAIN N : N[f] = [Sees(r)[f] EXCEPT !.status = "contested"]
    BY <1>1, <1>7, RowsFacts DEF Inserts, WritesRow, UpdatesOld, N
  <2>2. After(r).rows = F BY <1>2, <1>7 DEF WritesRow
  <2>3. QED BY <1>3, <1>4, <1>7, <2>1, <2>2 DEF Inserts, UpdatesOld, WritesRow, W
<1>8. CASE Statement(r) \notin WritesRow
  BY <1>2, <1>8 DEF WritesRow, W
<1>9. QED BY <1>5, <1>6, <1>7, <1>8 DEF WritesRow

(* The rows a run sees point to later ones that it sees.                   *)
LEMMA SeenPointOn ==
  ASSUME Typed, AllPointOn, NEW r \in Runs
  PROVE  PointsOn(Sees(r), DOMAIN Sees(r))
<1>1. PointsOn(facts, DOMAIN facts) /\ PointsOn(run[r].tx.rows, DOMAIN Sees(r))
  BY DEF AllPointOn
<1>2. ASSUME NEW f \in DOMAIN Sees(r), Sees(r)[f].status = "superseded"
      PROVE  Sees(r)[f].supersededBy \in DOMAIN Sees(r) /\ Sees(r)[f].supersededBy > f
  <2>1. CASE f \in DOMAIN run[r].tx.rows BY <1>1, <1>2, <2>1, SeesFacts DEF PointsOn
  <2>2. CASE f \notin DOMAIN run[r].tx.rows
    <3>1. f \in DOMAIN facts /\ Sees(r)[f] = facts[f] BY <2>2, SeesFacts
    <3>2. facts[f].supersededBy \in DOMAIN facts /\ facts[f].supersededBy > f
      BY <1>1, <1>2, <3>1 DEF PointsOn
    <3>3. QED BY <3>1, <3>2, SeesFacts
  <2>3. QED BY <2>1, <2>2
<1>3. QED BY <1>2 DEF PointsOn

(* After a statement, the superseded rows of its transaction point to      *)
(* later ones.                                                             *)
LEMMA AfterPointsOn ==
  ASSUME Typed, AllPointOn, NEW r \in Runs, MayExecute(r)
  PROVE  PointsOn(After(r).rows, DOMAIN After(r).rows \cup DOMAIN facts)
<1> DEFINE W == run[r].tx
           there == DOMAIN After(r).rows \cup DOMAIN facts
           L == Left(run[r].statements)
<1>1. DOMAIN Sees(r) \subseteq there BY SeesFacts, AfterFacts
<1>2. PointsOn(Sees(r), there) BY <1>1, SeenPointOn DEF PointsOn
<1>3. PointsOn(W.rows, there) BY <1>2, SeesFacts DEF PointsOn
<1>4. CASE Statement(r) \notin WritesRow
  BY <1>3, <1>4, AfterRows
<1>5. CASE Statement(r) \in Inserts
  <2>1. /\ DOMAIN After(r).rows = DOMAIN W.rows \cup {FreshId}
        /\ After(r).rows[FreshId].status = "active"
        /\ \A f \in DOMAIN W.rows : After(r).rows[f] = W.rows[f]
    <3>1. \A n : NewRow(Now(r), n).status = "active" BY DEF NewRow
    <3>2. QED BY <1>5, <3>1, AfterRows
  <2>2. QED BY <1>3, <2>1 DEF PointsOn
<1>6. ASSUME NEW f, f \in DOMAIN Sees(r), NEW row, row.status \in {"active", "contested"}
                \/ (row.status = Sees(r)[f].status
                      /\ row.supersededBy = Sees(r)[f].supersededBy)
                \/ (row.supersededBy \in there /\ row.supersededBy > f)
      PROVE  row.status = "superseded" => row.supersededBy \in there /\ row.supersededBy > f
  BY <1>2, <1>6 DEF PointsOn
<1>7. CASE Statement(r) \in UpdatesOld
  <2> DEFINE old == run[r].old
             row == UpdatedOld(Statement(r), Sees(r)[old], Now(r), run[r].new)
  <2>1. /\ DOMAIN After(r).rows = DOMAIN W.rows \cup ({old} \cap DOMAIN Sees(r))
        /\ \A f \in DOMAIN After(r).rows :
             After(r).rows[f] = IF f = old
                                THEN UpdatedOld(Statement(r), Sees(r)[f], Now(r), run[r].new)
                                ELSE W.rows[f]
    BY <1>7, AfterRows
  <2>2. ASSUME old \in DOMAIN Sees(r)
        PROVE  row.status = "superseded" => row.supersededBy \in there /\ row.supersededBy > old
    <3>1. Sees(r)[old] \in Row BY <2>2, SeesFacts
    <3>2. CASE Statement(r) = "supersede"
      <4>1. SupersedesNext(r)
        BY <3>2 DEF SupersedesNext, MayExecute, Order
      <4>2. run[r].new > old BY <4>1 DEF AllPointOn
      <4>3. run[r].new \in DOMAIN Sees(r)
        BY <2>2, <3>2 DEF MayExecute, Refers, Statement
      <4>4. row.supersededBy = run[r].new BY <3>1, <3>2 DEF UpdatedOld, Row
      <4> HIDE DEF row
      <4>5. QED BY <1>1, <4>2, <4>3, <4>4
    <3>3. CASE Statement(r) = "contestOld"
      <4>1. row.status = "contested" BY <3>1, <3>3 DEF UpdatedOld, Row
      <4> HIDE DEF row
      <4>2. QED BY <4>1
    <3>4. CASE Statement(r) \in {"reinforce", "penalise"}
      <4>1. row.status = Sees(r)[old].status /\ row.supersededBy = Sees(r)[old].supersededBy
        BY <3>1, <3>4 DEF UpdatedOld, Row
      <4> HIDE DEF row
      <4>2. QED BY <2>2, <1>6, <4>1
    <3>5. QED BY <1>7, <3>2, <3>3, <3>4 DEF UpdatesOld
  <2>3. DOMAIN W.rows \subseteq DOMAIN Sees(r) BY SeesFacts
  <2>4. \A f \in DOMAIN After(r).rows :
          IF f = old THEN After(r).rows[f] = row /\ old \in DOMAIN Sees(r)
          ELSE After(r).rows[f] = W.rows[f] /\ f \in DOMAIN W.rows
    BY <2>1, <2>3
  <2> HIDE DEF row
  <2>5. QED BY <1>3, <2>2, <2>4 DEF PointsOn
<1>8. CASE Statement(r) = "contestNew"
  <2> DEFINE new == run[r].new
  <2>1. /\ DOMAIN After(r).rows = DOMAIN W.rows \cup ({new} \cap DOMAIN Sees(r))
        /\ \A f \in DOMAIN After(r).rows :
             After(r).rows[f] = IF f = new
                                THEN [Sees(r)[f] EXCEPT !.status = "contested"]
                                ELSE W.rows[f]
    BY <1>8, AfterRows
  <2>2. \A f \in DOMAIN Sees(r) : [Sees(r)[f] EXCEPT !.status = "contested"].status = "contested"
    BY SeesFacts DEF Row
  <2>3. DOMAIN W.rows \subseteq DOMAIN Sees(r) BY SeesFacts
  <2>4. \A f \in DOMAIN After(r).rows :
          \/ After(r).rows[f].status = "contested"
          \/ After(r).rows[f] = W.rows[f] /\ f \in DOMAIN W.rows
    BY <2>1, <2>2, <2>3
  <2>5. QED BY <1>3, <2>4 DEF PointsOn
<1>9. QED BY <1>4, <1>5, <1>7, <1>8 DEF WritesRow

(* An empty plan has no statement left.                                    *)
LEMMA NothingLeft == Left(<<>>) = {}
BY DEF Left

(* More rows that are there leave a superseded row where it points.        *)
LEMMA PointsOnMore ==
  ASSUME NEW F, NEW S, NEW T, PointsOn(F, S), S \subseteq T
  PROVE  PointsOn(F, T)
BY DEF PointsOn

(* A step of a run, of whatever kind, leaves the other runs as they are.   *)
LEMMA KindOthers ==
  ASSUME Typed, NEW r \in Runs, KindOf(r)
  PROVE  OthersStay(r)
BY ExecuteFacts DEF KindOf, Rolls, Publishes, Searches, Loses

(* What every step keeps: committed rows point on, those that are written  *)
(* do, and a plan that will supersede has a new id above the old one.      *)
LEMMA FactsPointOn ==
  ASSUME Typed, AllPointOn, NEW r \in Runs, KindOf(r)
  PROVE  PointsOn(facts', DOMAIN facts')
<1>1. CASE UNCHANGED database BY <1>1 DEF database, AllPointOn
<1>2. ASSUME NEW W \in Writes, Publish(W), PointsOn(W.rows, DOMAIN W.rows \cup DOMAIN facts)
      PROVE  PointsOn(facts', DOMAIN facts')
  <2> DEFINE F == Over(W.rows, facts)
  <2>1. /\ DOMAIN F = DOMAIN W.rows \cup DOMAIN facts
        /\ \A f \in DOMAIN W.rows : F[f] = W.rows[f]
        /\ \A f \in (DOMAIN facts) \ (DOMAIN W.rows) : F[f] = facts[f]
    BY OverFacts
  <2>2. facts' = F BY <1>2 DEF Publish
  <2> HIDE DEF F
  <2>3. PointsOn(facts, DOMAIN F) BY <2>1, PointsOnMore DEF AllPointOn
  <2>4. PointsOn(W.rows, DOMAIN F) BY <1>2, <2>1
  <2>5. ASSUME NEW f \in DOMAIN F, F[f].status = "superseded"
        PROVE  F[f].supersededBy \in DOMAIN F /\ F[f].supersededBy > f
    <3>1. CASE f \in DOMAIN W.rows BY <2>1, <2>4, <2>5, <3>1 DEF PointsOn
    <3>2. CASE f \notin DOMAIN W.rows
      <4>1. f \in DOMAIN facts /\ F[f] = facts[f] BY <2>1, <3>2
      <4>2. QED BY <2>3, <2>5, <4>1 DEF PointsOn
    <3>3. QED BY <3>1, <3>2
  <2>6. PointsOn(F, DOMAIN F) BY <2>5 DEF PointsOn
  <2>7. QED BY <2>2, <2>6
<1>3. CASE Publishes(r)
  <2>1. Publish(run[r].tx) BY <1>3 DEF Publishes
  <2>2. PointsOn(run[r].tx.rows, DOMAIN run[r].tx.rows \cup DOMAIN facts)
    BY SeesFacts DEF AllPointOn
  <2>3. QED BY <1>2, <2>1, <2>2, CommitFacts
<1>4. CASE Execute(r)
  <2>1. MayExecute(r) /\ Carried(r) BY <1>4, ExecuteFacts
  <2>2. UNCHANGED database \/ Publish(After(r)) BY <2>1, RunParts DEF Carried
  <2>3. CASE Publish(After(r)) BY <1>2, <2>1, <2>3, AfterFacts, AfterPointsOn
  <2>4. QED BY <1>1, <2>2, <2>3
<1>5. QED BY <1>1, <1>3, <1>4 DEF KindOf, Rolls, Searches, Loses

(* The rows that transactions have written still point to later ones.      *)
LEMMA WritesPointOn ==
  ASSUME Typed, AllPointOn, NEW r \in Runs, KindOf(r), NEW q \in Runs
  PROVE  PointsOn(run'[q].tx.rows, DOMAIN Sees(q)')
<1>0. /\ DOMAIN Sees(q)' = DOMAIN run'[q].tx.rows \cup DOMAIN facts'
      /\ DOMAIN Sees(q) = DOMAIN run[q].tx.rows \cup DOMAIN facts
      /\ DOMAIN facts \subseteq DOMAIN facts'
      /\ PointsOn(run[q].tx.rows, DOMAIN Sees(q))
  BY SeesNext, SeesFacts, DatabaseStep DEF AllPointOn
<1>1. CASE run'[q].tx = run[q].tx
  BY <1>0, <1>1, PointsOnMore
<1>2. CASE run'[q].tx = NoWrites
  BY <1>2, NoWritesFacts DEF PointsOn
<1>3. CASE Execute(r) /\ q = r /\ run[r].open
  <2>1. MayExecute(r) /\ Carried(r) BY <1>3, ExecuteFacts
  <2>2. run'[r].tx = After(r) BY <1>3, <2>1 DEF Carried
  <2>3. PointsOn(After(r).rows, DOMAIN After(r).rows \cup DOMAIN facts)
    BY <2>1, AfterPointsOn
  <2>4. DOMAIN After(r).rows \cup DOMAIN facts \subseteq DOMAIN Sees(q)'
    BY <1>0, <1>3, <2>2
  <2>5. QED BY <1>3, <2>2, <2>3, <2>4, PointsOnMore
<1>4. \/ run'[q].tx = run[q].tx \/ run'[q].tx = NoWrites
      \/ Execute(r) /\ q = r /\ run[r].open
  BY KindOthers, ExecuteFacts, RunParts
     DEF KindOf, Rolls, Publishes, Searches, Loses, Restarted, OthersStay, Carried
<1>5. QED BY <1>1, <1>2, <1>3, <1>4

(* A plan that will supersede still has a new id above the old one.        *)
LEMMA PlansPointOn ==
  ASSUME Typed, AllPointOn, NEW r \in Runs, KindOf(r), NEW q \in Runs, SupersedesNext(q)'
  PROVE  run'[q].new > run'[q].old
<1> DEFINE L == Left(run[r].statements)
<1>0. /\ SupersedesNext(q) => run[q].new > run[q].old
      /\ {"penalise", "supersede"} \cap Left(run'[q].statements) # {}
      /\ "insert" \notin Left(run'[q].statements)
  BY DEF AllPointOn, SupersedesNext
<1>1. CASE q # r \/ Loses(r)
  <2>1. /\ run'[q].statements = run[q].statements
        /\ run'[q].new = run[q].new /\ run'[q].old = run[q].old
    BY <1>1, KindOthers DEF OthersStay, Loses
  <2>2. QED BY <1>0, <2>1 DEF SupersedesNext
<1>2. CASE q = r /\ (Rolls(r) \/ Publishes(r))
  BY <1>0, <1>2, NothingLeft DEF Rolls, Publishes, Restarted
<1>3. CASE q = r /\ Searches(r)
  <2>1. CASE Skips(r) BY <1>0, <1>3, <2>1, NothingLeft DEF Skips
  <2>2. CASE Decides(r)
    <3>1. PICK kind \in {"no_conflict", "reinforcement", "contradiction", "uncertainty"} :
            run'[r].statements = Statements(kind)
      BY <2>2 DEF Decides
    <3>2. QED BY <1>0, <1>3, <3>1, Plans
  <2>3. QED BY <1>3, <2>1, <2>2 DEF Searches
<1>4. CASE q = r /\ Execute(r)
  <2>1. MayExecute(r) /\ Carried(r) BY <1>4, ExecuteFacts
  <2>2. Left(run'[r].statements) = L \ {Statement(r)} BY <2>1 DEF Carried
  <2>3. L # {Statement(r)} BY <1>0, <1>4, <2>2
  <2>4. run'[r].old = run[r].old /\ run'[r].new = NewId(r) BY <2>1, <2>3 DEF Carried
  <2>5. CASE Statement(r) = "insert"
    <3>1. NewId(r) = FreshId BY <2>1, <2>5 DEF MayExecute, Inserts
    <3>2. QED BY <1>4, <2>4, <3>1, FreshFacts
  <2>6. CASE Statement(r) # "insert"
    <3>1. Statement(r) # "insertFirst"
      BY <1>0, <1>4, <2>1, <2>2 DEF MayExecute, Order
    <3>2. NewId(r) = run[r].new BY <2>1, <2>6, <3>1 DEF MayExecute, Inserts
    <3>3. SupersedesNext(r) BY <1>0, <1>4, <2>2, <2>6 DEF SupersedesNext
    <3>4. QED BY <1>0, <1>4, <2>4, <3>2, <3>3
  <2>7. QED BY <2>5, <2>6
<1>5. QED BY <1>1, <1>2, <1>3, <1>4 DEF KindOf

(* No step makes a superseded fact point to an earlier one or to none.     *)
LEMMA NextPointsOn ==
  ASSUME Typed, AllPointOn, NEW r \in Runs, KindOf(r)
  PROVE  AllPointOn'
BY FactsPointOn, WritesPointOn, PlansPointOn DEF AllPointOn

-----------------------------------------------------------------------------
(* As long as no run has timed out, statements are executed in a           *)
(* transaction, and nothing but a commit changes the tables.               *)
LEMMA Timely ==
  ASSUME Typed, NEW r \in Runs, KindOf(r), timeouts' = 0
  PROVE  /\ timeouts = 0 /\ ~ Loses(r)
         /\ Execute(r) => /\ MayExecute(r) /\ Carried(r) /\ run[r].open
                          /\ run'[r].tx = After(r) /\ UNCHANGED database
         /\ Execute(r) \/ Publishes(r) \/ Rolls(r) \/ Searches(r)
<1>1. timeouts \in Nat BY DEF Typed, DatabaseTyped
<1>2. ~ Loses(r) BY <1>1 DEF Loses
<1>3. timeouts = 0 BY <1>2 DEF KindOf, Rolls, Publishes, Searches
<1>4. ASSUME Execute(r)
      PROVE  MayExecute(r) /\ Carried(r) /\ run[r].open /\ run'[r].tx = After(r)
               /\ UNCHANGED database
  <2>1. MayExecute(r) /\ Carried(r) BY <1>4, ExecuteFacts
  <2>2. run[r].pc = "write" BY <2>1 DEF MayExecute
  <2>3. run[r].open BY <1>3, <2>2, RunParts DEF Shape
  <2>4. QED BY <2>1, <2>3 DEF Carried
<1>5. QED BY <1>2, <1>3, <1>4 DEF KindOf

(* What an UPDATE of the existing fact changes.                            *)
LEMMA UpdatedOldFacts ==
  ASSUME NEW row \in Row, NEW statement \in UpdatesOld, NEW c, NEW new
  PROVE  LET next == UpdatedOld(statement, row, c, new)
         IN  /\ next.key = row.key /\ next.start = row.start
             /\ statement = "reinforce" =>
                  /\ next.confidence = Clamp(row.confidence + c.boost)
                  /\ next.status = row.status /\ next.supersededBy = row.supersededBy
             /\ statement = "penalise" =>
                  /\ next.confidence = Clamp(row.confidence - Penalty)
                  /\ next.status = row.status /\ next.supersededBy = row.supersededBy
             /\ statement = "supersede" =>
                  /\ next.status = "superseded" /\ next.supersededBy = new
                  /\ next.confidence = row.confidence
             /\ statement = "contestOld" =>
                  /\ next.status = "contested" /\ next.confidence = row.confidence
<1>1. CASE statement = "reinforce" BY <1>1 DEF UpdatedOld, Row
<1>2. CASE statement = "penalise" BY <1>2 DEF UpdatedOld, Row
<1>3. CASE statement = "supersede" BY <1>3 DEF UpdatedOld, Row
<1>4. CASE statement = "contestOld" BY <1>4 DEF UpdatedOld, Row
<1>5. QED BY <1>1, <1>2, <1>3, <1>4 DEF UpdatesOld

(* Contesting a row changes its status only.                               *)
LEMMA ContestedRow ==
  ASSUME NEW row \in Row
  PROVE  LET next == [row EXCEPT !.status = "contested"]
         IN  next.status = "contested" /\ next.start = row.start
               /\ next.confidence = row.confidence /\ next.key = row.key
BY DEF Row

-----------------------------------------------------------------------------
(* Row locks keep the rows of two transactions apart.                      *)
LEMMA NextApart ==
  ASSUME Typed, Apart, NEW r \in Runs, KindOf(r), timeouts' = 0
  PROVE  Apart'
<1> SUFFICES ASSUME NEW p \in Runs, NEW q \in Runs, p # q
             PROVE  DOMAIN run'[p].tx.rows \cap DOMAIN run'[q].tx.rows = {}
  BY DEF Apart
<1>1. \A x \in Runs \ {r} : run'[x] = run[x] BY KindOthers DEF OthersStay
<1>2. CASE Execute(r)
  <2> DEFINE F == After(r).rows
  <2>1. MayExecute(r) /\ run'[r].tx = After(r) BY <1>2, Timely
  <2>2. \A x \in Runs \ {r} : DOMAIN run[x].tx.rows \cap DOMAIN run[r].tx.rows = {}
    BY DEF Apart
  <2>3. \A x \in Runs \ {r} : DOMAIN run[x].tx.rows \cap DOMAIN F = {}
    <3> TAKE x \in Runs \ {r}
    <3>1. \A f \in Updates(r) : f \notin DOMAIN run[x].tx.rows BY <2>1 DEF MayExecute
    <3>2. CASE Statement(r) \notin WritesRow BY <2>1, <2>2, <3>2, AfterRows
    <3>3. CASE Statement(r) \in Inserts
      <4>1. DOMAIN F = DOMAIN run[r].tx.rows \cup {FreshId} BY <2>1, <3>3, AfterRows
      <4>2. QED BY <2>2, <4>1, FreshFacts
    <3>4. CASE Statement(r) \in UpdatesOld
      <4>1. DOMAIN F \subseteq DOMAIN run[r].tx.rows \cup {run[r].old}
        BY <2>1, <3>4, AfterRows
      <4>2. Updates(r) = {run[r].old} BY <3>4 DEF Updates, Statement
      <4>3. QED BY <2>2, <3>1, <4>1, <4>2
    <3>5. CASE Statement(r) = "contestNew"
      <4>1. DOMAIN F \subseteq DOMAIN run[r].tx.rows \cup {run[r].new}
        BY <2>1, <3>5, AfterRows
      <4>2. Updates(r) = {run[r].new} BY <3>5 DEF Updates, Statement, UpdatesOld
      <4>3. QED BY <2>2, <3>1, <4>1, <4>2
    <3>6. QED BY <3>2, <3>3, <3>4, <3>5 DEF WritesRow
  <2>4. QED BY <1>1, <2>1, <2>3 DEF Apart
<1>3. CASE run'[r].tx = NoWrites \/ run'[r].tx = run[r].tx
  BY <1>1, <1>3, NoWritesFacts DEF Apart
<1>4. QED
  BY <1>2, <1>3, Timely DEF Publishes, Rolls, Searches, Restarted

(* What a commit of r adds to the table is what r has written.             *)
LEMMA Published ==
  ASSUME Typed, NEW r \in Runs, Publishes(r)
  PROVE  /\ DOMAIN facts' = DOMAIN run[r].tx.rows \cup DOMAIN facts
         /\ \A f \in DOMAIN run[r].tx.rows : facts'[f] = run[r].tx.rows[f]
         /\ \A f \in (DOMAIN facts) \ (DOMAIN run[r].tx.rows) : facts'[f] = facts[f]
         /\ evidence' = evidence \cup run[r].tx.links
         /\ conflicts' = conflicts \cup run[r].tx.pairs
         /\ \A f \in FactIds, e \in Entries :
              audit'[f][e] = audit[f][e] + run[r].tx.events[f][e]
         /\ run[r].statements = <<>> /\ run'[r].statements = <<>> /\ run'[r].tx = NoWrites
<1>1. Publish(run[r].tx) /\ Restarted(r) /\ run[r].pc = "commit" BY DEF Publishes
<1>2. run[r].statements = <<>> BY <1>1, RunParts DEF Shape
<1>3. QED BY <1>1, <1>2, CommitFacts, PublishFacts DEF Publish, Restarted

(* The tables change by a commit only.                                     *)
LEMMA OnlyCommits ==
  ASSUME Typed, NEW r \in Runs, KindOf(r), timeouts' = 0, ~ Publishes(r)
  PROVE  UNCHANGED database
BY Timely DEF Rolls, Searches

(* Two rows of one transaction stay what they are for another.             *)
LEMMA HasRowsOfOthers ==
  ASSUME Typed, Apart, NEW r \in Runs, KindOf(r), timeouts' = 0,
         NEW q \in Runs \ {r}, HasRows(q)
  PROVE  HasRows(q)'
<1>1. run'[q] = run[q] BY KindOthers DEF OthersStay
<1>2. Inserted(q)' <=> Inserted(q) BY <1>1 DEF Inserted
<1>3. DOMAIN run[q].tx.rows \cap DOMAIN run[r].tx.rows = {} BY DEF Apart
<1>4. DOMAIN Sees(q)' = DOMAIN run[q].tx.rows \cup DOMAIN facts'
        /\ DOMAIN Sees(q) = DOMAIN run[q].tx.rows \cup DOMAIN facts
  BY <1>1, SeesNext, SeesFacts
<1>5. facts' = facts \/ DOMAIN facts' = DOMAIN run[r].tx.rows \cup DOMAIN facts
  BY OnlyCommits, Published DEF database
<1>6. DOMAIN Sees(q) \subseteq DOMAIN Sees(q)' BY <1>4, <1>5
<1>7. Inserted(q) => run[q].new \notin DOMAIN facts'
  BY <1>3, <1>5 DEF HasRows
<1>8. QED BY <1>1, <1>2, <1>6, <1>7 DEF HasRows

(* After a statement, the rows that its plan still needs are there.        *)
LEMMA ExecuteHasRows ==
  ASSUME Typed, NEW r \in Runs, Execute(r), run[r].open, HasRows(r)
  PROVE  HasRows(r)'
<1> DEFINE L == Left(run[r].statements)
           L2 == Left(run'[r].statements)
           old == run[r].old
           st == Statement(r)
           rows == DOMAIN run[r].tx.rows
           rows2 == DOMAIN run'[r].tx.rows
<1>1. MayExecute(r) /\ Carried(r) BY ExecuteFacts
<1>2. run'[r].tx = After(r) /\ facts' = facts BY <1>1 DEF Carried, database
<1>3. L2 = L \ {st} /\ st \in L /\ Order(st, L) /\ st \in StatementNames
  BY <1>1 DEF Carried, MayExecute
<1>4. /\ rows \subseteq rows2
      /\ st \in Inserts => FreshId \in rows2
      /\ st \in UpdatesOld /\ old \in DOMAIN Sees(r) => old \in rows2
  BY <1>1, <1>2, AfterRows, AfterFacts
<1>5. DOMAIN Sees(r) \subseteq DOMAIN Sees(r)'
  BY <1>2, <1>4, SeesNext, SeesFacts
<1>6. CASE L2 = {}
  BY <1>6 DEF HasRows, Inserted
<1>7. CASE L2 # {}
  <2>1. run'[r].old = old /\ run'[r].new = NewId(r) BY <1>1, <1>3, <1>7 DEF Carried
  <2>2. {"reinforced", "conflict"} \cap L2 # {} => run'[r].old \in DOMAIN Sees(r)'
    BY <1>3, <1>5, <2>1 DEF HasRows
  <2>3. ASSUME \/ "reinforced" \in L2 /\ "reinforce" \notin L2
               \/ "superseded" \in L2 /\ "penalise" \notin L2
               \/ "contested" \in L2 /\ "contestOld" \notin L2
        PROVE  old \in rows2
    <3>1. CASE st \in {"reinforce", "penalise", "contestOld"}
      <4>1. {"reinforced", "conflict"} \cap L # {} BY <1>3, <3>1 DEF Order
      <4>2. QED BY <1>4, <3>1, <4>1 DEF HasRows, UpdatesOld
    <3>2. CASE st \notin {"reinforce", "penalise", "contestOld"}
      BY <1>3, <1>4, <2>3, <3>2 DEF HasRows
    <3>3. QED BY <3>1, <3>2
  <2>4. ASSUME Inserted(r)'
        PROVE  /\ NewId(r) \in rows2 \ (DOMAIN facts)
               /\ "conflict" \in L2 => NewId(r) > old
    <3>1. CASE st \in Inserts
      <4>1. NewId(r) = FreshId BY <1>1, <3>1 DEF MayExecute
      <4>2. QED BY <1>4, <3>1, <4>1, FreshFacts
    <3>2. CASE st \notin Inserts
      <4>1. Inserted(r) BY <1>3, <2>4, <3>2 DEF Inserted
      <4>2. NewId(r) = run[r].new BY <1>1, <3>2 DEF MayExecute
      <4>3. QED BY <1>3, <1>4, <4>1, <4>2 DEF HasRows
    <3>3. QED BY <3>1, <3>2
  <2>5. QED BY <1>2, <2>1, <2>2, <2>3, <2>4 DEF HasRows
<1>8. QED BY <1>6, <1>7

(* The rows a plan needs are there.                                        *)
LEMMA NextHasRows ==
  ASSUME Typed, Apart, NEW r \in Runs, KindOf(r), timeouts' = 0,
         \A q \in Runs : HasRows(q), NEW q \in Runs
  PROVE  HasRows(q)'
<1>1. CASE q # r BY <1>1, HasRowsOfOthers
<1>2. CASE q = r /\ Execute(r) BY <1>2, Timely, ExecuteHasRows
<1>3. CASE q = r /\ Left(run'[r].statements) = {}
  BY <1>3 DEF HasRows, Inserted
<1>4. CASE q = r /\ Searches(r) /\ Decides(r)
  <2>1. PICK kind \in {"no_conflict", "reinforcement", "contradiction", "uncertainty"},
             old \in Ids :
          /\ run'[r].statements = Statements(kind) /\ run'[r].old = old
          /\ kind # "no_conflict" => old \in ActiveMatches(r, Now(r).key)
    BY <1>4 DEF Decides
  <2> DEFINE L == Left(Statements(kind))
  <2>2. /\ "insertFirst" \in L <=> kind = "no_conflict"
        /\ L \in {{"insertFirst", "linkNew", "created"},
                  {"reinforce", "linkOld", "reinforced"},
                  {"insert", "penalise", "supersede", "linkNew", "superseded", "created",
                   "conflict"},
                  {"insert", "contestOld", "contestNew", "linkNew", "contested", "created",
                   "conflict"}}
    BY Plans
  <2> HIDE DEF L
  <2>3. /\ {"reinforced", "conflict"} \cap L # {} => kind # "no_conflict"
        /\ "reinforced" \in L => "reinforce" \in L
        /\ "superseded" \in L => "penalise" \in L
        /\ "contested" \in L => "contestOld" \in L
        /\ ~ (Inserts \cap L = {} /\ {"created", "conflict"} \cap L # {})
    BY <2>2 DEF Inserts
  <2>4. Sees(r)' = Sees(r) BY <1>4 DEF Searches, Sees, database
  <2>5. \A x \in ActiveMatches(r, Now(r).key) : x \in DOMAIN Sees(r) BY DEF ActiveMatches
  <2>6. Left(run'[r].statements) = L BY <2>1 DEF L
  <2>7. QED BY <1>4, <2>1, <2>3, <2>4, <2>5, <2>6 DEF HasRows, Inserted
<1>5. QED
  BY <1>1, <1>2, <1>3, <1>4, Timely, NothingLeft
     DEF Publishes, Rolls, Searches, Restarted, Skips

-----------------------------------------------------------------------------
(* The keys of the candidates that are left.                               *)
LEMMA WantedFacts ==
  ASSUME NEW s \in Seq(Candidate(Keys, Values)), s # <<>>
  PROVE  Head(s).key \in Wanted(s) /\ Wanted(Tail(s)) \subseteq Wanted(s)
<1>1. 1 \in DOMAIN s /\ Head(s) = s[1] OBVIOUS
<1>2. \A i \in DOMAIN Tail(s) : i + 1 \in DOMAIN s /\ Tail(s)[i] = s[i + 1] OBVIOUS
<1>3. QED BY <1>1, <1>2 DEF Wanted

(* A run that stays at its memory stays with its keys.                     *)
LEMMA KeysInSame ==
  ASSUME NEW q, run'[q].todo = run[q].todo
  PROVE  KeysIn(q)' = KeysIn(q)
BY DEF KeysIn, MemoryOf

(* A commit of another run leaves a transaction with its keys: the rows    *)
(* that it replaces keep theirs.                                           *)
LEMMA OwnKeysOfOthers ==
  ASSUME Typed, Apart, NEW r \in Runs, KindOf(r), timeouts' = 0, r \in Open => OwnKeys(r),
         NEW q \in Runs \ {r}, HasRows(q), OwnKeys(q)
  PROVE  OwnKeys(q)'
<1>1. run'[q] = run[q] BY KindOthers DEF OthersStay
<1>2. KeysIn(q)' = KeysIn(q) BY <1>1, KeysInSame
<1>3. CASE ~ Publishes(r)
  <2>1. facts' = facts BY <1>3, OnlyCommits DEF database
  <2>2. Sees(q)' = Sees(q) BY <1>1, <2>1 DEF Sees
  <2>3. QED BY <1>1, <1>2, <2>1, <2>2 DEF OwnKeys
<1>4. CASE Publishes(r)
  <2>1. r \in Open BY <1>4, RunParts DEF Publishes, Shape, Open
  <2>2. DOMAIN run[q].tx.rows \cap DOMAIN run[r].tx.rows = {} BY DEF Apart
  <2>3. /\ DOMAIN facts' = DOMAIN run[r].tx.rows \cup DOMAIN facts
        /\ \A f \in DOMAIN run[r].tx.rows : facts'[f] = run[r].tx.rows[f]
        /\ \A f \in (DOMAIN facts) \ (DOMAIN run[r].tx.rows) : facts'[f] = facts[f]
    BY <1>4, Published
  <2>4. \A f \in DOMAIN facts : f \in DOMAIN facts' /\ facts'[f].key = facts[f].key
    BY <2>1, <2>3 DEF OwnKeys
  <2>5. \A f \in DOMAIN run[q].tx.rows :
          /\ run[q].tx.rows[f].key \in KeysIn(q)
          /\ f \in DOMAIN facts' => facts'[f].key = run[q].tx.rows[f].key
    BY <2>2, <2>3, <2>4 DEF OwnKeys
  <2>6. ASSUME {"reinforced", "conflict"} \cap Left(run[q].statements) # {}
        PROVE  Sees(q)'[run[q].old].key \in KeysIn(q)
    <3>1. run[q].old \in DOMAIN Sees(q) BY <2>6 DEF HasRows
    <3>2. \A f \in DOMAIN Sees(q) : Sees(q)'[f].key = Sees(q)[f].key
      <4> TAKE f \in DOMAIN Sees(q)
      <4>1. CASE f \in DOMAIN run[q].tx.rows
        <5>1. Sees(q)[f] = run[q].tx.rows[f] BY <4>1, SeesFacts
        <5>2. Sees(q)'[f] = run[q].tx.rows[f] BY <1>1, <4>1, SeesNext
        <5>3. QED BY <5>1, <5>2
      <4>2. CASE f \notin DOMAIN run[q].tx.rows
        <5>1. f \in DOMAIN facts /\ Sees(q)[f] = facts[f] BY <4>2, SeesFacts
        <5>2. Sees(q)'[f] = facts'[f] BY <1>1, <2>4, <4>2, <5>1, SeesNext
        <5>3. QED BY <2>4, <5>1, <5>2
      <4>3. QED BY <4>1, <4>2
    <3>3. QED BY <2>6, <3>1, <3>2 DEF OwnKeys
  <2>7. QED BY <1>1, <1>2, <2>5, <2>6 DEF OwnKeys
<1>5. QED BY <1>3, <1>4

(* A statement writes a row of a key that its memory has a candidate for.  *)
LEMMA ExecuteOwnKeys ==
  ASSUME Typed, NEW r \in Runs, Execute(r), run[r].open, HasRows(r), OwnKeys(r)
  PROVE  OwnKeys(r)'
<1> DEFINE L == Left(run[r].statements)
           L2 == Left(run'[r].statements)
           old == run[r].old
           new == run[r].new
           S == Sees(r)
           S2 == Sees(r)'
           rows == run[r].tx.rows
           F == After(r).rows
           st == Statement(r)
           K == KeysIn(r)
<1>1. MayExecute(r) /\ Carried(r) BY ExecuteFacts
<1>2. /\ run'[r].tx.rows = F /\ facts' = facts /\ run'[r].todo = run[r].todo
      /\ KeysIn(r)' = K
  BY <1>1, KeysInSame DEF Carried, database
<1>3. L2 = L \ {st} /\ st \in L /\ Order(st, L) /\ st \in StatementNames
  BY <1>1 DEF Carried, MayExecute
<1>4. /\ DOMAIN S2 = DOMAIN F \cup DOMAIN facts
      /\ \A f \in DOMAIN F : S2[f] = F[f]
      /\ \A f \in (DOMAIN facts) \ (DOMAIN F) : S2[f] = facts[f]
  <2>1. S2 = Over(F, facts) BY <1>2 DEF Sees
  <2>2. QED BY <2>1 DEF Over
<1>5. /\ DOMAIN S = DOMAIN rows \cup DOMAIN facts
      /\ \A f \in DOMAIN rows : S[f] = rows[f]
      /\ \A f \in (DOMAIN facts) \ (DOMAIN rows) : S[f] = facts[f]
      /\ \A f \in DOMAIN S : S[f] \in Row
  BY SeesFacts
<1>6. /\ run[r].candidates \in Seq(Candidate(Keys, Values)) /\ run[r].candidates # <<>>
      /\ Wanted(run[r].candidates) \subseteq K
      /\ \A f \in DOMAIN rows : rows[f].key \in K /\ (f \in DOMAIN facts => facts[f].key = rows[f].key)
      /\ {"reinforced", "conflict"} \cap L # {} => S[old].key \in K /\ old \in DOMAIN S
  BY <1>1, RunParts DEF OwnKeys, HasRows, MayExecute
<1>7. Now(r).key \in K BY <1>6, WantedFacts DEF Now
<1>8. Wanted(run'[r].candidates) \subseteq K
  BY <1>1, <1>6, WantedFacts DEF Carried
<1>9. L2 # {} => run'[r].old = old BY <1>1, <1>3 DEF Carried
<1>10. /\ DOMAIN S \subseteq DOMAIN S2
       /\ \A f \in DOMAIN S : S2[f].key = S[f].key
       /\ \A f \in DOMAIN F : F[f].key \in K /\ (f \in DOMAIN facts => f \in DOMAIN S)
  <2>1. CASE st \notin WritesRow
    <3>1. F = rows BY <1>1, <2>1, AfterRows
    <3>2. QED BY <1>4, <1>5, <1>6, <3>1
  <2>2. CASE st \in Inserts
    <3>1. /\ DOMAIN F = DOMAIN rows \cup {FreshId}
          /\ F[FreshId].key = Now(r).key
          /\ \A x \in DOMAIN rows : F[x] = rows[x]
      <4>1. \A n : NewRow(Now(r), n).key = Now(r).key BY DEF NewRow
      <4>2. QED BY <1>1, <2>2, <4>1, AfterRows
    <3>2. FreshId \notin DOMAIN S BY FreshFacts
    <3>3. QED BY <1>4, <1>5, <1>6, <1>7, <3>1, <3>2
  <2>3. CASE st \in UpdatesOld
    <3>1. /\ DOMAIN F = DOMAIN rows \cup ({old} \cap DOMAIN S)
          /\ \A x \in DOMAIN F : F[x] = IF x = old THEN UpdatedOld(st, S[x], Now(r), new)
                                        ELSE rows[x]
      BY <1>1, <2>3, AfterRows
    <3>2. {"reinforced", "conflict"} \cap L # {} BY <1>3, <2>3 DEF Order, UpdatesOld
    <3>3. UpdatedOld(st, S[old], Now(r), new).key = S[old].key
      BY <1>5, <1>6, <2>3, <3>2, UpdatedOldFacts
    <3>4. QED BY <1>4, <1>5, <1>6, <3>1, <3>2, <3>3
  <2>4. CASE st = "contestNew"
    <3>1. /\ DOMAIN F = DOMAIN rows \cup ({new} \cap DOMAIN S)
          /\ \A x \in DOMAIN F : F[x] = IF x = new THEN [S[x] EXCEPT !.status = "contested"]
                                        ELSE rows[x]
      BY <1>1, <2>4, AfterRows
    <3>2. Inserted(r) BY <1>3, <2>4 DEF Order, Inserted, Inserts
    <3>3. new \in DOMAIN rows BY <3>2 DEF HasRows
    <3> DEFINE next == [S[new] EXCEPT !.status = "contested"]
    <3>4. next.key = S[new].key BY <1>5, <3>3, ContestedRow
    <3>5. F[new] = next /\ DOMAIN F = DOMAIN rows /\ \A x \in (DOMAIN rows) \ {new} : F[x] = rows[x]
      BY <1>5, <3>1, <3>3
    <3> HIDE DEF next
    <3>6. QED BY <1>4, <1>5, <1>6, <3>3, <3>4, <3>5
  <2>5. QED BY <1>3, <2>1, <2>2, <2>3, <2>4 DEF WritesRow
<1>11. \A f \in DOMAIN F : f \in DOMAIN facts => facts[f].key = F[f].key
  <2> SUFFICES ASSUME NEW f \in DOMAIN F, f \in DOMAIN facts
               PROVE  facts[f].key = F[f].key
    OBVIOUS
  <2>1. F[f].key = S[f].key BY <1>4, <1>10
  <2>2. facts[f].key = S[f].key BY <1>5, <1>6
  <2>3. QED BY <2>1, <2>2
<1>12. {"reinforced", "conflict"} \cap L2 # {} => S2[run'[r].old].key \in K
  BY <1>3, <1>6, <1>9, <1>10
<1>13. QED BY <1>2, <1>8, <1>10, <1>11, <1>12 DEF OwnKeys

(* Transactions keep to the keys of their memories.                        *)
LEMMA NextOwnKeys ==
  ASSUME Typed, Apart, NEW r \in Runs, KindOf(r), timeouts' = 0,
         \A q \in Runs : HasRows(q), \A q \in Open : OwnKeys(q), NEW q \in Open'
  PROVE  OwnKeys(q)'
<1>0. q \in Runs /\ run'[q].open BY DEF Open
<1>1. CASE q # r
  <2>1. run'[q] = run[q] BY <1>0, <1>1, KindOthers DEF OthersStay
  <2>2. q \in Open BY <1>0, <2>1 DEF Open
  <2>3. QED BY <1>0, <1>1, <2>2, OwnKeysOfOthers
<1>2. CASE q = r /\ Execute(r)
  <2>1. run[r].open BY <1>2, Timely
  <2>2. QED BY <1>2, <2>1, ExecuteOwnKeys DEF Open
<1>3. CASE q = r /\ (Rolls(r) \/ Publishes(r))
  <2>1. /\ run'[r].tx = NoWrites /\ run'[r].statements = <<>>
        /\ Wanted(run'[r].candidates) \subseteq KeysOf(Min(run'[r].todo))
    BY <1>0, <1>3 DEF Rolls, Publishes, Restarted
  <2>2. KeysIn(r)' = KeysOf(Min(run'[r].todo)) BY DEF KeysIn, MemoryOf
  <2>3. QED BY <1>3, <2>1, <2>2, NoWritesFacts, NothingLeft DEF OwnKeys
<1>4. CASE q = r /\ Searches(r)
  <2>1. /\ run'[r].tx = run[r].tx /\ run'[r].todo = run[r].todo /\ run'[r].open = run[r].open
        /\ facts' = facts
    BY <1>4 DEF Searches, database
  <2>2. r \in Open /\ OwnKeys(r) BY <1>0, <1>4, <2>1 DEF Open
  <2>3. Sees(r)' = Sees(r) /\ KeysIn(r)' = KeysIn(r) BY <2>1, KeysInSame DEF Sees
  <2>4. run[r].candidates \in Seq(Candidate(Keys, Values)) BY RunParts
  <2>5. /\ Wanted(run[r].candidates) \subseteq KeysIn(r)
        /\ \A f \in DOMAIN run[r].tx.rows :
             /\ run[r].tx.rows[f].key \in KeysIn(r)
             /\ f \in DOMAIN facts => facts[f].key = run[r].tx.rows[f].key
    BY <2>2 DEF OwnKeys
  <2>6. CASE Skips(r)
    <3>1. Left(run'[r].statements) = {} BY <2>6, NothingLeft DEF Skips
    <3>2. Wanted(run'[r].candidates) \subseteq KeysIn(r)
      BY <2>4, <2>5, <2>6, WantedFacts DEF Skips
    <3>3. QED BY <1>4, <2>1, <2>3, <2>5, <3>1, <3>2 DEF OwnKeys
  <2>7. CASE Decides(r)
    <3>1. PICK kind \in {"no_conflict", "reinforcement", "contradiction", "uncertainty"},
               old \in Ids :
            /\ run[r].candidates # <<>> /\ run'[r].candidates = run[r].candidates
            /\ run'[r].statements = Statements(kind) /\ run'[r].old = old
            /\ kind # "no_conflict" => old \in ActiveMatches(r, Now(r).key)
      BY <2>7 DEF Decides
    <3>2. {"reinforced", "conflict"} \cap Left(Statements(kind)) # {} => kind # "no_conflict"
      BY Plans
    <3>3. old \in ActiveMatches(r, Now(r).key) => Sees(r)[old].key = Now(r).key
      BY DEF ActiveMatches
    <3>4. Now(r).key \in KeysIn(r) BY <2>4, <2>5, <3>1, WantedFacts DEF Now
    <3>5. QED BY <1>4, <2>1, <2>3, <2>5, <3>1, <3>2, <3>3, <3>4 DEF OwnKeys
  <2>8. QED BY <1>4, <2>6, <2>7 DEF Searches
<1>5. QED BY <1>1, <1>2, <1>3, <1>4, Timely

(* Tables that agree on the rows of a key.                                 *)
SameRows(F, G, k) ==
  /\ \A f \in DOMAIN F : F[f].key = k => f \in DOMAIN G /\ G[f] = F[f]
  /\ \A f \in DOMAIN G : G[f].key = k => f \in DOMAIN F /\ G[f] = F[f]

(* A run that stays as it is sees one active fact of a key as before, when *)
(* the rows of that key are those it saw.                                  *)
LEMMA SeesOneStays ==
  ASSUME NEW q \in Runs, NEW k, run'[q] = run[q], SeesOne(q, k),
         SameRows(Sees(q), Sees(q)', k)
  PROVE  SeesOne(q, k)'
<1> DEFINE S == Sees(q)
           S2 == Sees(q)'
<1>1. \A f \in DOMAIN S2 : S2[f].key = k => f \in DOMAIN S /\ S2[f] = S[f] BY DEF SameRows
<1>2. Inserted(q)' = Inserted(q) BY DEF Inserted
<1>3. ActiveMatches(q, k)' \subseteq ActiveMatches(q, k)
  <2>1. ActiveMatches(q, k)' = {f \in DOMAIN S2 : S2[f].key = k /\ S2[f].status = "active"}
    BY DEF ActiveMatches
  <2>2. QED BY <1>1, <2>1 DEF ActiveMatches
<1>4. \A f, g \in DOMAIN S2 :
        ActiveTwins(S2, f, g, k) => f \in DOMAIN S /\ g \in DOMAIN S /\ ActiveTwins(S, f, g, k)
  BY <1>1 DEF ActiveTwins
<1>5. QED BY <1>2, <1>3, <1>4 DEF SeesOne

(* Of the rows it sees, a transaction has two active ones of a key only    *)
(* between its insert and the update of the old row.                       *)
LEMMA ExecuteSeesOne ==
  ASSUME Typed, NEW r \in Runs, Execute(r), run[r].open, NEW k, SeesOne(r, k)
  PROVE  SeesOne(r, k)'
<1> DEFINE L == Left(run[r].statements)
           L2 == Left(run'[r].statements)
           old == run[r].old
           new == run[r].new
           S == Sees(r)
           S2 == Sees(r)'
           F == After(r).rows
           st == Statement(r)
<1>1. MayExecute(r) /\ Carried(r) BY ExecuteFacts
<1>2. run'[r].tx.rows = F /\ facts' = facts BY <1>1 DEF Carried, database
<1>3. L2 = L \ {st} /\ st \in L /\ Order(st, L) /\ st \in StatementNames
  BY <1>1 DEF Carried, MayExecute
<1>4. /\ DOMAIN S2 = DOMAIN F \cup DOMAIN facts
      /\ \A f \in DOMAIN F : S2[f] = F[f]
      /\ \A f \in (DOMAIN facts) \ (DOMAIN F) : S2[f] = facts[f]
  <2>1. S2 = Over(F, facts) BY <1>2 DEF Sees
  <2>2. QED BY <2>1 DEF Over
<1>5. /\ DOMAIN S = DOMAIN run[r].tx.rows \cup DOMAIN facts
      /\ \A f \in DOMAIN run[r].tx.rows : S[f] = run[r].tx.rows[f]
      /\ \A f \in (DOMAIN facts) \ (DOMAIN run[r].tx.rows) : S[f] = facts[f]
      /\ \A f \in DOMAIN S : S[f] \in Row
  BY SeesFacts
<1>6. /\ \A f, g \in DOMAIN S : ActiveTwins(S, f, g, k) =>
           {f, g} = {old, new} /\ {"supersede", "contestOld"} \cap L # {} /\ Inserted(r)
      /\ "insertFirst" \in L /\ Now(r).key = k => ActiveMatches(r, k) = {}
      /\ "insert" \in L /\ Now(r).key = k => ActiveMatches(r, k) \subseteq {old}
  BY DEF SeesOne, Now
<1>7. /\ st = "insertFirst" => {"supersede", "contestOld", "insert"} \cap L = {}
      /\ st \notin {"insert", "penalise", "supersede", "contestOld"} =>
           {"supersede", "contestOld"} \cap L = {}
      /\ "insertFirst" \notin L2 /\ "insert" \notin L2
  BY <1>3 DEF Order, StatementNames, WritesRow, Inserts, UpdatesOld
<1>8. L2 # {} => run'[r].old = old /\ run'[r].new = NewId(r)
  BY <1>1, <1>3 DEF Carried
<1> SUFFICES ASSUME NEW f \in DOMAIN S2, NEW g \in DOMAIN S2, ActiveTwins(S2, f, g, k)
             PROVE  {f, g} = {run'[r].old, run'[r].new}
                      /\ {"supersede", "contestOld"} \cap L2 # {} /\ Inserted(r)'
  BY <1>7 DEF SeesOne
<1>9. CASE st \notin WritesRow
  <2>1. F = run[r].tx.rows BY <1>1, <1>9, AfterRows
  <2>2. DOMAIN S2 = DOMAIN S /\ \A x \in DOMAIN S : S2[x] = S[x] BY <1>4, <1>5, <2>1
  <2>3. ActiveTwins(S, f, g, k) BY <2>2 DEF ActiveTwins
  <2>4. QED BY <1>6, <1>7, <1>9, <2>2, <2>3 DEF WritesRow, UpdatesOld, Inserts
<1>10. CASE st \in Inserts
  <2>1. /\ DOMAIN F = DOMAIN run[r].tx.rows \cup {FreshId}
        /\ F[FreshId].status = "active" /\ F[FreshId].key = Now(r).key
        /\ \A x \in DOMAIN run[r].tx.rows : F[x] = run[r].tx.rows[x]
    <3>1. \A n : NewRow(Now(r), n).status = "active" /\ NewRow(Now(r), n).key = Now(r).key
      BY DEF NewRow
    <3>2. QED BY <1>1, <1>10, <3>1, AfterRows
  <2>2. FreshId \notin DOMAIN S BY FreshFacts
  <2>3. /\ DOMAIN S2 = DOMAIN S \cup {FreshId}
        /\ \A x \in DOMAIN S : S2[x] = S[x]
        /\ S2[FreshId].status = "active" /\ S2[FreshId].key = Now(r).key
    BY <1>4, <1>5, <2>1, <2>2
  <2>4. \A x \in DOMAIN S :
          ActiveTwins(S2, x, FreshId, k) => Now(r).key = k /\ x \in ActiveMatches(r, k)
    BY <2>3 DEF ActiveTwins, ActiveMatches
  <2>5. \A x, y : ActiveTwins(S2, x, y, k) => ActiveTwins(S2, y, x, k) /\ x # y
    BY DEF ActiveTwins
  <2>6. \A x, y \in DOMAIN S : ActiveTwins(S2, x, y, k) => ActiveTwins(S, x, y, k)
    BY <2>3 DEF ActiveTwins
  <2>7. CASE st = "insertFirst"
    BY <1>3, <1>6, <1>7, <2>3, <2>4, <2>5, <2>6, <2>7
  <2>8. CASE st = "insert"
    <3>1. ~ Inserted(r) BY <1>3, <2>8 DEF Inserted, Inserts
    <3>2. ~ (f \in DOMAIN S /\ g \in DOMAIN S) BY <1>6, <2>6, <3>1
    <3>3. {f, g} = {old, FreshId}
      BY <1>3, <1>6, <2>3, <2>4, <2>5, <2>8, <3>2
    <3>4. NewId(r) = FreshId BY <1>1, <1>10 DEF MayExecute
    <3>5. {"supersede", "contestOld"} \cap L2 # {} /\ Inserts \cap L2 = {} /\ "conflict" \in L2
      BY <1>3, <2>8 DEF Order, Inserts
    <3>6. QED BY <1>8, <3>3, <3>4, <3>5 DEF Inserted
  <2>9. QED BY <1>10, <2>7, <2>8 DEF Inserts
<1>11. CASE st \in UpdatesOld
  <2>1. /\ DOMAIN F = DOMAIN run[r].tx.rows \cup ({old} \cap DOMAIN S)
        /\ \A x \in DOMAIN F : F[x] = IF x = old THEN UpdatedOld(st, S[x], Now(r), new)
                                      ELSE run[r].tx.rows[x]
    BY <1>1, <1>11, AfterRows
  <2>2. /\ DOMAIN S2 = DOMAIN S
        /\ \A x \in (DOMAIN S) \ {old} : S2[x] = S[x]
        /\ old \in DOMAIN S => S2[old] = UpdatedOld(st, S[old], Now(r), new)
    BY <1>4, <1>5, <2>1
  <2>3. old \in DOMAIN S => S2[old].key = S[old].key
    BY <1>5, <1>11, <2>2, UpdatedOldFacts
  <2>4. CASE st \in {"supersede", "contestOld"}
    <3>1. old \in DOMAIN S => S2[old].status # "active"
      BY <1>5, <1>11, <2>2, <2>4, UpdatedOldFacts
    <3>2. f # old /\ g # old /\ ActiveTwins(S, f, g, k)
      BY <2>2, <3>1 DEF ActiveTwins
    <3>3. QED BY <1>6, <2>2, <3>2
  <2>5. CASE st \in {"reinforce", "penalise"}
    <3>1. old \in DOMAIN S => S2[old].status = S[old].status
      BY <1>5, <1>11, <2>2, <2>5, UpdatedOldFacts
    <3>2. ActiveTwins(S, f, g, k) BY <2>2, <2>3, <3>1 DEF ActiveTwins
    <3>3. {f, g} = {old, new} /\ {"supersede", "contestOld"} \cap L # {} /\ Inserted(r)
      BY <1>6, <2>2, <3>2
    <3>4. st = "penalise" BY <1>7, <2>5, <3>3
    <3>5. {"supersede", "contestOld"} \cap L2 # {} /\ Inserts \cap L2 = {} /\ "conflict" \in L2
      BY <1>3, <3>4 DEF Order, Inserts
    <3>6. NewId(r) = new BY <1>1, <3>4 DEF MayExecute, Inserts
    <3>7. QED BY <1>8, <3>3, <3>5, <3>6 DEF Inserted
  <2>6. QED BY <1>11, <2>4, <2>5 DEF UpdatesOld
<1>12. CASE st = "contestNew"
  <2>1. /\ DOMAIN F = DOMAIN run[r].tx.rows \cup ({new} \cap DOMAIN S)
        /\ \A x \in DOMAIN F : F[x] = IF x = new THEN [S[x] EXCEPT !.status = "contested"]
                                      ELSE run[r].tx.rows[x]
    BY <1>1, <1>12, AfterRows
  <2> DEFINE next == [S[new] EXCEPT !.status = "contested"]
  <2>c. new \in DOMAIN S => next.status = "contested" BY <1>5, ContestedRow
  <2>s. /\ DOMAIN S2 = DOMAIN S
        /\ \A x \in (DOMAIN S) \ {new} : S2[x] = S[x]
        /\ new \in DOMAIN S => S2[new] = next
    BY <1>4, <1>5, <2>1
  <2> HIDE DEF next
  <2>2. /\ DOMAIN S2 = DOMAIN S
        /\ \A x \in (DOMAIN S) \ {new} : S2[x] = S[x]
        /\ new \in DOMAIN S => S2[new].status = "contested"
    BY <2>c, <2>s
  <2>3. ActiveTwins(S, f, g, k) BY <2>2 DEF ActiveTwins
  <2>4. QED BY <1>6, <1>7, <1>12, <2>2, <2>3
<1>13. QED BY <1>9, <1>10, <1>11, <1>12 DEF WritesRow

(* The search decides on a plan that leaves one active fact of its key, or *)
(* on none.                                                                *)
LEMMA SearchSeesOne ==
  ASSUME Typed, NEW r \in Runs, Searches(r), NEW k, SeesOne(r, k)
  PROVE  SeesOne(r, k)'
<1>1. run[r].pc = "find" /\ run'[r].tx = run[r].tx /\ facts' = facts
  BY DEF Searches, database
<1>2. run[r].statements = <<>> BY <1>1, RunParts DEF Shape
<1>3. \A f, g \in DOMAIN Sees(r) : ~ ActiveTwins(Sees(r), f, g, k)
  BY <1>2, NothingLeft DEF SeesOne
<1>4. Sees(r)' = Sees(r) BY <1>1 DEF Sees
<1>5. CASE Skips(r)
  <2>1. Left(run'[r].statements) = {} BY <1>5, NothingLeft DEF Skips
  <2>2. QED BY <1>3, <1>4, <2>1 DEF SeesOne
<1>6. CASE Decides(r)
  <2>1. PICK kind \in {"no_conflict", "reinforcement", "contradiction", "uncertainty"},
             old \in Ids :
          /\ run'[r].candidates = run[r].candidates
          /\ run'[r].statements = Statements(kind) /\ run'[r].old = old
          /\ IF kind = "no_conflict" THEN old = NoFact /\ ActiveMatches(r, Now(r).key) = {}
             ELSE old \in ActiveMatches(r, Now(r).key)
    BY <1>6 DEF Decides
  <2>2. ActiveMatches(r, k)' = ActiveMatches(r, k)
    <3>1. ActiveMatches(r, k)' =
            {f \in DOMAIN Sees(r)' : Sees(r)'[f].key = k /\ Sees(r)'[f].status = "active"}
      BY DEF ActiveMatches
    <3>2. QED BY <1>4, <3>1 DEF ActiveMatches
  <2>3. \A f, g \in ActiveMatches(r, k) : f = g
    BY <1>3 DEF ActiveMatches, ActiveTwins
  <2>4. "insertFirst" \in Left(Statements(kind)) => kind = "no_conflict" BY Plans
  <2>5. Now(r).key = k => ActiveMatches(r, k) \subseteq {old} BY <2>1, <2>3
  <2>6. Head(run'[r].candidates).key = Now(r).key BY <2>1 DEF Now
  <2>7. QED BY <1>3, <1>4, <2>1, <2>2, <2>4, <2>5, <2>6 DEF SeesOne
<1>7. QED BY <1>5, <1>6 DEF Searches

(* A commit leaves the rows of the keys that its memory has no candidate   *)
(* for.                                                                    *)
LEMMA PublishedRows ==
  ASSUME Typed, NEW r \in Runs, Publishes(r), OwnKeys(r), NEW k, k \notin KeysIn(r)
  PROVE  SameRows(facts, facts', k)
<1>1. /\ DOMAIN facts' = DOMAIN run[r].tx.rows \cup DOMAIN facts
      /\ \A f \in DOMAIN run[r].tx.rows : facts'[f] = run[r].tx.rows[f]
      /\ \A f \in (DOMAIN facts) \ (DOMAIN run[r].tx.rows) : facts'[f] = facts[f]
  BY Published
<1>2. \A f \in DOMAIN run[r].tx.rows :
        /\ run[r].tx.rows[f].key # k
        /\ f \in DOMAIN facts => facts[f].key # k
  BY DEF OwnKeys
<1>3. QED BY <1>1, <1>2 DEF SameRows

(* While the transactions with candidates for a key follow each other, no  *)
(* step makes a second active fact of it, whatever others do meanwhile.    *)
LEMMA NextOneActive ==
  ASSUME Typed, Apart, \A q \in Open : OwnKeys(q), NEW r \in Runs, KindOf(r), timeouts' = 0,
         NEW k, k \notin overlapped', OneActiveOf(k)
  PROVE  OneActiveOf(k)'
<1>1. /\ \A p, q \in Open : k \in KeysIn(p) /\ k \in KeysIn(q) => p = q
      /\ \A f, g \in DOMAIN facts : ~ ActiveTwins(facts, f, g, k)
      /\ \A q \in Open : k \in KeysIn(q) => SeesOne(q, k)
  BY DEF OneActiveOf
<1>2. \A q \in Runs \ {r} : run'[q] = run[q] /\ KeysIn(q)' = KeysIn(q)
  BY KindOthers, KeysInSame DEF OthersStay
<1>3. \A q \in Runs \ {r} : q \in Open' <=> q \in Open BY <1>2 DEF Open
<1>4. Open \subseteq Runs /\ Open' \subseteq Runs BY DEF Open
<1>5. CASE Execute(r) \/ Searches(r)
  <2>1. facts' = facts /\ run'[r].open = run[r].open /\ run'[r].todo = run[r].todo
    BY <1>5, Timely DEF Searches, Carried, database
  <2>2. Open' = Open /\ KeysIn(r)' = KeysIn(r)
    BY <1>2, <2>1, KeysInSame DEF Open
  <2>3. \A q \in Open : KeysIn(q)' = KeysIn(q) BY <1>2, <1>4, <2>2
  <2>4. ASSUME NEW q \in Open, k \in KeysIn(q)
        PROVE  SeesOne(q, k)'
    <3>1. SeesOne(q, k) /\ q \in Runs BY <1>1, <1>4, <2>4
    <3>2. CASE q # r
      <4>1. run'[q] = run[q] BY <1>2, <3>1, <3>2
      <4>2. Sees(q)' = Sees(q) BY <2>1, <4>1 DEF Sees
      <4>3. SameRows(Sees(q), Sees(q)', k) BY <4>2 DEF SameRows
      <4>4. QED BY <3>1, <4>1, <4>3, SeesOneStays
    <3>3. CASE q = r
      BY <1>5, <3>1, <3>3, Timely, ExecuteSeesOne, SearchSeesOne
    <3>4. QED BY <3>2, <3>3
  <2>5. QED BY <1>1, <2>1, <2>2, <2>3, <2>4 DEF OneActiveOf
<1>6. CASE Rolls(r)
  <2>1. Restarted(r) /\ facts' = facts BY <1>6 DEF Rolls, database
  <2>2. ASSUME run'[r].open
        PROVE  /\ r \notin Open
               /\ \A q \in Open : k \in KeysIn(q) => k \notin KeysIn(r)'
               /\ SeesOne(r, k)'
    <3>1. /\ r \notin Open /\ run'[r].tx = NoWrites /\ run'[r].statements = <<>>
          /\ \A q \in Open : KeysIn(q) \cap KeysOf(Min(run'[r].todo)) \subseteq overlapped'
      BY <2>1, <2>2 DEF Restarted, Open
    <3>2. KeysIn(r)' = KeysOf(Min(run'[r].todo)) BY DEF KeysIn, MemoryOf
    <3>3. DOMAIN Sees(r)' = DOMAIN facts /\ \A f \in DOMAIN facts : Sees(r)'[f] = facts[f]
      BY <2>1, <3>1, SeesNext, NoWritesFacts
    <3>4. \A f, g \in DOMAIN Sees(r)' : ~ ActiveTwins(Sees(r)', f, g, k)
      BY <1>1, <3>3 DEF ActiveTwins
    <3>5. Left(run'[r].statements) = {} BY <3>1, NothingLeft
    <3>6. SeesOne(r, k)' BY <3>4, <3>5 DEF SeesOne
    <3>7. QED BY <3>1, <3>2, <3>6
  <2>3. ASSUME NEW q \in Open' \ {r}
        PROVE  q \in Open /\ KeysIn(q)' = KeysIn(q) /\ (k \in KeysIn(q) => SeesOne(q, k)')
    <3>1. q \in Open /\ q \in Runs /\ run'[q] = run[q] /\ KeysIn(q)' = KeysIn(q)
      BY <1>2, <1>3, <1>4, <2>3
    <3>2. Sees(q)' = Sees(q) BY <2>1, <3>1 DEF Sees
    <3>3. SameRows(Sees(q), Sees(q)', k) BY <3>2 DEF SameRows
    <3>4. QED BY <1>1, <3>1, <3>3, SeesOneStays
  <2>4. r \in Open' => run'[r].open BY DEF Open
  <2>5. QED BY <1>1, <2>1, <2>2, <2>3, <2>4 DEF OneActiveOf
<1>7. CASE Publishes(r)
  <2>1. /\ run[r].pc = "commit" /\ Publish(run[r].tx) /\ Restarted(r)
    BY <1>7 DEF Publishes
  <2>2. r \in Open /\ run[r].statements = <<>> BY <2>1, RunParts DEF Shape, Open
  <2>3. Open' = Open \ {r}
    BY <1>3, <1>4, <2>1, <2>2 DEF Restarted, Open
  <2>4. \A q \in Open' : q \in Open /\ q # r /\ run'[q] = run[q] /\ KeysIn(q)' = KeysIn(q)
    BY <1>2, <1>4, <2>3
  <2>5. \A f, g \in DOMAIN facts' : ~ ActiveTwins(facts', f, g, k)
    <3>1. CASE k \in KeysIn(r)
      <4>1. \A f, g \in DOMAIN Sees(r) : ~ ActiveTwins(Sees(r), f, g, k)
        BY <1>1, <2>2, <3>1, NothingLeft DEF SeesOne
      <4>2. facts' = Sees(r) BY <2>1 DEF Publish, Sees
      <4>3. QED BY <4>1, <4>2
    <3>2. CASE k \notin KeysIn(r)
      <4>1. SameRows(facts, facts', k) BY <1>7, <2>2, <3>2, PublishedRows
      <4>2. QED BY <1>1, <4>1 DEF SameRows, ActiveTwins
    <3>3. QED BY <3>1, <3>2
  <2>6. ASSUME NEW q \in Open', k \in KeysIn(q)
        PROVE  SeesOne(q, k)'
    <3>1. q \in Open /\ q \in Runs /\ q # r /\ run'[q] = run[q] BY <1>4, <2>4
    <3>2. k \notin KeysIn(r) BY <1>1, <2>2, <2>6, <3>1
    <3>3. SameRows(facts, facts', k) BY <1>7, <2>2, <3>2, PublishedRows
    <3>4. SameRows(Sees(q), Sees(q)', k)
      <4> DEFINE S == Sees(q)
                 S2 == Sees(q)'
                 rows == run[q].tx.rows
      <4>1. /\ DOMAIN S = DOMAIN rows \cup DOMAIN facts
            /\ \A f \in DOMAIN rows : S[f] = rows[f]
            /\ \A f \in (DOMAIN facts) \ (DOMAIN rows) : S[f] = facts[f]
        BY <3>1, SeesFacts
      <4>2. /\ DOMAIN S2 = DOMAIN rows \cup DOMAIN facts'
            /\ \A f \in DOMAIN rows : S2[f] = rows[f]
            /\ \A f \in (DOMAIN facts') \ (DOMAIN rows) : S2[f] = facts'[f]
        BY <3>1, SeesNext
      <4> HIDE DEF S, S2, rows
      <4>3. SameRows(S, S2, k) BY <3>3, <4>1, <4>2 DEF SameRows
      <4>4. QED BY <4>3 DEF S, S2
    <3>5. QED BY <1>1, <2>6, <3>1, <3>4, SeesOneStays
  <2>7. QED BY <1>1, <2>4, <2>5, <2>6 DEF OneActiveOf
<1>8. QED BY <1>5, <1>6, <1>7, Timely

-----------------------------------------------------------------------------
(* What an event of a statement adds, in the counts of all facts.          *)
EventBy(r, f, e) ==
  LET st == Statement(r)
  IN  IF \/ st = "created" /\ f = NewId(r) /\ e = "created"
         \/ st = "superseded" /\ f = run[r].old /\ e = "superseded"
         \/ st = "contested" /\ f = run[r].old /\ e = "contested"
      THEN 1
      ELSE IF st = "reinforced" /\ f = run[r].old /\ e = "boost" THEN Now(r).boost ELSE 0

(* The counts of events after a statement, for every fact and entry.       *)
LEMMA AfterEvents ==
  ASSUME Typed, NEW r \in Runs, MayExecute(r)
  PROVE  \A f \in FactIds, e \in Entries :
           After(r).events[f][e] = run[r].tx.events[f][e] + EventBy(r, f, e)
<1> DEFINE W == run[r].tx
           event == Event(Statement(r), Now(r), run[r].old, NewId(r))
<1>1. /\ Statement(r) \in StatementNames /\ Now(r) \in Candidate(Keys, Values)
      /\ NewId(r) \in Ids /\ (Statement(r) \in Inserts => NewId(r) \in FactIds)
      /\ run[r].todo # {} /\ Refers(r) \subseteq DOMAIN Sees(r)
  BY RunParts DEF MayExecute, Shape
<1>2. \A f \in FactIds, e \in Entries : W.events[f][e] \in Nat BY RunParts DEF Trails
<1>3. CASE Statement(r) \in {"created", "superseded", "contested", "reinforced"}
  <2>1. \A f \in FactIds, e \in Entries :
          After(r).events[f][e] =
            W.events[f][e] + (IF f = event.fact /\ e = event.entry THEN event.by ELSE 0)
    BY <1>1, <1>3, WrittenFacts
  <2>2. \A f, e : (IF f = event.fact /\ e = event.entry THEN event.by ELSE 0) = EventBy(r, f, e)
    BY <1>3 DEF Event, EventBy
  <2> HIDE DEF event
  <2>3. QED BY <2>1, <2>2
<1>4. CASE Statement(r) \notin {"created", "superseded", "contested", "reinforced"}
  <2>1. After(r).events = W.events BY <1>1, <1>4, WrittenFacts
  <2>2. \A f, e : EventBy(r, f, e) = 0 BY <1>4 DEF EventBy
  <2>3. QED BY <1>2, <2>1, <2>2
<1>5. QED BY <1>3, <1>4

(* Events are about rows that are there.                                   *)
LEMMA NoEventsIs ==
  ASSUME NEW T \in [Entries -> Nat]
  PROVE  T = NoEvents <=> \A e \in Entries : T[e] = 0
BY DEF NoEvents

(* The counts of one fact.                                                 *)
LEMMA TrailOf ==
  ASSUME NEW T \in Trails, NEW f \in FactIds
  PROVE  T[f] \in [Entries -> Nat] /\ \A e \in Entries : T[f][e] \in Nat
BY DEF Trails

(* A statement adds events of rows that its transaction has written.       *)
LEMMA ExecuteEvents ==
  ASSUME Typed, EventsOfRows, NEW r \in Runs, Execute(r), run[r].open, HasRows(r),
         NEW f \in FactIds, f \notin DOMAIN run'[r].tx.rows
  PROVE  run'[r].tx.events[f] = NoEvents
<1> DEFINE L == Left(run[r].statements)
<1>1. MayExecute(r) /\ Carried(r) BY ExecuteFacts
<1>2. run'[r].tx = After(r) BY <1>1 DEF Carried
<1>3. f \notin DOMAIN run[r].tx.rows BY <1>1, <1>2, AfterFacts
<1>4. run[r].tx.events[f] = NoEvents BY <1>3 DEF EventsOfRows
<1>5. \A e \in Entries : run[r].tx.events[f][e] = 0
  BY <1>4, NoEventsIs, RunParts, TrailOf
<1>6. Order(Statement(r), L) BY <1>1 DEF MayExecute
<1>7. ASSUME Statement(r) = "created" PROVE NewId(r) # f
  <2>1. Inserted(r) BY <1>6, <1>7 DEF Order, Inserted, Inserts
  <2>2. NewId(r) = run[r].new BY <1>1, <1>7 DEF MayExecute, Inserts
  <2>3. QED BY <1>3, <2>1, <2>2 DEF HasRows
<1>8. ASSUME Statement(r) \in {"superseded", "contested", "reinforced"} PROVE run[r].old # f
  <2>1. \/ "reinforced" \in L /\ "reinforce" \notin L
        \/ "superseded" \in L /\ "penalise" \notin L
        \/ "contested" \in L /\ "contestOld" \notin L
    BY <1>6, <1>8 DEF Order
  <2>2. QED BY <1>3, <2>1 DEF HasRows
<1>9. \A e \in Entries : EventBy(r, f, e) = 0 BY <1>7, <1>8 DEF EventBy
<1>10. \A e \in Entries : After(r).events[f][e] = 0
  BY <1>1, <1>5, <1>9, AfterEvents
<1>11. After(r).events \in Trails BY <1>1, AfterFacts DEF Writes
<1>12. QED BY <1>2, <1>10, <1>11, NoEventsIs, TrailOf

(* No step makes an event of a row that is not there.                      *)
LEMMA NextEventsOfRows ==
  ASSUME Typed, EventsOfRows, NEW r \in Runs, KindOf(r), timeouts' = 0,
         \A q \in Runs : HasRows(q)
  PROVE  EventsOfRows'
<1>1. ASSUME NEW f \in FactIds \ (DOMAIN facts') PROVE audit'[f] = NoEvents
  <2>1. CASE ~ Publishes(r) BY <1>1, <2>1, OnlyCommits DEF database, EventsOfRows
  <2>2. CASE Publishes(r)
    <3>1. f \notin DOMAIN facts /\ f \notin DOMAIN run[r].tx.rows BY <1>1, <2>2, Published
    <3>2. audit[f] = NoEvents /\ run[r].tx.events[f] = NoEvents
      BY <3>1 DEF EventsOfRows
    <3>3. audit \in Trails /\ audit' \in Trails /\ run[r].tx.events \in Trails
      BY DatabaseStep, RunParts DEF Typed, DatabaseTyped
    <3>4. \A e \in Entries : audit[f][e] = 0 /\ run[r].tx.events[f][e] = 0
      BY <3>2, <3>3, NoEventsIs, TrailOf
    <3>5. \A e \in Entries : audit'[f][e] = audit[f][e] + run[r].tx.events[f][e]
      BY <2>2, Published
    <3>e. \A e \in Entries : audit'[f][e] = 0 BY <3>4, <3>5
    <3>6. QED BY <3>3, <3>e, NoEventsIs, TrailOf
  <2>3. QED BY <2>1, <2>2
<1>2. ASSUME NEW q \in Runs, NEW f \in FactIds \ (DOMAIN run'[q].tx.rows)
      PROVE  run'[q].tx.events[f] = NoEvents
  <2>1. CASE run'[q].tx = run[q].tx BY <1>2, <2>1 DEF EventsOfRows
  <2>2. CASE run'[q].tx = NoWrites BY <2>2, NoWritesFacts
  <2>3. CASE q = r /\ Execute(r) BY <1>2, <2>3, Timely, ExecuteEvents
  <2>4. QED
    BY <2>1, <2>2, <2>3, KindOthers, Timely
       DEF OthersStay, Publishes, Rolls, Searches, Restarted
<1>3. QED BY <1>1, <1>2 DEF EventsOfRows

-----------------------------------------------------------------------------
(* How the counts, with what is pending, change: a row that is inserted    *)
(* will be created, one that is boosted or penalised will have the event.  *)
Promised(r, f, e) ==
  LET st == Statement(r)
  IN  IF \/ st \in Inserts /\ f = FreshId /\ e = "created"
         \/ st = "penalise" /\ f = run[r].old /\ e = "superseded"
      THEN 1
      ELSE IF st = "reinforce" /\ f = run[r].old /\ e = "boost" THEN Now(r).boost ELSE 0

(* The events that are pending, entry by entry.                            *)
LEMMA PendingFacts ==
  ASSUME NEW r, NEW f
  PROVE  LET L == Left(run[r].statements)
         IN  /\ Pending(r, f)["created"] =
                  IF Inserted(r) /\ "created" \in L /\ f = run[r].new THEN 1 ELSE 0
             /\ Pending(r, f)["boost"] =
                  IF "reinforced" \in L /\ "reinforce" \notin L /\ f = run[r].old
                  THEN Head(run[r].candidates).boost ELSE 0
             /\ Pending(r, f)["superseded"] =
                  IF "superseded" \in L /\ {"insert", "penalise"} \cap L = {} /\ f = run[r].old
                  THEN 1 ELSE 0
BY DEF Pending, Entries

(* The same after a step.                                                  *)
LEMMA PendingNext ==
  ASSUME NEW r, NEW f
  PROVE  LET L == Left(run'[r].statements)
         IN  /\ Pending(r, f)'["created"] =
                  IF Inserted(r)' /\ "created" \in L /\ f = run'[r].new THEN 1 ELSE 0
             /\ Pending(r, f)'["boost"] =
                  IF "reinforced" \in L /\ "reinforce" \notin L /\ f = run'[r].old
                  THEN Head(run'[r].candidates).boost ELSE 0
             /\ Pending(r, f)'["superseded"] =
                  IF "superseded" \in L /\ {"insert", "penalise"} \cap L = {} /\ f = run'[r].old
                  THEN 1 ELSE 0
BY DEF Pending, Entries

(* A statement changes what there will be by what it promises: its own     *)
(* event was pending before, and counted.                                  *)
LEMMA WillNext ==
  ASSUME Typed, NEW r \in Runs, Execute(r), run[r].open, NEW f \in FactIds,
         NEW e \in {"created", "boost", "superseded"}
  PROVE  Will(r, f, e)' = Will(r, f, e) + Promised(r, f, e)
<1> DEFINE L == Left(run[r].statements)
           L2 == Left(run'[r].statements)
           st == Statement(r)
           b == Now(r).boost
<1>1. MayExecute(r) /\ Carried(r) BY ExecuteFacts
<1>2. run'[r].tx = After(r) BY <1>1 DEF Carried
<1>3. /\ L2 = L \ {st} /\ st \in L /\ Order(st, L) /\ st \in StatementNames
      /\ L2 # {} => /\ run'[r].old = run[r].old /\ run'[r].new = NewId(r)
                    /\ run'[r].candidates = run[r].candidates
      /\ st \in Inserts => NewId(r) = FreshId
      /\ st \notin Inserts => NewId(r) = run[r].new
  BY <1>1 DEF Carried, MayExecute
<1>e. e \in Entries BY DEF Entries
<1>n. run[r].tx.events[f][e] \in Nat BY <1>e, RunParts, TrailOf
<1>b. b \in Nat
  <2>1. Now(r) \in Candidate(Keys, Values) BY <1>1 DEF MayExecute
  <2>2. b \in 1..2 BY <2>1 DEF Candidate
  <2>3. QED BY <2>2
<1>a. \A g \in FactIds, d \in Entries :
        After(r).events[g][d] = run[r].tx.events[g][d] + EventBy(r, g, d)
  BY <1>1, AfterEvents
<1>4. /\ After(r).events[f][e] = run[r].tx.events[f][e] + EventBy(r, f, e)
      /\ run[r].tx.events[f][e] \in Nat /\ b \in Nat
  BY <1>e, <1>n, <1>b, <1>a
<1>5. Will(r, f, e) = run[r].tx.events[f][e] + Pending(r, f)[e] BY DEF Will
<1>6. Will(r, f, e)' = After(r).events[f][e] + Pending(r, f)'[e] BY <1>2 DEF Will
<1>7. /\ EventBy(r, f, e) \in Nat /\ Promised(r, f, e) \in Nat
      /\ Pending(r, f)[e] \in Nat /\ Pending(r, f)'[e] \in Nat
      /\ EventBy(r, f, e) + Pending(r, f)'[e] = Pending(r, f)[e] + Promised(r, f, e)
  <2>1. CASE e = "created"
    <3>1. Pending(r, f)["created"] = IF Inserted(r) /\ "created" \in L /\ f = run[r].new
                                     THEN 1 ELSE 0
      BY PendingFacts
    <3>2. Pending(r, f)'["created"] = IF Inserted(r)' /\ "created" \in L2 /\ f = run'[r].new
                                      THEN 1 ELSE 0
      BY PendingNext
    <3>3. EventBy(r, f, e) = IF st = "created" /\ f = NewId(r) THEN 1 ELSE 0
      BY <2>1 DEF EventBy
    <3>4. Promised(r, f, e) = IF st \in Inserts /\ f = FreshId THEN 1 ELSE 0
      BY <2>1 DEF Promised
    <3>5. CASE st \in Inserts
      <4>1. ~ Inserted(r) BY <1>3, <3>5 DEF Inserted
      <4>2. Inserted(r)' /\ "created" \in L2
        BY <1>3, <3>5 DEF Inserted, Inserts, Order
      <4>3. st # "created" BY <3>5 DEF Inserts
      <4>4. QED BY <1>3, <2>1, <3>1, <3>2, <3>3, <3>4, <3>5, <4>1, <4>2, <4>3
    <3>6. CASE st = "created"
      <4>1. Inserted(r) BY <1>3, <3>6 DEF Inserted, Inserts, Order
      <4>2. st \notin Inserts BY <3>6 DEF Inserts
      <4>3. QED BY <1>3, <2>1, <3>1, <3>2, <3>3, <3>4, <3>6, <4>1, <4>2
    <3>7. CASE st \notin Inserts /\ st # "created"
      <4>1. Inserted(r)' /\ "created" \in L2 <=> Inserted(r) /\ "created" \in L
        BY <1>3, <3>7 DEF Inserted
      <4>2. "created" \in L2 => run'[r].new = run[r].new BY <1>3, <3>7
      <4>3. QED BY <2>1, <3>1, <3>2, <3>3, <3>4, <3>7, <4>1, <4>2
    <3>8. QED BY <3>5, <3>6, <3>7
  <2>2. CASE e = "boost"
    <3>1. Pending(r, f)["boost"] = IF "reinforced" \in L /\ "reinforce" \notin L
                                      /\ f = run[r].old THEN b ELSE 0
      BY PendingFacts DEF Now
    <3>2. Pending(r, f)'["boost"] = IF "reinforced" \in L2 /\ "reinforce" \notin L2
                                       /\ f = run'[r].old
                                    THEN Head(run'[r].candidates).boost ELSE 0
      BY PendingNext
    <3>3. L2 # {} => Head(run'[r].candidates).boost = b BY <1>3 DEF Now
    <3>4. EventBy(r, f, e) = IF st = "reinforced" /\ f = run[r].old THEN b ELSE 0
      BY <2>2 DEF EventBy
    <3>5. Promised(r, f, e) = IF st = "reinforce" /\ f = run[r].old THEN b ELSE 0
      BY <2>2 DEF Promised
    <3>6. /\ st = "reinforce" => L = {"reinforce", "linkOld", "reinforced"}
          /\ st = "reinforced" => L = {"reinforced"}
      BY <1>3 DEF Order
    <3>7. QED BY <1>3, <1>4, <2>2, <3>1, <3>2, <3>3, <3>4, <3>5, <3>6
  <2>3. CASE e = "superseded"
    <3>1. Pending(r, f)["superseded"] = IF "superseded" \in L
                                           /\ {"insert", "penalise"} \cap L = {}
                                           /\ f = run[r].old THEN 1 ELSE 0
      BY PendingFacts
    <3>2. Pending(r, f)'["superseded"] = IF "superseded" \in L2
                                            /\ {"insert", "penalise"} \cap L2 = {}
                                            /\ f = run'[r].old THEN 1 ELSE 0
      BY PendingNext
    <3>3. EventBy(r, f, e) = IF st = "superseded" /\ f = run[r].old THEN 1 ELSE 0
      BY <2>3 DEF EventBy
    <3>4. Promised(r, f, e) = IF st = "penalise" /\ f = run[r].old THEN 1 ELSE 0
      BY <2>3 DEF Promised
    <3>5. /\ st = "penalise" =>
               L = {"penalise", "supersede", "linkNew", "superseded", "created", "conflict"}
          /\ st = "superseded" => L = {"superseded", "created", "conflict"}
          /\ st = "insert" /\ "superseded" \in L => "penalise" \in L
      BY <1>3 DEF Order
    <3>6. QED BY <1>3, <2>3, <3>1, <3>2, <3>3, <3>4, <3>5
  <2>4. QED BY <2>1, <2>2, <2>3
<1>8. QED BY <1>4, <1>5, <1>6, <1>7


-----------------------------------------------------------------------------
(* What a run sees is explained by what is committed and what it will have *)
(* written; more events and conflicts explain no less.                     *)
LEMMA ExplainedMore ==
  ASSUME NEW row, NEW f, NEW n \in Nat, NEW k \in Nat, n <= k, NEW P, NEW Q, P \subseteq Q,
         Explained(row, f, n, P)
  PROVE  Explained(row, f, k, Q)
BY DEF Explained, InPair

(* What is pending counts, and events of a row that a transaction has not  *)
(* written are none, now and when its plan is done.                        *)
LEMMA WillFacts ==
  ASSUME Typed, NEW r \in Runs, NEW f \in FactIds,
         NEW e \in {"created", "boost", "superseded"}
  PROVE  /\ Will(r, f, e) \in Nat
         /\ audit[f][e] \in Nat
         /\ EventsOfRows /\ HasRows(r) /\ f \notin DOMAIN run[r].tx.rows => Will(r, f, e) = 0
         /\ EventsOfRows /\ f \notin DOMAIN facts => audit[f][e] = 0
         /\ run[r].statements = <<>> => Will(r, f, e) = run[r].tx.events[f][e]
<1> DEFINE L == Left(run[r].statements)
           P == Pending(r, f)[e]
<1>1. e \in Entries BY DEF Entries
<1>2. audit \in Trails /\ run[r].tx.events \in Trails BY RunParts DEF Typed, DatabaseTyped
<1>3. audit[f][e] \in Nat /\ run[r].tx.events[f][e] \in Nat BY <1>1, <1>2, TrailOf
<1>4. P \in {0, 1} \/ (e = "boost" /\ "reinforced" \in L /\ P = Now(r).boost)
  BY PendingFacts DEF Now
<1>5. P \in Nat
  <2>1. CASE P \in {0, 1} BY <2>1
  <2>2. CASE "reinforced" \in L /\ P = Now(r).boost
    <3>1. run[r].statements # <<>> BY <2>2, NothingLeft
    <3>2. run[r].candidates # <<>> /\ run[r].candidates \in Seq(Candidate(Keys, Values))
      BY <3>1, RunParts DEF Shape
    <3>3. Now(r) \in Candidate(Keys, Values) BY <3>2 DEF Now
    <3>4. Now(r).boost \in 1..2 BY <3>3 DEF Candidate
    <3>5. QED BY <2>2, <3>4
  <2>3. QED BY <1>4, <2>1, <2>2
<1>6. Will(r, f, e) = run[r].tx.events[f][e] + P BY DEF Will
<1>7. ASSUME EventsOfRows, HasRows(r), f \notin DOMAIN run[r].tx.rows
      PROVE  Will(r, f, e) = 0
  <2>1. run[r].tx.events[f] = NoEvents BY <1>7 DEF EventsOfRows
  <2>2. run[r].tx.events[f][e] = 0 BY <1>1, <2>1 DEF NoEvents
  <2>3. P = 0 BY <1>7, PendingFacts, SMTT(30) DEF HasRows
  <2>4. QED BY <1>6, <2>2, <2>3
<1>8. ASSUME EventsOfRows, f \notin DOMAIN facts PROVE audit[f][e] = 0
  BY <1>1, <1>8 DEF EventsOfRows, NoEvents
<1>9. ASSUME run[r].statements = <<>> PROVE Will(r, f, e) = run[r].tx.events[f][e]
  <2>1. P = 0 BY <1>9, PendingFacts, NothingLeft
  <2>2. QED BY <1>3, <1>6, <2>1
<1>10. QED BY <1>3, <1>5, <1>6, <1>7, <1>8, <1>9

(* The rows a run sees.                                                    *)
LEMMA SeenExplained ==
  ASSUME Typed, NEW r \in Runs, EventsOfRows, HasRows(r), CommittedExplained,
         WrittenExplained(r), NEW f \in DOMAIN Sees(r)
  PROVE  Explained(Sees(r)[f], f, audit[f]["superseded"] + Will(r, f, "superseded"),
                   conflicts \cup run[r].tx.pairs \cup PendingPairs(r))
<1> DEFINE P == conflicts \cup run[r].tx.pairs \cup PendingPairs(r)
<1>1. f \in FactIds BY SeesFacts
<1>2. CASE f \in DOMAIN run[r].tx.rows BY <1>2, SeesFacts DEF WrittenExplained
<1>3. CASE f \notin DOMAIN run[r].tx.rows
  <2>1. f \in DOMAIN facts /\ Sees(r)[f] = facts[f] BY <1>3, SeesFacts
  <2>2. Will(r, f, "superseded") = 0 /\ audit[f]["superseded"] \in Nat
    BY <1>1, <1>3, WillFacts
  <2>3. Explained(facts[f], f, audit[f]["superseded"], conflicts)
    BY <2>1 DEF CommittedExplained
  <2>4. audit[f]["superseded"] + Will(r, f, "superseded") = audit[f]["superseded"] BY <2>2
  <2>5. conflicts \subseteq P OBVIOUS
  <2> HIDE DEF P
  <2>6. Explained(facts[f], f, audit[f]["superseded"], P)
    BY <2>2, <2>3, <2>5, ExplainedMore
  <2>7. QED BY <2>1, <2>4, <2>6 DEF P
<1>4. QED BY <1>2, <1>3

(* The confidences of the rows a run sees add up.                          *)
LEMMA SeenAddsUp ==
  ASSUME Typed, NEW r \in Runs, EventsOfRows, HasRows(r), CommittedAddUp,
         WrittenAddUp(r), NEW f \in DOMAIN Sees(r)
  PROVE  AddsUp(Sees(r)[f], audit[f]["boost"] + Will(r, f, "boost"),
                audit[f]["superseded"] + Will(r, f, "superseded"))
<1>1. f \in FactIds BY SeesFacts
<1>2. CASE f \in DOMAIN run[r].tx.rows BY <1>2, SeesFacts DEF WrittenAddUp
<1>3. CASE f \notin DOMAIN run[r].tx.rows
  <2>1. f \in DOMAIN facts /\ Sees(r)[f] = facts[f] BY <1>3, SeesFacts
  <2>2. /\ Will(r, f, "superseded") = 0 /\ audit[f]["superseded"] \in Nat
        /\ Will(r, f, "boost") = 0 /\ audit[f]["boost"] \in Nat
    BY <1>1, <1>3, WillFacts
  <2>3. AddsUp(facts[f], audit[f]["boost"], audit[f]["superseded"])
    BY <2>1 DEF CommittedAddUp
  <2>4. /\ audit[f]["superseded"] + Will(r, f, "superseded") = audit[f]["superseded"]
        /\ audit[f]["boost"] + Will(r, f, "boost") = audit[f]["boost"]
    BY <2>2
  <2>5. QED BY <2>1, <2>3, <2>4
<1>4. QED BY <1>2, <1>3

(* Clamping keeps the sum, or goes over the top or below the bottom.       *)
LEMMA AddsUpMore ==
  ASSUME NEW row \in Row, NEW next \in Row, NEW u \in Nat, NEW d \in Nat, AddsUp(row, u, d),
         next.start = row.start
  PROVE  /\ next.confidence = row.confidence => AddsUp(next, u, d)
         /\ \A b \in Nat : next.confidence = Clamp(row.confidence + b) => AddsUp(next, u + b, d)
         /\ next.confidence = Clamp(row.confidence - Penalty) => AddsUp(next, u, d + 1)
<1>1. /\ row.confidence \in 0..20 /\ row.start \in 0..20
  BY DEF Row, Full
<1>2. next.confidence = row.confidence => AddsUp(next, u, d) BY DEF AddsUp
<1>3. ASSUME NEW b \in Nat, next.confidence = Clamp(row.confidence + b)
      PROVE  AddsUp(next, u + b, d)
  BY <1>1, <1>3 DEF AddsUp, Clamp, Penalty, Full
<1>4. ASSUME next.confidence = Clamp(row.confidence - Penalty)
      PROVE  AddsUp(next, u, d + 1)
  BY <1>1, <1>4 DEF AddsUp, Clamp, Penalty, Full
<1>5. QED BY <1>2, <1>3, <1>4

(* What a plan still promises is not forgotten when a statement of it is   *)
(* executed: the link and the conflict are written or pending.             *)
LEMMA PromisesKept ==
  ASSUME Typed, NEW r \in Runs, Execute(r), run[r].open
  PROVE  /\ run[r].tx.links \subseteq run'[r].tx.links
         /\ run[r].tx.pairs \cup PendingPairs(r)
              \subseteq run'[r].tx.pairs \cup PendingPairs(r)'
         /\ \A f \in PendingLinks(r) :
              HasEvidence(run'[r].tx.links, f) \/ f \in PendingLinks(r)'
<1> DEFINE L == Left(run[r].statements)
           L2 == Left(run'[r].statements)
           st == Statement(r)
           W == run[r].tx
<1>1. MayExecute(r) /\ Carried(r) BY ExecuteFacts
<1>2. run'[r].tx = After(r) BY <1>1 DEF Carried
<1>3. /\ L2 = L \ {st} /\ st \in L /\ Order(st, L) /\ st \in StatementNames
      /\ L2 # {} => run'[r].old = run[r].old /\ run'[r].new = NewId(r)
      /\ st \notin Inserts => NewId(r) = run[r].new
  BY <1>1 DEF Carried, MayExecute
<1>4. /\ st \in StatementNames /\ Now(r) \in Candidate(Keys, Values)
      /\ NewId(r) \in Ids /\ (st \in Inserts => NewId(r) \in FactIds)
      /\ run[r].todo # {} /\ Refers(r) \subseteq DOMAIN Sees(r)
  BY <1>1, RunParts DEF MayExecute, Shape
<1>5. /\ MemoryOf(r) \in Memories
      /\ st = "linkNew" => After(r).links = W.links \cup {<<NewId(r), MemoryOf(r)>>}
      /\ st = "linkOld" => After(r).links = W.links \cup {<<run[r].old, MemoryOf(r)>>}
      /\ st \notin {"linkNew", "linkOld"} => After(r).links = W.links
      /\ st = "conflict" => After(r).pairs = W.pairs \cup {<<run[r].old, NewId(r)>>}
      /\ st # "conflict" => After(r).pairs = W.pairs
  BY <1>4, WrittenFacts
<1>6. W.links \subseteq After(r).links BY <1>5
<1>7. W.pairs \subseteq After(r).pairs BY <1>5
<1>8. ASSUME Inserted(r), {"conflict", "linkNew"} \cap L2 # {}
      PROVE  /\ Inserted(r)' /\ run'[r].old = run[r].old /\ run'[r].new = run[r].new
  <2>1. st \notin Inserts BY <1>3, <1>8 DEF Inserted
  <2>2. {"created", "conflict"} \cap L2 # {}
    BY <1>3, <1>8 DEF Order, StatementNames, WritesRow, Inserts, UpdatesOld
  <2>3. Inserts \cap L2 = {} BY <1>3, <1>8 DEF Inserted
  <2>4. QED BY <1>3, <2>1, <2>2, <2>3 DEF Inserted
<1>9. PendingPairs(r) \subseteq After(r).pairs \cup PendingPairs(r)'
  <2>1. CASE ~ (Inserted(r) /\ "conflict" \in L) BY <2>1 DEF PendingPairs
  <2>2. CASE Inserted(r) /\ "conflict" \in L
    <3>1. PendingPairs(r) = {<<run[r].old, run[r].new>>} BY <2>2 DEF PendingPairs
    <3>2. CASE st = "conflict"
      <4>1. NewId(r) = run[r].new BY <1>3, <3>2 DEF Inserts
      <4>2. QED BY <1>5, <3>1, <3>2, <4>1
    <3>3. CASE st # "conflict"
      <4>1. "conflict" \in L2 BY <1>3, <2>2, <3>3
      <4>2. PendingPairs(r)' = {<<run[r].old, run[r].new>>}
        BY <1>8, <2>2, <4>1 DEF PendingPairs
      <4>3. QED BY <3>1, <4>2
    <3>4. QED BY <3>2, <3>3
  <2>3. QED BY <2>1, <2>2
<1>10. ASSUME NEW f \in PendingLinks(r)
       PROVE  HasEvidence(After(r).links, f) \/ f \in PendingLinks(r)'
  <2>1. Inserted(r) /\ "linkNew" \in L /\ f = run[r].new BY <1>10 DEF PendingLinks
  <2>2. CASE st = "linkNew"
    <3>1. NewId(r) = run[r].new BY <1>3, <2>2 DEF Inserts
    <3>2. <<f, MemoryOf(r)>> \in After(r).links BY <1>5, <2>1, <2>2, <3>1
    <3>3. QED BY <1>5, <3>2 DEF HasEvidence
  <2>3. CASE st # "linkNew"
    <3>1. "linkNew" \in L2 BY <1>3, <2>1, <2>3
    <3>2. PendingLinks(r)' = {run[r].new} BY <1>8, <2>1, <3>1 DEF PendingLinks
    <3>3. QED BY <2>1, <3>2
  <2>4. QED BY <2>2, <2>3
<1>11. QED BY <1>2, <1>6, <1>7, <1>9, <1>10

(* Promises are about the row a statement writes.                          *)
LEMMA PromisedFacts ==
  ASSUME NEW r, NEW f
  PROVE  /\ Promised(r, f, "created") =
              IF Statement(r) \in Inserts /\ f = FreshId THEN 1 ELSE 0
         /\ Promised(r, f, "superseded") =
              IF Statement(r) = "penalise" /\ f = run[r].old THEN 1 ELSE 0
         /\ Promised(r, f, "boost") =
              IF Statement(r) = "reinforce" /\ f = run[r].old THEN Now(r).boost ELSE 0
BY DEF Promised

(* The rows of r after a statement: one it had, the new one, or one that   *)
(* it sees, updated.                                                       *)
LEMMA RowKinds ==
  ASSUME Typed, NEW r \in Runs, MayExecute(r), HasRows(r), NEW f \in DOMAIN After(r).rows
  PROVE  \/ /\ Statement(r) \in Inserts /\ f = FreshId
            /\ \E n \in 0..Full : After(r).rows[f] = NewRow(Now(r), n)
         \/ /\ Statement(r) \in UpdatesOld /\ f = run[r].old /\ f \in DOMAIN Sees(r)
            /\ After(r).rows[f] = UpdatedOld(Statement(r), Sees(r)[f], Now(r), run[r].new)
         \/ /\ Statement(r) = "contestNew" /\ f = run[r].new /\ f \in DOMAIN run[r].tx.rows
            /\ After(r).rows[f] = [Sees(r)[f] EXCEPT !.status = "contested"]
         \/ /\ f \in DOMAIN run[r].tx.rows /\ After(r).rows[f] = Sees(r)[f]
            /\ f # FreshId /\ (Statement(r) \in UpdatesOld => f # run[r].old)
<1> DEFINE W == run[r].tx
<1>1. DOMAIN W.rows \subseteq DOMAIN Sees(r) /\ \A x \in DOMAIN W.rows : Sees(r)[x] = W.rows[x]
  BY SeesFacts
<1>2. FreshId \notin DOMAIN W.rows BY FreshFacts
<1>3. CASE Statement(r) \notin WritesRow
  <2>1. After(r).rows = W.rows BY <1>3, AfterRows
  <2>2. QED BY <1>1, <1>2, <1>3, <2>1 DEF WritesRow
<1>4. CASE Statement(r) \in Inserts
  <2> DEFINE F == After(r).rows
  <2>1. /\ DOMAIN F = DOMAIN W.rows \cup {FreshId}
        /\ \/ F[FreshId] = NewRow(Now(r), StartingConfidence(Now(r)))
           \/ F[FreshId] = NewRow(Now(r), Now(r).confidence)
        /\ \A x \in DOMAIN W.rows : F[x] = W.rows[x]
    BY <1>4, AfterRows
  <2>2. Now(r) \in Candidate(Keys, Values) BY DEF MayExecute
  <2>3. Now(r).confidence \in 0..Full /\ StartingConfidence(Now(r)) \in 0..Full
    BY <2>2 DEF Candidate, StartingConfidence
  <2>4. Statement(r) \notin UpdatesOld BY <1>4 DEF Inserts, UpdatesOld
  <2> HIDE DEF F
  <2>5. CASE f = FreshId BY <1>4, <2>1, <2>3, <2>5 DEF F
  <2>6. CASE f # FreshId BY <1>1, <2>1, <2>4, <2>6 DEF F
  <2>7. QED BY <2>5, <2>6
<1>5. CASE Statement(r) \in UpdatesOld
  <2> DEFINE F == After(r).rows
             next(x) == UpdatedOld(Statement(r), Sees(r)[x], Now(r), run[r].new)
  <2>1. /\ DOMAIN F = DOMAIN W.rows \cup ({run[r].old} \cap DOMAIN Sees(r))
        /\ \A x \in DOMAIN F : F[x] = IF x = run[r].old THEN next(x) ELSE W.rows[x]
    BY <1>5, AfterRows
  <2>2. Statement(r) \notin Inserts BY <1>5 DEF Inserts, UpdatesOld
  <2> HIDE DEF F, next
  <2>3. CASE f = run[r].old
    <3>1. F[f] = next(f) /\ f \in DOMAIN Sees(r) BY <1>1, <2>1, <2>3 DEF F
    <3>2. QED BY <1>5, <2>3, <3>1 DEF F, next
  <2>4. CASE f # run[r].old BY <1>1, <1>2, <2>1, <2>4 DEF F
  <2>5. QED BY <2>3, <2>4
<1>6. CASE Statement(r) = "contestNew"
  <2> DEFINE F == After(r).rows
             next(x) == [Sees(r)[x] EXCEPT !.status = "contested"]
  <2>1. /\ DOMAIN F = DOMAIN W.rows \cup ({run[r].new} \cap DOMAIN Sees(r))
        /\ \A x \in DOMAIN F : F[x] = IF x = run[r].new THEN next(x) ELSE W.rows[x]
    BY <1>6, AfterRows
  <2>2. Inserted(r) BY <1>6 DEF MayExecute, Order, Inserted, Inserts
  <2>3. run[r].new \in DOMAIN W.rows BY <2>2 DEF HasRows
  <2>4. Statement(r) \notin UpdatesOld BY <1>6 DEF UpdatesOld
  <2> HIDE DEF F, next
  <2>5. CASE f = run[r].new
    <3>1. F[f] = next(f) BY <2>1, <2>5 DEF F
    <3>2. QED BY <1>6, <2>3, <2>5, <3>1 DEF F, next
  <2>6. CASE f # run[r].new BY <1>1, <1>2, <2>1, <2>3, <2>4, <2>6 DEF F
  <2>7. QED BY <2>5, <2>6
<1>7. QED BY <1>3, <1>4, <1>5, <1>6 DEF WritesRow

(* After a statement, the rows of its transaction are still explained.     *)
LEMMA ExecuteExplained ==
  ASSUME Typed, EventsOfRows, NEW r \in Runs, Execute(r), run[r].open, HasRows(r),
         CommittedExplained, WrittenExplained(r), facts' = facts, audit' = audit,
         conflicts' = conflicts
  PROVE  WrittenExplained(r)'
<1> DEFINE L == Left(run[r].statements)
           L2 == Left(run'[r].statements)
           st == Statement(r)
           W == run[r].tx
           old == run[r].old
           new == run[r].new
           P == conflicts \cup W.pairs \cup PendingPairs(r)
           Q == conflicts \cup run'[r].tx.pairs \cup PendingPairs(r)'
           taken(f) == audit[f]["superseded"] + Will(r, f, "superseded")
           taken2(f) == audit[f]["superseded"] + Will(r, f, "superseded")'
<1>1. MayExecute(r) /\ Carried(r) BY ExecuteFacts
<1>2. run'[r].tx = After(r) BY <1>1 DEF Carried
<1>3. /\ L2 = L \ {st} /\ st \in L /\ Order(st, L) /\ st \in StatementNames
      /\ L2 # {} => run'[r].old = run[r].old /\ run'[r].new = NewId(r)
      /\ st \in Inserts => NewId(r) = FreshId /\ FreshId \in FactIds
      /\ st \notin Inserts => NewId(r) = new
  BY <1>1 DEF Carried, MayExecute
<1>4. P \subseteq Q BY PromisesKept
<1>5. /\ DOMAIN Sees(r) = DOMAIN W.rows \cup DOMAIN facts /\ DOMAIN Sees(r) \subseteq FactIds
      /\ \A f \in DOMAIN Sees(r) : Sees(r)[f] \in Row
  BY SeesFacts
<1>6. FreshId \notin DOMAIN W.rows /\ FreshId \notin DOMAIN facts BY FreshFacts
<1> SUFFICES ASSUME NEW f \in DOMAIN After(r).rows
             PROVE  /\ Will(r, f, "created")' = IF f \in DOMAIN facts THEN 0 ELSE 1
                    /\ f \notin DOMAIN facts =>
                         HasEvidence(run'[r].tx.links, f) \/ f \in PendingLinks(r)'
                    /\ Explained(After(r).rows[f], f, taken2(f), Q)
  BY <1>2 DEF WrittenExplained
<1>7. f \in FactIds BY <1>1, AfterFacts, TableFacts DEF Writes
<1>8. /\ st \in Inserts /\ f = FreshId => After(r).rows[f].status = "active"
      /\ \/ st \in Inserts /\ f = FreshId
         \/ /\ st \in UpdatesOld /\ f = old /\ f \in DOMAIN Sees(r)
            /\ After(r).rows[f] = UpdatedOld(st, Sees(r)[f], Now(r), new)
         \/ /\ st = "contestNew" /\ f = new /\ f \in DOMAIN W.rows
            /\ After(r).rows[f] = [Sees(r)[f] EXCEPT !.status = "contested"]
         \/ /\ f \in DOMAIN W.rows /\ After(r).rows[f] = Sees(r)[f] /\ f # FreshId
            /\ (st \in UpdatesOld => f # old)
  <2>1. \A n : NewRow(Now(r), n).status = "active" BY DEF NewRow
  <2>2. st \in Inserts => st \notin UpdatesOld /\ st # "contestNew" BY DEF Inserts, UpdatesOld
  <2>3. QED BY <1>1, <2>1, <2>2, RowKinds
<1>9. /\ Will(r, f, "created")' = Will(r, f, "created") + Promised(r, f, "created")
      /\ Will(r, f, "superseded")' = Will(r, f, "superseded") + Promised(r, f, "superseded")
  BY <1>7, WillNext
<1>10. /\ Will(r, f, "created") \in Nat /\ Will(r, f, "superseded") \in Nat
       /\ audit[f]["superseded"] \in Nat
       /\ f \notin DOMAIN W.rows => Will(r, f, "created") = 0
  BY <1>7, WillFacts
<1>11. Will(r, f, "created")' = IF f \in DOMAIN facts THEN 0 ELSE 1
  <2>1. CASE st \in Inserts /\ f = FreshId
    <3>1. Promised(r, f, "created") = 1 BY <2>1, PromisedFacts
    <3>2. Will(r, f, "created") = 0 BY <1>6, <1>10, <2>1
    <3>3. QED BY <1>6, <1>9, <2>1, <3>1, <3>2
  <2>2. CASE ~ (st \in Inserts /\ f = FreshId)
    <3>1. Promised(r, f, "created") = 0 BY <2>2, PromisedFacts
    <3>2. CASE f \in DOMAIN W.rows
      <4>1. Will(r, f, "created") = IF f \in DOMAIN facts THEN 0 ELSE 1
        BY <3>2 DEF WrittenExplained
      <4>2. QED BY <1>9, <1>10, <3>1, <4>1
    <3>3. CASE f \notin DOMAIN W.rows
      <4>1. f \in DOMAIN facts BY <1>5, <1>8, <2>2, <3>3
      <4>2. QED BY <1>9, <1>10, <3>1, <3>3, <4>1
    <3>4. QED BY <3>2, <3>3
  <2>3. QED BY <2>1, <2>2
<1>12. ASSUME f \notin DOMAIN facts
       PROVE  HasEvidence(run'[r].tx.links, f) \/ f \in PendingLinks(r)'
  <2>1. CASE st \in Inserts /\ f = FreshId
    <3>1. "linkNew" \in L2 /\ "created" \in L2 /\ Inserts \cap L2 = {}
      BY <1>3, <2>1 DEF Order, Inserts
    <3>2. Inserted(r)' BY <3>1 DEF Inserted
    <3>3. run'[r].new = f BY <1>3, <2>1, <3>1
    <3>4. QED BY <3>1, <3>2, <3>3 DEF PendingLinks
  <2>2. CASE ~ (st \in Inserts /\ f = FreshId)
    <3>1. f \in DOMAIN W.rows BY <1>5, <1>8, <1>12, <2>2
    <3>2. HasEvidence(W.links, f) \/ f \in PendingLinks(r)
      BY <1>12, <3>1 DEF WrittenExplained
    <3>3. QED BY <3>2, PromisesKept DEF HasEvidence
  <2>3. QED BY <2>1, <2>2
<1>13. Promised(r, f, "superseded") \in Nat /\ taken(f) \in Nat /\ taken2(f) \in Nat
         /\ taken(f) <= taken2(f)
  <2>1. Promised(r, f, "superseded") \in {0, 1} BY PromisedFacts
  <2>2. QED BY <1>9, <1>10, <2>1
<1>14. ASSUME f \in DOMAIN Sees(r) PROVE Explained(Sees(r)[f], f, taken2(f), Q)
  <2>1. Explained(Sees(r)[f], f, taken(f), P) BY <1>14, SeenExplained
  <2> HIDE DEF taken, taken2, P, Q
  <2>2. QED BY <1>4, <1>13, <2>1, ExplainedMore
<1>15. Explained(After(r).rows[f], f, taken2(f), Q)
  <2> HIDE DEF taken, taken2, P, Q
  <2> DEFINE next == After(r).rows[f]
  <2>1. CASE st \in Inserts /\ f = FreshId
    <3>1. next.status = "active" BY <1>8, <2>1
    <3> HIDE DEF next
    <3>2. QED BY <3>1 DEF Explained, next
  <2>2. CASE /\ st \in UpdatesOld /\ f = old /\ f \in DOMAIN Sees(r)
             /\ next = UpdatedOld(st, Sees(r)[f], Now(r), new)
    <3>1. Sees(r)[f] \in Row BY <1>5, <2>2
    <3>2. CASE st \in {"reinforce", "penalise"}
      <4>1. next.status = Sees(r)[f].status /\ next.supersededBy = Sees(r)[f].supersededBy
        BY <2>2, <3>1, <3>2, UpdatedOldFacts
      <4> HIDE DEF next
      <4>2. Explained(next, f, taken2(f), Q) BY <1>14, <2>2, <4>1 DEF Explained
      <4>3. QED BY <4>2 DEF next
    <3>3. ASSUME st \in {"supersede", "contestOld"}
          PROVE  <<old, new>> \in Q /\ new \in FactIds
      <4>1. Inserted(r) /\ "conflict" \in L BY <1>3, <3>3 DEF Order, Inserted, Inserts
      <4>2. <<old, new>> \in P BY <4>1 DEF PendingPairs, P
      <4>3. new \in DOMAIN W.rows BY <4>1 DEF HasRows
      <4>4. QED BY <1>4, <1>5, <4>2, <4>3
    <3>4. CASE st = "supersede"
      <4>1. next.status = "superseded" /\ next.supersededBy = new
        BY <2>2, <3>1, <3>4, UpdatedOldFacts
      <4>2. taken2(f) >= 1
        <5>1. /\ "superseded" \in L /\ {"insert", "penalise"} \cap L = {}
          BY <1>3, <3>4 DEF Order
        <5>2. Pending(r, f)["superseded"] = 1 BY <2>2, <5>1, PendingFacts
        <5>3. run[r].tx.events[f]["superseded"] \in Nat
          BY <1>7, RunParts, TrailOf DEF Entries
        <5>4. Will(r, f, "superseded") >= 1 BY <5>2, <5>3 DEF Will
        <5>5. taken(f) >= 1 BY <1>10, <5>4 DEF taken
        <5>6. QED BY <1>13, <5>5
      <4> HIDE DEF next
      <4>3. Explained(next, f, taken2(f), Q) BY <2>2, <3>3, <3>4, <4>1, <4>2 DEF Explained
      <4>4. QED BY <4>3 DEF next
    <3>5. CASE st = "contestOld"
      <4>1. next.status = "contested" BY <2>2, <3>1, <3>5, UpdatedOldFacts
      <4>2. InPair(Q, f) BY <2>2, <3>3, <3>5 DEF InPair
      <4> HIDE DEF next
      <4>3. Explained(next, f, taken2(f), Q) BY <4>1, <4>2 DEF Explained
      <4>4. QED BY <4>3 DEF next
    <3>6. QED BY <2>2, <3>2, <3>4, <3>5 DEF UpdatesOld
  <2>3. CASE /\ st = "contestNew" /\ f = new /\ f \in DOMAIN W.rows
             /\ next = [Sees(r)[f] EXCEPT !.status = "contested"]
    <3>1. f \in DOMAIN Sees(r) /\ Sees(r)[f] \in Row BY <1>5, <2>3
    <3>2. next.status = "contested" BY <2>3, <3>1, ContestedRow
    <3>3. Inserted(r) /\ "conflict" \in L BY <1>3, <2>3 DEF Order, Inserted, Inserts
    <3>4. <<old, new>> \in Q BY <1>4, <3>3 DEF PendingPairs, P
    <3>5. old \in FactIds BY <1>5, <3>3 DEF HasRows
    <3>6. InPair(Q, f) BY <2>3, <3>4, <3>5 DEF InPair
    <3> HIDE DEF next
    <3>7. Explained(next, f, taken2(f), Q) BY <3>2, <3>6 DEF Explained
    <3>8. QED BY <3>7 DEF next
  <2>4. CASE f \in DOMAIN W.rows /\ next = Sees(r)[f]
    BY <1>5, <1>14, <2>4
  <2>5. QED BY <1>8, <2>1, <2>2, <2>3, <2>4
<1>16. QED BY <1>11, <1>12, <1>15

(* ... and their confidences still add up.                                 *)
LEMMA ExecuteAddUp ==
  ASSUME Typed, EventsOfRows, NEW r \in Runs, Execute(r), run[r].open, HasRows(r),
         CommittedAddUp, WrittenAddUp(r), facts' = facts, audit' = audit
  PROVE  WrittenAddUp(r)'
<1> DEFINE st == Statement(r)
           u(f) == audit[f]["boost"] + Will(r, f, "boost")
           d(f) == audit[f]["superseded"] + Will(r, f, "superseded")
           u2(f) == audit[f]["boost"] + Will(r, f, "boost")'
           d2(f) == audit[f]["superseded"] + Will(r, f, "superseded")'
           old == run[r].old
           next(f) == After(r).rows[f]
<1>1. MayExecute(r) /\ Carried(r) BY ExecuteFacts
<1>2. run'[r].tx = After(r) BY <1>1 DEF Carried
<1> SUFFICES ASSUME NEW f \in DOMAIN After(r).rows
             PROVE  AddsUp(next(f), u2(f), d2(f))
  BY <1>2 DEF WrittenAddUp
<1>3. f \in FactIds /\ next(f) \in Row BY <1>1, AfterFacts, TableFacts DEF Writes
<1>4. FreshId \notin DOMAIN run[r].tx.rows /\ FreshId \notin DOMAIN facts BY FreshFacts
<1>5. /\ Will(r, f, "boost")' = Will(r, f, "boost") + Promised(r, f, "boost")
      /\ Will(r, f, "superseded")' = Will(r, f, "superseded") + Promised(r, f, "superseded")
  BY <1>3, WillNext
<1>6. /\ Will(r, f, "boost") \in Nat /\ Will(r, f, "superseded") \in Nat
      /\ audit[f]["superseded"] \in Nat /\ audit[f]["boost"] \in Nat
      /\ f \notin DOMAIN run[r].tx.rows => Will(r, f, "boost") = 0 /\ Will(r, f, "superseded") = 0
      /\ f \notin DOMAIN facts => audit[f]["superseded"] = 0 /\ audit[f]["boost"] = 0
  BY <1>3, WillFacts
<1>7. /\ Promised(r, f, "superseded") = IF st = "penalise" /\ f = old THEN 1 ELSE 0
      /\ Promised(r, f, "boost") = IF st = "reinforce" /\ f = old THEN Now(r).boost ELSE 0
  BY PromisedFacts
<1>8. Now(r).boost \in Nat
  <2>1. Now(r) \in Candidate(Keys, Values) BY <1>1 DEF MayExecute
  <2>2. Now(r).boost \in 1..2 BY <2>1 DEF Candidate
  <2>3. QED BY <2>2
<1>9. ASSUME f \in DOMAIN Sees(r)
      PROVE  AddsUp(Sees(r)[f], u(f), d(f)) /\ u(f) \in Nat /\ d(f) \in Nat /\ Sees(r)[f] \in Row
  <2>1. u(f) \in Nat /\ d(f) \in Nat BY <1>6
  <2>2. AddsUp(Sees(r)[f], u(f), d(f)) BY <1>9, SeenAddsUp
  <2>3. Sees(r)[f] \in Row BY <1>9, SeesFacts
  <2>4. QED BY <2>1, <2>2, <2>3
<1>10. CASE st \in Inserts /\ f = FreshId
  <2>1. PICK n \in 0..Full : next(f) = NewRow(Now(r), n)
    BY <1>1, <1>4, <1>10, RowKinds DEF Inserts, UpdatesOld
  <2>2. next(f).start = n /\ next(f).confidence = n BY <2>1 DEF NewRow
  <2>3. u2(f) = 0 /\ d2(f) = 0 BY <1>4, <1>5, <1>6, <1>7, <1>10 DEF Inserts
  <2> HIDE DEF next, u2, d2
  <2>4. n \in Int BY DEF Full
  <2>5. QED BY <2>2, <2>3, <2>4 DEF AddsUp, Penalty
<1>11. CASE /\ st \in UpdatesOld /\ f = old /\ f \in DOMAIN Sees(r)
            /\ next(f) = UpdatedOld(st, Sees(r)[f], Now(r), run[r].new)
  <2>1. /\ next(f).start = Sees(r)[f].start
        /\ st = "reinforce" => next(f).confidence = Clamp(Sees(r)[f].confidence + Now(r).boost)
        /\ st = "penalise" => next(f).confidence = Clamp(Sees(r)[f].confidence - Penalty)
        /\ st \in {"supersede", "contestOld"} => next(f).confidence = Sees(r)[f].confidence
    BY <1>9, <1>11, UpdatedOldFacts
  <2>2. CASE st = "reinforce"
    <3>1. u2(f) = u(f) + Now(r).boost /\ d2(f) = d(f) BY <1>5, <1>6, <1>7, <1>8, <1>11, <2>2
    <3> HIDE DEF next, u, d, u2, d2
    <3>2. AddsUp(next(f), u(f) + Now(r).boost, d(f))
      BY <1>3, <1>8, <1>9, <1>11, <2>1, <2>2, AddsUpMore
    <3>3. QED BY <3>1, <3>2
  <2>3. CASE st = "penalise"
    <3>1. u2(f) = u(f) /\ d2(f) = d(f) + 1 BY <1>5, <1>6, <1>7, <1>11, <2>3
    <3> HIDE DEF next, u, d, u2, d2
    <3>2. AddsUp(next(f), u(f), d(f) + 1)
      BY <1>3, <1>9, <1>11, <2>1, <2>3, AddsUpMore
    <3>3. QED BY <3>1, <3>2
  <2>4. CASE st \in {"supersede", "contestOld"}
    <3>1. u2(f) = u(f) /\ d2(f) = d(f) BY <1>5, <1>6, <1>7, <2>4
    <3> HIDE DEF next, u, d, u2, d2
    <3>2. AddsUp(next(f), u(f), d(f))
      BY <1>3, <1>9, <1>11, <2>1, <2>4, AddsUpMore
    <3>3. QED BY <3>1, <3>2
  <2>5. QED BY <1>11, <2>2, <2>3, <2>4 DEF UpdatesOld
<1>12. CASE \/ /\ st = "contestNew" /\ f \in DOMAIN run[r].tx.rows
               /\ next(f) = [Sees(r)[f] EXCEPT !.status = "contested"]
            \/ /\ f \in DOMAIN run[r].tx.rows /\ next(f) = Sees(r)[f]
               /\ (st \in UpdatesOld => f # old)
  <2>1. f \in DOMAIN Sees(r) BY <1>12, SeesFacts
  <2>2. u2(f) = u(f) /\ d2(f) = d(f)
    BY <1>5, <1>6, <1>7, <1>12 DEF UpdatesOld
  <2>3. next(f).start = Sees(r)[f].start /\ next(f).confidence = Sees(r)[f].confidence
    BY <1>9, <1>12, <2>1, ContestedRow
  <2> HIDE DEF next, u, d, u2, d2
  <2>4. AddsUp(next(f), u(f), d(f)) BY <1>3, <1>9, <2>1, <2>3, AddsUpMore
  <2>5. QED BY <2>2, <2>4
<1>13. QED BY <1>1, <1>10, <1>11, <1>12, RowKinds

-----------------------------------------------------------------------------
(* A step that is neither a statement nor a commit leaves what is pending. *)
LEMMA SearchWill ==
  ASSUME Typed, NEW r \in Runs, Searches(r), NEW f \in FactIds
  PROVE  /\ \A e \in {"created", "boost", "superseded"} : Will(r, f, e)' = Will(r, f, e)
         /\ PendingLinks(r) = {} /\ PendingPairs(r) = {}
<1> DEFINE L2 == Left(run'[r].statements)
<1>1. run[r].statements = <<>> /\ run'[r].tx = run[r].tx
  BY RunParts DEF Searches, Shape
<1>2. PendingLinks(r) = {} /\ PendingPairs(r) = {}
  BY <1>1, NothingLeft DEF PendingLinks, PendingPairs
<1>3. \/ L2 = {}
      \/ L2 \in {{"insertFirst", "linkNew", "created"},
                 {"reinforce", "linkOld", "reinforced"},
                 {"insert", "penalise", "supersede", "linkNew", "superseded", "created",
                  "conflict"},
                 {"insert", "contestOld", "contestNew", "linkNew", "contested", "created",
                  "conflict"}}
  <2>1. CASE Skips(r) BY <2>1, NothingLeft DEF Skips
  <2>2. CASE Decides(r)
    <3>1. PICK kind \in {"no_conflict", "reinforcement", "contradiction", "uncertainty"} :
            run'[r].statements = Statements(kind)
      BY <2>2 DEF Decides
    <3>2. QED BY <3>1, Plans
  <2>3. QED BY <2>1, <2>2 DEF Searches
<1>4. /\ ~ Inserted(r)'
      /\ "reinforced" \in L2 => "reinforce" \in L2
      /\ "superseded" \in L2 => "insert" \in L2
  <2>1. /\ ~ (Inserts \cap L2 = {} /\ {"created", "conflict"} \cap L2 # {})
        /\ "reinforced" \in L2 => "reinforce" \in L2
        /\ "superseded" \in L2 => "insert" \in L2
    <3> HIDE DEF L2
    <3>1. QED BY <1>3 DEF Inserts
  <2>2. QED BY <2>1 DEF Inserted
<1>5. /\ Pending(r, f)'["created"] = 0 /\ Pending(r, f)'["boost"] = 0
      /\ Pending(r, f)'["superseded"] = 0
  BY <1>4, PendingNext
<1>6. /\ Pending(r, f)["created"] = 0 /\ Pending(r, f)["boost"] = 0
      /\ Pending(r, f)["superseded"] = 0
  BY <1>1, PendingFacts, NothingLeft
<1>7. ASSUME NEW e \in {"created", "boost", "superseded"}
      PROVE  Will(r, f, e)' = Will(r, f, e)
  <2>1. Will(r, f, e)' = run'[r].tx.events[f][e] + Pending(r, f)'[e] BY DEF Will
  <2>2. Will(r, f, e) = run[r].tx.events[f][e] + Pending(r, f)[e] BY DEF Will
  <2>3. Pending(r, f)'[e] = Pending(r, f)[e] BY <1>5, <1>6
  <2>4. QED BY <1>1, <2>1, <2>2, <2>3
<1>8. QED BY <1>2, <1>7

(* The rows of a transaction stay accounted for, while another commits and *)
(* while it searches.                                                      *)
LEMMA OthersAccounted ==
  ASSUME Typed, Apart, EventsOfRows, NEW r \in Runs, KindOf(r), timeouts' = 0,
         NEW q \in Runs \ {r}, WrittenExplained(q), WrittenAddUp(q)
  PROVE  WrittenExplained(q)' /\ WrittenAddUp(q)'
<1>1. run'[q] = run[q] BY KindOthers DEF OthersStay
<1>2. /\ \A f, e : Will(q, f, e)' = Will(q, f, e)
      /\ PendingLinks(q)' = PendingLinks(q) /\ PendingPairs(q)' = PendingPairs(q)
  BY <1>1 DEF Will, Pending, PendingLinks, PendingPairs, Inserted
<1>3. ASSUME NEW f \in DOMAIN run[q].tx.rows
      PROVE  /\ f \in DOMAIN facts' <=> f \in DOMAIN facts
             /\ \A e \in Entries : audit'[f][e] = audit[f][e]
             /\ conflicts \subseteq conflicts'
             /\ f \in FactIds
  <2>1. f \in FactIds BY RunParts, TableFacts
  <2>2. CASE ~ Publishes(r) BY <2>1, <2>2, OnlyCommits DEF database
  <2>3. CASE Publishes(r)
    <3>1. f \notin DOMAIN run[r].tx.rows BY DEF Apart
    <3>2. run[r].tx.events[f] = NoEvents BY <2>1, <3>1 DEF EventsOfRows
    <3>3. \A e \in Entries : run[r].tx.events[f][e] = 0 /\ audit[f][e] \in Nat
      BY <2>1, <3>2, TrailOf DEF NoEvents, Typed, DatabaseTyped
    <3>4. \A e \in Entries : audit'[f][e] = audit[f][e] + run[r].tx.events[f][e]
      BY <2>1, <2>3, Published
    <3>5. \A e \in Entries : audit'[f][e] = audit[f][e] BY <3>3, <3>4
    <3>6. QED BY <2>1, <2>3, <3>1, <3>5, Published
  <2>4. QED BY <2>2, <2>3
<1>4. WrittenExplained(q)'
  <2> SUFFICES ASSUME NEW f \in DOMAIN run'[q].tx.rows
               PROVE  /\ Will(q, f, "created")' = IF f \in DOMAIN facts' THEN 0 ELSE 1
                      /\ f \notin DOMAIN facts' =>
                           HasEvidence(run'[q].tx.links, f) \/ f \in PendingLinks(q)'
                      /\ Explained(run'[q].tx.rows[f], f,
                                   audit'[f]["superseded"] + Will(q, f, "superseded")',
                                   conflicts' \cup run'[q].tx.pairs \cup PendingPairs(q)')
    BY DEF WrittenExplained
  <2> DEFINE P == conflicts \cup run[q].tx.pairs \cup PendingPairs(q)
             Q == conflicts' \cup run'[q].tx.pairs \cup PendingPairs(q)'
             n == audit[f]["superseded"] + Will(q, f, "superseded")
             n2 == audit'[f]["superseded"] + Will(q, f, "superseded")'
  <2>0. f \in DOMAIN run[q].tx.rows BY <1>1
  <2>1. /\ Explained(run[q].tx.rows[f], f, n, P)
        /\ Will(q, f, "created") = IF f \in DOMAIN facts THEN 0 ELSE 1
        /\ f \notin DOMAIN facts => HasEvidence(run[q].tx.links, f) \/ f \in PendingLinks(q)
    BY <2>0 DEF WrittenExplained
  <2>2. P \subseteq Q BY <1>1, <1>2, <1>3, <2>0
  <2>3. n \in Nat BY <1>3, <2>0, WillFacts
  <2>4. n2 = n
    <3>1. "superseded" \in Entries BY DEF Entries
    <3>2. QED BY <1>2, <1>3, <2>0, <3>1
  <2> HIDE DEF P, Q, n, n2
  <2>5. Explained(run[q].tx.rows[f], f, n, Q) BY <2>1, <2>2, <2>3, ExplainedMore
  <2>6. Explained(run'[q].tx.rows[f], f, n2, Q) BY <1>1, <2>4, <2>5
  <2>7. Will(q, f, "created")' = IF f \in DOMAIN facts' THEN 0 ELSE 1
    BY <1>2, <1>3, <2>0, <2>1
  <2>8. f \notin DOMAIN facts' => HasEvidence(run'[q].tx.links, f) \/ f \in PendingLinks(q)'
    BY <1>1, <1>2, <1>3, <2>0, <2>1
  <2>9. QED BY <2>6, <2>7, <2>8 DEF Q, n2
<1>5. WrittenAddUp(q)'
  BY <1>1, <1>2, <1>3 DEF WrittenAddUp, Entries
<1>6. QED BY <1>4, <1>5

(* No step leaves a written row without an account, of whichever           *)
(* transaction it is.                                                      *)
LEMMA NextWrittenAccounted ==
  ASSUME Typed, Apart, EventsOfRows, NEW r \in Runs, KindOf(r), timeouts' = 0,
         \A q \in Runs : HasRows(q), CommittedExplained, CommittedAddUp,
         NEW q \in Runs, WrittenExplained(q), WrittenAddUp(q)
  PROVE  WrittenExplained(q)' /\ WrittenAddUp(q)'
<1>1. CASE q # r BY <1>1, OthersAccounted
<1>2. CASE q = r /\ (Publishes(r) \/ Rolls(r))
  <2>1. run'[q].tx = NoWrites BY <1>2 DEF Publishes, Rolls, Restarted
  <2>2. DOMAIN run'[q].tx.rows = {} BY <2>1, NoWritesFacts
  <2>3. QED BY <2>2 DEF WrittenExplained, WrittenAddUp
<1>3. CASE q = r /\ Searches(r)
  <2>1. run'[r].tx = run[r].tx /\ UNCHANGED database BY <1>3 DEF Searches
  <2>2. \A f \in DOMAIN run[r].tx.rows : f \in FactIds BY RunParts, TableFacts
  <2>3. ASSUME NEW f \in DOMAIN run[r].tx.rows
        PROVE  /\ \A e \in {"created", "boost", "superseded"} : Will(r, f, e)' = Will(r, f, e)
               /\ PendingLinks(r) = {} /\ PendingPairs(r) = {}
    BY <1>3, <2>2, SearchWill
  <2>4. WrittenExplained(r)'
    <3> SUFFICES ASSUME NEW f \in DOMAIN run[r].tx.rows
                 PROVE  /\ Will(r, f, "created")' = IF f \in DOMAIN facts THEN 0 ELSE 1
                        /\ f \notin DOMAIN facts =>
                             HasEvidence(run[r].tx.links, f) \/ f \in PendingLinks(r)'
                        /\ Explained(run[r].tx.rows[f], f,
                                     audit[f]["superseded"] + Will(r, f, "superseded")',
                                     conflicts \cup run[r].tx.pairs \cup PendingPairs(r)')
      BY <2>1 DEF WrittenExplained, database
    <3> DEFINE P == conflicts \cup run[r].tx.pairs \cup PendingPairs(r)
               Q == conflicts \cup run[r].tx.pairs \cup PendingPairs(r)'
               n == audit[f]["superseded"] + Will(r, f, "superseded")
    <3>1. /\ Explained(run[r].tx.rows[f], f, n, P)
          /\ Will(r, f, "created") = IF f \in DOMAIN facts THEN 0 ELSE 1
          /\ f \notin DOMAIN facts => HasEvidence(run[r].tx.links, f)
      BY <1>3, <2>3 DEF WrittenExplained
    <3>2. P \subseteq Q BY <2>3
    <3>3. n \in Nat BY <2>2, WillFacts
    <3> HIDE DEF P, Q, n
    <3>4. Explained(run[r].tx.rows[f], f, n, Q) BY <3>1, <3>2, <3>3, ExplainedMore
    <3>5. QED BY <2>3, <3>1, <3>4 DEF Q, n
  <2>5. WrittenAddUp(r)'
    BY <1>3, <2>1, <2>3 DEF WrittenAddUp, database
  <2>6. QED BY <1>3, <2>4, <2>5
<1>4. CASE q = r /\ Execute(r)
  <2>1. run[r].open /\ UNCHANGED database BY <1>4, Timely
  <2>2. facts' = facts /\ audit' = audit /\ conflicts' = conflicts BY <2>1 DEF database
  <2>3. WrittenExplained(r)' BY <1>4, <2>1, <2>2, ExecuteExplained
  <2>4. WrittenAddUp(r)' BY <1>4, <2>1, <2>2, ExecuteAddUp
  <2>5. QED BY <1>4, <2>3, <2>4
<1>5. QED BY <1>1, <1>2, <1>3, <1>4, Timely

(* A commit leaves no plan open: what the transaction will have written,   *)
(* it has, and the committed rows are accounted for.                       *)
LEMMA NextCommittedAccounted ==
  ASSUME Typed, EventsOfRows, NEW r \in Runs, KindOf(r), timeouts' = 0,
         HasRows(r), CommittedExplained, CommittedAddUp, WrittenExplained(r), WrittenAddUp(r)
  PROVE  CommittedExplained' /\ CommittedAddUp'
<1>1. CASE ~ Publishes(r)
  <2>1. UNCHANGED database BY <1>1, OnlyCommits
  <2>2. facts' = facts /\ evidence' = evidence /\ audit' = audit /\ conflicts' = conflicts
    BY <2>1 DEF database
  <2>3. CommittedExplained' BY <2>2 DEF CommittedExplained
  <2>4. CommittedAddUp' BY <2>2 DEF CommittedAddUp
  <2>5. QED BY <2>3, <2>4
<1>2. CASE Publishes(r)
  <2> DEFINE W == run[r].tx
  <2>1. /\ DOMAIN facts' = DOMAIN W.rows \cup DOMAIN facts
        /\ \A f \in DOMAIN W.rows : facts'[f] = W.rows[f]
        /\ \A f \in (DOMAIN facts) \ (DOMAIN W.rows) : facts'[f] = facts[f]
        /\ evidence' = evidence \cup W.links /\ conflicts' = conflicts \cup W.pairs
        /\ run[r].statements = <<>>
        /\ \A f \in FactIds, e \in Entries : audit'[f][e] = audit[f][e] + W.events[f][e]
    BY <1>2, Published
  <2>2. PendingLinks(r) = {} /\ PendingPairs(r) = {}
    BY <2>1, NothingLeft DEF PendingLinks, PendingPairs
  <2>3. ASSUME NEW f \in DOMAIN facts', NEW e \in {"created", "boost", "superseded"}
        PROVE  /\ audit'[f][e] = audit[f][e] + Will(r, f, e)
               /\ Will(r, f, e) \in Nat /\ audit[f][e] \in Nat
               /\ f \notin DOMAIN W.rows => Will(r, f, e) = 0
               /\ f \notin DOMAIN facts => audit[f][e] = 0
    <3>1. f \in FactIds BY <2>1, SeesFacts
    <3>2. e \in Entries BY DEF Entries
    <3>3. audit'[f][e] = audit[f][e] + W.events[f][e] BY <2>1, <3>1, <3>2
    <3>4. QED BY <2>1, <3>1, <3>3, WillFacts
  <2> HIDE DEF W
  <2>4. CommittedExplained'
    <3> SUFFICES ASSUME NEW f \in DOMAIN facts'
                 PROVE  /\ audit'[f]["created"] = 1
                        /\ HasEvidence(evidence', f)
                        /\ Explained(facts'[f], f, audit'[f]["superseded"], conflicts')
      BY DEF CommittedExplained
    <3>1. CASE f \in DOMAIN W.rows
      <4>1. /\ Will(r, f, "created") = IF f \in DOMAIN facts THEN 0 ELSE 1
            /\ f \notin DOMAIN facts => HasEvidence(W.links, f)
            /\ Explained(W.rows[f], f, audit[f]["superseded"] + Will(r, f, "superseded"),
                         conflicts \cup W.pairs \cup PendingPairs(r))
        BY <2>2, <3>1 DEF WrittenExplained, W
      <4>2. f \in DOMAIN facts => audit[f]["created"] = 1 /\ HasEvidence(evidence, f)
        BY DEF CommittedExplained
      <4>3. audit'[f]["created"] = 1
        <5>1. CASE f \in DOMAIN facts BY <2>3, <4>1, <4>2, <5>1
        <5>2. CASE f \notin DOMAIN facts BY <2>3, <4>1, <5>2
        <5>3. QED BY <5>1, <5>2
      <4>4. HasEvidence(evidence', f) BY <2>1, <4>1, <4>2 DEF HasEvidence
      <4>5. conflicts \cup W.pairs \cup PendingPairs(r) = conflicts' BY <2>1, <2>2
      <4>6. QED BY <2>1, <2>3, <3>1, <4>1, <4>3, <4>4, <4>5
    <3>2. CASE f \notin DOMAIN W.rows
      <4>1. f \in DOMAIN facts /\ facts'[f] = facts[f] BY <2>1, <3>2
      <4>2. /\ audit'[f]["created"] = audit[f]["created"]
            /\ audit'[f]["superseded"] = audit[f]["superseded"]
            /\ audit[f]["superseded"] \in Nat
        BY <2>3, <3>2
      <4>3. /\ audit[f]["created"] = 1 /\ HasEvidence(evidence, f)
            /\ Explained(facts[f], f, audit[f]["superseded"], conflicts)
        BY <4>1 DEF CommittedExplained
      <4>4. Explained(facts[f], f, audit[f]["superseded"], conflicts')
        BY <2>1, <4>2, <4>3, ExplainedMore
      <4>5. HasEvidence(evidence', f) BY <2>1, <4>3 DEF HasEvidence
      <4>6. QED BY <4>1, <4>2, <4>3, <4>4, <4>5
    <3>3. QED BY <3>1, <3>2
  <2>5. CommittedAddUp'
    <3> SUFFICES ASSUME NEW f \in DOMAIN facts'
                 PROVE  AddsUp(facts'[f], audit'[f]["boost"], audit'[f]["superseded"])
      BY DEF CommittedAddUp
    <3>1. CASE f \in DOMAIN W.rows
      BY <2>1, <2>3, <3>1 DEF WrittenAddUp, W
    <3>2. CASE f \notin DOMAIN W.rows
      <4>1. f \in DOMAIN facts /\ facts'[f] = facts[f] BY <2>1, <3>2
      <4>2. /\ audit'[f]["boost"] = audit[f]["boost"]
            /\ audit'[f]["superseded"] = audit[f]["superseded"]
        BY <2>3, <3>2
      <4>3. QED BY <4>1, <4>2 DEF CommittedAddUp
    <3>3. QED BY <3>1, <3>2
  <2>6. QED BY <2>4, <2>5
<1>3. QED BY <1>1, <1>2

-----------------------------------------------------------------------------
(* The inductive invariant.                                                *)
LEMMA InitIInv == Init => IInv
<1> SUFFICES ASSUME Init PROVE IInv
  OBVIOUS
<1>1. Typed BY InitTyped
<1>2. facts = <<>> /\ DOMAIN facts = {} /\ audit = [f \in FactIds |-> NoEvents]
  BY DEF Init
<1>3. ASSUME NEW r \in Runs
      PROVE  /\ run[r].statements = <<>> /\ ~ run[r].open /\ run[r].tx = NoWrites
             /\ DOMAIN run[r].tx.rows = {} /\ Left(run[r].statements) = {}
  BY NothingLeft, NoWritesFacts DEF Init, IdleRun
<1>4. AllPointOn BY <1>2, <1>3 DEF AllPointOn, PointsOn, SupersedesNext
<1>5. Open = {} /\ \A k : OneActiveOf(k) BY <1>2, <1>3 DEF OneActiveOf, Open
<1>6. Apart /\ \A r \in Runs : HasRows(r)
  BY <1>3 DEF Apart, HasRows, Inserted
<1>7. EventsOfRows BY <1>2, <1>3, NoWritesFacts DEF EventsOfRows
<1>8. CommittedExplained /\ CommittedAddUp BY <1>2 DEF CommittedExplained, CommittedAddUp
<1>9. \A r \in Runs : WrittenExplained(r) /\ WrittenAddUp(r)
  BY <1>3 DEF WrittenExplained, WrittenAddUp
<1>10. QED BY <1>1, <1>4, <1>5, <1>6, <1>7, <1>8, <1>9 DEF IInv, Accounted

(* A step that changes nothing keeps the inductive invariant.              *)
LEMMA StutterIInv == IInv /\ UNCHANGED vars => IInv'
<1> SUFFICES ASSUME IInv, UNCHANGED vars PROVE IInv'
  OBVIOUS
<1>1. /\ facts' = facts /\ evidence' = evidence /\ audit' = audit /\ conflicts' = conflicts
      /\ jobs' = jobs /\ run' = run /\ faults' = faults /\ timeouts' = timeouts
      /\ overlapped' = overlapped
  BY DEF vars
<1>2. \A r : Sees(r)' = Sees(r) BY <1>1 DEF Sees
<1>3. Typed' BY NextTyped DEF IInv
<1>4. AllPointOn' BY <1>1, <1>2 DEF IInv, AllPointOn, SupersedesNext
<1>5. Accounted' = Accounted
  <2>1. Apart' = Apart /\ EventsOfRows' = EventsOfRows BY <1>1 DEF Apart, EventsOfRows
  <2>2. \A r : HasRows(r)' = HasRows(r) BY <1>1, <1>2 DEF HasRows, Inserted
  <2>3. CommittedExplained' = CommittedExplained /\ CommittedAddUp' = CommittedAddUp
    BY <1>1 DEF CommittedExplained, CommittedAddUp
  <2>4. \A r, f : Pending(r, f)' = Pending(r, f) BY <1>1 DEF Pending, Inserted
  <2>5. \A r, f, e : Will(r, f, e)' = Will(r, f, e) BY <1>1, <2>4 DEF Will
  <2>6. \A r : PendingLinks(r)' = PendingLinks(r) /\ PendingPairs(r)' = PendingPairs(r)
    BY <1>1 DEF PendingLinks, PendingPairs, Inserted
  <2>7. \A r : WrittenExplained(r)' = WrittenExplained(r)
    BY <1>1, <2>5, <2>6 DEF WrittenExplained
  <2>8. \A r : WrittenAddUp(r)' = WrittenAddUp(r)
    BY <1>1, <2>5 DEF WrittenAddUp
  <2>9. Runs' = Runs OBVIOUS
  <2>10. Open' = Open /\ \A r : KeysIn(r)' = KeysIn(r)
    BY <1>1 DEF Open, KeysIn, MemoryOf
  <2>11. \A r : OwnKeys(r)' = OwnKeys(r) BY <1>1, <1>2, <2>10 DEF OwnKeys
  <2>12. \A k : OneActiveOf(k)' = OneActiveOf(k)
    <3>1. \A r, k : ActiveMatches(r, k)' = ActiveMatches(r, k) BY <1>2 DEF ActiveMatches
    <3>2. \A r : Inserted(r)' = Inserted(r) BY <1>1 DEF Inserted
    <3>3. \A r, k : SeesOne(r, k)' = SeesOne(r, k)
      BY <1>1, <1>2, <3>1, <3>2, ZenonT(30) DEF SeesOne
    <3>4. QED BY <1>1, <2>10, <3>3 DEF OneActiveOf
  <2>13. QED BY <1>1, <2>1, <2>2, <2>3, <2>7, <2>8, <2>9, <2>10, <2>11, <2>12 DEF Accounted
<1>6. QED BY <1>1, <1>3, <1>4, <1>5 DEF IInv

(* Every step keeps the inductive invariant.                               *)
LEMMA NextIInv == IInv /\ [Next]_vars => IInv'
<1> SUFFICES ASSUME IInv, Next, ~ UNCHANGED vars PROVE IInv'
  BY StutterIInv
<1>1. Typed /\ AllPointOn BY DEF IInv
<1>2. PICK r \in Runs : KindOf(r) BY <1>1, StepKind
<1>3. Typed' BY <1>1, NextTyped
<1>4. AllPointOn' BY <1>1, <1>2, NextPointsOn
<1>5. ASSUME timeouts' = 0 PROVE Accounted'
  <2>1. timeouts = 0 BY <1>1, <1>2, <1>5, Timely
  <2>2. /\ Apart /\ EventsOfRows /\ CommittedExplained /\ CommittedAddUp
        /\ \A q \in Runs : HasRows(q) /\ WrittenExplained(q) /\ WrittenAddUp(q)
        /\ \A q \in Open : OwnKeys(q)
        /\ \A k \in Keys \ overlapped : OneActiveOf(k)
    BY <2>1 DEF IInv, Accounted
  <2>3. Apart' BY <1>1, <1>2, <1>5, <2>2, NextApart
  <2>4. \A q \in Runs : HasRows(q)' BY <1>1, <1>2, <1>5, <2>2, NextHasRows
  <2>5. EventsOfRows' BY <1>1, <1>2, <1>5, <2>2, NextEventsOfRows
  <2>6. CommittedExplained' /\ CommittedAddUp'
    BY <1>1, <1>2, <1>5, <2>2, NextCommittedAccounted
  <2>7. \A q \in Runs : WrittenExplained(q)' /\ WrittenAddUp(q)'
    BY <1>1, <1>2, <1>5, <2>2, NextWrittenAccounted
  <2>8. \A q \in Open' : OwnKeys(q)' BY <1>1, <1>2, <1>5, <2>2, NextOwnKeys
  <2>9. overlapped \subseteq overlapped'
    BY <1>2, <1>5, <1>1, Timely DEF KindOf, Rolls, Publishes, Searches, Restarted
  <2>10. \A k \in Keys \ overlapped' : OneActiveOf(k)'
    BY <1>1, <1>2, <1>5, <2>2, <2>9, NextOneActive
  <2>11. QED BY <2>3, <2>4, <2>5, <2>6, <2>7, <2>8, <2>10 DEF Accounted
<1>6. QED BY <1>3, <1>4, <1>5 DEF IInv

(* Every reachable state satisfies the inductive invariant.                *)
THEOREM Invariance == Spec => []IInv
BY InitIInv, NextIInv, PTL DEF Spec

(* The types of the tables and the runs, whatever is interrupted.          *)
THEOREM TypeCorrect == Spec => []TypeOK
<1>1. IInv => TypeOK BY TypedTypes DEF IInv
<1>2. QED BY <1>1, Invariance, PTL

(* Following superseded_by from a fact leads to ever later facts: no       *)
(* interleaving, failure or timeout makes a circle or a dangling id.       *)
THEOREM SupersededLater == Spec => []SupersededByLater
<1>1. IInv => SupersededByLater
  BY DEF IInv, AllPointOn, PointsOn, SupersededByLater
<1>2. QED BY <1>1, Invariance, PTL

(* Whatever runs, sweeps, failures and deadlocks there are, reviseFact     *)
(* leaves one active fact of a subject and predicate for which no two      *)
(* transactions had a candidate while both were open: that race, for which *)
(* there is no unique index, is the only way to a second one.              *)
THEOREM OneActivePerKey == Spec => []OneActiveFact
<1>1. IInv => OneActiveFact
  <2> SUFFICES ASSUME IInv, timeouts = 0, NEW f \in DOMAIN facts, NEW g \in DOMAIN facts,
                      facts[f].key = facts[g].key, facts[f].key \notin overlapped,
                      facts[f].status = "active", facts[g].status = "active"
               PROVE  f = g
    BY DEF OneActiveFact
  <2>1. facts[f].key \in Keys BY TableFacts DEF IInv, Typed, DatabaseTyped, Row
  <2>2. OneActiveOf(facts[f].key) BY <2>1 DEF IInv, Accounted
  <2>3. QED BY <2>2 DEF OneActiveOf, ActiveTwins
<1>2. QED BY <1>1, Invariance, PTL

(* As long as no run times out, any number of runs and sweeps may overlap, *)
(* fail and repeat: events, evidence and conflicts explain every fact.     *)
THEOREM TrailExplains == Spec => []AuditExplains
<1>1. IInv => AuditExplains
  <2> SUFFICES ASSUME IInv, timeouts = 0, NEW f \in DOMAIN facts
               PROVE  /\ audit[f]["created"] = 1
                      /\ \E m \in Memories : <<f, m>> \in evidence
                      /\ facts[f].status = "superseded" =>
                           /\ audit[f]["superseded"] >= 1
                           /\ <<f, facts[f].supersededBy>> \in conflicts
                      /\ facts[f].status = "contested" =>
                           \E g \in DOMAIN facts : {<<f, g>>, <<g, f>>} \cap conflicts # {}
    BY DEF AuditExplains
  <2>1. /\ audit[f]["created"] = 1 /\ HasEvidence(evidence, f)
        /\ Explained(facts[f], f, audit[f]["superseded"], conflicts)
    BY DEF IInv, Accounted, CommittedExplained
  <2>2. conflicts \subseteq (DOMAIN facts) \X (DOMAIN facts)
    BY DEF IInv, Typed, DatabaseTyped
  <2>3. InPair(conflicts, f) => \E g \in DOMAIN facts : {<<f, g>>, <<g, f>>} \cap conflicts # {}
    BY <2>2 DEF InPair
  <2>4. QED BY <2>1, <2>3 DEF Explained, HasEvidence
<1>2. QED BY <1>1, Invariance, PTL

(* Concurrent runs that update one fact lose no boost and no penalty: its  *)
(* confidence is what its events say, as long as no run times out.         *)
THEOREM ConfidencesAddUp == Spec => []ConfidenceAddsUp
<1>1. IInv => ConfidenceAddsUp
  <2> SUFFICES ASSUME IInv, timeouts = 0, NEW f \in DOMAIN facts
               PROVE  LET raised == facts[f].start + audit[f]["boost"]
                          lowered == Penalty * audit[f]["superseded"]
                      IN \/ facts[f].confidence = raised - lowered
                         \/ raised > Full \/ facts[f].start < lowered
    BY DEF ConfidenceAddsUp
  <2>1. AddsUp(facts[f], audit[f]["boost"], audit[f]["superseded"])
    BY DEF IInv, Accounted, CommittedAddUp
  <2>2. \/ facts[f].confidence =
             facts[f].start + audit[f]["boost"] - Penalty * audit[f]["superseded"]
        \/ facts[f].start + audit[f]["boost"] > Full
        \/ facts[f].start < Penalty * audit[f]["superseded"]
    BY <2>1 DEF AddsUp
  <2>3. facts[f] \in Row /\ f \in FactIds
    BY TableFacts DEF IInv, Typed, DatabaseTyped
  <2>4. audit[f]["boost"] \in Nat /\ audit[f]["superseded"] \in Nat
    BY <2>3, TrailOf DEF IInv, Typed, DatabaseTyped, Entries
  <2>5. facts[f].start \in Int /\ facts[f].confidence \in Int BY <2>3 DEF Row, Full
  <2>6. QED BY <2>2, <2>4, <2>5 DEF Penalty
<1>2. QED BY <1>1, Invariance, PTL
=============================================================================
