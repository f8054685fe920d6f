---------------------------- MODULE FactTrustProofs ----------------------------
(***************************************************************************)
(* Proofs about FactTrust, for any facts, contradictions, clients, bounds  *)
(* and either schema: its type invariant, that feedback is counted once,   *)
(* that corrections are complete, that a superseded fact is only brought   *)
(* back by who read it before, and that what supersedes a fact settles its *)
(* contradiction in the same commit.                                       *)
(*                                                                         *)
(* The sweeps keep rows of their own, which a commit puts over the table's: *)
(* what ties the two together is that the row locks keep everybody else    *)
(* from a row that a sweep has updated.                                    *)
(***************************************************************************)
EXTENDS FactTrust, FiniteSetTheorems, SequenceTheorems, WellFoundedInduction, TLAPS

Truths == {"active", "contested", "superseded", "unknown"}
Outcomes == {"unresolved", "superseded", "contested"}
BySweeps == {"auto", "reviewed"}
GivenPairs == Range(Pairs)
AllMemories == UNION Range(EvidenceOf)

Tables == UNION {[S -> Row] : S \in SUBSET FactIds}
Marks == UNION {[S -> Outcomes] : S \in SUBSET (FactIds \X FactIds)}
SweptMarks == {marks \in Marks : DOMAIN marks \subseteq GivenPairs}
Trails == [FactIds -> [Entries -> Nat]]
Scores == [trust : 0..Full, confidence : 0..Full]
Writes == [rows : Tables, resolved : SweptMarks, events : Trails]

(* The statements of the two sweeps.                                       *)
Statement ==
  [do : {"supersede"}, fact : FactIds, by : FactIds]
    \cup [do : {"contest"}, fact : FactIds]
    \cup [do : BySweeps, facts : SUBSET FactIds]
    \cup [do : {"resolve"}, pair : GivenPairs, as : {"superseded", "contested"}]
    \cup [do : {"downgrade", "unknown"}, scores : UNION {[S -> Scores] : S \in SUBSET FactIds}]

CallRecord ==
  [pc : {"idle"}]
    \cup [pc : {"waiting", "ok", "refused"},
          request : [kind : Kinds, fact : FactIds], attempt : 1..GatewayAttempts]
HandlerRecord == [pc : {"none", "read", "write"}, seen : Truths \cup {"none"}]
RunRecord ==
  [pc : {"idle", "backoff", "judge", "write", "commit"}, attempt : 1..MaxAttempts,
   todo : SUBSET (DOMAIN Pairs), statements : Seq(Statement), seen : SUBSET FactIds,
   open : BOOLEAN, tx : Writes]

TablesTyped ==
  /\ facts \in Tables /\ DOMAIN Given \subseteq DOMAIN facts
  /\ evidence \subseteq (DOMAIN facts) \X AllMemories
  /\ feedback \in [FactIds -> [Kinds -> Nat]]
  /\ audit \in Trails
  /\ resolution \in Marks
  /\ DOMAIN resolution \subseteq (DOMAIN facts) \X (DOMAIN facts)
  /\ GivenPairs \subseteq DOMAIN resolution

(* A transaction of the service belongs to a request that was sent, and    *)
(* has read its fact before it writes.                                     *)
ServiceTyped ==
  /\ call \in [Clients -> CallRecord]
  /\ handler \in [Handlers -> HandlerRecord]
  /\ \A h \in Handlers : handler[h].pc # "none" => call[h[1]].pc # "idle"
  /\ \A h \in Handlers : handler[h].pc = "write" => FactOf(h) \in DOMAIN facts

(* What goes with each point of a run R of a sweep in slot s, given the    *)
(* facts there are.  Only the run that is waited for has a transaction;    *)
(* one without writes nothing but rows before its statement is done.       *)
Shape(s, R, there) ==
  /\ R.open => s[2] = "tracked" /\ R.pc \in {"judge", "write", "commit"}
  /\ R.pc = "commit" => R.open
  /\ R.pc = "judge" => R.todo # {}
  /\ R.pc = "write" => R.statements # <<>>
  /\ ~ R.open => R.tx.resolved = <<>> /\ R.tx.events = NoEvents
  /\ DOMAIN R.tx.rows \subseteq there
  /\ \A f \in FactIds, e \in Entries \ BySweeps : R.tx.events[f][e] = 0
  /\ \A i \in DOMAIN R.statements : Touched(R.statements[i]) \subseteq there

WorkerTyped ==
  /\ run \in [Slots -> RunRecord]
  /\ \A s \in Slots : Shape(s, run[s], DOMAIN facts)
  /\ deadLetter \subseteq Sweeps

Typed == TablesTyped /\ ServiceTyped /\ WorkerTyped

-----------------------------------------------------------------------------
(* The row locks: a row is updated by one transaction at a time, and its   *)
(* counters are those of the table, since feedback waits for the row.      *)
RowsApart ==
  \A s, q \in Slots : s # q => DOMAIN run[s].tx.rows \cap DOMAIN run[q].tx.rows = {}

SameCounts(A, B) ==
  A.verified = B.verified /\ A.rejected = B.rejected /\ A.contradicted = B.contradicted

CountsKept(W, F) == \A f \in DOMAIN W.rows : SameCounts(W.rows[f], F[f])

(* Feedback, counted on the row, in its own table and in the events; no    *)
(* fact has any before it is there.                                        *)
RowCounted(f) ==
  /\ facts[f].verified = Base(f).verified + feedback[f]["confirm"]
  /\ facts[f].rejected = Base(f).rejected + feedback[f]["reject"]
  /\ facts[f].contradicted = Base(f).contradicted + feedback[f]["correct"]

EventsCounted(f) ==
  /\ audit[f]["confirmed"] = feedback[f]["confirm"]
  /\ audit[f]["rejected"] = feedback[f]["reject"]
  /\ audit[f]["corrected"] = feedback[f]["correct"]

AnswersCounted ==
  \A f \in FactIds, k \in Kinds :
    IsFiniteSet(Answered(f, k)) /\ Cardinality(Answered(f, k)) =< feedback[f][k]

Counted ==
  /\ \A f \in DOMAIN facts : RowCounted(f)
  /\ \A f \in FactIds : EventsCounted(f)
  /\ \A f \in FactIds \ DOMAIN facts :
       audit[f]["created"] = 0 /\ \A k \in Kinds : feedback[f][k] = 0
  /\ AnswersCounted

(* Fact n corrects fact f, and no other: see CorrectionComplete.           *)
CorrectionOf(n, f) ==
  /\ f \in DOMAIN facts
  /\ \A g \in DOMAIN facts : <<g, n>> \in DOMAIN resolution <=> g = f
  /\ resolution[<<f, n>>] = "superseded"
  /\ audit[n]["created"] = 1
  /\ \A m \in AllMemories : <<n, m>> \in evidence <=> <<f, m>> \in evidence

Corrected ==
  /\ \A n \in DOMAIN facts \ DOMAIN Given : \E f \in FactIds : CorrectionOf(n, f)
  /\ \A f \in DOMAIN facts : Cardinality(CorrectedBy(f)) = feedback[f]["correct"]

-----------------------------------------------------------------------------
(* A sweep's transaction has with each row that it supersedes the event    *)
(* and the settled contradiction.                                          *)
SettledIn(W, f) ==
  /\ W.events[f]["auto"] > 0
  /\ \E p \in DOMAIN W.resolved : f \in Range(p) /\ W.resolved[p] = "superseded"

RowsSettled(W, F) ==
  \A f \in DOMAIN W.rows :
    W.rows[f].truth = "superseded" => F[f].truth = "superseded" \/ SettledIn(W, f)

(* So has the plan of a run: who supersedes a fact does it first, and goes *)
(* on with both; who contests a contradiction has superseded none of it.   *)
Supersedes(R) ==
  \E p \in GivenPairs :
    /\ Len(R.statements) = 3
    /\ R.statements[1].fact \in Range(p)
    /\ R.statements[2] = [do |-> "auto", facts |-> {R.statements[1].fact}]
    /\ R.statements[3] = Resolve(p, "superseded")

Contests(R, i) ==
  /\ \A f \in DOMAIN R.tx.rows \cap Range(R.statements[i].pair) :
       R.tx.rows[f].truth # "superseded"
  /\ \A j \in DOMAIN R.statements : R.statements[j].do # "downgrade"

PlanSettles(R) ==
  R.open /\ R.pc = "write" =>
    /\ R.statements[1].do = "supersede" => Supersedes(R)
    /\ \A i \in DOMAIN R.statements :
         /\ R.statements[i].do = "supersede" => i = 1
         /\ R.statements[i].do = "resolve" /\ R.statements[i].as = "contested" => Contests(R, i)

(* A run updates facts that it has read as not superseded: its rows and    *)
(* what it is about to do come from there.                                 *)
SeenOK(R) ==
  /\ \A f \in DOMAIN R.tx.rows : f \in R.seen \/ R.tx.rows[f].truth = "superseded"
  /\ \A i \in DOMAIN R.statements : Touched(R.statements[i]) \subseteq R.seen

(* A run, given the rows of the table.                                     *)
RunOK(R, F) == CountsKept(R.tx, F) /\ RowsSettled(R.tx, F) /\ PlanSettles(R) /\ SeenOK(R)
RunsOK == \A s \in Slots : RunOK(run[s], facts)

IInv ==
  /\ Typed
  /\ RowsApart
  /\ RunsOK
  /\ Counted
  /\ Corrected
-----------------------------------------------------------------------------
(* A set of numbers has a least, and, below a bound, a greatest element.   *)
LEMMA LeastExists ==
  ASSUME NEW S \in SUBSET Nat, S # {}
  PROVE  Min(S) \in S /\ \A y \in S : Min(S) =< y
<1> DEFINE R == OpToRel(<, Nat)
<1>1. \A x, y \in Nat : <<y, x>> \in R <=> y < x
  BY DEF OpToRel
<1>2. IsWellFoundedOn(R, Nat) BY NatLessThanWellFounded
<1> HIDE DEF R
<1>3. PICK x \in S : \A y \in S : ~ (<<y, x>> \in R)
  BY <1>2, WFMin
<1>4. \A y \in S : x \in Nat /\ y \in Nat /\ ~ (y < x)
  BY <1>1, <1>3
<1>5. \A y \in S : x =< y BY <1>4
<1>6. QED BY <1>5 DEF Min

(* See LeastExists: the distances to the bound have a least.               *)
LEMMA GreatestExists ==
  ASSUME NEW b \in Nat, NEW S \in SUBSET (0..b), S # {}
  PROVE  Max(S) \in S /\ \A y \in S : Max(S) >= y
<1> DEFINE Gaps == {b - x : x \in S}
<1>1. Gaps \in SUBSET Nat /\ Gaps # {}
  <2>1. \A x \in S : b - x \in Nat OBVIOUS
  <2>2. QED BY <2>1
<1>2. PICK g \in Gaps : \A h \in Gaps : g =< h
  <2> HIDE DEF Gaps
  <2>1. QED BY <1>1, LeastExists
<1>3. PICK x \in S : g = b - x BY <1>2
<1>4. \A y \in S : x >= y
  <2> TAKE y \in S
  <2>1. b - x =< b - y BY <1>2, <1>3
  <2>2. x \in Nat /\ y \in Nat OBVIOUS
  <2>3. QED BY <2>1, <2>2
<1>5. QED BY <1>4 DEF Max

(* Two facts of a contradiction are its range.                             *)
LEMMA PairFacts ==
  ASSUME NEW p \in GivenPairs
  PROVE  /\ p[1] \in DOMAIN Given /\ p[2] \in DOMAIN Given
         /\ p \in (DOMAIN Given) \X (DOMAIN Given)
         /\ Range(p) = {p[1], p[2]}
<1>1. p \in (DOMAIN Given) \X (DOMAIN Given) BY PairsAssumption DEF GivenPairs, Range
<1>2. PICK a, b \in DOMAIN Given : p = <<a, b>> BY <1>1
<1>3. DOMAIN p = {1, 2} BY <1>2
<1>4. Range(p) = {p[1], p[2]} BY <1>3 DEF Range
<1>5. QED BY <1>1, <1>2, <1>4

(* The rows of a table have the ids of facts, and the fields of a row.     *)
LEMMA TableFacts ==
  ASSUME NEW F \in Tables
  PROVE  DOMAIN F \subseteq FactIds /\ \A f \in DOMAIN F : F[f] \in Row
BY DEF Tables

(* One table over another has the rows of both, the first's where both.    *)
LEMMA OverTables ==
  ASSUME NEW F \in Tables, NEW G \in Tables
  PROVE  /\ Over(F, G) \in Tables
         /\ DOMAIN Over(F, G) = DOMAIN F \cup DOMAIN G
         /\ \A f \in DOMAIN F : Over(F, G)[f] = F[f]
         /\ \A f \in DOMAIN G \ DOMAIN F : Over(F, G)[f] = G[f]
<1> DEFINE S == DOMAIN F \cup DOMAIN G
           rows == [x \in S |-> IF x \in DOMAIN F THEN F[x] ELSE G[x]]
<1>1. S \in SUBSET FactIds BY TableFacts
<1>2. \A x \in S : rows[x] \in Row BY TableFacts
<1>3. rows \in [S -> Row] BY <1>2
<1>4. rows = Over(F, G) BY DEF Over
<1>5. Over(F, G) \in Tables BY <1>1, <1>3, <1>4 DEF Tables
<1>6. QED BY <1>4, <1>5

(* So with what is marked of contradictions.                               *)
LEMMA OverMarks ==
  ASSUME NEW F \in Marks, NEW G \in Marks
  PROVE  /\ Over(F, G) \in Marks
         /\ DOMAIN Over(F, G) = DOMAIN F \cup DOMAIN G
         /\ \A p \in DOMAIN F : Over(F, G)[p] = F[p]
         /\ \A p \in DOMAIN G \ DOMAIN F : Over(F, G)[p] = G[p]
<1> DEFINE S == DOMAIN F \cup DOMAIN G
           marks == [x \in S |-> IF x \in DOMAIN F THEN F[x] ELSE G[x]]
<1>1. S \in SUBSET (FactIds \X FactIds) BY DEF Marks
<1>2. \A x \in S : marks[x] \in Outcomes BY DEF Marks
<1>3. marks \in [S -> Outcomes] BY <1>2
<1>4. marks = Over(F, G) BY DEF Over
<1>5. Over(F, G) \in Marks
  <2> HIDE DEF S, marks
  <2>1. QED BY <1>1, <1>3, <1>4 DEF Marks
<1>6. QED BY <1>4, <1>5

(* No writes, and runs that are over.                                      *)
LEMMA NoWritesFacts ==
  /\ NoWrites \in Writes
  /\ DOMAIN NoWrites.rows = {} /\ DOMAIN NoWrites.resolved = {}
  /\ \A f \in FactIds, e \in Entries : NoWrites.events[f][e] = 0
<1>1. <<>> \in [{} -> Row] /\ <<>> \in [{} -> Outcomes] /\ DOMAIN <<>> = {} OBVIOUS
<1>2. <<>> \in Tables /\ <<>> \in SweptMarks BY <1>1 DEF Tables, Marks, SweptMarks
<1>3. NoEvents \in Trails BY DEF Trails, NoEvents
<1>4. QED BY <1>1, <1>2, <1>3 DEF NoWrites, Writes, NoEvents

(* A run that has stopped has no transaction, and waits at most.           *)
LEMMA StoppedRecords ==
  ASSUME NEW s \in Slots, NEW there, NEW n \in 1..MaxAttempts
  PROVE  /\ [IdleRun EXCEPT !.pc = "backoff", !.attempt = n] \in RunRecord
         /\ Shape(s, [IdleRun EXCEPT !.pc = "backoff", !.attempt = n], there)
         /\ SeenOK([IdleRun EXCEPT !.pc = "backoff", !.attempt = n])
         /\ IdleRun \in RunRecord /\ Shape(s, IdleRun, there) /\ SeenOK(IdleRun)
         /\ ~ IdleRun.open /\ IdleRun.tx = NoWrites
<1>1. <<>> \in Seq(Statement) /\ DOMAIN <<>> = {} OBVIOUS
<1>2. 1 \in 1..MaxAttempts BY SettingsAssumption
<1>3. Entries \ BySweeps \subseteq Entries OBVIOUS
<1>4. NoWrites.resolved = <<>> /\ NoWrites.events = NoEvents BY DEF NoWrites
<1>5. SeenOK(IdleRun) /\ SeenOK([IdleRun EXCEPT !.pc = "backoff", !.attempt = n])
  BY <1>1, NoWritesFacts DEF IdleRun, SeenOK
<1>6. QED BY <1>1, <1>2, <1>3, <1>4, <1>5, NoWritesFacts DEF IdleRun, RunRecord, Shape

-----------------------------------------------------------------------------
(* What each statement has, and the rows it touches.                       *)
LEMMA StatementFacts ==
  ASSUME NEW st \in Statement
  PROVE  /\ Touched(st) \subseteq FactIds
         /\ st.do = "supersede" => st.fact \in FactIds /\ st.by \in FactIds /\ Touched(st) = {st.fact}
         /\ st.do = "contest" => st.fact \in FactIds /\ Touched(st) = {st.fact}
         /\ st.do \in BySweeps => st.facts \subseteq FactIds /\ Touched(st) = {}
         /\ st.do = "resolve" =>
              st.pair \in GivenPairs /\ st.as \in {"superseded", "contested"} /\ Touched(st) = {}
         /\ st.do \in {"downgrade", "unknown"} =>
              /\ Touched(st) = DOMAIN st.scores
              /\ \A f \in DOMAIN st.scores : st.scores[f] \in Scores
         /\ st.do \in {"supersede", "contest", "auto", "reviewed", "resolve", "downgrade", "unknown"}
BY DEF Statement, Touched, BySweeps

(* A superseded row is a row with the same counters.                       *)
LEMMA SupersedeFacts ==
  ASSUME NEW row \in Row, NEW n \in FactIds
  PROVE  /\ Supersede(row, n) \in Row
         /\ SameCounts(Supersede(row, n), row)
         /\ Supersede(row, n).truth = "superseded"
<1>1. Supersede(row, n) \in Row BY DEF Row, Supersede
<1>2. SameCounts(Supersede(row, n), row) BY DEF Row, Supersede, SameCounts
<1>3. Supersede(row, n).truth = "superseded" BY DEF Row, Supersede
<1>4. QED BY <1>1, <1>2, <1>3

(* A statement keeps a row a row and its counters; only one that           *)
(* supersedes makes a row superseded.                                      *)
LEMMA UpdatedFacts ==
  ASSUME NEW st \in Statement, NEW f \in Touched(st), NEW row \in Row
  PROVE  /\ Updated(st, f, row) \in Row
         /\ SameCounts(Updated(st, f, row), row)
         /\ Updated(st, f, row).truth = "superseded" =>
              st.do = "supersede" \/ (st.do = "downgrade" /\ row.truth = "superseded")
<1>1. CASE st.do = "supersede"
  <2>1. PICK n \in FactIds : n = st.by BY <1>1, StatementFacts
  <2>2. Updated(st, f, row) = Supersede(row, n) BY <1>1, <2>1 DEF Updated
  <2>3. /\ Supersede(row, n) \in Row /\ SameCounts(Supersede(row, n), row)
    BY SupersedeFacts
  <2>4. Updated(st, f, row) \in Row /\ SameCounts(Updated(st, f, row), row)
    BY <2>2, <2>3
  <2>5. QED BY <1>1, <2>4
<1>2. CASE st.do = "contest"
  BY <1>2, StatementFacts DEF Updated, SetTruthStatus, Row, SameCounts
<1>3. CASE st.do \in {"downgrade", "unknown"}
  <2>1. PICK t \in 0..Full, c \in 0..Full :
          st.scores[f].trust = t /\ st.scores[f].confidence = c
    BY <1>3, StatementFacts DEF Scores
  <2>2. CASE st.do = "downgrade"
    <3>1. Updated(st, f, row) = [row EXCEPT !.trust = t, !.confidence = c]
      BY <2>1, <2>2 DEF Updated
    <3>2. /\ [row EXCEPT !.trust = t, !.confidence = c] \in Row
          /\ SameCounts([row EXCEPT !.trust = t, !.confidence = c], row)
          /\ [row EXCEPT !.trust = t, !.confidence = c].truth = row.truth
      BY DEF Row, SameCounts
    <3>3. QED BY <2>2, <3>1, <3>2
  <2>3. CASE st.do = "unknown"
    <3> DEFINE new == [row EXCEPT !.trust = t, !.confidence = c,
                                  !.truth = "unknown", !.status = "contested"]
    <3>1. Updated(st, f, row) = new BY <2>1, <2>3 DEF Updated
    <3>2. new \in Row /\ SameCounts(new, row) /\ new.truth # "superseded"
      BY DEF Row, SameCounts
    <3>3. QED BY <3>1, <3>2
  <2>4. QED BY <1>3, <2>2, <2>3
<1>4. QED BY <1>1, <1>2, <1>3, StatementFacts DEF BySweeps

(* The parts of a run, and the rows its statements see.                    *)
LEMMA RunParts ==
  ASSUME Typed, NEW s \in Slots
  PROVE  /\ run[s] \in RunRecord /\ Shape(s, run[s], DOMAIN facts)
         /\ run[s].tx.rows \in Tables
         /\ run[s].tx.resolved \in SweptMarks
         /\ run[s].tx.events \in Trails
         /\ run[s].statements \in Seq(Statement)
BY DEF Typed, WorkerTyped, RunRecord, Writes

(* What the statements of a run see of each fact.                          *)
LEMMA SeesFacts ==
  ASSUME Typed, NEW s \in Slots
  PROVE  /\ DOMAIN Sees(s) = DOMAIN facts
         /\ \A f \in DOMAIN facts : Sees(s)[f] \in Row
         /\ \A f \in DOMAIN run[s].tx.rows : Sees(s)[f] = run[s].tx.rows[f]
         /\ \A f \in DOMAIN facts \ DOMAIN run[s].tx.rows : Sees(s)[f] = facts[f]
<1>1. facts \in Tables /\ run[s].tx.rows \in Tables BY RunParts DEF Typed, TablesTyped
<1>2. DOMAIN run[s].tx.rows \subseteq DOMAIN facts BY RunParts DEF Shape
<1>3. /\ Sees(s) \in Tables
      /\ DOMAIN Sees(s) = DOMAIN run[s].tx.rows \cup DOMAIN facts
      /\ \A f \in DOMAIN run[s].tx.rows : Sees(s)[f] = run[s].tx.rows[f]
      /\ \A f \in DOMAIN facts \ DOMAIN run[s].tx.rows : Sees(s)[f] = facts[f]
  BY <1>1, OverTables DEF Sees
<1>4. QED BY <1>2, <1>3, TableFacts

(* The statements that a run executes together.                            *)
LEMMA TogetherFacts ==
  ASSUME Typed, NEW s \in Slots, run[s].pc = "write"
  PROVE  /\ run[s].statements \in Seq(Statement) /\ Len(run[s].statements) \in Nat \ {0}
         /\ Together(s) \in 1..Len(run[s].statements)
         /\ NextStatement(s) = run[s].statements[1] /\ NextStatement(s) \in Statement
         /\ 1 \in DOMAIN run[s].statements
         /\ Touched(NextStatement(s)) \subseteq DOMAIN facts
         /\ \A i \in 1..Len(run[s].statements) : run[s].statements[i] \in Statement
<1>1. /\ run[s].statements \in Seq(Statement) /\ run[s].statements # <<>>
      /\ \A i \in DOMAIN run[s].statements : Touched(run[s].statements[i]) \subseteq DOMAIN facts
  BY RunParts DEF Shape
<1>2. /\ Len(run[s].statements) \in Nat \ {0}
      /\ DOMAIN run[s].statements = 1..Len(run[s].statements)
      /\ \A i \in 1..Len(run[s].statements) : run[s].statements[i] \in Statement
      /\ Head(run[s].statements) = run[s].statements[1]
  BY <1>1
<1>3. QED BY <1>1, <1>2 DEF Together, NextStatement

(* How many events of a kind n statements insert for a fact.               *)
LEMMA EventsFacts ==
  ASSUME NEW s, NEW n \in Nat, NEW f, NEW e
  PROVE  /\ Events(s, n, f, e) \in Nat
         /\ (\A i \in 1..n : run[s].statements[i].do # e) => Events(s, n, f, e) = 0
         /\ (\E i \in 1..n : run[s].statements[i].do = e /\ f \in run[s].statements[i].facts)
              => Events(s, n, f, e) > 0
<1> DEFINE S == {i \in 1..n : run[s].statements[i].do = e /\ f \in run[s].statements[i].facts}
<1>1. IsFiniteSet(1..n) BY FS_Interval
<1>2. S \in SUBSET (1..n) OBVIOUS
<1>3. IsFiniteSet(S) BY <1>1, <1>2, FS_Subset
<1>4. Cardinality(S) \in Nat BY <1>3, FS_CardinalityType
<1>5. Cardinality(S) = 0 <=> S = {} BY <1>3, FS_EmptySet
<1>6. Events(s, n, f, e) = Cardinality(S) BY DEF Events
<1>7. QED BY <1>4, <1>5, <1>6

-----------------------------------------------------------------------------
(* The rows the next statement writes, of those it touches: made of those  *)
(* it sees.                                                                *)
LEMMA RowsWrittenFacts ==
  ASSUME Typed, NEW s \in Slots, run[s].pc = "write",
         NEW S \in SUBSET Touched(NextStatement(s))
  PROVE  /\ RowsWritten(s, S) \in Tables /\ DOMAIN RowsWritten(s, S) = S
         /\ \A f \in S :
              /\ RowsWritten(s, S)[f] \in Row
              /\ SameCounts(RowsWritten(s, S)[f], Sees(s)[f])
              /\ RowsWritten(s, S)[f].truth = "superseded" =>
                   \/ NextStatement(s).do = "supersede"
                   \/ NextStatement(s).do = "downgrade" /\ Sees(s)[f].truth = "superseded"
<1> DEFINE st == NextStatement(s)
           rows == [f \in S |-> Updated(st, f, Sees(s)[f])]
<1>1. st \in Statement /\ S \subseteq Touched(st) /\ S \subseteq DOMAIN facts /\ S \subseteq FactIds
  BY TogetherFacts, StatementFacts
<1>2. rows = RowsWritten(s, S) BY DEF RowsWritten
<1>3. \A f \in S : Sees(s)[f] \in Row BY <1>1, SeesFacts
<1> HIDE DEF st
<1>4. ASSUME NEW f \in S
      PROVE  /\ rows[f] \in Row /\ SameCounts(rows[f], Sees(s)[f])
             /\ rows[f].truth = "superseded" =>
                  st.do = "supersede" \/ (st.do = "downgrade" /\ Sees(s)[f].truth = "superseded")
  <2>1. rows[f] = Updated(st, f, Sees(s)[f]) OBVIOUS
  <2>2. PICK row \in Row : row = Sees(s)[f] BY <1>3
  <2>3. f \in Touched(st) BY <1>1
  <2>4. /\ Updated(st, f, row) \in Row /\ SameCounts(Updated(st, f, row), row)
        /\ Updated(st, f, row).truth = "superseded" =>
             st.do = "supersede" \/ (st.do = "downgrade" /\ row.truth = "superseded")
    BY <1>1, <2>3, UpdatedFacts
  <2>5. QED BY <2>1, <2>2, <2>4
<1>5. rows \in [S -> Row] /\ DOMAIN rows = S BY <1>4
<1>6. rows \in Tables BY <1>1, <1>5 DEF Tables
<1>7. QED BY <1>2, <1>4, <1>5, <1>6 DEF st

(* The contradictions that n statements mark.                              *)
LEMMA ResolvedFacts ==
  ASSUME Typed, NEW s \in Slots, run[s].pc = "write", NEW n \in 1..Together(s)
  PROVE  /\ Resolved(s, n) \in SweptMarks
         /\ \A p \in DOMAIN Resolved(s, n) : \E i \in 1..n :
              /\ run[s].statements[i].do = "resolve" /\ run[s].statements[i].pair = p
              /\ run[s].statements[i].as = Resolved(s, n)[p]
         /\ \A i \in 1..n : run[s].statements[i].do = "resolve" =>
              run[s].statements[i].pair \in DOMAIN Resolved(s, n)
<1> DEFINE all == run[s].statements
           resolving == {st \in Executed(s, n) : st.do = "resolve"}
           P == {st.pair : st \in resolving}
           how(p) == (CHOOSE st \in resolving : st.pair = p).as
           marks == [p \in P |-> how(p)]
<1>1. marks = Resolved(s, n) BY DEF Resolved
<1>2. \A i \in 1..n : all[i] \in Statement BY TogetherFacts
<1>3. \A st \in resolving :
        st \in Statement /\ st.do = "resolve" /\ \E i \in 1..n : st = all[i]
  BY <1>2 DEF Executed
<1>4. \A i \in 1..n : all[i].do = "resolve" => all[i] \in resolving BY DEF Executed
<1> HIDE DEF resolving, all
<1>5. ASSUME NEW p \in P
      PROVE  /\ p \in GivenPairs /\ how(p) \in Outcomes
             /\ \E i \in 1..n : all[i].do = "resolve" /\ all[i].pair = p /\ all[i].as = how(p)
  <2>1. PICK st \in resolving : st.pair = p OBVIOUS
  <2>2. PICK chosen \in resolving : chosen = CHOOSE x \in resolving : x.pair = p
    BY <2>1
  <2>3. chosen.pair = p /\ how(p) = chosen.as BY <2>1, <2>2
  <2>4. chosen.pair \in GivenPairs /\ chosen.as \in {"superseded", "contested"}
    BY <1>3, StatementFacts
  <2>5. QED BY <1>3, <2>3, <2>4 DEF Outcomes
<1>6. P \subseteq GivenPairs /\ marks \in [P -> Outcomes] BY <1>5
<1>7. marks \in SweptMarks /\ DOMAIN marks = P
  <2>1. P \subseteq FactIds \X FactIds BY <1>6, PairFacts, GivenAssumption
  <2>2. QED BY <1>6, <2>1 DEF Marks, SweptMarks
<1>8. \A i \in 1..n : all[i].do = "resolve" => all[i].pair \in P BY <1>4
<1> HIDE DEF P, how
<1>9. \A p \in DOMAIN marks : marks[p] = how(p) OBVIOUS
<1>10. QED BY <1>1, <1>5, <1>7, <1>8, <1>9 DEF all

(* The writes of a transaction after n more statements.                    *)
LEMMA WrittenFacts ==
  ASSUME Typed, NEW s \in Slots, run[s].pc = "write", NEW n \in 1..Together(s)
  PROVE  LET W == Written(s, n)
             V == run[s].tx
         IN /\ W \in Writes
            /\ DOMAIN W.rows = Touched(NextStatement(s)) \cup DOMAIN V.rows
            /\ \A f \in Touched(NextStatement(s)) : W.rows[f] = RowsWritten(s, Touched(NextStatement(s)))[f]
            /\ \A f \in DOMAIN V.rows \ Touched(NextStatement(s)) : W.rows[f] = V.rows[f]
            /\ DOMAIN W.resolved = DOMAIN Resolved(s, n) \cup DOMAIN V.resolved
            /\ \A p \in DOMAIN Resolved(s, n) : W.resolved[p] = Resolved(s, n)[p]
            /\ \A p \in DOMAIN V.resolved \ DOMAIN Resolved(s, n) : W.resolved[p] = V.resolved[p]
            /\ \A f \in FactIds, e \in Entries :
                 W.events[f][e] = V.events[f][e] + Events(s, n, f, e)
<1> DEFINE W == Written(s, n)
           V == run[s].tx
           sum == [f \in FactIds |-> [e \in Entries |-> V.events[f][e] + Events(s, n, f, e)]]
<1>1. n \in Nat BY TogetherFacts
<1>2. V.rows \in Tables /\ V.resolved \in SweptMarks /\ V.events \in Trails BY RunParts
<1>3. RowsWritten(s, Touched(NextStatement(s))) \in Tables /\ DOMAIN RowsWritten(s, Touched(NextStatement(s))) = Touched(NextStatement(s))
  BY RowsWrittenFacts
<1>4. Resolved(s, n) \in SweptMarks BY ResolvedFacts
<1>5. /\ W.rows = Over(RowsWritten(s, Touched(NextStatement(s))), V.rows) /\ W.resolved = Over(Resolved(s, n), V.resolved)
      /\ W.events = sum
      /\ W = [rows |-> W.rows, resolved |-> W.resolved, events |-> W.events]
  BY DEF Written
<1>6. sum \in Trails
  <2>1. ASSUME NEW f \in FactIds, NEW e \in Entries
        PROVE  V.events[f][e] + Events(s, n, f, e) \in Nat
    <3>1. V.events[f][e] \in Nat BY <1>2 DEF Trails
    <3>2. Events(s, n, f, e) \in Nat BY <1>1, EventsFacts
    <3>3. QED BY <3>1, <3>2
  <2>2. QED BY <2>1 DEF Trails
<1> HIDE DEF V, W, sum
<1>7. /\ W.rows \in Tables /\ DOMAIN W.rows = Touched(NextStatement(s)) \cup DOMAIN V.rows
      /\ \A f \in Touched(NextStatement(s)) : W.rows[f] = RowsWritten(s, Touched(NextStatement(s)))[f]
      /\ \A f \in DOMAIN V.rows \ Touched(NextStatement(s)) : W.rows[f] = V.rows[f]
  <2>1. PICK F \in Tables : F = RowsWritten(s, Touched(NextStatement(s))) BY <1>3
  <2>2. PICK G \in Tables : G = V.rows BY <1>2
  <2>3. W.rows = Over(F, G) /\ DOMAIN F = Touched(NextStatement(s)) BY <1>3, <1>5, <2>1, <2>2
  <2>4. /\ Over(F, G) \in Tables /\ DOMAIN Over(F, G) = DOMAIN F \cup DOMAIN G
        /\ \A f \in DOMAIN F : Over(F, G)[f] = F[f]
        /\ \A f \in DOMAIN G \ DOMAIN F : Over(F, G)[f] = G[f]
    BY OverTables
  <2>5. QED BY <2>1, <2>2, <2>3, <2>4
<1>8. /\ W.resolved \in SweptMarks
      /\ DOMAIN W.resolved = DOMAIN Resolved(s, n) \cup DOMAIN V.resolved
      /\ \A p \in DOMAIN Resolved(s, n) : W.resolved[p] = Resolved(s, n)[p]
      /\ \A p \in DOMAIN V.resolved \ DOMAIN Resolved(s, n) : W.resolved[p] = V.resolved[p]
  <2>1. PICK F \in SweptMarks : F = Resolved(s, n) BY <1>4
  <2>2. PICK G \in SweptMarks : G = V.resolved BY <1>2
  <2>3. /\ Over(F, G) \in Marks /\ DOMAIN Over(F, G) = DOMAIN F \cup DOMAIN G
        /\ \A p \in DOMAIN F : Over(F, G)[p] = F[p]
        /\ \A p \in DOMAIN G \ DOMAIN F : Over(F, G)[p] = G[p]
    BY OverMarks DEF SweptMarks
  <2>4. DOMAIN F \subseteq GivenPairs /\ DOMAIN G \subseteq GivenPairs BY DEF SweptMarks
  <2>5. Over(F, G) \in SweptMarks BY <2>3, <2>4 DEF SweptMarks
  <2>6. QED BY <1>5, <2>1, <2>2, <2>3, <2>5
<1>9. W \in Writes BY <1>5, <1>6, <1>7, <1>8 DEF Writes
<1>10. \A f \in FactIds, e \in Entries : W.events[f][e] = V.events[f][e] + Events(s, n, f, e)
  BY <1>5 DEF sum
<1>11. QED BY <1>7, <1>8, <1>9, <1>10 DEF V, W

-----------------------------------------------------------------------------
(* What a run goes on with after n statements: those that are left, or the *)
(* next contradiction, or the end; its transaction is not touched.         *)
LEMMA AfterFacts ==
  ASSUME Typed, NEW s \in Slots, run[s].pc = "write", NEW n \in 1..Together(s)
  PROVE  LET R == After(s, n)
             all == run[s].statements
         IN /\ R \in RunRecord
            /\ R.open = run[s].open /\ R.tx = run[s].tx /\ R.seen = run[s].seen
            /\ R.pc \in {"write", "judge", "commit"}
            /\ R.pc = "write" => Len(all) > n /\ R.statements # <<>>
            /\ R.pc # "write" => R.statements = <<>>
            /\ R.pc = "judge" => R.todo # {}
            /\ \A i \in DOMAIN R.statements :
                 i + n \in 1..Len(all) /\ R.statements[i] = all[i + n]
<1> DEFINE r == run[s]
           all == r.statements
           rest == SubSeq(all, n + 1, Len(all))
           R == After(s, n)
<1>1. all \in Seq(Statement) /\ n \in Nat /\ n >= 1 /\ r \in RunRecord
  BY TogetherFacts, RunParts
<1>2. CASE Len(all) > n
  <2>1. /\ rest \in Seq(Statement) /\ Len(rest) = Len(all) - n
        /\ \A i \in 1..Len(rest) : rest[i] = all[i + n]
    BY <1>1, <1>2
  <2>2. rest # <<>> /\ DOMAIN rest = 1..Len(rest)
    <3>1. Len(rest) > 0 BY <1>1, <1>2, <2>1
    <3> HIDE DEF rest
    <3>2. QED BY <2>1, <3>1
  <2>3. \A i \in DOMAIN rest : i + n \in 1..Len(all) BY <1>1, <1>2, <2>1, <2>2
  <2>4. R = [r EXCEPT !.statements = rest] BY <1>2 DEF After
  <2> HIDE DEF rest, R, r, all
  <2>5. R \in RunRecord /\ R.statements = rest BY <1>1, <2>1, <2>4 DEF RunRecord
  <2>6. R.open = r.open /\ R.tx = r.tx /\ R.seen = r.seen /\ R.pc = r.pc
    BY <1>1, <2>4 DEF RunRecord
  <2>7. QED BY <1>2, <2>1, <2>2, <2>3, <2>5, <2>6 DEF R, r, all
<1>3. CASE ~ (Len(all) > n) /\ \E i \in r.todo : i > Min(r.todo)
  <2>1. R = [r EXCEPT !.statements = <<>>, !.todo = r.todo \ {Min(r.todo)}, !.pc = "judge"]
    BY <1>3 DEF After
  <2>2. <<>> \in Seq(Statement) /\ DOMAIN <<>> = {} OBVIOUS
  <2>3. r.todo \ {Min(r.todo)} # {}
    <3>1. r.todo \subseteq DOMAIN Pairs BY <1>1 DEF RunRecord
    <3>2. r.todo \subseteq Nat BY <3>1, PairsAssumption
    <3>3. PICK i \in r.todo : i > Min(r.todo) BY <1>3
    <3>4. Min(r.todo) \in Nat BY <3>2, <3>3, LeastExists
    <3>5. i # Min(r.todo) BY <3>2, <3>3, <3>4
    <3>6. QED BY <3>5
  <2> HIDE DEF R, r, all
  <2>4. /\ R \in RunRecord /\ R.statements = <<>> /\ R.pc = "judge"
        /\ R.todo = r.todo \ {Min(r.todo)}
        /\ R.open = r.open /\ R.tx = r.tx /\ R.seen = r.seen
    BY <1>1, <2>1, <2>2 DEF RunRecord
  <2>5. QED BY <2>2, <2>3, <2>4 DEF R, r
<1>4. CASE ~ (Len(all) > n) /\ ~ (\E i \in r.todo : i > Min(r.todo))
  <2>1. R = [r EXCEPT !.statements = <<>>, !.todo = {}, !.pc = "commit"]
    BY <1>4 DEF After
  <2>2. <<>> \in Seq(Statement) /\ DOMAIN <<>> = {} OBVIOUS
  <2> HIDE DEF R, r, all
  <2>3. /\ R \in RunRecord /\ R.statements = <<>> /\ R.pc = "commit"
        /\ R.open = r.open /\ R.tx = r.tx /\ R.seen = r.seen
    BY <1>1, <2>1, <2>2 DEF RunRecord
  <2>4. QED BY <2>2, <2>3 DEF R, r
<1>5. QED BY <1>2, <1>3, <1>4

-----------------------------------------------------------------------------
(* The facts of a contradiction that a verdict may update.                 *)
Judgeable(p, A, B) ==
  IF "superseded" \in {A.truth, B.truth} THEN {} ELSE {p[1], p[2]}

(* The verdict on a contradiction: it supersedes a fact, and settles it in *)
(* the same breath, or contests facts of which none was superseded.        *)
LEMMA VerdictFacts ==
  ASSUME NEW p \in GivenPairs, NEW A, NEW B
  PROVE  LET V == Verdict(p, A, B)
         IN /\ V \in Seq(Statement) /\ V # <<>>
            /\ \A i \in DOMAIN V : Touched(V[i]) \subseteq Judgeable(p, A, B) /\ V[i].do # "downgrade"
            /\ V[1].do = "supersede" =>
                 /\ Len(V) = 3 /\ V[1].fact \in Range(p)
                 /\ V[2] = [do |-> "auto", facts |-> {V[1].fact}]
                 /\ V[3] = Resolve(p, "superseded")
            /\ \A i \in DOMAIN V :
                 /\ V[i].do = "supersede" => i = 1
                 /\ V[i].do = "resolve" /\ V[i].as = "contested" =>
                      V[i].pair = p /\ A.truth # "superseded" /\ B.truth # "superseded"
<1> DEFINE V == Verdict(p, A, B)
<1>1. /\ p[1] \in DOMAIN Given /\ p[2] \in DOMAIN Given /\ Range(p) = {p[1], p[2]}
      /\ p[1] \in FactIds /\ p[2] \in FactIds
  BY PairFacts, GivenAssumption
<1>2. ASSUME NEW how \in {"superseded", "contested"}
      PROVE  /\ Resolve(p, how) \in Statement /\ Touched(Resolve(p, how)) = {}
             /\ Resolve(p, how).do = "resolve" /\ Resolve(p, how).as = how
             /\ Resolve(p, how).pair = p
  BY DEF Resolve, Statement, Touched
<1>3. CASE "superseded" \in {A.truth, B.truth}
  <2>1. V = <<Resolve(p, "superseded")>> BY <1>3 DEF Verdict
  <2> HIDE DEF V
  <2>2. /\ V \in Seq(Statement) /\ V # <<>> /\ DOMAIN V = {1}
        /\ V[1] = Resolve(p, "superseded")
    BY <1>2, <2>1
  <2>3. QED BY <1>2, <2>2 DEF V
<1>4. ASSUME "superseded" \notin {A.truth, B.truth},
             NEW loser \in Range(p), NEW winner \in Range(p), V = SupersedeFact(p, loser, winner)
      PROVE  /\ V \in Seq(Statement) /\ V # <<>>
             /\ \A i \in DOMAIN V : Touched(V[i]) \subseteq Judgeable(p, A, B) /\ V[i].do # "downgrade"
             /\ Len(V) = 3 /\ V[1].fact \in Range(p)
             /\ V[2] = [do |-> "auto", facts |-> {V[1].fact}]
             /\ V[3] = Resolve(p, "superseded")
             /\ \A i \in DOMAIN V :
                  /\ V[i].do = "supersede" => i = 1
                  /\ ~ (V[i].do = "resolve" /\ V[i].as = "contested")
  <2> DEFINE first == [do |-> "supersede", fact |-> loser, by |-> winner]
             second == [do |-> "auto", facts |-> {loser}]
  <2>1. loser \in FactIds /\ winner \in FactIds /\ loser \in Judgeable(p, A, B)
    BY <1>1, <1>4 DEF Judgeable
  <2>2. /\ first \in Statement /\ Touched(first) = {loser}
        /\ first.do = "supersede" /\ first.fact = loser
    BY <2>1 DEF Statement, Touched
  <2>3. second \in Statement /\ Touched(second) = {} /\ second.do = "auto"
    BY <2>1 DEF Statement, Touched, BySweeps
  <2>4. V = <<first, second, Resolve(p, "superseded")>> BY <1>4 DEF SupersedeFact
  <2> HIDE DEF V, first
  <2>5. /\ V[1] = first /\ V[2] = second /\ V[3] = Resolve(p, "superseded")
        /\ Len(V) = 3 /\ DOMAIN V = 1..3 /\ V # <<>>
    BY <2>4
  <2>6. V \in Seq(Statement) BY <1>2, <2>2, <2>3, <2>4
  <2>7. \A i \in DOMAIN V : i = 1 \/ i = 2 \/ i = 3 BY <2>5
  <2>8. QED BY <1>2, <2>1, <2>2, <2>3, <2>5, <2>6, <2>7
<1>5. CASE "superseded" \notin {A.truth, B.truth} /\ Winner(A, B) = "a"
  <2>1. V = SupersedeFact(p, p[2], p[1]) BY <1>5 DEF Verdict
  <2> HIDE DEF V
  <2>2. QED BY <1>1, <1>4, <1>5, <2>1 DEF V
<1>6. CASE "superseded" \notin {A.truth, B.truth} /\ Winner(A, B) = "b"
  <2>1. V = SupersedeFact(p, p[1], p[2]) BY <1>6 DEF Verdict
  <2> HIDE DEF V
  <2>2. QED BY <1>1, <1>4, <1>6, <2>1 DEF V
<1>7. CASE "superseded" \notin {A.truth, B.truth} /\ Winner(A, B) \notin {"a", "b"}
  <2> DEFINE last == Resolve(p, "contested")
             contest(f) == [do |-> "contest", fact |-> f]
             Q == {last, contest(p[1]), contest(p[2])}
  <2>1. V = Contest(p[1], A) \o Contest(p[2], B) \o <<last>>
    BY <1>7 DEF Verdict
  <2>2. \A f \in {p[1], p[2]} :
          /\ contest(f) \in Statement /\ Touched(contest(f)) = {f}
          /\ contest(f).do = "contest"
    BY <1>1 DEF Statement, Touched
  <2>3. Contest(p[1], A) \in Seq(Q) /\ Contest(p[2], B) \in Seq(Q) /\ <<last>> \in Seq(Q)
    <3>1. contest(p[1]) \in Q /\ contest(p[2]) \in Q /\ last \in Q OBVIOUS
    <3>2. Contest(p[1], A) \in {<<>>, <<contest(p[1])>>} BY DEF Contest
    <3>3. Contest(p[2], B) \in {<<>>, <<contest(p[2])>>} BY DEF Contest
    <3> HIDE DEF Q, last, contest
    <3>4. <<>> \in Seq(Q) /\ \A x \in Q : <<x>> \in Seq(Q) OBVIOUS
    <3>5. Contest(p[1], A) \in Seq(Q) BY <3>1, <3>2, <3>4
    <3>6. Contest(p[2], B) \in Seq(Q) BY <3>1, <3>3, <3>4
    <3>7. QED BY <3>1, <3>4, <3>5, <3>6
  <2> HIDE DEF V, last, Q
  <2>4. Len(<<last>>) = 1 OBVIOUS
  <2>5. V \in Seq(Q) /\ Len(V) = Len(Contest(p[1], A)) + Len(Contest(p[2], B)) + 1
    BY <2>1, <2>3, <2>4
  <2>6. Len(V) >= 1 /\ V # <<>> BY <2>3, <2>5
  <2>7. \A i \in DOMAIN V : V[i] \in Q BY <2>5
  <2>8. \A st \in Q : /\ st \in Statement /\ Touched(st) \subseteq Judgeable(p, A, B)
                      /\ st.do \in {"contest", "resolve"}
                      /\ st.do = "resolve" => st.pair = p
    BY <1>2, <1>7, <2>2 DEF Q, last, Judgeable
  <2>9. Q \subseteq Statement BY <2>8
  <2>10. V \in Seq(Statement) BY <2>5, <2>9
  <2>11. 1 \in DOMAIN V BY <2>5, <2>6
  <2>12. QED BY <1>7, <2>6, <2>7, <2>8, <2>10, <2>11 DEF V
<1>8. QED BY <1>3, <1>5, <1>6, <1>7

(* A run that has judged a contradiction of its list: what it may update   *)
(* was not superseded when it read it.                                     *)
LEMMA JudgedFacts ==
  ASSUME Typed, NEW s \in Slots, run[s].pc = "judge", SeenOK(run[s])
  PROVE  LET R == Judged(s)
         IN /\ R \in RunRecord
            /\ R.pc = "write" /\ R.open = run[s].open /\ R.tx = run[s].tx
            /\ R.statements # <<>>
            /\ \A i \in DOMAIN R.statements : Touched(R.statements[i]) \subseteq DOMAIN facts
            /\ PlanSettles(R) /\ SeenOK(R)
<1> DEFINE r == run[s]
           p == Pairs[Min(r.todo)]
           A == Sees(s)[p[1]]
           B == Sees(s)[p[2]]
           V == Verdict(p, A, B)
           read == (r.seen \ Range(p)) \cup {f \in Range(p) : Sees(s)[f].truth # "superseded"}
           R == Judged(s)
<1>1. r \in RunRecord /\ r.todo # {} /\ r.todo \subseteq DOMAIN Pairs
  BY RunParts DEF Shape, RunRecord
<1>2. p \in GivenPairs
  <2>1. r.todo \subseteq Nat BY <1>1, PairsAssumption
  <2>2. Min(r.todo) \in r.todo BY <1>1, <2>1, LeastExists
  <2>3. QED BY <1>1, <2>2 DEF GivenPairs, Range
<1>3. R = [[r EXCEPT !.seen = read] EXCEPT !.pc = "write", !.statements = V]
  BY DEF Judged, Reads
<1>4. /\ V \in Seq(Statement) /\ V # <<>>
      /\ \A i \in DOMAIN V : Touched(V[i]) \subseteq Judgeable(p, A, B) /\ V[i].do # "downgrade"
      /\ V[1].do = "supersede" =>
           /\ Len(V) = 3 /\ V[1].fact \in Range(p)
           /\ V[2] = [do |-> "auto", facts |-> {V[1].fact}]
           /\ V[3] = Resolve(p, "superseded")
      /\ \A i \in DOMAIN V :
           /\ V[i].do = "supersede" => i = 1
           /\ V[i].do = "resolve" /\ V[i].as = "contested" =>
                V[i].pair = p /\ A.truth # "superseded" /\ B.truth # "superseded"
  <2> HIDE DEF p, A, B
  <2>1. QED BY <1>2, VerdictFacts
<1>5. /\ Range(p) = {p[1], p[2]} /\ p[1] \in DOMAIN Given /\ p[2] \in DOMAIN Given
      /\ Range(p) \subseteq FactIds
  BY <1>2, PairFacts, GivenAssumption
<1>6. \A f \in DOMAIN r.tx.rows : Sees(s)[f] = r.tx.rows[f] BY SeesFacts
<1>7. Judgeable(p, A, B) \subseteq DOMAIN facts
  BY <1>5 DEF Judgeable, Typed, TablesTyped
<1>8. \A f \in DOMAIN r.tx.rows \cap Range(p) :
        r.tx.rows[f] = A \/ r.tx.rows[f] = B
  BY <1>5, <1>6
<1>9. read \subseteq FactIds /\ Judgeable(p, A, B) \subseteq read
  BY <1>1, <1>5 DEF Judgeable, RunRecord
<1>10. \A f \in DOMAIN r.tx.rows : f \in read \/ r.tx.rows[f].truth = "superseded"
  BY <1>6 DEF SeenOK
<1> HIDE DEF R, V, r, p, A, B, read
<1>11. /\ R \in RunRecord /\ R.pc = "write" /\ R.open = r.open /\ R.tx = r.tx
       /\ R.statements = V /\ R.seen = read
  BY <1>1, <1>3, <1>4, <1>9 DEF RunRecord
<1>12. V[1].do = "supersede" => Supersedes(R) BY <1>2, <1>4, <1>11 DEF Supersedes
<1>13. ASSUME NEW i \in DOMAIN V, V[i].do = "resolve", V[i].as = "contested"
       PROVE  Contests(R, i)
  BY <1>4, <1>8, <1>11, <1>13 DEF Contests
<1>14. PlanSettles(R) BY <1>4, <1>11, <1>12, <1>13 DEF PlanSettles
<1>15. SeenOK(R)
  <2>1. \A i \in DOMAIN V : Touched(V[i]) \subseteq read BY <1>4, <1>9
  <2>2. QED BY <1>10, <1>11, <2>1 DEF SeenOK
<1>16. \A i \in DOMAIN V : Touched(V[i]) \subseteq DOMAIN facts BY <1>4, <1>7
<1>17. QED BY <1>4, <1>11, <1>14, <1>15, <1>16 DEF R, r

(* The scores that a review lowers a fact to.                              *)
LEMMA LoweredFacts ==
  ASSUME Typed, NEW f \in DOMAIN facts
  PROVE  Lowered(f) \in Scores
<1>1. facts[f] \in Row BY TableFacts DEF Typed, TablesTyped
<1>2. facts[f].trust \in Int /\ facts[f].confidence \in Int BY <1>1 DEF Row, Full
<1>3. TrustPenalty \in Int /\ ConfidencePenalty \in Int BY SettingsAssumption
<1>4. \A p \in Int : Penalty(facts[f], p) \in Int BY DEF Penalty
<1>5. \A x \in Int : Clamp(x) \in 0..Full BY DEF Clamp, Full
<1>6. QED BY <1>2, <1>3, <1>4, <1>5 DEF Lowered, Scores

(* A review updates facts of its batch, and supersedes none.               *)
LEMMA ReviewFacts ==
  ASSUME Typed, NEW batch \in SUBSET (DOMAIN facts)
  PROVE  LET V == Review(batch)
         IN /\ V \in Seq(Statement) /\ V # <<>>
            /\ \A i \in DOMAIN V :
                 Touched(V[i]) \subseteq batch /\ V[i].do \in {"downgrade", "unknown", "reviewed"}
<1> DEFINE V == Review(batch)
           unknown == {f \in batch : Lowered(f).trust < 80}
           known == batch \ unknown
           lower(do, S) == [do |-> do, scores |-> [f \in S |-> Lowered(f)]]
           part(do, S) == IF S = {} THEN <<>> ELSE <<lower(do, S)>>
           last == [do |-> "reviewed", facts |-> batch]
           Q == {lower("downgrade", known), lower("unknown", unknown), last}
<1>1. V = part("downgrade", known) \o part("unknown", unknown) \o <<last>> BY DEF Review
<1>2. DOMAIN facts \subseteq FactIds BY TableFacts DEF Typed, TablesTyped
<1>3. ASSUME NEW do \in {"downgrade", "unknown"}, NEW S \in SUBSET batch
      PROVE  /\ lower(do, S) \in Statement /\ lower(do, S).do = do
             /\ Touched(lower(do, S)) \subseteq batch
  <2> DEFINE scores == [f \in S |-> Lowered(f)]
  <2>1. scores \in [S -> Scores] BY LoweredFacts
  <2>2. S \in SUBSET FactIds /\ DOMAIN scores = S BY <1>2
  <2> HIDE DEF scores
  <2>3. [do |-> do, scores |-> scores] \in Statement BY <2>1, <2>2 DEF Statement
  <2>4. Touched([do |-> do, scores |-> scores]) = S BY <2>2 DEF Touched
  <2>5. QED BY <2>3, <2>4 DEF scores
<1>4. last \in Statement /\ Touched(last) = {} /\ last.do = "reviewed"
  BY <1>2 DEF Statement, Touched, BySweeps
<1>5. known \in SUBSET batch /\ unknown \in SUBSET batch OBVIOUS
<1>6. lower("downgrade", known) \in Q /\ lower("unknown", unknown) \in Q /\ last \in Q
  OBVIOUS
<1> HIDE DEF known, unknown, lower, last
<1>7. \A st \in Q : /\ st \in Statement /\ Touched(st) \subseteq batch
                    /\ st.do \in {"downgrade", "unknown", "reviewed"}
  BY <1>3, <1>4, <1>5
<1> HIDE DEF Q
<1>8. <<>> \in Seq(Q) /\ \A x \in Q : <<x>> \in Seq(Q) /\ Len(<<x>>) = 1 OBVIOUS
<1>9. part("downgrade", known) \in Seq(Q) /\ part("unknown", unknown) \in Seq(Q)
  BY <1>6, <1>8
<1> HIDE DEF part, V
<1>10. V \in Seq(Q) /\ Len(V) = Len(part("downgrade", known)) + Len(part("unknown", unknown)) + 1
  BY <1>1, <1>6, <1>8, <1>9
<1>11. Len(V) >= 1 /\ V # <<>> BY <1>9, <1>10
<1>12. \A i \in DOMAIN V : V[i] \in Q BY <1>10
<1>13. Q \subseteq Statement BY <1>7
<1>14. V \in Seq(Statement) BY <1>10, <1>13
<1>15. QED BY <1>7, <1>11, <1>12, <1>14 DEF V

(* What a sweep starts with: it has listed something, has written nothing, *)
(* and updates what it has listed, none of it superseded.                  *)
LEMMA FetchedFacts ==
  ASSUME Typed, NEW s \in Slots, s[2] = "tracked", NEW R \in Fetched(s)
  PROVE  /\ R \in RunRecord /\ Shape(s, R, DOMAIN facts) /\ R.open /\ R.tx = NoWrites
         /\ PlanSettles(R) /\ SeenOK(R)
<1>1. run[s] \in RunRecord BY RunParts
<1>2. /\ Started(s) \in RunRecord /\ Started(s).open /\ Started(s).tx = NoWrites
      /\ Started(s).statements = <<>> /\ Started(s).seen = {}
  <2>1. run[s].attempt \in 1..MaxAttempts BY <1>1 DEF RunRecord
  <2>2. <<>> \in Seq(Statement) OBVIOUS
  <2>3. QED BY <2>1, <2>2, NoWritesFacts DEF Started, IdleRun, RunRecord
<1>3. DOMAIN <<>> = {} /\ Entries \ BySweeps \subseteq Entries OBVIOUS
<1>4. CASE R \in FetchContradictions(s)
  <2>1. Unresolved \in SUBSET Nat /\ Unresolved \subseteq DOMAIN Pairs
    BY PairsAssumption DEF Unresolved
  <2>2. PICK todo \in {FirstOf(Unresolved)} \ {{}} :
          R = [Started(s) EXCEPT !.pc = "judge", !.todo = todo]
    BY <1>4 DEF FetchContradictions
  <2>3. todo \subseteq DOMAIN Pairs /\ todo # {} BY <2>1, <2>2 DEF FirstOf
  <2>4. /\ R \in RunRecord /\ R.open /\ R.tx = NoWrites /\ R.statements = <<>>
        /\ R.pc = "judge" /\ R.todo # {}
    BY <1>2, <2>2, <2>3 DEF RunRecord
  <2>5. Shape(s, R, DOMAIN facts) BY <1>3, <2>4, NoWritesFacts DEF Shape
  <2>6. PlanSettles(R) /\ SeenOK(R) BY <1>3, <2>4, NoWritesFacts DEF PlanSettles, SeenOK
  <2>7. QED BY <2>4, <2>5, <2>6
<1>5. CASE R \in FetchStale(s)
  <2>1. PICK batch \in SUBSET StaleFacts :
          R = [Reads(Started(s), batch, facts) EXCEPT !.pc = "write", !.statements = Review(batch)]
    BY <1>5 DEF FetchStale, Stalest, kSubset
  <2> DEFINE V == Review(batch)
  <2>2. batch \subseteq DOMAIN facts /\ batch \subseteq FactIds
    BY TableFacts DEF StaleFacts, Typed, TablesTyped
  <2>3. \A f \in batch : facts[f].truth # "superseded" BY DEF StaleFacts
  <2>4. Reads(Started(s), batch, facts) = [Started(s) EXCEPT !.seen = batch]
    BY <1>2, <2>3 DEF Reads
  <2>5. /\ V \in Seq(Statement) /\ V # <<>>
        /\ \A i \in DOMAIN V :
             Touched(V[i]) \subseteq batch /\ V[i].do \in {"downgrade", "unknown", "reviewed"}
    BY <2>2, ReviewFacts
  <2>6. 1 \in DOMAIN V
    <3> HIDE DEF V
    <3>1. QED BY <2>5
  <2> HIDE DEF V
  <2>7. /\ R \in RunRecord /\ R.open /\ R.tx = NoWrites /\ R.statements = V /\ R.pc = "write"
        /\ R.seen = batch
    BY <1>2, <2>1, <2>2, <2>4, <2>5 DEF RunRecord, V
  <2>8. Shape(s, R, DOMAIN facts) BY <1>3, <2>2, <2>5, <2>7, NoWritesFacts DEF Shape
  <2>9. PlanSettles(R) BY <2>5, <2>6, <2>7 DEF PlanSettles
  <2>10. SeenOK(R) BY <2>5, <2>7, NoWritesFacts DEF SeenOK
  <2>11. QED BY <2>7, <2>8, <2>9, <2>10
<1>6. QED BY <1>4, <1>5 DEF Fetched

-----------------------------------------------------------------------------
(* A run that has lost its transaction goes on, or is over.                *)
GoesOn(r) == Left([r EXCEPT !.open = FALSE, !.tx = NoWrites, !.attempt = 1])

(* Such a run has no writes left, whatever it had.                         *)
LEMMA GoesOnFacts ==
  ASSUME NEW r \in RunRecord, NEW there, NEW q,
         r.pc \in {"write", "judge", "commit"},
         r.pc = "write" => r.statements # <<>>,
         r.pc = "judge" => r.todo # {},
         \A i \in DOMAIN r.statements : Touched(r.statements[i]) \subseteq there, SeenOK(r)
  PROVE  LET R == GoesOn(r)
         IN R \in RunRecord /\ Shape(q, R, there) /\ ~ R.open /\ R.tx = NoWrites /\ SeenOK(R)
<1> DEFINE cut == [r EXCEPT !.open = FALSE, !.tx = NoWrites, !.attempt = 1]
<1>1. 1 \in 1..MaxAttempts BY SettingsAssumption
<1>2. NoWrites \in Writes /\ NoWrites.resolved = <<>> /\ NoWrites.events = NoEvents
  BY NoWritesFacts DEF NoWrites
<1>3. /\ cut \in RunRecord /\ ~ cut.open /\ cut.tx = NoWrites
      /\ cut.pc = r.pc /\ cut.statements = r.statements /\ cut.todo = r.todo /\ cut.seen = r.seen
  BY <1>1, <1>2 DEF RunRecord
<1>4. IdleRun \in RunRecord /\ ~ IdleRun.open /\ IdleRun.tx = NoWrites /\ SeenOK(IdleRun)
  <2>1. <<>> \in Seq(Statement) /\ DOMAIN <<>> = {} OBVIOUS
  <2>2. QED BY <1>1, <1>2, <2>1, NoWritesFacts DEF IdleRun, RunRecord, SeenOK
<1>5. Entries \ BySweeps \subseteq Entries OBVIOUS
<1>6. Shape(q, IdleRun, there)
  <2>1. DOMAIN <<>> = {} OBVIOUS
  <2>2. QED BY <1>2, <1>5, <2>1, NoWritesFacts DEF IdleRun, Shape
<1> HIDE DEF cut
<1>7. CASE r.pc = "commit"
  <2>1. Left(cut) = IdleRun BY <1>3, <1>7 DEF Left
  <2>2. QED BY <1>4, <1>6, <2>1 DEF cut, GoesOn
<1>8. CASE r.pc # "commit"
  <2>1. Left(cut) = cut BY <1>3, <1>8 DEF Left
  <2>2. Shape(q, cut, there) BY <1>2, <1>3, <1>5, <1>8, NoWritesFacts DEF Shape
  <2>3. SeenOK(cut) BY <1>3, NoWritesFacts DEF SeenOK
  <2>4. QED BY <1>3, <2>1, <2>2, <2>3 DEF cut, GoesOn
<1>9. QED BY <1>7, <1>8

(* What a run that has failed is replaced by.                              *)
LEMMA AfterFailureFacts ==
  ASSUME Typed, NEW s \in Slots, NEW there
  PROVE  LET R == AfterFailure(s)
         IN R \in RunRecord /\ Shape(s, R, there) /\ ~ R.open /\ R.tx = NoWrites /\ SeenOK(R)
<1>1. run[s].attempt \in 1..MaxAttempts /\ MaxAttempts \in Nat
  BY RunParts, SettingsAssumption DEF RunRecord
<1>2. 1 \in 1..MaxAttempts BY SettingsAssumption
<1>3. CASE run[s].attempt < MaxAttempts
  <2>1. PICK n \in 1..MaxAttempts : n = run[s].attempt + 1 BY <1>1, <1>3
  <2>2. AfterFailure(s) = [IdleRun EXCEPT !.pc = "backoff", !.attempt = n]
    BY <1>3, <2>1 DEF AfterFailure
  <2> DEFINE R == [IdleRun EXCEPT !.pc = "backoff", !.attempt = n]
  <2>3. R \in RunRecord /\ Shape(s, R, there) /\ SeenOK(R) BY StoppedRecords
  <2>4. ~ R.open /\ R.tx = NoWrites BY DEF IdleRun
  <2>5. QED BY <2>2, <2>3, <2>4
<1>4. CASE ~ (run[s].attempt < MaxAttempts)
  <2>1. AfterFailure(s) = IdleRun BY <1>4 DEF AfterFailure
  <2>2. QED BY <1>2, <2>1, StoppedRecords
<1>5. QED BY <1>3, <1>4

(* A step of the worker that no table shows keeps the invariant if the     *)
(* runs keep theirs.                                                       *)
LEMMA TablesKept ==
  ASSUME IInv, UNCHANGED <<tables, service>>, deadLetter' \subseteq Sweeps,
         run' \in [Slots -> RunRecord],
         \A q \in Slots : Shape(q, run'[q], DOMAIN facts) /\ RunOK(run'[q], facts),
         RowsApart'
  PROVE  IInv'
<1>1. /\ facts' = facts /\ evidence' = evidence /\ feedback' = feedback /\ audit' = audit
      /\ resolution' = resolution /\ call' = call /\ handler' = handler
  BY DEF tables, service
<1>2. Typed'
  <2>1. TablesTyped' BY <1>1 DEF IInv, Typed, TablesTyped
  <2>2. ServiceTyped' BY <1>1 DEF IInv, Typed, ServiceTyped, FactOf
  <2>3. WorkerTyped' BY <1>1 DEF WorkerTyped
  <2>4. QED BY <2>1, <2>2, <2>3 DEF Typed
<1>3. RunsOK' BY <1>1 DEF RunsOK
<1>4. Counted'
  BY <1>1 DEF IInv, Counted, RowCounted, EventsCounted, AnswersCounted, Answered, Base
<1>5. Corrected'
  <2>1. \A n, f : CorrectionOf(n, f) => CorrectionOf(n, f)' BY <1>1 DEF CorrectionOf
  <2>2. \A f : CorrectedBy(f)' = CorrectedBy(f) BY <1>1 DEF CorrectedBy
  <2>3. QED BY <1>1, <2>1, <2>2 DEF IInv, Corrected
<1>6. QED BY <1>2, <1>3, <1>4, <1>5 DEF IInv

(* In particular where each run that changes has the writes it had, or     *)
(* none.                                                                   *)
LEMMA NothingWritten ==
  ASSUME IInv, UNCHANGED <<tables, service>>, deadLetter' \subseteq Sweeps,
         run' \in [Slots -> RunRecord],
         \A q \in Slots : \/ run'[q] = run[q]
                          \/ /\ Shape(q, run'[q], DOMAIN facts) /\ PlanSettles(run'[q]) /\ SeenOK(run'[q])
                             /\ run'[q].tx = NoWrites \/ run'[q].tx = run[q].tx
  PROVE  IInv'
<1>1. \A q \in Slots : Shape(q, run[q], DOMAIN facts) /\ RunOK(run[q], facts)
  BY DEF IInv, Typed, WorkerTyped, RunsOK
<1>2. \A q \in Slots : DOMAIN run'[q].tx.rows \subseteq DOMAIN run[q].tx.rows
  BY NoWritesFacts
<1>3. RowsApart' BY <1>2 DEF IInv, RowsApart
<1>4. ASSUME NEW q \in Slots PROVE RunOK(run'[q], facts)
  <2>1. CASE run'[q] = run[q] BY <1>1, <2>1
  <2>2. CASE PlanSettles(run'[q]) /\ SeenOK(run'[q]) /\ run'[q].tx = NoWrites
    BY <2>2, NoWritesFacts DEF RunOK, CountsKept, RowsSettled
  <2>3. CASE PlanSettles(run'[q]) /\ SeenOK(run'[q]) /\ run'[q].tx = run[q].tx
    BY <1>1, <2>3 DEF RunOK
  <2>4. QED BY <2>1, <2>2, <2>3
<1>5. \A q \in Slots : Shape(q, run'[q], DOMAIN facts) BY <1>1
<1>6. QED BY <1>3, <1>4, <1>5, TablesKept

(* The same where one run only changes.                                    *)
LEMMA RunReplaced ==
  ASSUME IInv, NEW s \in Slots, UNCHANGED <<tables, service>>, deadLetter' \subseteq Sweeps,
         NEW R \in RunRecord, run' = [run EXCEPT ![s] = R],
         Shape(s, R, DOMAIN facts), PlanSettles(R), SeenOK(R), R.tx = NoWrites \/ R.tx = run[s].tx
  PROVE  IInv'
<1>1. run \in [Slots -> RunRecord] BY DEF IInv, Typed, WorkerTyped
<1>2. run' \in [Slots -> RunRecord] BY <1>1
<1>3. run'[s] = R /\ \A q \in Slots \ {s} : run'[q] = run[q] BY <1>1
<1>4. \A q \in Slots : \/ run'[q] = run[q]
                       \/ /\ Shape(q, run'[q], DOMAIN facts) /\ PlanSettles(run'[q]) /\ SeenOK(run'[q])
                          /\ run'[q].tx = NoWrites \/ run'[q].tx = run[q].tx
  BY <1>3
<1>5. QED BY <1>2, <1>4, NothingWritten

(* A sweep that has failed, whether it is tried again or not.              *)
LEMMA SweepEndsBadlyKeeps ==
  ASSUME IInv, NEW s \in Slots, UNCHANGED <<tables, service>>, StatementFails(s) \/ SweepEndsBadly(s)
  PROVE  IInv'
<1>1. Typed /\ run \in [Slots -> RunRecord] /\ deadLetter \subseteq Sweeps
  BY DEF IInv, Typed, WorkerTyped
<1>2. PICK R : /\ run' = [run EXCEPT ![s] = R]
               /\ R \in RunRecord /\ Shape(s, R, DOMAIN facts) /\ SeenOK(R)
               /\ ~ R.open /\ R.tx = NoWrites
  <2>1. 1 \in 1..MaxAttempts BY SettingsAssumption
  <2>2. /\ IdleRun \in RunRecord /\ Shape(s, IdleRun, DOMAIN facts) /\ SeenOK(IdleRun)
        /\ ~ IdleRun.open /\ IdleRun.tx = NoWrites
    BY <2>1, StoppedRecords
  <2>3. LET R == AfterFailure(s)
        IN /\ R \in RunRecord /\ Shape(s, R, DOMAIN facts) /\ SeenOK(R)
           /\ ~ R.open /\ R.tx = NoWrites
    BY <1>1, AfterFailureFacts
  <2>4. run' = [run EXCEPT ![s] = AfterFailure(s)] \/ run' = [run EXCEPT ![s] = IdleRun]
    BY DEF StatementFails, SweepEndsBadly
  <2>5. QED BY <2>2, <2>3, <2>4
<1>3. s[1] \in Sweeps BY DEF Slots
<1>4. deadLetter' \subseteq Sweeps
  BY <1>1, <1>3 DEF StatementFails, SweepEndsBadly, PersistDeadLetter
<1>5. PlanSettles(R) BY <1>2 DEF PlanSettles
<1>6. QED BY <1>2, <1>4, <1>5, RunReplaced

(* A sweep that starts has written nothing yet.                            *)
LEMMA StartSweepKeeps ==
  ASSUME IInv, NEW s \in Slots, StartSweep(s)
  PROVE  IInv'
<1>1. Typed /\ deadLetter' \subseteq Sweeps /\ UNCHANGED <<tables, service>>
  BY DEF IInv, Typed, WorkerTyped, StartSweep
<1>2. PICK R \in Fetched(s) : run' = [run EXCEPT ![s] = R] BY DEF StartSweep
<1>3. /\ R \in RunRecord /\ Shape(s, R, DOMAIN facts) /\ R.tx = NoWrites
      /\ PlanSettles(R) /\ SeenOK(R)
  BY <1>1, <1>2, FetchedFacts DEF StartSweep
<1>4. QED BY <1>1, <1>2, <1>3, RunReplaced

(* A contradiction that is judged has nothing written yet.                 *)
LEMMA JudgeKeeps ==
  ASSUME IInv, NEW s \in Slots, JudgeContradiction(s)
  PROVE  IInv'
<1> DEFINE R == Judged(s)
<1>1. Typed /\ SeenOK(run[s]) /\ deadLetter' \subseteq Sweeps /\ UNCHANGED <<tables, service>>
  BY DEF IInv, Typed, WorkerTyped, JudgeContradiction, RunsOK, RunOK
<1>2. run[s].pc = "judge" /\ run' = [run EXCEPT ![s] = R] BY DEF JudgeContradiction
<1>3. /\ R \in RunRecord /\ R.pc = "write" /\ R.open = run[s].open /\ R.tx = run[s].tx
      /\ R.statements # <<>>
      /\ \A i \in DOMAIN R.statements : Touched(R.statements[i]) \subseteq DOMAIN facts
      /\ PlanSettles(R) /\ SeenOK(R)
  BY <1>1, <1>2, JudgedFacts
<1>4. Shape(s, run[s], DOMAIN facts) BY <1>1, RunParts
<1> HIDE DEF R
<1>5. Shape(s, R, DOMAIN facts) BY <1>3, <1>4 DEF Shape
<1>6. QED BY <1>1, <1>2, <1>3, <1>5, RunReplaced

(* A sweep that is tried again and finds nothing any more is over.         *)
LEMMA RetryFindsNothingKeeps ==
  ASSUME IInv, NEW s \in Slots, RetryFindsNothing(s)
  PROVE  IInv'
<1>1. deadLetter' \subseteq Sweeps /\ UNCHANGED <<tables, service>>
  BY DEF IInv, Typed, WorkerTyped, RetryFindsNothing
<1>2. 1 \in 1..MaxAttempts BY SettingsAssumption
<1>3. /\ IdleRun \in RunRecord /\ Shape(s, IdleRun, DOMAIN facts) /\ SeenOK(IdleRun)
      /\ ~ IdleRun.open /\ IdleRun.tx = NoWrites
  BY <1>2, StoppedRecords
<1>4. PlanSettles(IdleRun) BY <1>3 DEF PlanSettles
<1>5. run' = [run EXCEPT ![s] = IdleRun] BY DEF RetryFindsNothing
<1>6. QED BY <1>1, <1>3, <1>4, <1>5, RunReplaced

(* What a run goes on with comes from what it has read.                    *)
LEMMA AfterSeen ==
  ASSUME Typed, NEW s \in Slots, run[s].pc = "write", SeenOK(run[s]), NEW n \in 1..Together(s)
  PROVE  /\ SeenOK(After(s, n))
         /\ \A i \in DOMAIN After(s, n).statements :
              /\ Touched(After(s, n).statements[i]) \subseteq run[s].seen
              /\ Touched(After(s, n).statements[i]) \subseteq DOMAIN facts
<1> DEFINE R == After(s, n)
           all == run[s].statements
<1>1. /\ R.tx = run[s].tx /\ R.seen = run[s].seen
      /\ \A i \in DOMAIN R.statements : i + n \in 1..Len(all) /\ R.statements[i] = all[i + n]
  BY AfterFacts
<1>2. DOMAIN all = 1..Len(all) BY TogetherFacts
<1>3. \A i \in DOMAIN all : Touched(all[i]) \subseteq DOMAIN facts BY RunParts DEF Shape
<1> HIDE DEF R, all
<1>4. \A i \in DOMAIN R.statements : /\ Touched(R.statements[i]) \subseteq run[s].seen
                                     /\ Touched(R.statements[i]) \subseteq DOMAIN facts
  BY <1>1, <1>2, <1>3 DEF SeenOK, all
<1>5. SeenOK(R) BY <1>1, <1>4 DEF SeenOK
<1>6. QED BY <1>4, <1>5 DEF R

(* A sweep that times out: the run that is waited for and the one that is  *)
(* given up have no writes.                                                *)
LEMMA TimedOutKeeps ==
  ASSUME IInv, NEW s \in Slots, s[2] = "tracked", NEW r \in RunRecord, TimedOut(s, r),
         r.pc \in {"write", "judge", "commit"},
         r.pc = "write" => r.statements # <<>>,
         r.pc = "judge" => r.todo # {},
         \A i \in DOMAIN r.statements : Touched(r.statements[i]) \subseteq DOMAIN facts,
         SeenOK(r)
  PROVE  IInv'
<1> DEFINE abandoned == <<s[1], "abandoned">>
           A == AfterFailure(s)
           G == GoesOn(r)
<1>1. Typed /\ run \in [Slots -> RunRecord] /\ deadLetter' \subseteq Sweeps
  BY DEF IInv, Typed, WorkerTyped, TimedOut, PersistDeadLetter, Slots
<1>2. UNCHANGED <<tables, service>> BY DEF TimedOut
<1>3. abandoned \in Slots /\ s # abandoned BY DEF Slots
<1>4. run' = [run EXCEPT ![s] = A, ![abandoned] = G] BY DEF TimedOut, GoesOn
<1>5. /\ A \in RunRecord /\ Shape(s, A, DOMAIN facts) /\ ~ A.open /\ A.tx = NoWrites
      /\ SeenOK(A)
  BY <1>1, AfterFailureFacts
<1>6. /\ G \in RunRecord /\ Shape(abandoned, G, DOMAIN facts) /\ ~ G.open /\ G.tx = NoWrites
      /\ SeenOK(G)
  BY GoesOnFacts
<1> HIDE DEF A, G, abandoned
<1>7. PlanSettles(A) /\ PlanSettles(G) BY <1>5, <1>6 DEF PlanSettles
<1>8. /\ run' \in [Slots -> RunRecord] /\ run'[s] = A /\ run'[abandoned] = G
      /\ \A q \in Slots \ {s, abandoned} : run'[q] = run[q]
  BY <1>1, <1>3, <1>4, <1>5, <1>6
<1>9. \A q \in Slots : \/ run'[q] = run[q]
                       \/ /\ Shape(q, run'[q], DOMAIN facts) /\ PlanSettles(run'[q]) /\ SeenOK(run'[q])
                          /\ run'[q].tx = NoWrites \/ run'[q].tx = run[q].tx
  BY <1>5, <1>6, <1>7, <1>8
<1>10. QED BY <1>1, <1>2, <1>8, <1>9, NothingWritten

(* The run given up was listing, judging or writing.                       *)
LEMMA SweepTimesOutKeeps ==
  ASSUME IInv, NEW s \in Slots, SweepTimesOut(s)
  PROVE  IInv'
<1>1. Typed /\ SeenOK(run[s]) BY DEF IInv, RunsOK, RunOK
<1>2. run[s].open => s[2] = "tracked" BY <1>1, RunParts DEF Shape
<1>3. ASSUME s[2] = "tracked", NEW r \in Fetched(s), TimedOut(s, r) PROVE IInv'
  <2>1. r \in RunRecord /\ Shape(s, r, DOMAIN facts) /\ r.open /\ SeenOK(r)
    BY <1>1, <1>3, FetchedFacts
  <2>2. /\ r.pc \in {"write", "judge", "commit"}
        /\ r.pc = "write" => r.statements # <<>>
        /\ r.pc = "judge" => r.todo # {}
        /\ \A i \in DOMAIN r.statements : Touched(r.statements[i]) \subseteq DOMAIN facts
    BY <2>1 DEF Shape
  <2>3. QED BY <1>3, <2>1, <2>2, TimedOutKeeps
<1>4. CASE run[s].open /\ run[s].pc = "judge" /\ TimedOut(s, Judged(s))
  BY <1>1, <1>2, <1>4, JudgedFacts, TimedOutKeeps
<1>5. ASSUME run[s].open, run[s].pc = "write", NEW n \in 1..Together(s), TimedOut(s, After(s, n))
      PROVE  IInv'
  <2> DEFINE R == After(s, n)
  <2>1. /\ R \in RunRecord /\ R.pc \in {"write", "judge", "commit"}
        /\ R.pc = "write" => R.statements # <<>>
        /\ R.pc = "judge" => R.todo # {}
    BY <1>1, <1>5, AfterFacts
  <2>2. /\ \A i \in DOMAIN R.statements : Touched(R.statements[i]) \subseteq DOMAIN facts
        /\ SeenOK(R)
    BY <1>1, <1>5, AfterSeen
  <2> HIDE DEF R
  <2>3. TimedOut(s, R) BY <1>5 DEF R
  <2>4. QED BY <1>2, <1>5, <2>1, <2>2, <2>3, TimedOutKeeps
<1>6. QED BY <1>3, <1>4, <1>5 DEF SweepTimesOut

(* A restart of the worker: all its transactions are rolled back.          *)
LEMMA WorkerRestartsKeeps ==
  ASSUME IInv, WorkerRestarts
  PROVE  IInv'
<1>1. deadLetter' \subseteq Sweeps /\ UNCHANGED <<tables, service>>
  BY DEF IInv, Typed, WorkerTyped, WorkerRestarts
<1>2. 1 \in 1..MaxAttempts BY SettingsAssumption
<1>3. \A s \in Slots : IdleRun \in RunRecord /\ Shape(s, IdleRun, DOMAIN facts) /\ SeenOK(IdleRun)
  BY <1>2, StoppedRecords
<1>4. IdleRun.tx = NoWrites /\ PlanSettles(IdleRun) BY DEF IdleRun, PlanSettles
<1>5. run' = [s \in Slots |-> IdleRun] BY DEF WorkerRestarts
<1>6. run' \in [Slots -> RunRecord] /\ \A q \in Slots : run'[q] = IdleRun BY <1>3, <1>5
<1>7. \A q \in Slots : \/ run'[q] = run[q]
                       \/ /\ Shape(q, run'[q], DOMAIN facts) /\ PlanSettles(run'[q]) /\ SeenOK(run'[q])
                          /\ run'[q].tx = NoWrites \/ run'[q].tx = run[q].tx
  BY <1>3, <1>4, <1>6
<1>8. QED BY <1>1, <1>6, <1>7, NothingWritten

-----------------------------------------------------------------------------
(* A run that supersedes a fact does it, its event and its contradiction   *)
(* together.                                                               *)
LEMMA SupersedesTogether ==
  ASSUME Typed, NEW s \in Slots, run[s].pc = "write", run[s].open, Supersedes(run[s]),
         NextStatement(s).do = "supersede", NEW f \in Touched(NextStatement(s))
  PROVE  /\ Together(s) = Len(run[s].statements)
         /\ SettledIn(Written(s, Together(s)), f)
<1> DEFINE all == run[s].statements
           W == Written(s, 3)
<1>1. PICK p \in GivenPairs : /\ Len(all) = 3 /\ all[1].fact \in Range(p)
                              /\ all[2] = [do |-> "auto", facts |-> {all[1].fact}]
                              /\ all[3] = Resolve(p, "superseded")
  BY DEF Supersedes
<1>2. NextStatement(s) = all[1] /\ all[1] \in Statement BY <1>1, TogetherFacts
<1>3. f = all[1].fact BY <1>2, StatementFacts
<1>4. /\ Touched(all[2]) = {} /\ Touched(all[3]) = {}
      /\ all[2].do = "auto" /\ all[2].facts = {all[1].fact}
      /\ all[3].do = "resolve" /\ all[3].pair = p /\ all[3].as = "superseded"
  BY <1>1 DEF Touched, Resolve
<1>5. \A i \in 2..Len(all) : Touched(all[i]) = {}
  <2>1. \A i \in 2..Len(all) : i = 2 \/ i = 3 BY <1>1
  <2>2. QED BY <1>4, <2>1
<1>6. Together(s) = 3 BY <1>1, <1>5 DEF Together
<1>7. f \in FactIds /\ "auto" \in Entries BY <1>2, StatementFacts DEF Entries
<1>8. Events(s, 3, f, "auto") > 0 BY <1>3, <1>4, EventsFacts
<1>9. run[s].tx.events[f]["auto"] \in Nat BY <1>7, RunParts DEF Trails
<1>10. W.events[f]["auto"] > 0
  <2>1. Events(s, 3, f, "auto") \in Nat BY EventsFacts
  <2>2. W.events[f]["auto"] = run[s].tx.events[f]["auto"] + Events(s, 3, f, "auto")
    BY <1>6, <1>7, WrittenFacts
  <2>3. QED BY <1>8, <1>9, <2>1, <2>2
<1>11. p \in DOMAIN Resolved(s, 3)
  <2>1. 3 \in 1..Together(s) BY <1>6
  <2>2. QED BY <1>4, <2>1, ResolvedFacts
<1>12. PICK i \in 1..3 : /\ all[i].do = "resolve" /\ all[i].pair = p
                         /\ all[i].as = Resolved(s, 3)[p]
  <2>1. 3 \in 1..Together(s) BY <1>6
  <2>2. QED BY <1>11, <2>1, ResolvedFacts
<1>13. Resolved(s, 3)[p] = "superseded"
  <2>1. i = 1 \/ i = 2 \/ i = 3 OBVIOUS
  <2>2. all[1].do = "supersede" BY <1>2
  <2>3. QED BY <1>4, <1>12, <2>1, <2>2
<1>14. p \in DOMAIN W.resolved /\ W.resolved[p] = "superseded"
  BY <1>6, <1>11, <1>13, WrittenFacts
<1>15. SettledIn(W, f) BY <1>1, <1>3, <1>10, <1>14 DEF SettledIn
<1>16. QED BY <1>1, <1>6, <1>15

(* What a transaction has settled stays settled in it: later statements    *)
(* contest no contradiction of a fact that it has superseded.              *)
LEMMA SettledStays ==
  ASSUME Typed, NEW s \in Slots, run[s].pc = "write", run[s].open, PlanSettles(run[s]),
         NEW n \in 1..Together(s), NEW f \in DOMAIN run[s].tx.rows,
         run[s].tx.rows[f].truth = "superseded", SettledIn(run[s].tx, f)
  PROVE  SettledIn(Written(s, n), f)
<1> DEFINE all == run[s].statements
           V == run[s].tx
           W == Written(s, n)
<1>1. f \in FactIds /\ "auto" \in Entries /\ n \in Nat
  BY RunParts, TableFacts, TogetherFacts DEF Entries
<1>2. W.events[f]["auto"] > 0
  <2>1. V.events[f]["auto"] \in Nat BY <1>1, RunParts DEF Trails
  <2>2. Events(s, n, f, "auto") \in Nat BY <1>1, EventsFacts
  <2>3. W.events[f]["auto"] = V.events[f]["auto"] + Events(s, n, f, "auto")
    BY <1>1, WrittenFacts
  <2>4. V.events[f]["auto"] > 0 BY DEF SettledIn
  <2>5. QED BY <2>1, <2>2, <2>3, <2>4
<1>3. PICK p \in DOMAIN V.resolved : f \in Range(p) /\ V.resolved[p] = "superseded"
  BY DEF SettledIn
<1>4. CASE p \notin DOMAIN Resolved(s, n)
  <2>1. p \in DOMAIN W.resolved /\ W.resolved[p] = "superseded" BY <1>3, <1>4, WrittenFacts
  <2>2. QED BY <1>2, <1>3, <2>1 DEF SettledIn
<1>5. CASE p \in DOMAIN Resolved(s, n)
  <2>1. PICK i \in 1..n : /\ all[i].do = "resolve" /\ all[i].pair = p
                          /\ all[i].as = Resolved(s, n)[p]
    BY <1>5, ResolvedFacts
  <2>2. i \in DOMAIN all /\ all[i] \in Statement BY TogetherFacts
  <2>3. all[i].as # "contested"
    <3>1. SUFFICES ASSUME all[i].as = "contested" PROVE FALSE OBVIOUS
    <3>2. Contests(run[s], i) BY <2>1, <2>2, <3>1 DEF PlanSettles
    <3>3. QED BY <1>3, <2>1, <3>2 DEF Contests
  <2>4. Resolved(s, n)[p] = "superseded" BY <2>1, <2>2, <2>3, StatementFacts
  <2>5. p \in DOMAIN W.resolved /\ W.resolved[p] = "superseded" BY <1>5, <2>4, WrittenFacts
  <2>6. QED BY <1>2, <1>3, <2>5 DEF SettledIn
<1>6. QED BY <1>4, <1>5

(* The sweeps insert events of their own only, and update facts there are. *)
LEMMA WrittenShape ==
  ASSUME Typed, NEW s \in Slots, run[s].pc = "write", NEW n \in 1..Together(s)
  PROVE  /\ \A f \in FactIds, e \in Entries \ BySweeps : Written(s, n).events[f][e] = 0
         /\ DOMAIN Written(s, n).rows \subseteq DOMAIN facts
         /\ \A f \in Touched(NextStatement(s)) : f \in DOMAIN facts
<1>1. ASSUME NEW f \in FactIds, NEW e \in Entries \ BySweeps
      PROVE  Written(s, n).events[f][e] = 0
  <2>1. run[s].tx.events[f][e] = 0 BY RunParts DEF Shape
  <2>2. \A i \in 1..n : run[s].statements[i].do # e
    <3>1. \A i \in 1..n : run[s].statements[i] \in Statement BY TogetherFacts
    <3>2. \A st \in Statement : st.do # e BY StatementFacts DEF Entries, BySweeps
    <3>3. QED BY <3>1, <3>2
  <2>3. n \in Nat BY TogetherFacts
  <2>4. Events(s, n, f, e) = 0 BY <2>2, <2>3, EventsFacts
  <2>5. Written(s, n).events[f][e] = run[s].tx.events[f][e] + Events(s, n, f, e)
    BY WrittenFacts
  <2>6. QED BY <2>1, <2>4, <2>5
<1>2. Touched(NextStatement(s)) \subseteq DOMAIN facts BY TogetherFacts
<1>3. DOMAIN run[s].tx.rows \subseteq DOMAIN facts BY RunParts DEF Shape
<1>4. DOMAIN Written(s, n).rows \subseteq DOMAIN facts BY <1>2, <1>3, WrittenFacts
<1>5. QED BY <1>1, <1>2, <1>4

(* The rows a run has after its next statement keep the counters of the    *)
(* table, for they are made of what it sees.                               *)
LEMMA WrittenCounts ==
  ASSUME Typed, NEW s \in Slots, run[s].pc = "write", NEW n \in 1..Together(s),
         CountsKept(run[s].tx, facts)
  PROVE  CountsKept(Written(s, n), facts)
<1> DEFINE V == run[s].tx
           W == Written(s, n)
           T == Touched(NextStatement(s))
<1>1. \A f \in T : SameCounts(Sees(s)[f], facts[f])
  <2> SUFFICES ASSUME NEW f \in T PROVE SameCounts(Sees(s)[f], facts[f])
    OBVIOUS
  <2>1. f \in DOMAIN facts BY TogetherFacts
  <2>2. CASE f \in DOMAIN V.rows
    <3>1. Sees(s)[f] = V.rows[f] BY <2>2, SeesFacts
    <3>2. QED BY <2>2, <3>1 DEF CountsKept
  <2>3. CASE f \notin DOMAIN V.rows
    <3>1. Sees(s)[f] = facts[f] BY <2>1, <2>3, SeesFacts
    <3>2. QED BY <3>1 DEF SameCounts
  <2>4. QED BY <2>2, <2>3
<1>2. \A f \in T : W.rows[f] = RowsWritten(s, Touched(NextStatement(s)))[f] /\ SameCounts(RowsWritten(s, Touched(NextStatement(s)))[f], Sees(s)[f])
  BY WrittenFacts, RowsWrittenFacts
<1>3. \A f \in T : SameCounts(W.rows[f], facts[f]) BY <1>1, <1>2 DEF SameCounts
<1>4. \A f \in DOMAIN V.rows \ T : W.rows[f] = V.rows[f] BY WrittenFacts
<1>5. \A f \in DOMAIN V.rows \ T : SameCounts(W.rows[f], facts[f]) BY <1>4 DEF CountsKept
<1>6. DOMAIN W.rows = T \cup DOMAIN V.rows BY WrittenFacts
<1> HIDE DEF T, V, W
<1>7. \A f \in DOMAIN W.rows : SameCounts(W.rows[f], facts[f]) BY <1>3, <1>5, <1>6
<1>8. QED BY <1>7 DEF CountsKept, W

(* Every row that the transaction has superseded is settled in it.         *)
LEMMA WrittenSettled ==
  ASSUME Typed, NEW s \in Slots, run[s].pc = "write", run[s].open, RunOK(run[s], facts)
  PROVE  RowsSettled(Written(s, Together(s)), facts)
<1> DEFINE n == Together(s)
           V == run[s].tx
           W == Written(s, n)
           st == NextStatement(s)
<1>1. n \in 1..n /\ st = run[s].statements[1] BY TogetherFacts
<1>2. RowsSettled(V, facts) /\ PlanSettles(run[s]) BY DEF RunOK
<1>3. SUFFICES ASSUME NEW f \in DOMAIN W.rows, W.rows[f].truth = "superseded",
                      facts[f].truth # "superseded"
               PROVE  SettledIn(W, f)
  BY DEF RowsSettled
<1>4. ASSUME f \in DOMAIN V.rows, V.rows[f].truth = "superseded"
      PROVE  SettledIn(W, f)
  <2>1. SettledIn(V, f) BY <1>2, <1>3, <1>4 DEF RowsSettled
  <2>2. QED BY <1>1, <1>2, <1>4, <2>1, SettledStays
<1>5. CASE f \in Touched(st)
  <2>1. W.rows[f] = RowsWritten(s, Touched(NextStatement(s)))[f] BY <1>1, <1>5, WrittenFacts
  <2>2. CASE st.do = "supersede"
    <3>1. Supersedes(run[s]) BY <1>1, <1>2, <2>2 DEF PlanSettles
    <3>2. QED BY <1>5, <2>2, <3>1, SupersedesTogether
  <2>3. CASE Sees(s)[f].truth = "superseded"
    <3>1. f \in DOMAIN facts BY <1>5, TogetherFacts
    <3>2. f \in DOMAIN V.rows BY <1>3, <2>3, <3>1, SeesFacts
    <3>3. QED BY <1>4, <2>3, <3>2, SeesFacts
  <2>4. QED BY <1>3, <1>5, <2>1, <2>2, <2>3, RowsWrittenFacts
<1>6. CASE f \notin Touched(st)
  <2>1. f \in DOMAIN V.rows /\ W.rows[f] = V.rows[f] BY <1>1, <1>3, <1>6, WrittenFacts
  <2>2. QED BY <1>3, <1>4, <2>1
<1>7. QED BY <1>5, <1>6

(* The rows of a transaction were read as not superseded, or are now.      *)
LEMMA WrittenSeen ==
  ASSUME Typed, NEW s \in Slots, run[s].pc = "write", NEW n \in 1..Together(s), SeenOK(run[s])
  PROVE  \A f \in DOMAIN Written(s, n).rows :
           f \in run[s].seen \/ Written(s, n).rows[f].truth = "superseded"
<1>1. Touched(NextStatement(s)) \subseteq run[s].seen BY TogetherFacts DEF SeenOK
<1>2. \A f \in DOMAIN run[s].tx.rows \ Touched(NextStatement(s)) :
        f \in run[s].seen \/ Written(s, n).rows[f].truth = "superseded"
  BY WrittenFacts DEF SeenOK
<1>3. DOMAIN Written(s, n).rows = Touched(NextStatement(s)) \cup DOMAIN run[s].tx.rows
  BY WrittenFacts
<1>4. QED BY <1>1, <1>2, <1>3

(* What is left of a plan after its next statement still settles what it   *)
(* supersedes, and contests nothing that it has superseded.                *)
LEMMA PlanGoesOn ==
  ASSUME Typed, NEW s \in Slots, run[s].pc = "write", run[s].open, PlanSettles(run[s])
  PROVE  PlanSettles([After(s, Together(s)) EXCEPT !.tx = Written(s, Together(s))])
<1> DEFINE n == Together(s)
           W == Written(s, n)
           all == run[s].statements
           rest == After(s, n)
           R == [rest EXCEPT !.tx = W]
           st == NextStatement(s)
<1>1. /\ n \in 1..n /\ n \in Nat /\ n >= 1 /\ st = all[1] /\ 1 \in DOMAIN all
      /\ DOMAIN all = 1..Len(all)
  BY TogetherFacts
<1>2. W \in Writes BY <1>1, WrittenFacts
<1>3. /\ rest \in RunRecord
      /\ rest.pc = "write" => Len(all) > n /\ rest.statements # <<>>
      /\ \A i \in DOMAIN rest.statements :
           i + n \in 1..Len(all) /\ rest.statements[i] = all[i + n]
  BY <1>1, AfterFacts
<1> HIDE DEF rest, W
<1>4. R.statements = rest.statements /\ R.pc = rest.pc /\ R.tx = W
  BY <1>2, <1>3 DEF RunRecord
<1> HIDE DEF R
<1>5. SUFFICES ASSUME R.pc = "write" PROVE PlanSettles(R)
  BY DEF PlanSettles, R, rest, W
<1>6. Len(all) > n /\ 1 \in DOMAIN R.statements
  <2>1. rest.statements # <<>> /\ rest.statements \in Seq(Statement)
    BY <1>3, <1>4, <1>5 DEF RunRecord
  <2>2. 1 \in DOMAIN rest.statements BY <2>1
  <2>3. QED BY <1>3, <1>4, <1>5, <2>2
<1>7. \A i \in DOMAIN R.statements : /\ i \in Nat /\ i >= 1 /\ i + n # 1
                                     /\ i + n \in DOMAIN all /\ R.statements[i] = all[i + n]
  <2>1. \A i \in DOMAIN R.statements : i \in Nat /\ i >= 1
    BY <1>3, <1>4 DEF RunRecord
  <2>2. QED BY <1>1, <1>3, <1>4, <2>1
<1>8. /\ \A i \in DOMAIN all : all[i].do = "supersede" => i = 1
      /\ \A i \in DOMAIN all :
           all[i].do = "resolve" /\ all[i].as = "contested" => Contests(run[s], i)
      /\ st.do = "supersede" => Supersedes(run[s])
  BY <1>1 DEF PlanSettles
<1>9. \A i \in DOMAIN R.statements : R.statements[i].do # "supersede"
  BY <1>7, <1>8
<1>10. st.do # "supersede"
  <2>1. SUFFICES ASSUME st.do = "supersede" PROVE FALSE OBVIOUS
  <2>2. PICK f \in Touched(st) : TRUE
    <3>1. st \in Statement BY TogetherFacts
    <3>2. st.fact \in Touched(st) BY <2>1, <3>1, StatementFacts
    <3>3. QED BY <3>2
  <2>3. n = Len(all) BY <1>8, <2>1, SupersedesTogether
  <2>4. QED BY <1>1, <1>6, <2>3
<1>11. ASSUME NEW i \in DOMAIN R.statements, R.statements[i].do = "resolve",
              R.statements[i].as = "contested"
       PROVE  Contests(R, i)
  <2>1. Contests(run[s], i + n) BY <1>7, <1>8, <1>11
  <2>2. \A j \in DOMAIN R.statements : R.statements[j].do # "downgrade"
    BY <1>7, <2>1 DEF Contests
  <2>3. st.do # "downgrade" BY <1>1, <2>1 DEF Contests
  <2>4. ASSUME NEW f \in DOMAIN W.rows \cap Range(R.statements[i].pair)
        PROVE  W.rows[f].truth # "superseded"
    <3>1. CASE f \in Touched(st)
      <4>1. W.rows[f] = RowsWritten(s, Touched(NextStatement(s)))[f] BY <1>1, <3>1, WrittenFacts DEF W
      <4>2. QED BY <1>10, <2>3, <3>1, <4>1, RowsWrittenFacts
    <3>2. CASE f \notin Touched(st)
      <4>1. f \in DOMAIN run[s].tx.rows /\ W.rows[f] = run[s].tx.rows[f]
        BY <1>1, <3>2, WrittenFacts DEF W
      <4>2. QED BY <1>7, <2>1, <4>1 DEF Contests
    <3>3. QED BY <3>1, <3>2
  <2>5. QED BY <1>4, <2>2, <2>4 DEF Contests
<1>12. QED BY <1>6, <1>9, <1>11 DEF PlanSettles

(* A statement in a transaction: its rows are locked, and seen by nobody.  *)
LEMMA ExecuteOpenKeeps ==
  ASSUME IInv, NEW s \in Slots, Execute(s), run[s].open
  PROVE  IInv'
<1> DEFINE n == Together(s)
           W == Written(s, n)
           rest == After(s, n)
           R == [rest EXCEPT !.tx = W]
<1>1. /\ Typed /\ RowsApart /\ run \in [Slots -> RunRecord]
      /\ \A q \in Slots : Shape(q, run[q], DOMAIN facts) /\ RunOK(run[q], facts)
  BY DEF IInv, Typed, WorkerTyped, RunsOK
<1>2. /\ run[s].pc = "write" /\ RowsFree(s) /\ run' = [run EXCEPT ![s] = R]
      /\ UNCHANGED <<tables, service>> /\ deadLetter' = deadLetter
  BY DEF Execute
<1>3. n \in 1..n BY <1>1, <1>2, TogetherFacts
<1>4. /\ W \in Writes
      /\ DOMAIN W.rows = Touched(NextStatement(s)) \cup DOMAIN run[s].tx.rows
  BY <1>1, <1>2, <1>3, WrittenFacts
<1>5. /\ rest \in RunRecord /\ rest.open
      /\ rest.pc \in {"write", "judge", "commit"}
      /\ rest.pc = "write" => rest.statements # <<>>
      /\ rest.pc = "judge" => rest.todo # {}
      /\ \A i \in DOMAIN rest.statements :
           /\ i + n \in 1..Len(run[s].statements)
           /\ rest.statements[i] = run[s].statements[i + n]
  BY <1>1, <1>2, <1>3, AfterFacts
<1>6. \A i \in DOMAIN rest.statements : Touched(rest.statements[i]) \subseteq DOMAIN facts
  <2>1. DOMAIN run[s].statements = 1..Len(run[s].statements) BY <1>1, <1>2, TogetherFacts
  <2>2. QED BY <1>1, <1>5, <2>1 DEF Shape
<1>7. /\ \A f \in FactIds, e \in Entries \ BySweeps : W.events[f][e] = 0
      /\ DOMAIN W.rows \subseteq DOMAIN facts
  BY <1>1, <1>2, <1>3, WrittenShape
<1>8. /\ CountsKept(W, facts) /\ RowsSettled(W, facts) /\ PlanSettles(R)
  BY <1>1, <1>2, <1>3, WrittenCounts, WrittenSettled, PlanGoesOn DEF RunOK
<1>9. s[2] = "tracked" BY <1>1 DEF Shape
<1>10. \A q \in Slots \ {s} : DOMAIN W.rows \cap DOMAIN run[q].tx.rows = {}
  BY <1>1, <1>2, <1>4 DEF RowsFree, UnlockedFor, RowsApart
<1>11. /\ \A f \in DOMAIN W.rows : f \in run[s].seen \/ W.rows[f].truth = "superseded"
       /\ \A i \in DOMAIN rest.statements : Touched(rest.statements[i]) \subseteq run[s].seen
       /\ rest.seen = run[s].seen
  BY <1>1, <1>2, <1>3, WrittenSeen, AfterSeen, AfterFacts DEF RunOK
<1> HIDE DEF rest, W, n
<1>12. /\ R \in RunRecord /\ R.open /\ R.tx = W /\ R.pc = rest.pc /\ R.todo = rest.todo
       /\ R.statements = rest.statements /\ R.seen = rest.seen
  BY <1>4, <1>5 DEF RunRecord
<1> HIDE DEF R
<1>13. Shape(s, R, DOMAIN facts) BY <1>5, <1>6, <1>7, <1>9, <1>12 DEF Shape
<1>14. RunOK(R, facts) BY <1>8, <1>12, <1>11 DEF RunOK, SeenOK
<1>15. /\ run' \in [Slots -> RunRecord] /\ run'[s] = R
       /\ \A q \in Slots \ {s} : run'[q] = run[q]
  BY <1>1, <1>2, <1>12
<1>16. RowsApart' BY <1>1, <1>10, <1>12, <1>15 DEF RowsApart
<1>17. \A q \in Slots : Shape(q, run'[q], DOMAIN facts) /\ RunOK(run'[q], facts)
  BY <1>1, <1>13, <1>14, <1>15
<1>18. deadLetter' \subseteq Sweeps BY <1>1, <1>2 DEF Typed, WorkerTyped
<1>19. QED BY <1>2, <1>15, <1>16, <1>17, <1>18, TablesKept

(* What is left of a batch without one of its rows.                        *)
LEMMA RestOfBatch ==
  ASSUME NEW st \in Statement, st.do \in {"downgrade", "unknown"}, NEW f
  PROVE  LET rest == [st EXCEPT !.scores = Restrict(st.scores, DOMAIN st.scores \ {f})]
         IN rest \in Statement /\ rest.do = st.do /\ Touched(rest) = Touched(st) \ {f}
<1> DEFINE S == DOMAIN st.scores
           scores == st.scores
           later == [g \in S \ {f} |-> scores[g]]
           rest == [do |-> st.do, scores |-> later]
<1>1. S \in SUBSET FactIds /\ scores \in [S -> Scores] /\ st = [do |-> st.do, scores |-> scores]
  BY DEF Statement, BySweeps
<1>2. S \ {f} \in SUBSET FactIds /\ later \in [S \ {f} -> Scores] BY <1>1
<1>3. [st EXCEPT !.scores = Restrict(st.scores, DOMAIN st.scores \ {f})] = rest
  BY <1>1 DEF Restrict
<1>4. DOMAIN later = S \ {f} /\ DOMAIN st.scores = S BY <1>1
<1> HIDE DEF later
<1>5. rest \in Statement BY <1>2 DEF Statement
<1>6. Touched(rest) = S \ {f} /\ Touched(st) = S BY <1>4 DEF Touched
<1>7. QED BY <1>3, <1>5, <1>6

(* One row of a batch, updated and locked until its transaction is over or *)
(* the batch is done: seen by nobody, like a statement in a transaction.   *)
LEMMA UpdateRowKeeps ==
  ASSUME IInv, NEW s \in Slots, NEW f \in FactIds, UpdateRow(s, f)
  PROVE  IInv'
<1> DEFINE V == run[s].tx
           all == run[s].statements
           st == NextStatement(s)
           row == RowsWritten(s, {f})
           rest == [st EXCEPT !.scores = Restrict(st.scores, DOMAIN st.scores \ {f})]
           rows == Over(row, V.rows)
           W == [V EXCEPT !.rows = rows]
           left == [all EXCEPT ![1] = rest]
           R == [run[s] EXCEPT !.tx = W, !.statements = left]
<1>1. /\ Typed /\ RowsApart /\ run \in [Slots -> RunRecord] /\ deadLetter \subseteq Sweeps
      /\ \A q \in Slots : Shape(q, run[q], DOMAIN facts) /\ RunOK(run[q], facts)
  BY DEF IInv, Typed, WorkerTyped, RunsOK
<1>2. /\ run[s].pc = "write" /\ f \in Touched(st) /\ Touched(st) # {f} /\ UnlockedFor(s, f)
      /\ UNCHANGED <<tables, service>> /\ deadLetter' = deadLetter
  BY DEF UpdateRow
<1>3. /\ all \in Seq(Statement) /\ Len(all) \in Nat \ {0} /\ DOMAIN all = 1..Len(all)
      /\ st = all[1] /\ st \in Statement /\ f \in DOMAIN facts
  BY <1>1, <1>2, TogetherFacts
<1>4. st.do \in {"downgrade", "unknown"}
  BY <1>2, <1>3, StatementFacts DEF BySweeps
<1>5. rest \in Statement /\ rest.do = st.do /\ Touched(rest) = Touched(st) \ {f}
  BY <1>3, <1>4, RestOfBatch
<1>6. run' = [run EXCEPT ![s] = R]
  <2>1. run[s] \in RunRecord BY <1>1
  <2>2. run' = [run EXCEPT ![s].tx.rows = rows, ![s].statements[1].scores =
                  Restrict(st.scores, DOMAIN st.scores \ {f})]
    BY <1>1, <1>3, <2>1 DEF UpdateRow, RunRecord
  <2>3. QED BY <1>1, <1>3, <2>1, <2>2 DEF RunRecord
<1> HIDE DEF rest
<1>7. /\ left \in Seq(Statement) /\ Len(left) = Len(all) /\ DOMAIN left = DOMAIN all
      /\ left[1] = rest /\ \A i \in DOMAIN all \ {1} : left[i] = all[i]
  <2>1. 1 \in 1..Len(all) BY <1>3
  <2> HIDE DEF all
  <2>2. /\ left \in Seq(Statement) /\ Len(left) = Len(all)
        /\ \A j \in 1..Len(all) : left[j] = IF j = 1 THEN rest ELSE all[j]
    BY <1>3, <1>5, <2>1, ExceptSeq
  <2>3. QED BY <1>3, <2>1, <2>2
<1>8. /\ row \in Tables /\ DOMAIN row = {f} /\ SameCounts(row[f], Sees(s)[f])
      /\ row[f].truth = "superseded" => st.do = "downgrade" /\ Sees(s)[f].truth = "superseded"
  <2>1. {f} \in SUBSET Touched(NextStatement(s)) BY <1>2
  <2>2. st.do # "supersede" BY <1>4
  <2>3. QED BY <1>1, <1>2, <2>1, <2>2, RowsWrittenFacts
<1> HIDE DEF row
<1>9. /\ rows \in Tables /\ DOMAIN rows = {f} \cup DOMAIN V.rows
      /\ rows[f] = row[f] /\ \A g \in DOMAIN V.rows \ {f} : rows[g] = V.rows[g]
  <2>1. V.rows \in Tables BY <1>1, RunParts
  <2>2. row \in Tables /\ DOMAIN row = {f} BY <1>8
  <2> HIDE DEF V
  <2>3. /\ rows \in Tables /\ DOMAIN rows = DOMAIN row \cup DOMAIN V.rows
        /\ \A g \in DOMAIN row : rows[g] = row[g]
        /\ \A g \in DOMAIN V.rows \ DOMAIN row : rows[g] = V.rows[g]
    BY <2>1, <2>2, OverTables
  <2>4. QED BY <2>2, <2>3
<1>10. V \in Writes BY <1>1 DEF RunRecord
<1> HIDE DEF rows, left
<1>11. /\ W \in Writes /\ W.rows = rows /\ W.resolved = V.resolved /\ W.events = V.events
  BY <1>9, <1>10 DEF Writes
<1> HIDE DEF W
<1>12. /\ R \in RunRecord /\ R.tx = W /\ R.statements = left /\ R.open = run[s].open
       /\ R.pc = run[s].pc /\ R.todo = run[s].todo /\ R.seen = run[s].seen
  BY <1>1, <1>7, <1>11 DEF RunRecord
<1>13. Shape(s, run[s], DOMAIN facts) /\ RunOK(run[s], facts) BY <1>1
<1>14. \A i \in DOMAIN left : Touched(left[i]) \subseteq Touched(all[i]) /\ left[i].do = all[i].do
  <2>1. \A i \in DOMAIN left : i = 1 \/ i \in DOMAIN all \ {1} BY <1>7
  <2>2. QED BY <1>3, <1>5, <1>7, <2>1
<1> HIDE DEF R
<1>15. Shape(s, R, DOMAIN facts)
  <2>1. DOMAIN W.rows \subseteq DOMAIN facts BY <1>3, <1>9, <1>11, <1>13 DEF Shape
  <2>2. left # <<>> BY <1>3, <1>7
  <2>3. \A i \in DOMAIN left : Touched(left[i]) \subseteq DOMAIN facts
    BY <1>7, <1>13, <1>14 DEF Shape
  <2>4. QED BY <1>2, <1>11, <1>12, <1>13, <2>1, <2>2, <2>3 DEF Shape
<1>16. CountsKept(W, facts)
  <2>1. SameCounts(rows[f], facts[f])
    <3>1. CASE f \in DOMAIN V.rows
      <4>1. Sees(s)[f] = V.rows[f] BY <1>1, <3>1, SeesFacts
      <4>2. SameCounts(V.rows[f], facts[f]) BY <1>13, <3>1 DEF RunOK, CountsKept
      <4>3. QED BY <1>8, <1>9, <4>1, <4>2 DEF SameCounts
    <3>2. CASE f \notin DOMAIN V.rows
      <4>1. Sees(s)[f] = facts[f] BY <1>1, <1>3, <3>2, SeesFacts
      <4>2. QED BY <1>8, <1>9, <4>1
    <3>3. QED BY <3>1, <3>2
  <2>2. \A g \in DOMAIN V.rows \ {f} : SameCounts(rows[g], facts[g])
    BY <1>9, <1>13 DEF RunOK, CountsKept
  <2>3. QED BY <1>9, <1>11, <2>1, <2>2 DEF CountsKept
<1>17. RowsSettled(W, facts)
  <2>1. SUFFICES ASSUME NEW g \in DOMAIN W.rows, W.rows[g].truth = "superseded",
                        facts[g].truth # "superseded"
                 PROVE  SettledIn(W, g)
    BY DEF RowsSettled
  <2>2. g \in DOMAIN V.rows /\ V.rows[g].truth = "superseded"
    <3>1. CASE g = f
      <4>1. Sees(s)[f].truth = "superseded" BY <1>8, <1>9, <1>11, <2>1, <3>1
      <4>2. f \in DOMAIN V.rows BY <1>1, <1>3, <2>1, <3>1, <4>1, SeesFacts
      <4>3. QED BY <1>1, <3>1, <4>1, <4>2, SeesFacts
    <3>2. CASE g # f BY <1>9, <1>11, <2>1, <3>2
    <3>3. QED BY <3>1, <3>2
  <2>3. SettledIn(V, g) BY <1>13, <2>1, <2>2 DEF RunOK, RowsSettled
  <2>4. QED BY <1>11, <2>3 DEF SettledIn
<1>18. PlanSettles(R)
  <2>1. SUFFICES ASSUME run[s].open PROVE PlanSettles(R)
    BY <1>12 DEF PlanSettles
  <2>2. PlanSettles(run[s]) BY <1>13 DEF RunOK
  <2>3. left[1].do # "supersede" BY <1>4, <1>5, <1>7
  <2>4. \A i \in DOMAIN left : left[i].do = "supersede" => i = 1
    BY <1>2, <1>7, <1>14, <2>1, <2>2 DEF PlanSettles
  <2>5. ASSUME NEW i \in DOMAIN left, left[i].do = "resolve", left[i].as = "contested"
        PROVE  Contests(R, i)
    <3>1. i # 1 /\ left[i] = all[i] BY <1>4, <1>5, <1>7, <2>5
    <3>2. Contests(run[s], i) BY <1>2, <1>7, <2>1, <2>2, <2>5, <3>1 DEF PlanSettles
    <3>3. \A j \in DOMAIN left : left[j].do # "downgrade" BY <1>7, <1>14, <3>2 DEF Contests
    <3>4. row[f].truth # "superseded" BY <1>3, <1>8, <3>2 DEF Contests
    <3>5. \A g \in DOMAIN rows \cap Range(left[i].pair) : rows[g].truth # "superseded"
      BY <1>9, <3>1, <3>2, <3>4 DEF Contests
    <3>6. QED BY <1>11, <1>12, <3>3, <3>5 DEF Contests
  <2>6. QED BY <1>12, <2>3, <2>4, <2>5 DEF PlanSettles
<1>19. SeenOK(R)
  <2>1. SeenOK(run[s]) BY <1>13 DEF RunOK
  <2>2. \A i \in DOMAIN all : Touched(all[i]) \subseteq run[s].seen BY <2>1 DEF SeenOK
  <2>3. f \in run[s].seen BY <1>2, <1>3, <2>2
  <2>4. \A g \in DOMAIN rows : g \in run[s].seen \/ rows[g].truth = "superseded"
    BY <1>9, <2>1, <2>3 DEF SeenOK
  <2>5. \A i \in DOMAIN left : Touched(left[i]) \subseteq run[s].seen BY <1>7, <1>14, <2>2
  <2>6. QED BY <1>11, <1>12, <2>4, <2>5 DEF SeenOK
<1>20. RunOK(R, facts) BY <1>12, <1>16, <1>17, <1>18, <1>19 DEF RunOK
<1>21. /\ run' \in [Slots -> RunRecord] /\ run'[s] = R
       /\ \A q \in Slots \ {s} : run'[q] = run[q]
  BY <1>1, <1>6, <1>12
<1>22. \A q \in Slots \ {s} : DOMAIN W.rows \cap DOMAIN run[q].tx.rows = {}
  BY <1>1, <1>2, <1>9, <1>11 DEF UnlockedFor, RowsApart
<1>23. RowsApart' BY <1>1, <1>12, <1>21, <1>22 DEF RowsApart
<1>24. \A q \in Slots : Shape(q, run'[q], DOMAIN facts) /\ RunOK(run'[q], facts)
  BY <1>1, <1>15, <1>20, <1>21
<1>25. deadLetter' \subseteq Sweeps BY <1>1, <1>2
<1>26. QED BY <1>2, <1>21, <1>23, <1>24, <1>25, TablesKept

-----------------------------------------------------------------------------
(* What a commit of a sweep makes of the tables: the same facts with the   *)
(* same counters, the same contradictions, and events of the sweeps only.  *)
LEMMA PublishFacts ==
  ASSUME Typed, NEW W \in Writes, Publish(W), DOMAIN W.rows \subseteq DOMAIN facts
  PROVE  /\ facts' \in Tables /\ DOMAIN facts' = DOMAIN facts
         /\ \A f \in DOMAIN W.rows : facts'[f] = W.rows[f]
         /\ \A f \in DOMAIN facts \ DOMAIN W.rows : facts'[f] = facts[f]
         /\ resolution' \in Marks /\ DOMAIN resolution' = DOMAIN resolution
         /\ \A p \in DOMAIN W.resolved : resolution'[p] = W.resolved[p]
         /\ \A p \in DOMAIN resolution \ GivenPairs : resolution'[p] = resolution[p]
         /\ audit' \in Trails
         /\ \A f \in FactIds, e \in Entries : audit'[f][e] = audit[f][e] + W.events[f][e]
         /\ evidence' = evidence /\ feedback' = feedback /\ accepts' = accepts
<1>1. /\ W.rows \in Tables /\ W.resolved \in Marks /\ DOMAIN W.resolved \subseteq GivenPairs
      /\ W.events \in Trails
  BY DEF Writes, SweptMarks
<1>2. /\ facts \in Tables /\ resolution \in Marks /\ audit \in Trails
      /\ GivenPairs \subseteq DOMAIN resolution
  BY DEF Typed, TablesTyped
<1>3. facts' = Over(W.rows, facts) /\ resolution' = Over(W.resolved, resolution)
  BY DEF Publish
<1>4. /\ facts' \in Tables /\ DOMAIN facts' = DOMAIN W.rows \cup DOMAIN facts
      /\ \A f \in DOMAIN W.rows : facts'[f] = W.rows[f]
      /\ \A f \in DOMAIN facts \ DOMAIN W.rows : facts'[f] = facts[f]
  <2>1. PICK F \in Tables : F = W.rows BY <1>1
  <2>2. PICK G \in Tables : G = facts BY <1>2
  <2>3. /\ Over(F, G) \in Tables /\ DOMAIN Over(F, G) = DOMAIN F \cup DOMAIN G
        /\ \A f \in DOMAIN F : Over(F, G)[f] = F[f]
        /\ \A f \in DOMAIN G \ DOMAIN F : Over(F, G)[f] = G[f]
    BY OverTables
  <2>4. QED BY <1>3, <2>1, <2>2, <2>3
<1>5. /\ resolution' \in Marks /\ DOMAIN resolution' = DOMAIN W.resolved \cup DOMAIN resolution
      /\ \A p \in DOMAIN W.resolved : resolution'[p] = W.resolved[p]
      /\ \A p \in DOMAIN resolution \ DOMAIN W.resolved : resolution'[p] = resolution[p]
  <2>1. PICK F \in Marks : F = W.resolved BY <1>1
  <2>2. PICK G \in Marks : G = resolution BY <1>2
  <2>3. /\ Over(F, G) \in Marks /\ DOMAIN Over(F, G) = DOMAIN F \cup DOMAIN G
        /\ \A p \in DOMAIN F : Over(F, G)[p] = F[p]
        /\ \A p \in DOMAIN G \ DOMAIN F : Over(F, G)[p] = G[p]
    BY OverMarks
  <2>4. QED BY <1>3, <2>1, <2>2, <2>3
<1>6. /\ audit' \in Trails
      /\ \A f \in FactIds, e \in Entries : audit'[f][e] = audit[f][e] + W.events[f][e]
  <2>1. audit' = [f \in FactIds |-> [e \in Entries |-> audit[f][e] + W.events[f][e]]]
    BY DEF Publish
  <2>2. \A f \in FactIds, e \in Entries : audit[f][e] + W.events[f][e] \in Nat
    <3>1. \A f \in FactIds, e \in Entries : audit[f][e] \in Nat /\ W.events[f][e] \in Nat
      BY <1>1, <1>2 DEF Trails
    <3>2. QED BY <3>1
  <2>3. QED BY <2>1, <2>2 DEF Trails
<1>7. DOMAIN facts' = DOMAIN facts /\ DOMAIN resolution' = DOMAIN resolution
  BY <1>1, <1>2, <1>4, <1>5
<1>8. \A p \in DOMAIN resolution \ GivenPairs : resolution'[p] = resolution[p]
  BY <1>1, <1>5
<1>9. evidence' = evidence /\ feedback' = feedback /\ accepts' = accepts BY DEF Publish
<1>10. QED BY <1>4, <1>5, <1>6, <1>7, <1>8, <1>9

(* A commit of a sweep keeps the invariant, if its rows are no other's.    *)
LEMMA PublishKeeps ==
  ASSUME IInv, NEW W \in Writes, Publish(W), DOMAIN W.rows \subseteq DOMAIN facts,
         CountsKept(W, facts),
         \A f \in FactIds, e \in Entries \ BySweeps : W.events[f][e] = 0,
         UNCHANGED service, deadLetter' \subseteq Sweeps, run' \in [Slots -> RunRecord],
         \A q \in Slots :
           \/ run'[q] = run[q] /\ DOMAIN W.rows \cap DOMAIN run[q].tx.rows = {}
           \/ /\ run'[q].tx = NoWrites /\ ~ run'[q].open
              /\ Shape(q, run'[q], DOMAIN facts) /\ SeenOK(run'[q])
  PROVE  IInv'
<1>1. Typed /\ RowsApart /\ RunsOK /\ Counted /\ Corrected BY DEF IInv
<1>2. /\ facts' \in Tables /\ DOMAIN facts' = DOMAIN facts
      /\ \A f \in DOMAIN W.rows : facts'[f] = W.rows[f]
      /\ \A f \in DOMAIN facts \ DOMAIN W.rows : facts'[f] = facts[f]
      /\ resolution' \in Marks /\ DOMAIN resolution' = DOMAIN resolution
      /\ \A p \in DOMAIN resolution \ GivenPairs : resolution'[p] = resolution[p]
      /\ audit' \in Trails
      /\ \A f \in FactIds, e \in Entries : audit'[f][e] = audit[f][e] + W.events[f][e]
      /\ evidence' = evidence /\ feedback' = feedback
  BY <1>1, PublishFacts
<1>3. call' = call /\ handler' = handler BY DEF service
<1>4. \A q \in Slots : Shape(q, run'[q], DOMAIN facts)
  BY <1>1 DEF Typed, WorkerTyped
<1>5. Typed'
  <2>1. TablesTyped' BY <1>1, <1>2 DEF Typed, TablesTyped
  <2>2. ServiceTyped' BY <1>1, <1>2, <1>3 DEF Typed, ServiceTyped, FactOf
  <2>3. WorkerTyped' BY <1>2, <1>4 DEF WorkerTyped
  <2>4. QED BY <2>1, <2>2, <2>3 DEF Typed
<1>6. \A q \in Slots : DOMAIN run'[q].tx.rows \subseteq DOMAIN run[q].tx.rows
  BY NoWritesFacts
<1>7. RowsApart' BY <1>1, <1>6 DEF RowsApart
<1>8. ASSUME NEW q \in Slots PROVE RunOK(run'[q], facts')
  <2>1. CASE run'[q] = run[q] /\ DOMAIN W.rows \cap DOMAIN run[q].tx.rows = {}
    <3>1. RunOK(run[q], facts) BY <1>1 DEF RunsOK
    <3>2. DOMAIN run[q].tx.rows \subseteq DOMAIN facts
      BY <1>1, RunParts DEF Shape
    <3>3. \A f \in DOMAIN run[q].tx.rows : facts'[f] = facts[f] BY <1>2, <2>1, <3>2
    <3>4. QED BY <2>1, <3>1, <3>3 DEF RunOK, CountsKept, RowsSettled
  <2>2. CASE run'[q].tx = NoWrites /\ ~ run'[q].open /\ SeenOK(run'[q])
    BY <2>2, NoWritesFacts DEF RunOK, CountsKept, RowsSettled, PlanSettles
  <2>3. QED BY <2>1, <2>2
<1>9. RunsOK' BY <1>8 DEF RunsOK
<1>10. Counted'
  <2>1. \A f \in DOMAIN facts : SameCounts(facts'[f], facts[f])
    BY <1>2 DEF CountsKept, SameCounts
  <2>2. ASSUME NEW f \in DOMAIN facts PROVE RowCounted(f)'
    BY <1>1, <1>2, <2>1 DEF Counted, RowCounted, SameCounts, Base
  <2>3. ASSUME NEW f \in FactIds, NEW e \in {"confirmed", "rejected", "corrected", "created"}
        PROVE  audit'[f][e] = audit[f][e]
    <3>1. e \in Entries \ BySweeps BY DEF Entries, BySweeps
    <3>2. audit[f][e] \in Nat BY <1>1, <3>1 DEF Typed, TablesTyped, Trails
    <3>3. QED BY <1>2, <3>1, <3>2
  <2>4. ASSUME NEW f \in FactIds PROVE EventsCounted(f)'
    BY <1>1, <1>2, <2>3 DEF Counted, EventsCounted
  <2>5. AnswersCounted' BY <1>1, <1>2, <1>3 DEF Counted, AnswersCounted, Answered
  <2>6. QED BY <1>1, <1>2, <2>2, <2>3, <2>4, <2>5 DEF Counted
<1>11. Corrected'
  <2>1. ASSUME NEW n \in DOMAIN facts \ DOMAIN Given, NEW f \in FactIds, CorrectionOf(n, f)
        PROVE  CorrectionOf(n, f)'
    <3>1. <<f, n>> \notin GivenPairs BY <2>1, PairFacts
    <3>2. f \in DOMAIN facts /\ <<f, n>> \in DOMAIN resolution BY <2>1 DEF CorrectionOf
    <3>3. resolution'[<<f, n>>] = resolution[<<f, n>>] BY <1>2, <3>1, <3>2
    <3>4. audit'[n]["created"] = audit[n]["created"]
      <4>1. n \in FactIds /\ "created" \in Entries \ BySweeps
        BY <1>1, TableFacts DEF Typed, TablesTyped, Entries, BySweeps
      <4>2. audit[n]["created"] \in Nat BY <1>1, <4>1 DEF Typed, TablesTyped, Trails
      <4>3. QED BY <1>2, <4>1, <4>2
    <3>5. QED BY <1>2, <2>1, <3>3, <3>4 DEF CorrectionOf
  <2>2. \A f : CorrectedBy(f)' = CorrectedBy(f) BY <1>2 DEF CorrectedBy
  <2>3. QED BY <1>1, <1>2, <2>1, <2>2 DEF Corrected
<1>12. QED BY <1>5, <1>7, <1>9, <1>10, <1>11 DEF IInv

(* The end of a sweep: its rows are its own, and its run is over.          *)
LEMMA CommitKeeps ==
  ASSUME IInv, NEW s \in Slots, Publish(run[s].tx), UNCHANGED service,
         \/ run' = [run EXCEPT ![s] = IdleRun] /\ UNCHANGED deadLetter
         \/ SweepEndsBadly(s)
  PROVE  IInv'
<1>1. /\ Typed /\ RowsApart /\ run \in [Slots -> RunRecord] /\ deadLetter \subseteq Sweeps
      /\ RunOK(run[s], facts) /\ Shape(s, run[s], DOMAIN facts)
  BY DEF IInv, Typed, WorkerTyped, RunsOK
<1>2. PICK W \in Writes : W = run[s].tx BY <1>1 DEF RunRecord
<1>3. /\ DOMAIN W.rows \subseteq DOMAIN facts /\ CountsKept(W, facts)
      /\ \A f \in FactIds, e \in Entries \ BySweeps : W.events[f][e] = 0
  BY <1>1, <1>2 DEF RunOK, Shape
<1>4. PICK R : /\ run' = [run EXCEPT ![s] = R]
               /\ R \in RunRecord /\ Shape(s, R, DOMAIN facts) /\ SeenOK(R)
               /\ ~ R.open /\ R.tx = NoWrites
  <2>1. 1 \in 1..MaxAttempts BY SettingsAssumption
  <2>2. /\ IdleRun \in RunRecord /\ Shape(s, IdleRun, DOMAIN facts) /\ SeenOK(IdleRun)
        /\ ~ IdleRun.open /\ IdleRun.tx = NoWrites
    BY <2>1, StoppedRecords
  <2>3. LET R == AfterFailure(s)
        IN /\ R \in RunRecord /\ Shape(s, R, DOMAIN facts) /\ SeenOK(R)
           /\ ~ R.open /\ R.tx = NoWrites
    BY <1>1, AfterFailureFacts
  <2>4. run' = [run EXCEPT ![s] = AfterFailure(s)] \/ run' = [run EXCEPT ![s] = IdleRun]
    BY DEF SweepEndsBadly
  <2>5. QED BY <2>2, <2>3, <2>4
<1>5. s[1] \in Sweeps BY DEF Slots
<1>6. deadLetter' \subseteq Sweeps BY <1>1, <1>5 DEF SweepEndsBadly, PersistDeadLetter
<1>7. /\ run' \in [Slots -> RunRecord] /\ run'[s] = R
      /\ \A q \in Slots \ {s} : run'[q] = run[q]
  BY <1>1, <1>4
<1>8. \A q \in Slots \ {s} : DOMAIN W.rows \cap DOMAIN run[q].tx.rows = {}
  BY <1>1, <1>2 DEF RowsApart
<1>9. \A q \in Slots :
        \/ run'[q] = run[q] /\ DOMAIN W.rows \cap DOMAIN run[q].tx.rows = {}
        \/ /\ run'[q].tx = NoWrites /\ ~ run'[q].open
           /\ Shape(q, run'[q], DOMAIN facts) /\ SeenOK(run'[q])
  BY <1>4, <1>7, <1>8
<1>10. Publish(W) BY <1>2
<1>11. QED BY <1>3, <1>6, <1>7, <1>9, <1>10, PublishKeeps

(* A statement outside of a transaction commits by itself, and waits for   *)
(* the rows that others have updated.                                      *)
LEMMA ExecuteClosedKeeps ==
  ASSUME IInv, NEW s \in Slots, Execute(s), ~ run[s].open
  PROVE  IInv'
<1> DEFINE n == Together(s)
           rest == After(s, n)
           cut == [rest EXCEPT !.tx = NoWrites]
           R == Left(cut)
<1>1. /\ Typed /\ RowsApart /\ run \in [Slots -> RunRecord] /\ deadLetter \subseteq Sweeps
      /\ RunOK(run[s], facts) /\ Shape(s, run[s], DOMAIN facts)
  BY DEF IInv, Typed, WorkerTyped, RunsOK
<1>2. /\ run[s].pc = "write" /\ RowsFree(s) /\ run' = [run EXCEPT ![s] = R]
      /\ Publish(Written(s, n)) /\ UNCHANGED service /\ deadLetter' = deadLetter
  BY DEF Execute
<1>3. n \in 1..n BY <1>1, <1>2, TogetherFacts
<1>4. /\ NoWrites \in Writes /\ NoWrites.resolved = <<>> /\ NoWrites.events = NoEvents
      /\ DOMAIN NoWrites.rows = {}
  BY NoWritesFacts DEF NoWrites
<1>5. PICK W \in Writes : W = Written(s, n) BY <1>1, <1>2, <1>3, WrittenFacts
<1>6. DOMAIN W.rows = Touched(NextStatement(s)) \cup DOMAIN run[s].tx.rows
  BY <1>1, <1>2, <1>3, <1>5, WrittenFacts
<1>7. /\ DOMAIN W.rows \subseteq DOMAIN facts /\ CountsKept(W, facts)
      /\ \A f \in FactIds, e \in Entries \ BySweeps : W.events[f][e] = 0
  BY <1>1, <1>2, <1>3, <1>5, WrittenShape, WrittenCounts DEF RunOK
<1>8. /\ rest \in RunRecord /\ rest.open = run[s].open /\ rest.seen = run[s].seen
      /\ rest.pc \in {"write", "judge", "commit"}
      /\ rest.pc = "write" => rest.statements # <<>>
      /\ rest.pc = "judge" => rest.todo # {}
  BY <1>1, <1>2, <1>3, AfterFacts
<1>9. \A i \in DOMAIN rest.statements : /\ Touched(rest.statements[i]) \subseteq run[s].seen
                                        /\ Touched(rest.statements[i]) \subseteq DOMAIN facts
  BY <1>1, <1>2, <1>3, AfterSeen DEF RunOK
<1>10. /\ R \in RunRecord /\ Shape(s, R, DOMAIN facts) /\ ~ R.open /\ R.tx = NoWrites
       /\ SeenOK(R)
  <2> HIDE DEF rest
  <2>1. 1 \in 1..MaxAttempts BY SettingsAssumption
  <2>2. Entries \ BySweeps \subseteq Entries OBVIOUS
  <2>3. /\ cut \in RunRecord /\ ~ cut.open /\ cut.tx = NoWrites /\ cut.pc = rest.pc
        /\ cut.statements = rest.statements /\ cut.todo = rest.todo /\ cut.seen = rest.seen
    BY <1>4, <1>8 DEF RunRecord
  <2> HIDE DEF cut
  <2>4. CASE rest.pc = "commit"
    <3>1. R = IdleRun BY <2>3, <2>4 DEF Left
    <3>2. QED BY <2>1, <3>1, StoppedRecords
  <2>5. CASE rest.pc # "commit"
    <3>1. R = cut BY <2>3, <2>5 DEF Left
    <3>2. Shape(s, cut, DOMAIN facts)
      BY <1>4, <1>8, <1>9, <2>2, <2>3, <2>5, NoWritesFacts DEF Shape
    <3>3. SeenOK(cut) BY <1>4, <1>8, <1>9, <2>3 DEF SeenOK
    <3>4. QED BY <2>3, <3>1, <3>2, <3>3
  <2>6. QED BY <2>4, <2>5
<1> HIDE DEF R, rest, n
<1>11. /\ run' \in [Slots -> RunRecord] /\ run'[s] = R
       /\ \A q \in Slots \ {s} : run'[q] = run[q]
  BY <1>1, <1>2, <1>10
<1>12. \A q \in Slots \ {s} : DOMAIN W.rows \cap DOMAIN run[q].tx.rows = {}
  BY <1>1, <1>2, <1>6 DEF RowsFree, UnlockedFor, RowsApart
<1>13. \A q \in Slots :
        \/ run'[q] = run[q] /\ DOMAIN W.rows \cap DOMAIN run[q].tx.rows = {}
        \/ /\ run'[q].tx = NoWrites /\ ~ run'[q].open
           /\ Shape(q, run'[q], DOMAIN facts) /\ SeenOK(run'[q])
  BY <1>10, <1>11, <1>12
<1>14. Publish(W) BY <1>2, <1>5
<1>15. deadLetter' \subseteq Sweeps BY <1>1, <1>2
<1>16. QED BY <1>2, <1>7, <1>11, <1>13, <1>14, <1>15, PublishKeeps

-----------------------------------------------------------------------------
(* The calls after a request is over: no other call changes, and this one  *)
(* is answered or left.                                                    *)
LEMMA EndRequestFacts ==
  ASSUME Typed, NEW h \in Handlers, NEW answer \in {"ok", "refused"},
         handler[h].pc # "none", EndRequest(h, answer)
  PROVE  /\ call' \in [Clients -> CallRecord] /\ handler' \in [Handlers -> HandlerRecord]
         /\ handler'[h].pc = "none" /\ \A q \in Handlers \ {h} : handler'[q] = handler[q]
         /\ \A c \in Clients : /\ call[c].pc # "idle" => call'[c].pc # "idle"
                               /\ call[c].pc # "idle" => call'[c].request = call[c].request
                               /\ call'[c].pc = "ok" => call[c].pc = "ok" \/ (c = h[1] /\ answer = "ok")
<1>1. call \in [Clients -> CallRecord] /\ handler \in [Handlers -> HandlerRecord] /\ call[h[1]].pc # "idle"
  BY DEF Typed, ServiceTyped
<1>2. h[1] \in Clients BY DEF Handlers
<1>3. handler' = [handler EXCEPT ![h] = NoHandler] BY DEF EndRequest
<1>4. NoHandler \in HandlerRecord /\ NoHandler.pc = "none" BY DEF NoHandler, HandlerRecord
<1>5. /\ handler' \in [Handlers -> HandlerRecord] /\ handler'[h].pc = "none"
      /\ \A q \in Handlers \ {h} : handler'[q] = handler[q]
  BY <1>1, <1>3, <1>4
<1>6. CASE call' = call BY <1>1, <1>5, <1>6
<1>7. CASE call' = [call EXCEPT ![h[1]].pc = answer]
  <2> DEFINE new == [call[h[1]] EXCEPT !.pc = answer]
  <2>1. call[h[1]] \in CallRecord BY <1>1, <1>2
  <2>2. new \in CallRecord /\ new.pc = answer /\ new.request = call[h[1]].request
    BY <1>1, <2>1 DEF CallRecord
  <2>3. call' = [call EXCEPT ![h[1]] = new] BY <1>7
  <2> HIDE DEF new
  <2>4. /\ call' \in [Clients -> CallRecord] /\ call'[h[1]] = new
        /\ \A c \in Clients \ {h[1]} : call'[c] = call[c]
    BY <1>1, <1>2, <2>2, <2>3
  <2>5. QED BY <1>5, <2>2, <2>4
<1>8. QED BY <1>6, <1>7 DEF EndRequest

(* A step of the gateway or the service that no table shows, and that      *)
(* answers nobody.                                                         *)
LEMMA ServiceKeeps ==
  ASSUME IInv, UNCHANGED <<tables, worker>>, ServiceTyped',
         \A c \in Clients : call'[c].pc = "ok" =>
           call[c].pc = "ok" /\ call'[c].request = call[c].request
  PROVE  IInv'
<1>1. /\ facts' = facts /\ evidence' = evidence /\ feedback' = feedback /\ audit' = audit
      /\ resolution' = resolution /\ run' = run /\ deadLetter' = deadLetter
  BY DEF tables, worker
<1>2. Typed'
  <2>1. TablesTyped' BY <1>1 DEF IInv, Typed, TablesTyped
  <2>2. WorkerTyped' BY <1>1 DEF IInv, Typed, WorkerTyped
  <2>3. QED BY <2>1, <2>2 DEF Typed
<1>3. RowsApart' BY <1>1 DEF IInv, RowsApart
<1>4. RunsOK' BY <1>1 DEF IInv, RunsOK
<1>5. Counted'
  <2>1. \A f \in DOMAIN facts : RowCounted(f)'
    BY <1>1 DEF IInv, Counted, RowCounted, Base
  <2>2. \A f \in FactIds : EventsCounted(f)' BY <1>1 DEF IInv, Counted, EventsCounted
  <2>3. ASSUME NEW f \in FactIds, NEW k \in Kinds
        PROVE  /\ IsFiniteSet(Answered(f, k)')
               /\ Cardinality(Answered(f, k)') =< feedback'[f][k]
    <3>1. Answered(f, k)' \in SUBSET Answered(f, k) BY DEF Answered
    <3>2. IsFiniteSet(Answered(f, k)) /\ Cardinality(Answered(f, k)) =< feedback[f][k]
      BY DEF IInv, Counted, AnswersCounted
    <3>3. /\ IsFiniteSet(Answered(f, k)')
          /\ Cardinality(Answered(f, k)') =< Cardinality(Answered(f, k))
      BY <3>1, <3>2, FS_Subset
    <3>4. Cardinality(Answered(f, k)') \in Nat /\ Cardinality(Answered(f, k)) \in Nat
      BY <3>2, <3>3, FS_CardinalityType
    <3>5. feedback[f][k] \in Nat BY DEF IInv, Typed, TablesTyped
    <3>6. QED BY <1>1, <3>2, <3>3, <3>4, <3>5
  <2>4. AnswersCounted' BY <2>3 DEF AnswersCounted
  <2>5. QED BY <1>1, <2>1, <2>2, <2>4 DEF IInv, Counted
<1>6. Corrected'
  <2>1. \A n, f : CorrectionOf(n, f) => CorrectionOf(n, f)' BY <1>1 DEF CorrectionOf
  <2>2. \A f : CorrectedBy(f)' = CorrectedBy(f) BY <1>1 DEF CorrectedBy
  <2>3. QED BY <1>1, <2>1, <2>2 DEF IInv, Corrected
<1>7. QED BY <1>2, <1>3, <1>4, <1>5, <1>6 DEF IInv

(* A request that ends without an answer, or with a refusal.               *)
LEMMA RefusedKeeps ==
  ASSUME IInv, NEW h \in Handlers, handler[h].pc # "none", EndRequest(h, "refused"),
         UNCHANGED <<tables, worker>>
  PROVE  IInv'
<1>1. Typed /\ facts' = facts BY DEF IInv, tables
<1>2. /\ call' \in [Clients -> CallRecord] /\ handler' \in [Handlers -> HandlerRecord]
      /\ handler'[h].pc = "none" /\ \A q \in Handlers \ {h} : handler'[q] = handler[q]
      /\ \A c \in Clients : /\ call[c].pc # "idle" => call'[c].pc # "idle"
                            /\ call[c].pc # "idle" => call'[c].request = call[c].request
                            /\ call'[c].pc = "ok" => call[c].pc = "ok"
  BY <1>1, EndRequestFacts
<1>3. \A q \in Handlers : q[1] \in Clients BY DEF Handlers
<1>4. ServiceTyped' BY <1>1, <1>2, <1>3 DEF Typed, ServiceTyped, FactOf
<1>5. QED BY <1>2, <1>4, ServiceKeeps

(* A request that is sent, with the service's first transaction for it.    *)
LEMMA SendKeeps ==
  ASSUME IInv, NEW c \in Clients, NEW request \in Requests[c], Send(c, request)
  PROVE  IInv'
<1> DEFINE new == [pc |-> "waiting", request |-> request, attempt |-> 1]
           h == <<c, 1>>
           first == [handler[h] EXCEPT !.pc = "read"]
<1>1. /\ call \in [Clients -> CallRecord] /\ handler \in [Handlers -> HandlerRecord]
      /\ \A q \in Handlers : handler[q].pc # "none" => call[q[1]].pc # "idle"
      /\ \A q \in Handlers : handler[q].pc = "write" => FactOf(q) \in DOMAIN facts
  BY DEF IInv, Typed, ServiceTyped
<1>2. /\ call[c].pc = "idle" /\ UNCHANGED <<tables, worker>> /\ facts' = facts
      /\ call' = [call EXCEPT ![c] = new] /\ handler' = [handler EXCEPT ![h] = first]
  BY DEF Send, tables
<1>3. new \in CallRecord /\ new.pc = "waiting"
  BY RequestsAssumption DEF CallRecord, Kinds, GatewayAttempts
<1>4. h \in Handlers /\ h[1] = c BY DEF Handlers, GatewayAttempts
<1>5. first \in HandlerRecord /\ first.pc = "read" BY <1>1, <1>4 DEF HandlerRecord
<1>6. \A q \in Handlers : q[1] \in Clients BY DEF Handlers
<1> HIDE DEF new, first, h
<1>7. /\ call' \in [Clients -> CallRecord] /\ call'[c] = new
      /\ \A d \in Clients \ {c} : call'[d] = call[d]
  BY <1>1, <1>2, <1>3
<1>8. /\ handler' \in [Handlers -> HandlerRecord] /\ handler'[h] = first
      /\ \A q \in Handlers \ {h} : handler'[q] = handler[q]
  BY <1>1, <1>2, <1>4, <1>5
<1>9. \A q \in Handlers : handler'[q].pc # "none" => call'[q[1]].pc # "idle"
  BY <1>1, <1>3, <1>4, <1>6, <1>7, <1>8
<1>10. ASSUME NEW q \in Handlers, handler'[q].pc = "write"
       PROVE  call'[q[1]].request.fact \in DOMAIN facts'
  <2>1. q # h /\ handler[q].pc = "write" BY <1>5, <1>8, <1>10
  <2>2. q[1] # c BY <1>1, <1>2, <2>1
  <2>3. QED BY <1>1, <1>2, <1>6, <1>7, <2>1, <2>2 DEF FactOf
<1>11. ServiceTyped' BY <1>7, <1>8, <1>9, <1>10 DEF ServiceTyped, FactOf
<1>12. \A d \in Clients : call'[d].pc = "ok" =>
         call[d].pc = "ok" /\ call'[d].request = call[d].request
  BY <1>3, <1>7
<1>13. QED BY <1>2, <1>11, <1>12, ServiceKeeps

(* A connection that breaks, and a deadline: the request is the same.      *)
LEMMA GatewayKeeps ==
  ASSUME IInv, NEW c \in Clients, ConnectionBreaks(c) \/ GatewayTimesOut(c)
  PROVE  IInv'
<1>1. /\ call \in [Clients -> CallRecord] /\ handler \in [Handlers -> HandlerRecord]
      /\ \A q \in Handlers : handler[q].pc # "none" => call[q[1]].pc # "idle"
      /\ \A q \in Handlers : handler[q].pc = "write" => FactOf(q) \in DOMAIN facts
  BY DEF IInv, Typed, ServiceTyped
<1>2. /\ call[c].pc = "waiting" /\ UNCHANGED <<tables, worker>> /\ facts' = facts
  BY DEF ConnectionBreaks, GatewayTimesOut, tables
<1>3. call[c] \in CallRecord /\ call[c].attempt \in 1..GatewayAttempts
  BY <1>1, <1>2 DEF CallRecord
<1>4. PICK new : /\ call' = [call EXCEPT ![c] = new]
                 /\ new \in CallRecord /\ new.pc \in {"waiting", "refused"}
                 /\ new.request = call[c].request
  <2>1. ASSUME NEW n \in 1..GatewayAttempts
        PROVE  LET R == [call[c] EXCEPT !.attempt = n]
               IN R \in CallRecord /\ R.pc = "waiting" /\ R.request = call[c].request
    BY <1>2, <1>3 DEF CallRecord
  <2>2. LET R == [call[c] EXCEPT !.pc = "refused"]
        IN R \in CallRecord /\ R.pc = "refused" /\ R.request = call[c].request
    BY <1>2, <1>3 DEF CallRecord
  <2>3. CASE call' = [call EXCEPT ![c].pc = "refused"]
    BY <2>2, <2>3
  <2>4. CASE call[c].attempt < GatewayAttempts /\ call' = [call EXCEPT ![c].attempt = call[c].attempt + 1]
    <3>1. call[c].attempt + 1 \in 1..GatewayAttempts BY <1>3, <2>4 DEF GatewayAttempts
    <3>2. QED BY <2>1, <2>4, <3>1
  <2>5. QED BY <2>3, <2>4 DEF ConnectionBreaks, GatewayTimesOut
<1>5. /\ handler' \in [Handlers -> HandlerRecord]
      /\ \A q \in Handlers : handler'[q] = handler[q] \/ (q[1] = c /\ handler'[q].pc = "read")
  <2>1. CASE handler' = handler BY <1>1, <2>1
  <2>2. CASE /\ call[c].attempt < GatewayAttempts
             /\ handler' = [handler EXCEPT ![<<c, call[c].attempt + 1>>].pc = "read"]
    <3>1. call[c].attempt + 1 \in 1..GatewayAttempts BY <1>3, <2>2 DEF GatewayAttempts
    <3>2. PICK h \in Handlers : h = <<c, call[c].attempt + 1>> BY <3>1 DEF Handlers
    <3> DEFINE first == [handler[h] EXCEPT !.pc = "read"]
    <3>3. first \in HandlerRecord /\ first.pc = "read" BY <1>1 DEF HandlerRecord
    <3>4. handler' = [handler EXCEPT ![h] = first] BY <2>2, <3>2
    <3>5. h[1] = c BY <3>2
    <3> HIDE DEF first
    <3>6. QED BY <1>1, <3>3, <3>4, <3>5
  <2>3. QED BY <2>1, <2>2 DEF ConnectionBreaks, GatewayTimesOut
<1>6. /\ call' \in [Clients -> CallRecord] /\ call'[c] = new
      /\ \A d \in Clients \ {c} : call'[d] = call[d]
  BY <1>1, <1>4
<1>7. \A q \in Handlers : q[1] \in Clients BY DEF Handlers
<1>8. \A d \in Clients : call[d].pc # "idle" => call'[d].pc # "idle" /\ call'[d].request = call[d].request
  BY <1>4, <1>6
<1>9. \A q \in Handlers : handler'[q].pc # "none" => call'[q[1]].pc # "idle"
  BY <1>1, <1>4, <1>5, <1>6, <1>7
<1>10. ASSUME NEW q \in Handlers, handler'[q].pc = "write"
       PROVE  call'[q[1]].request.fact \in DOMAIN facts'
  <2>1. handler[q].pc = "write" BY <1>5, <1>10
  <2>2. call[q[1]].pc # "idle" /\ call[q[1]].request.fact \in DOMAIN facts
    BY <1>1, <2>1 DEF FactOf
  <2>3. QED BY <1>2, <1>7, <1>8, <2>2
<1>11. ServiceTyped' BY <1>5, <1>6, <1>9, <1>10 DEF ServiceTyped, FactOf
<1>12. \A d \in Clients : call'[d].pc = "ok" =>
         call[d].pc = "ok" /\ call'[d].request = call[d].request
  BY <1>4, <1>6
<1>13. QED BY <1>2, <1>11, <1>12, ServiceKeeps

(* A request that has found its fact knows it, and what its status is.     *)
LEMMA ReadFactKeeps ==
  ASSUME IInv, NEW h \in Handlers, ReadFact(h)
  PROVE  IInv'
<1>1. handler[h].pc = "read" /\ UNCHANGED <<tables, worker>> BY DEF ReadFact
<1>2. CASE EndRequest(h, "refused") BY <1>1, <1>2, RefusedKeeps
<1>3. CASE /\ FactOf(h) \in DOMAIN facts /\ call' = call
           /\ handler' = [handler EXCEPT ![h] =
                            [pc |-> "write", seen |-> facts[FactOf(h)].truth]]
  <2> DEFINE new == [pc |-> "write", seen |-> facts[FactOf(h)].truth]
  <2>1. /\ call \in [Clients -> CallRecord] /\ handler \in [Handlers -> HandlerRecord]
        /\ \A q \in Handlers : handler[q].pc # "none" => call[q[1]].pc # "idle"
        /\ \A q \in Handlers : handler[q].pc = "write" => FactOf(q) \in DOMAIN facts
    BY DEF IInv, Typed, ServiceTyped
  <2>2. facts' = facts BY <1>1 DEF tables
  <2>3. facts[FactOf(h)] \in Row BY <1>3, TableFacts DEF IInv, Typed, TablesTyped
  <2>4. new \in HandlerRecord BY <2>3 DEF HandlerRecord, Row, Truths
  <2> HIDE DEF new
  <2>5. /\ handler' \in [Handlers -> HandlerRecord]
        /\ \A q \in Handlers \ {h} : handler'[q] = handler[q]
    BY <1>3, <2>1, <2>4 DEF new
  <2>6. \A q \in Handlers : handler'[q].pc # "none" => call'[q[1]].pc # "idle"
    BY <1>1, <1>3, <2>1, <2>5
  <2>7. \A q \in Handlers : handler'[q].pc = "write" => call'[q[1]].request.fact \in DOMAIN facts'
    BY <1>3, <2>1, <2>2, <2>5 DEF FactOf
  <2>8. ServiceTyped' BY <1>3, <2>1, <2>5, <2>6, <2>7 DEF ServiceTyped, FactOf
  <2>9. QED BY <1>1, <1>3, <2>8, ServiceKeeps
<1>4. QED BY <1>2, <1>3 DEF ReadFact, FactOf

-----------------------------------------------------------------------------
(* What feedback makes of a row: one counter rises by one, and who has     *)
(* seen the fact superseded leaves its status, who has not does not        *)
(* supersede it.                                                           *)
LEMMA ConfirmedFacts ==
  ASSUME NEW row \in Row, NEW seen
  PROVE  LET R == Confirmed(row, seen)
         IN /\ R \in Row /\ R.verified = row.verified + 1
            /\ R.rejected = row.rejected /\ R.contradicted = row.contradicted
            /\ R.truth = "superseded" => row.truth = "superseded"
            /\ seen = "superseded" => R.truth = row.truth
<1> DEFINE scored == UpdateTrustAndConfidence(row, 8, 20)
           boosted == IncrementVerification(scored)
<1>1. /\ scored \in Row /\ scored.verified = row.verified /\ scored.rejected = row.rejected
      /\ scored.contradicted = row.contradicted /\ scored.truth = row.truth
  <2>1. \A x \in Int : Clamp(x) \in 0..Full BY DEF Clamp, Full
  <2>2. row.trust + 8 \in Int /\ row.confidence + 20 \in Int BY DEF Row, Full
  <2>3. Clamp(row.trust + 8) \in 0..Full /\ Clamp(row.confidence + 20) \in 0..Full
    BY <2>1, <2>2
  <2>4. QED BY <2>3 DEF UpdateTrustAndConfidence, Row
<1> HIDE DEF scored
<1>2. /\ boosted \in Row /\ boosted.verified = scored.verified + 1
      /\ boosted.rejected = scored.rejected /\ boosted.contradicted = scored.contradicted
      /\ boosted.truth = scored.truth
  <2>1. PICK n \in Nat : n = scored.verified + 1 BY <1>1 DEF Row
  <2>2. boosted = [scored EXCEPT !.verified = n, !.stale = FALSE]
    BY <2>1 DEF IncrementVerification
  <2>3. boosted \in Row BY <1>1, <2>2 DEF Row
  <2>4. /\ boosted.verified = n /\ boosted.rejected = scored.rejected
        /\ boosted.contradicted = scored.contradicted /\ boosted.truth = scored.truth
    BY <1>1, <2>2 DEF Row
  <2>5. QED BY <2>1, <2>3, <2>4
<1> HIDE DEF boosted
<1>3. LET R == SetTruthStatus(boosted, "active")
      IN /\ R \in Row /\ R.verified = boosted.verified /\ R.rejected = boosted.rejected
         /\ R.contradicted = boosted.contradicted /\ R.truth = "active"
  BY <1>2 DEF SetTruthStatus, Row
<1>4. Confirmed(row, seen) = IF seen = "contested" THEN SetTruthStatus(boosted, "active") ELSE boosted
  BY DEF Confirmed, boosted, scored
<1>5. QED BY <1>1, <1>2, <1>3, <1>4

(* The same of a rejection: see ConfirmedFacts.                            *)
LEMMA RejectedFacts ==
  ASSUME NEW row \in Row, NEW seen
  PROVE  LET R == Rejected(row, seen)
         IN /\ R \in Row /\ R.rejected = row.rejected + 1
            /\ R.verified = row.verified /\ R.contradicted = row.contradicted
            /\ R.truth = "superseded" => row.truth = "superseded"
            /\ seen = "superseded" => R.truth = row.truth
<1> DEFINE scored == UpdateTrustAndConfidence(row, -20, -40)
           lowered == IncrementRejection(scored)
<1>1. /\ scored \in Row /\ scored.verified = row.verified /\ scored.rejected = row.rejected
      /\ scored.contradicted = row.contradicted /\ scored.truth = row.truth
  <2>1. \A x \in Int : Clamp(x) \in 0..Full BY DEF Clamp, Full
  <2>2. row.trust + (-20) \in Int /\ row.confidence + (-40) \in Int BY DEF Row, Full
  <2>3. Clamp(row.trust + (-20)) \in 0..Full /\ Clamp(row.confidence + (-40)) \in 0..Full
    BY <2>1, <2>2
  <2>4. QED BY <2>3 DEF UpdateTrustAndConfidence, Row
<1> HIDE DEF scored
<1>2. /\ lowered \in Row /\ lowered.rejected = scored.rejected + 1
      /\ lowered.verified = scored.verified /\ lowered.contradicted = scored.contradicted
      /\ lowered.truth = scored.truth
  BY <1>1 DEF IncrementRejection, Row
<1> HIDE DEF lowered
<1>3. LET R == SetTruthStatus(lowered, "contested")
      IN /\ R \in Row /\ R.verified = lowered.verified /\ R.rejected = lowered.rejected
         /\ R.contradicted = lowered.contradicted /\ R.truth = "contested"
  BY <1>2 DEF SetTruthStatus, Row
<1>4. Rejected(row, seen) = IF seen = "active" THEN SetTruthStatus(lowered, "contested") ELSE lowered
  BY DEF Rejected, lowered, scored
<1>5. QED BY <1>1, <1>2, <1>3, <1>4

(* A fact that is corrected is superseded, and counts one contradiction    *)
(* more.                                                                   *)
LEMMA CorrectedFacts ==
  ASSUME NEW row \in Row, NEW n \in FactIds
  PROVE  LET R == IncrementContradiction(Supersede(row, n))
         IN /\ R \in Row /\ R.contradicted = row.contradicted + 1
            /\ R.verified = row.verified /\ R.rejected = row.rejected
            /\ R.truth = "superseded"
<1> DEFINE A == Supersede(row, n)
<1>1. A \in Row /\ SameCounts(A, row) /\ A.truth = "superseded" BY SupersedeFacts
<1> HIDE DEF A
<1>2. LET R == IncrementContradiction(A)
      IN /\ R \in Row /\ R.contradicted = A.contradicted + 1
         /\ R.verified = A.verified /\ R.rejected = A.rejected /\ R.truth = A.truth
  BY <1>1 DEF IncrementContradiction, Row
<1>3. QED BY <1>1, <1>2 DEF A, SameCounts

(* The request of h, for fact f, is over with its commit.                  *)
Commits(h, answer, f, k) ==
  /\ handler[h].pc = "write" /\ f = FactOf(h) /\ k = call[h[1]].request.kind
  /\ Unlocked(f)
  /\ EndRequest(h, answer)
  /\ UNCHANGED worker

(* What a commit of the service leaves as it is, and that its answer is    *)
(* counted: the rows that sweeps have updated are not its own.             *)
LEMMA FeedbackFrame ==
  ASSUME IInv, NEW h \in Handlers, NEW answer \in {"ok", "refused"},
         NEW f \in DOMAIN facts, NEW k \in Kinds, Commits(h, answer, f, k),
         DOMAIN facts \subseteq DOMAIN facts',
         \A g \in DOMAIN facts \ {f} : facts'[g] = facts[g],
         feedback'[f][k] = feedback[f][k] + 1,
         \A g \in FactIds, j \in Kinds : g # f \/ j # k => feedback'[g][j] = feedback[g][j]
  PROVE  ServiceTyped' /\ WorkerTyped' /\ RowsApart' /\ RunsOK' /\ AnswersCounted'
<1>1. /\ Typed /\ f \in FactIds /\ feedback \in [FactIds -> [Kinds -> Nat]]
      /\ run' = run /\ deadLetter' = deadLetter
      /\ f = FactOf(h) /\ k = call[h[1]].request.kind /\ Unlocked(f)
  BY TableFacts DEF IInv, Typed, TablesTyped, worker, Commits
<1>2. /\ call' \in [Clients -> CallRecord] /\ handler' \in [Handlers -> HandlerRecord]
      /\ handler'[h].pc = "none" /\ \A q \in Handlers \ {h} : handler'[q] = handler[q]
      /\ \A c \in Clients :
           /\ call[c].pc # "idle" => call'[c].pc # "idle"
           /\ call[c].pc # "idle" => call'[c].request = call[c].request
           /\ call'[c].pc = "ok" => call[c].pc = "ok" \/ (c = h[1] /\ answer = "ok")
  BY <1>1, EndRequestFacts DEF Commits
<1>3. \A q \in Handlers : q[1] \in Clients BY DEF Handlers
<1>4. ServiceTyped'
  <2>1. /\ \A q \in Handlers : handler[q].pc # "none" => call[q[1]].pc # "idle"
        /\ \A q \in Handlers : handler[q].pc = "write" => FactOf(q) \in DOMAIN facts
    BY <1>1 DEF Typed, ServiceTyped
  <2>2. \A q \in Handlers : handler'[q].pc # "none" => call'[q[1]].pc # "idle"
    BY <1>2, <1>3, <2>1
  <2>3. \A q \in Handlers : handler'[q].pc = "write" => call'[q[1]].request.fact \in DOMAIN facts'
    BY <1>2, <1>3, <2>1 DEF FactOf
  <2>4. QED BY <1>2, <2>2, <2>3 DEF ServiceTyped, FactOf
<1>5. \A s \in Slots : Shape(s, run[s], DOMAIN facts) /\ RunOK(run[s], facts)
  BY DEF IInv, Typed, WorkerTyped, RunsOK
<1>6. \A s \in Slots : Shape(s, run[s], DOMAIN facts') BY <1>5 DEF Shape
<1>7. WorkerTyped' BY <1>1, <1>6 DEF Typed, WorkerTyped
<1>8. RowsApart' BY <1>1 DEF IInv, RowsApart
<1>9. ASSUME NEW s \in Slots PROVE RunOK(run[s], facts')
  <2>1. \A g \in DOMAIN run[s].tx.rows : g \in DOMAIN facts /\ g # f
    <3>1. DOMAIN run[s].tx.rows \subseteq DOMAIN facts BY <1>5 DEF Shape
    <3>2. f \notin DOMAIN run[s].tx.rows BY <1>1 DEF Unlocked
    <3>3. QED BY <3>1, <3>2
  <2>2. \A g \in DOMAIN run[s].tx.rows : facts'[g] = facts[g] BY <2>1
  <2>3. QED BY <1>5, <2>2 DEF RunOK, CountsKept, RowsSettled
<1>10. RunsOK' BY <1>1, <1>9 DEF RunsOK
<1>11. ASSUME NEW g \in FactIds, NEW j \in Kinds
       PROVE  /\ IsFiniteSet(Answered(g, j)') /\ Cardinality(Answered(g, j)') =< feedback'[g][j]
  <2>1. IsFiniteSet(Answered(g, j)) /\ Cardinality(Answered(g, j)) =< feedback[g][j]
    BY DEF IInv, Counted, AnswersCounted
  <2>2. feedback[g][j] \in Nat /\ Cardinality(Answered(g, j)) \in Nat
    BY <1>1, <2>1, FS_CardinalityType
  <2>3. ASSUME NEW c \in Answered(g, j)', c \notin Answered(g, j)
        PROVE  c = h[1] /\ g = f /\ j = k
    <3>1. /\ c \in Clients /\ call'[c].pc = "ok"
          /\ call'[c].request = [kind |-> j, fact |-> g]
      BY <2>3 DEF Answered
    <3>2. c = h[1]
      <4>1. SUFFICES ASSUME c # h[1] PROVE FALSE OBVIOUS
      <4>2. call[c].pc = "ok" BY <1>2, <3>1, <4>1
      <4>3. call[c].request = [kind |-> j, fact |-> g] BY <1>2, <3>1, <4>2
      <4>4. QED BY <2>3, <3>1, <4>2, <4>3 DEF Answered
    <3>3. call[c].pc # "idle" BY <1>1, <3>2 DEF Typed, ServiceTyped, Commits
    <3>4. call[c].request = [kind |-> j, fact |-> g] BY <1>2, <3>1, <3>3
    <3>5. call[c].request.kind = j /\ call[c].request.fact = g BY <3>4
    <3>6. QED BY <1>1, <3>2, <3>5 DEF FactOf
  <2>4. CASE g # f \/ j # k
    <3>1. Answered(g, j)' \in SUBSET Answered(g, j) BY <2>3, <2>4
    <3>2. IsFiniteSet(Answered(g, j)') /\ Cardinality(Answered(g, j)') =< Cardinality(Answered(g, j))
      BY <2>1, <3>1, FS_Subset
    <3>3. Cardinality(Answered(g, j)') \in Nat BY <3>2, FS_CardinalityType
    <3>4. QED BY <2>1, <2>2, <2>4, <3>2, <3>3
  <2>5. CASE g = f /\ j = k
    <3> DEFINE more == Answered(g, j) \cup {h[1]}
    <3>1. Answered(g, j)' \in SUBSET more BY <2>3
    <3>2. /\ IsFiniteSet(more) /\ Cardinality(more) \in Nat
          /\ Cardinality(more) =< Cardinality(Answered(g, j)) + 1
      <4>1. IsFiniteSet(more) /\ Cardinality(more) =
              IF h[1] \in Answered(g, j) THEN Cardinality(Answered(g, j))
              ELSE Cardinality(Answered(g, j)) + 1
        BY <2>1, FS_AddElement
      <4> HIDE DEF more
      <4>2. QED BY <2>2, <4>1
    <3> HIDE DEF more
    <3>3. IsFiniteSet(Answered(g, j)') /\ Cardinality(Answered(g, j)') =< Cardinality(more)
      BY <3>1, <3>2, FS_Subset
    <3>4. Cardinality(Answered(g, j)') \in Nat BY <3>3, FS_CardinalityType
    <3>5. feedback'[g][j] = feedback[g][j] + 1 BY <2>5
    <3>6. QED BY <2>1, <2>2, <3>2, <3>3, <3>4, <3>5
  <2>6. QED BY <2>4, <2>5
<1>12. AnswersCounted' BY <1>11 DEF AnswersCounted
<1>13. QED BY <1>4, <1>7, <1>8, <1>10, <1>12

(* A row of a table replaced by another.                                   *)
LEMMA TableUpdated ==
  ASSUME NEW F \in Tables, NEW f \in DOMAIN F, NEW R \in Row
  PROVE  LET G == [F EXCEPT ![f] = R]
         IN /\ G \in Tables /\ DOMAIN G = DOMAIN F /\ G[f] = R
            /\ \A g \in DOMAIN F \ {f} : G[g] = F[g]
<1>1. PICK S \in SUBSET FactIds : F \in [S -> Row] BY DEF Tables
<1>2. DOMAIN F = S BY <1>1
<1>3. [F EXCEPT ![f] = R] \in [S -> Row] BY <1>1, <1>2
<1>4. [F EXCEPT ![f] = R] \in Tables BY <1>3 DEF Tables
<1>5. QED BY <1>1, <1>2, <1>4

(* A fact confirmed or rejected: its row, its feedback and its event count *)
(* one more.                                                               *)
LEMMA JudgementKeeps ==
  ASSUME IInv, NEW h \in Handlers, NEW answer \in {"ok", "refused"},
         NEW f \in DOMAIN facts, NEW k \in Kinds, Commits(h, answer, f, k),
         NEW R \in Row, facts' = [facts EXCEPT ![f] = R],
         UNCHANGED <<evidence, resolution, accepts>>, R.contradicted = facts[f].contradicted,
         \/ /\ k = "confirm" /\ Record(f, "confirm", "confirmed")
            /\ R.verified = facts[f].verified + 1 /\ R.rejected = facts[f].rejected
         \/ /\ k = "reject" /\ Record(f, "reject", "rejected")
            /\ R.rejected = facts[f].rejected + 1 /\ R.verified = facts[f].verified
  PROVE  IInv'
<1>1. /\ Typed /\ Counted /\ Corrected /\ facts \in Tables /\ audit \in Trails
      /\ DOMAIN facts \subseteq FactIds /\ \A g \in DOMAIN facts : facts[g] \in Row
      /\ feedback \in [FactIds -> [Kinds -> Nat]] /\ f \in FactIds
      /\ evidence' = evidence /\ resolution' = resolution
  BY TableFacts DEF IInv, Typed, TablesTyped
<1>2. PICK entry \in {"confirmed", "rejected"} :
        /\ audit' = [audit EXCEPT ![f][entry] = @ + 1]
        /\ feedback' = [feedback EXCEPT ![f][k] = @ + 1]
        /\ \/ /\ k = "confirm" /\ entry = "confirmed"
              /\ R.verified = facts[f].verified + 1 /\ R.rejected = facts[f].rejected
           \/ /\ k = "reject" /\ entry = "rejected"
              /\ R.rejected = facts[f].rejected + 1 /\ R.verified = facts[f].verified
  BY DEF Record
<1>3. /\ facts' \in Tables /\ DOMAIN facts' = DOMAIN facts /\ facts'[f] = R
      /\ \A g \in DOMAIN facts \ {f} : facts'[g] = facts[g]
  BY <1>1, TableUpdated
<1>4. /\ ServiceTyped' /\ WorkerTyped' /\ RowsApart' /\ RunsOK' /\ AnswersCounted'
      /\ feedback' \in [FactIds -> [Kinds -> Nat]]
      /\ feedback'[f][k] = feedback[f][k] + 1
      /\ \A g \in FactIds, j \in Kinds : g # f \/ j # k => feedback'[g][j] = feedback[g][j]
  <2>1. DOMAIN facts \subseteq DOMAIN facts' /\ \A g \in DOMAIN facts \ {f} : facts'[g] = facts[g]
    BY <1>3
  <2>2. /\ feedback' \in [FactIds -> [Kinds -> Nat]]
        /\ feedback'[f][k] = feedback[f][k] + 1
        /\ \A g \in FactIds, j \in Kinds : g # f \/ j # k => feedback'[g][j] = feedback[g][j]
    BY <1>1, <1>2
  <2>3. QED BY <2>1, <2>2, FeedbackFrame
<1>5. /\ audit' \in Trails /\ audit'[f][entry] = audit[f][entry] + 1
      /\ \A g \in FactIds, e \in Entries : g # f \/ e # entry => audit'[g][e] = audit[g][e]
  <2>1. entry \in Entries BY DEF Entries
  <2>2. QED BY <1>1, <1>2, <2>1 DEF Trails
<1>6. Typed'
  <2>1. TablesTyped' BY <1>1, <1>3, <1>4, <1>5 DEF Typed, TablesTyped
  <2>2. QED BY <1>4, <2>1 DEF Typed
<1>7. Counted'
  <2>1. ASSUME NEW g \in DOMAIN facts PROVE RowCounted(g)'
    <3>1. RowCounted(g) /\ g \in FactIds BY <1>1 DEF Counted
    <3>2. feedback[g] \in [Kinds -> Nat] /\ facts[g] \in Row BY <1>1, <3>1
    <3>3. /\ Base(g).verified \in Nat /\ Base(g).rejected \in Nat
      BY GivenAssumption DEF Base, Row, InsertCorrected
    <3>4. CASE g # f
      BY <1>3, <1>4, <3>1, <3>4 DEF RowCounted, Base, Kinds
    <3>5. CASE g = f
      <4>1. /\ feedback[f]["confirm"] \in Nat /\ feedback[f]["reject"] \in Nat
        BY <3>2, <3>5 DEF Kinds
      <4>2. feedback'[f]["correct"] = feedback[f]["correct"] BY <1>1, <1>2, <1>4 DEF Kinds
      <4>3. CASE k = "confirm"
        <5>1. /\ feedback'[f]["confirm"] = feedback[f]["confirm"] + 1
              /\ feedback'[f]["reject"] = feedback[f]["reject"]
          BY <1>1, <1>4, <4>3 DEF Kinds
        <5>2. R.verified = facts[f].verified + 1 /\ R.rejected = facts[f].rejected BY <1>2, <4>3
        <5>3. QED BY <1>3, <3>1, <3>3, <3>5, <4>1, <4>2, <5>1, <5>2 DEF RowCounted, Base
      <4>4. CASE k = "reject"
        <5>1. /\ feedback'[f]["reject"] = feedback[f]["reject"] + 1
              /\ feedback'[f]["confirm"] = feedback[f]["confirm"]
          BY <1>1, <1>4, <4>4 DEF Kinds
        <5>2. R.rejected = facts[f].rejected + 1 /\ R.verified = facts[f].verified BY <1>2, <4>4
        <5>3. QED BY <1>3, <3>1, <3>3, <3>5, <4>1, <4>2, <5>1, <5>2 DEF RowCounted, Base
      <4>5. QED BY <1>2, <4>3, <4>4
    <3>6. QED BY <3>4, <3>5
  <2>2. ASSUME NEW g \in FactIds PROVE EventsCounted(g)'
    <3>1. EventsCounted(g) BY <1>1 DEF Counted
    <3>2. CASE g # f BY <1>4, <1>5, <3>1, <3>2 DEF EventsCounted, Kinds, Entries
    <3>3. CASE g = f /\ k = "confirm"
      BY <1>2, <1>4, <1>5, <3>1, <3>3 DEF EventsCounted, Kinds, Entries
    <3>4. CASE g = f /\ k = "reject"
      BY <1>2, <1>4, <1>5, <3>1, <3>4 DEF EventsCounted, Kinds, Entries
    <3>5. QED BY <1>2, <3>2, <3>3, <3>4
  <2>3. ASSUME NEW g \in FactIds \ DOMAIN facts'
        PROVE  audit'[g]["created"] = 0 /\ \A j \in Kinds : feedback'[g][j] = 0
    <3>1. g # f /\ "created" \in Entries BY <1>3 DEF Entries
    <3>2. QED BY <1>1, <1>3, <1>4, <1>5, <3>1 DEF Counted
  <2>4. QED BY <1>3, <1>4, <2>1, <2>2, <2>3 DEF Counted
<1>8. Corrected'
  <2>1. ASSUME NEW n \in DOMAIN facts \ DOMAIN Given, NEW g \in FactIds, CorrectionOf(n, g)
        PROVE  CorrectionOf(n, g)'
    <3>1. audit'[n]["created"] = audit[n]["created"]
      BY <1>1, <1>5 DEF Entries
    <3>2. QED BY <1>1, <1>3, <2>1, <3>1 DEF CorrectionOf
  <2>2. \A g : CorrectedBy(g)' = CorrectedBy(g) BY <1>1, <1>3 DEF CorrectedBy
  <2>3. \A g \in DOMAIN facts : feedback'[g]["correct"] = feedback[g]["correct"]
    BY <1>1, <1>2, <1>4 DEF Kinds
  <2>4. QED BY <1>1, <1>3, <2>1, <2>2, <2>3 DEF Corrected
<1>9. QED BY <1>4, <1>6, <1>7, <1>8 DEF IInv

(* A correction: fact n is new, has the evidence of fact f, and is marked  *)
(* as what supersedes it; nothing else changes.                            *)
Corrects(f, n) ==
  /\ \E R \in Row :
       /\ facts'[f] = R /\ R.contradicted = facts[f].contradicted + 1
       /\ R.verified = facts[f].verified /\ R.rejected = facts[f].rejected
       /\ R.truth = "superseded"
  /\ facts' \in Tables /\ DOMAIN facts' = DOMAIN facts \cup {n}
  /\ facts'[n] = InsertCorrected /\ \A g \in DOMAIN facts \ {f} : facts'[g] = facts[g]
  /\ evidence' \subseteq (DOMAIN facts \cup {n}) \X AllMemories
  /\ \A m \in AllMemories : <<n, m>> \in evidence' <=> <<f, m>> \in evidence
  /\ \A g \in DOMAIN facts, m \in AllMemories : <<g, m>> \in evidence' <=> <<g, m>> \in evidence
  /\ resolution' \in Marks /\ DOMAIN resolution' = DOMAIN resolution \cup {<<f, n>>}
  /\ resolution'[<<f, n>>] = "superseded"
  /\ \A p \in DOMAIN resolution : resolution'[p] = resolution[p]
  /\ feedback' \in [FactIds -> [Kinds -> Nat]]
  /\ feedback'[f]["correct"] = feedback[f]["correct"] + 1
  /\ \A g \in FactIds, j \in Kinds : g # f \/ j # "correct" => feedback'[g][j] = feedback[g][j]
  /\ audit' \in Trails /\ audit'[f]["corrected"] = audit[f]["corrected"] + 1
  /\ audit'[n]["created"] = audit[n]["created"] + 1
  /\ \A g \in FactIds, e \in Entries :
       ~ (g = f /\ e = "corrected") /\ ~ (g = n /\ e = "created") => audit'[g][e] = audit[g][e]

(* The id of a correction is later than any there is.                      *)
LEMMA NewIdFacts ==
  ASSUME Typed, NEW f \in DOMAIN facts
  PROVE  NewId \in FactIds => NewId \notin DOMAIN facts
<1>1. DOMAIN facts \subseteq FactIds BY TableFacts DEF Typed, TablesTyped
<1>2. MaxFacts \in Nat /\ DOMAIN facts \in SUBSET (0..MaxFacts) /\ DOMAIN facts # {}
  BY <1>1, GivenAssumption DEF FactIds
<1>3. Max(DOMAIN facts) \in DOMAIN facts /\ \A g \in DOMAIN facts : Max(DOMAIN facts) >= g
  BY <1>2, GreatestExists
<1>4. PICK m \in Nat : m = Max(DOMAIN facts) BY <1>2, <1>3
<1>5. \A g \in DOMAIN facts : g \in Nat /\ m >= g BY <1>2, <1>3, <1>4
<1>6. m + 1 \notin DOMAIN facts BY <1>4, <1>5
<1>7. QED BY <1>4, <1>6 DEF NewId

(* The statements of correctFact do what Corrects says.                    *)
LEMMA CorrectFactFacts ==
  ASSUME Typed, NEW f \in DOMAIN facts, CorrectFact(f)
  PROVE  \E n \in FactIds \ DOMAIN facts : Corrects(f, n)
<1>1. /\ facts \in Tables /\ audit \in Trails /\ resolution \in Marks
      /\ DOMAIN facts \subseteq FactIds /\ \A g \in DOMAIN facts : facts[g] \in Row
      /\ feedback \in [FactIds -> [Kinds -> Nat]] /\ f \in FactIds
      /\ evidence \subseteq (DOMAIN facts) \X AllMemories
      /\ DOMAIN resolution \subseteq (DOMAIN facts) \X (DOMAIN facts)
  BY TableFacts DEF Typed, TablesTyped
<1>2. PICK n \in FactIds \ DOMAIN facts : n = NewId BY NewIdFacts DEF CorrectFact
<1>3. n # f OBVIOUS
<1>4. PICK R \in Row : /\ R = IncrementContradiction(Supersede(facts[f], n))
                       /\ R.contradicted = facts[f].contradicted + 1
                       /\ R.verified = facts[f].verified /\ R.rejected = facts[f].rejected
                       /\ R.truth = "superseded"
  BY <1>1, CorrectedFacts
<1>5. /\ facts' \in Tables /\ DOMAIN facts' = DOMAIN facts \cup {n}
      /\ facts'[n] = InsertCorrected /\ facts'[f] = R
      /\ \A g \in DOMAIN facts \ {f} : facts'[g] = facts[g]
  <2>1. InsertCorrected \in Row BY DEF InsertCorrected, Row, Full
  <2>2. PICK F \in Tables : F = [m \in {n} |-> InsertCorrected]
    <3>1. [m \in {n} |-> InsertCorrected] \in [{n} -> Row] BY <2>1
    <3>2. QED BY <3>1 DEF Tables
  <2>3. DOMAIN F = {n} /\ F[n] = InsertCorrected BY <2>2
  <2> DEFINE G == [facts EXCEPT ![f] = R]
  <2>4. /\ G \in Tables /\ DOMAIN G = DOMAIN facts /\ G[f] = R
        /\ \A g \in DOMAIN facts \ {f} : G[g] = facts[g]
    BY <1>1, TableUpdated
  <2>5. facts' = Over(F, G) BY <1>2, <1>4, <2>2 DEF CorrectFact
  <2> HIDE DEF G
  <2>6. /\ Over(F, G) \in Tables
        /\ DOMAIN Over(F, G) = DOMAIN F \cup DOMAIN G
        /\ \A g \in DOMAIN F : Over(F, G)[g] = F[g]
        /\ \A g \in DOMAIN G \ DOMAIN F : Over(F, G)[g] = G[g]
    BY <2>4, OverTables
  <2>7. QED BY <1>3, <2>3, <2>4, <2>5, <2>6
<1>6. /\ evidence' \subseteq (DOMAIN facts \cup {n}) \X AllMemories
      /\ \A m \in AllMemories : <<n, m>> \in evidence' <=> <<f, m>> \in evidence
      /\ \A g \in DOMAIN facts, m \in AllMemories : <<g, m>> \in evidence' <=> <<g, m>> \in evidence
  <2> DEFINE copies == {<<n, e[2]>> : e \in {e \in evidence : e[1] = f}}
  <2>1. evidence' = evidence \cup copies BY <1>2 DEF CorrectFact
  <2>2. \A e \in evidence : e[2] \in AllMemories /\ e[1] \in DOMAIN facts BY <1>1
  <2>3. copies \subseteq {n} \X AllMemories BY <2>2
  <2>4. \A m \in AllMemories : <<n, m>> \in copies <=> <<f, m>> \in evidence
    <3> TAKE m \in AllMemories
    <3>1. ASSUME <<n, m>> \in copies PROVE <<f, m>> \in evidence
      <4>1. PICK e \in evidence : e[1] = f /\ <<n, m>> = <<n, e[2]>> BY <3>1
      <4>2. PICK g \in DOMAIN facts, l \in AllMemories : e = <<g, l>> BY <1>1, <4>1
      <4>3. g = f /\ l = m BY <4>1, <4>2
      <4>4. QED BY <4>1, <4>2, <4>3
    <3>2. ASSUME <<f, m>> \in evidence PROVE <<n, m>> \in copies
      <4>1. <<f, m>>[1] = f /\ <<f, m>>[2] = m OBVIOUS
      <4>2. <<f, m>> \in {e \in evidence : e[1] = f} BY <3>2, <4>1
      <4>3. QED BY <4>1, <4>2
    <3>3. QED BY <3>1, <3>2
  <2> HIDE DEF copies
  <2>5. \A m : <<n, m>> \notin evidence BY <1>1
  <2>6. \A g \in DOMAIN facts : \A m : <<g, m>> \notin copies BY <2>3
  <2>7. evidence' \subseteq (DOMAIN facts \cup {n}) \X AllMemories
    BY <1>1, <2>1, <2>3
  <2>8. QED BY <2>1, <2>4, <2>5, <2>6, <2>7
<1>7. /\ resolution' \in Marks /\ DOMAIN resolution' = DOMAIN resolution \cup {<<f, n>>}
      /\ resolution'[<<f, n>>] = "superseded"
      /\ \A p \in DOMAIN resolution : resolution'[p] = resolution[p]
  <2>1. PICK F \in Marks : F = [p \in {<<f, n>>} |-> "superseded"]
    <3>1. [p \in {<<f, n>>} |-> "superseded"] \in [{<<f, n>>} -> Outcomes] BY DEF Outcomes
    <3>2. {<<f, n>>} \in SUBSET (FactIds \X FactIds) BY <1>1
    <3>3. QED BY <3>1, <3>2 DEF Marks
  <2>2. DOMAIN F = {<<f, n>>} /\ F[<<f, n>>] = "superseded" BY <2>1
  <2>3. PICK G \in Marks : G = resolution BY <1>1
  <2>4. resolution' = Over(F, G) BY <1>2, <2>1, <2>3 DEF CorrectFact
  <2>5. /\ Over(F, G) \in Marks
        /\ DOMAIN Over(F, G) = DOMAIN F \cup DOMAIN G
        /\ \A p \in DOMAIN F : Over(F, G)[p] = F[p]
        /\ \A p \in DOMAIN G \ DOMAIN F : Over(F, G)[p] = G[p]
    BY OverMarks
  <2>6. <<f, n>> \notin DOMAIN resolution BY <1>1
  <2>7. QED BY <2>2, <2>3, <2>4, <2>5, <2>6
<1>8. /\ feedback' \in [FactIds -> [Kinds -> Nat]]
      /\ feedback'[f]["correct"] = feedback[f]["correct"] + 1
      /\ \A g \in FactIds, j \in Kinds : g # f \/ j # "correct" => feedback'[g][j] = feedback[g][j]
  <2>1. feedback' = [feedback EXCEPT ![f]["correct"] = @ + 1] BY DEF CorrectFact
  <2>2. "correct" \in Kinds BY DEF Kinds
  <2>3. QED BY <1>1, <2>1, <2>2
<1>9. /\ audit' \in Trails /\ audit'[f]["corrected"] = audit[f]["corrected"] + 1
      /\ audit'[n]["created"] = audit[n]["created"] + 1
      /\ \A g \in FactIds, e \in Entries :
           ~ (g = f /\ e = "corrected") /\ ~ (g = n /\ e = "created") => audit'[g][e] = audit[g][e]
  <2>1. audit' = [audit EXCEPT ![f]["corrected"] = @ + 1, ![n]["created"] = @ + 1]
    BY <1>2 DEF CorrectFact
  <2>2. "corrected" \in Entries /\ "created" \in Entries BY DEF Entries
  <2> DEFINE A == [audit EXCEPT ![f]["corrected"] = @ + 1]
  <2>3. /\ A \in Trails /\ A[f]["corrected"] = audit[f]["corrected"] + 1
        /\ \A g \in FactIds, e \in Entries : ~ (g = f /\ e = "corrected") => A[g][e] = audit[g][e]
    BY <1>1, <2>2 DEF Trails
  <2>4. audit' = [A EXCEPT ![n]["created"] = @ + 1] BY <2>1
  <2> HIDE DEF A
  <2>5. /\ audit' \in Trails /\ audit'[n]["created"] = A[n]["created"] + 1
        /\ \A g \in FactIds, e \in Entries : ~ (g = n /\ e = "created") => audit'[g][e] = A[g][e]
    BY <2>2, <2>3, <2>4 DEF Trails
  <2>6. QED BY <1>1, <1>3, <2>2, <2>3, <2>5
<1>10. QED BY <1>4, <1>5, <1>6, <1>7, <1>8, <1>9 DEF Corrects

(* A correction counts once for the fact it corrects, and is complete.     *)
LEMMA CorrectFactKeeps ==
  ASSUME IInv, NEW h \in Handlers, NEW answer \in {"ok", "refused"},
         NEW f \in DOMAIN facts, Commits(h, answer, f, "correct"), CorrectFact(f)
  PROVE  IInv'
<1>1. /\ Typed /\ Counted /\ Corrected /\ facts \in Tables /\ audit \in Trails
      /\ DOMAIN facts \subseteq FactIds /\ \A g \in DOMAIN facts : facts[g] \in Row
      /\ feedback \in [FactIds -> [Kinds -> Nat]] /\ f \in FactIds
      /\ DOMAIN resolution \subseteq (DOMAIN facts) \X (DOMAIN facts)
      /\ GivenPairs \subseteq DOMAIN resolution /\ DOMAIN Given \subseteq DOMAIN facts
  BY TableFacts DEF IInv, Typed, TablesTyped
<1>2. PICK n \in FactIds \ DOMAIN facts : Corrects(f, n) BY <1>1, CorrectFactFacts
<1>3. n # f /\ n \notin DOMAIN Given BY <1>1
<1>4. /\ DOMAIN facts' = DOMAIN facts \cup {n}
      /\ \A g \in DOMAIN facts \ {f} : facts'[g] = facts[g]
      /\ feedback'[f]["correct"] = feedback[f]["correct"] + 1
      /\ \A g \in FactIds, j \in Kinds : g # f \/ j # "correct" => feedback'[g][j] = feedback[g][j]
      /\ DOMAIN resolution' = DOMAIN resolution \cup {<<f, n>>}
  BY <1>2 DEF Corrects
<1>5. ServiceTyped' /\ WorkerTyped' /\ RowsApart' /\ RunsOK' /\ AnswersCounted'
  BY <1>4, FeedbackFrame DEF Kinds
<1>6. TablesTyped'
  <2>1. /\ facts' \in Tables /\ evidence' \subseteq (DOMAIN facts \cup {n}) \X AllMemories
        /\ feedback' \in [FactIds -> [Kinds -> Nat]] /\ audit' \in Trails /\ resolution' \in Marks
    BY <1>2 DEF Corrects
  <2>2. DOMAIN resolution' \subseteq (DOMAIN facts') \X (DOMAIN facts') BY <1>1, <1>4
  <2>3. GivenPairs \subseteq DOMAIN resolution' /\ DOMAIN Given \subseteq DOMAIN facts'
    BY <1>1, <1>4
  <2>4. QED BY <1>4, <2>1, <2>2, <2>3 DEF TablesTyped
<1>7. \A g \in FactIds : /\ feedback[g]["confirm"] \in Nat /\ feedback[g]["reject"] \in Nat
                         /\ feedback[g]["correct"] \in Nat
                         /\ audit[g]["corrected"] \in Nat /\ audit[g]["created"] \in Nat
  BY <1>1 DEF Kinds, Entries, Trails
<1>8. \A g \in FactIds : /\ feedback'[g]["confirm"] = feedback[g]["confirm"]
                         /\ feedback'[g]["reject"] = feedback[g]["reject"]
                         /\ g # f => feedback'[g]["correct"] = feedback[g]["correct"]
  BY <1>4 DEF Kinds
<1>9. \A g \in FactIds : /\ audit'[g]["confirmed"] = audit[g]["confirmed"]
                         /\ audit'[g]["rejected"] = audit[g]["rejected"]
                         /\ g # f => audit'[g]["corrected"] = audit[g]["corrected"]
                         /\ g # n => audit'[g]["created"] = audit[g]["created"]
  BY <1>2 DEF Entries, Corrects
<1>10. Counted'
  <2>1. ASSUME NEW g \in DOMAIN facts' PROVE RowCounted(g)'
    <3>1. CASE g = n
      <4>1. \A k \in Kinds : feedback[n][k] = 0 BY <1>1 DEF Counted
      <4>2. /\ feedback'[n]["confirm"] = 0 /\ feedback'[n]["reject"] = 0
            /\ feedback'[n]["correct"] = 0
        BY <1>3, <1>8, <4>1 DEF Kinds
      <4>3. facts'[n] = InsertCorrected /\ Base(n)' = InsertCorrected
        BY <1>2, <1>3 DEF Corrects, Base
      <4>4. QED BY <3>1, <4>2, <4>3 DEF RowCounted, InsertCorrected
    <3>2. CASE g \in DOMAIN facts \ {f}
      <4>1. RowCounted(g) BY <1>1, <3>2 DEF Counted
      <4>2. QED BY <1>1, <1>4, <1>8, <3>2, <4>1 DEF RowCounted, Base
    <3>3. CASE g = f
      <4>1. RowCounted(f) BY <1>1 DEF Counted
      <4>2. /\ facts'[f].contradicted = facts[f].contradicted + 1
            /\ facts'[f].verified = facts[f].verified /\ facts'[f].rejected = facts[f].rejected
        BY <1>2 DEF Corrects
      <4>3. Base(f)' = Base(f) /\ Base(f).contradicted \in Nat
        BY GivenAssumption DEF Base, Row, InsertCorrected
      <4>4. QED BY <1>1, <1>4, <1>7, <1>8, <3>3, <4>1, <4>2, <4>3 DEF RowCounted
    <3>4. QED BY <1>4, <2>1, <3>1, <3>2, <3>3
  <2>2. ASSUME NEW g \in FactIds PROVE EventsCounted(g)'
    <3>1. EventsCounted(g) BY <1>1 DEF Counted
    <3>2. CASE g # f BY <1>8, <1>9, <3>1, <3>2 DEF EventsCounted
    <3>3. CASE g = f
      <4>1. audit'[f]["corrected"] = audit[f]["corrected"] + 1 BY <1>2 DEF Corrects
      <4>2. QED BY <1>4, <1>8, <1>9, <3>1, <3>3, <4>1 DEF EventsCounted
    <3>4. QED BY <3>2, <3>3
  <2>3. ASSUME NEW g \in FactIds \ DOMAIN facts'
        PROVE  audit'[g]["created"] = 0 /\ \A k \in Kinds : feedback'[g][k] = 0
    <3>1. g # f /\ g # n /\ g \in FactIds \ DOMAIN facts BY <1>4
    <3>2. QED BY <1>1, <1>4, <1>9, <3>1 DEF Counted
  <2>4. QED BY <1>5, <2>1, <2>2, <2>3 DEF Counted
<1>11. CorrectionOf(n, f)'
  <2>1. f \in DOMAIN facts' BY <1>4
  <2>2. \A g : <<g, n>> \notin DOMAIN resolution BY <1>1
  <2>3. \A g \in DOMAIN facts' : <<g, n>> \in DOMAIN resolution' <=> g = f BY <1>4, <2>2
  <2>4. resolution'[<<f, n>>] = "superseded" BY <1>2 DEF Corrects
  <2>5. audit[n]["created"] = 0 BY <1>1 DEF Counted
  <2>6. audit'[n]["created"] = 1 BY <1>2, <2>5 DEF Corrects
  <2>7. \A m \in AllMemories : <<n, m>> \in evidence' <=> <<f, m>> \in evidence'
    BY <1>2 DEF Corrects
  <2>8. QED BY <2>1, <2>3, <2>4, <2>6, <2>7 DEF CorrectionOf
<1>12. ASSUME NEW o \in DOMAIN facts \ DOMAIN Given PROVE \E g \in FactIds : CorrectionOf(o, g)'
  <2>1. PICK g \in FactIds : CorrectionOf(o, g) BY <1>1 DEF Corrected
  <2>2. o # n /\ g \in DOMAIN facts /\ o \in FactIds BY <1>1, <2>1 DEF CorrectionOf
  <2>3. \A d : <<d, o>> \in DOMAIN resolution' <=> <<d, o>> \in DOMAIN resolution
    <3>1. \A d : <<d, o>> # <<f, n>> BY <2>2
    <3>2. QED BY <1>4, <3>1
  <2>4. <<n, o>> \notin DOMAIN resolution BY <1>1
  <2>5. \A d \in DOMAIN facts' : <<d, o>> \in DOMAIN resolution' <=> d = g
    BY <1>4, <2>1, <2>2, <2>3, <2>4 DEF CorrectionOf
  <2>6. resolution'[<<g, o>>] = "superseded"
    <3>1. <<g, o>> \in DOMAIN resolution /\ resolution[<<g, o>>] = "superseded"
      BY <2>1, <2>2 DEF CorrectionOf
    <3>2. QED BY <1>2, <3>1 DEF Corrects
  <2>7. audit'[o]["created"] = 1 BY <1>9, <2>1, <2>2 DEF CorrectionOf
  <2>8. \A m \in AllMemories : <<o, m>> \in evidence' <=> <<g, m>> \in evidence'
    BY <1>2, <2>1, <2>2 DEF CorrectionOf, Corrects
  <2>9. g \in DOMAIN facts' BY <1>4, <2>2
  <2>10. QED BY <2>5, <2>6, <2>7, <2>8, <2>9 DEF CorrectionOf
<1>13. ASSUME NEW g \in DOMAIN facts' PROVE Cardinality(CorrectedBy(g)') = feedback'[g]["correct"]
  <2>1. \A o : o # n => (o \in CorrectedBy(g)' <=> o \in CorrectedBy(g))
    <3>1. \A o : o # n => <<g, o>> # <<f, n>> OBVIOUS
    <3>2. QED BY <1>4, <3>1 DEF CorrectedBy
  <2>2. n \in CorrectedBy(g)' <=> g = f
    <3>1. <<g, n>> \notin DOMAIN resolution BY <1>1
    <3>2. <<g, n>> = <<f, n>> <=> g = f OBVIOUS
    <3>3. QED BY <1>3, <1>4, <3>1, <3>2 DEF CorrectedBy
  <2>3. n \notin CorrectedBy(g) BY DEF CorrectedBy
  <2>4. CASE g = f
    <3>1. CorrectedBy(g)' = CorrectedBy(f) \cup {n} BY <2>1, <2>2, <2>4
    <3>2. IsFiniteSet(CorrectedBy(f))
      <4>1. IsFiniteSet(FactIds)
        <5>1. MaxFacts \in Int BY GivenAssumption
        <5>2. QED BY <5>1, FS_Interval DEF FactIds
      <4>2. CorrectedBy(f) \in SUBSET FactIds BY <1>1 DEF CorrectedBy
      <4>3. QED BY <4>1, <4>2, FS_Subset
    <3>3. Cardinality(CorrectedBy(f) \cup {n}) = Cardinality(CorrectedBy(f)) + 1
      BY <2>3, <2>4, <3>2, FS_AddElement
    <3>4. Cardinality(CorrectedBy(f)) = feedback[f]["correct"] BY <1>1 DEF Corrected
    <3>5. QED BY <1>4, <2>4, <3>1, <3>3, <3>4
  <2>5. CASE g \in DOMAIN facts \ {f}
    <3>1. CorrectedBy(g)' = CorrectedBy(g) BY <2>1, <2>2, <2>3, <2>5
    <3>2. Cardinality(CorrectedBy(g)) = feedback[g]["correct"] BY <1>1, <2>5 DEF Corrected
    <3>3. QED BY <1>1, <1>8, <2>5, <3>1, <3>2
  <2>6. CASE g = n
    <3>1. \A o \in DOMAIN facts : <<n, o>> \notin DOMAIN resolution BY <1>1
    <3>2. CorrectedBy(g) = {} BY <2>6, <3>1 DEF CorrectedBy
    <3>3. CorrectedBy(g)' = {} BY <1>3, <2>1, <2>2, <2>6, <3>2
    <3>4. Cardinality(CorrectedBy(g)') = 0 BY <3>3, FS_EmptySet
    <3>5. feedback[n]["correct"] = 0 BY <1>1 DEF Counted, Kinds
    <3>6. QED BY <1>3, <1>8, <2>6, <3>4, <3>5
  <2>7. QED BY <1>4, <2>4, <2>5, <2>6
<1>14. Corrected'
  <2>1. ASSUME NEW o \in DOMAIN facts' \ DOMAIN Given PROVE \E g \in FactIds : CorrectionOf(o, g)'
    <3>1. CASE o = n BY <1>1, <1>11, <3>1
    <3>2. CASE o \in DOMAIN facts \ DOMAIN Given BY <1>12, <3>2
    <3>3. QED BY <1>4, <3>1, <3>2
  <2>2. QED BY <1>13, <2>1 DEF Corrected
<1>15. QED BY <1>5, <1>6, <1>10, <1>14 DEF IInv, Typed

(* Feedback of any kind, whether its answer reaches the gateway or not.    *)
LEMMA UpdateKeeps ==
  ASSUME IInv, NEW h \in Handlers, NEW answer \in {"ok", "refused"},
         UpdateFact(h), EndRequest(h, answer), UNCHANGED worker
  PROVE  IInv'
<1> DEFINE kind == call[h[1]].request.kind
           seen == handler[h].seen
<1>1. Typed /\ handler[h].pc = "write" /\ Unlocked(FactOf(h)) /\ PublishFeedback(h)
  BY DEF IInv, UpdateFact
<1>2. PICK f \in DOMAIN facts : f = FactOf(h) BY <1>1 DEF Typed, ServiceTyped
<1>3. facts[f] \in Row BY <1>1, TableFacts DEF Typed, TablesTyped
<1>4. \A k \in Kinds : k = kind => Commits(h, answer, f, k)
  BY <1>1, <1>2 DEF Commits
<1>5. CASE kind = "confirm" /\ ConfirmFact(f, seen)
  <2>1. PICK R \in Row : /\ R = Confirmed(facts[f], seen)
                         /\ R.verified = facts[f].verified + 1 /\ R.rejected = facts[f].rejected
                         /\ R.contradicted = facts[f].contradicted
    BY <1>3, ConfirmedFacts
  <2>2. /\ facts' = [facts EXCEPT ![f] = R] /\ Record(f, "confirm", "confirmed")
        /\ UNCHANGED <<evidence, resolution, accepts>>
    BY <1>5, <2>1 DEF ConfirmFact
  <2>3. "confirm" \in Kinds /\ Commits(h, answer, f, "confirm") BY <1>4, <1>5 DEF Kinds
  <2>4. QED BY <2>1, <2>2, <2>3, JudgementKeeps
<1>6. CASE kind = "reject" /\ RejectFact(f, seen)
  <2>1. PICK R \in Row : /\ R = Rejected(facts[f], seen)
                         /\ R.rejected = facts[f].rejected + 1 /\ R.verified = facts[f].verified
                         /\ R.contradicted = facts[f].contradicted
    BY <1>3, RejectedFacts
  <2>2. /\ facts' = [facts EXCEPT ![f] = R] /\ Record(f, "reject", "rejected")
        /\ UNCHANGED <<evidence, resolution, accepts>>
    BY <1>6, <2>1 DEF RejectFact
  <2>3. "reject" \in Kinds /\ Commits(h, answer, f, "reject") BY <1>4, <1>6 DEF Kinds
  <2>4. QED BY <2>1, <2>2, <2>3, JudgementKeeps
<1>7. CASE kind = "correct" /\ CorrectFact(f)
  <2>1. Commits(h, answer, f, "correct") BY <1>4, <1>7 DEF Kinds
  <2>2. QED BY <1>7, <2>1, CorrectFactKeeps
<1>8. QED BY <1>1, <1>2, <1>5, <1>6, <1>7 DEF PublishFeedback, FactOf

-----------------------------------------------------------------------------
(* The given facts have no feedback and correct none of each other.        *)
LEMMA InitIInv == Init => IInv
<1> SUFFICES ASSUME Init PROVE IInv
  OBVIOUS
<1>1. /\ facts = Given /\ feedback = [f \in FactIds |-> [k \in Kinds |-> 0]] /\ audit = NoEvents
      /\ evidence = UNION {{f} \X EvidenceOf[f] : f \in DOMAIN Given}
      /\ resolution = [p \in GivenPairs |-> "unresolved"]
      /\ call = [c \in Clients |-> [pc |-> "idle"]] /\ handler = [h \in Handlers |-> NoHandler]
      /\ run = [s \in Slots |-> IdleRun] /\ deadLetter = {}
  BY DEF Init, GivenPairs
<1>2. NoEvents \in Trails /\ \A f \in FactIds, e \in Entries : NoEvents[f][e] = 0
  BY DEF NoEvents, Trails
<1>3. /\ feedback \in [FactIds -> [Kinds -> Nat]]
      /\ \A f \in FactIds, k \in Kinds : feedback[f][k] = 0
  BY <1>1
<1>4. TablesTyped
  <2>1. Given \in Tables
    <3>1. PICK S \in SUBSET FactIds : S = DOMAIN Given BY GivenAssumption
    <3>2. Given \in [S -> Row] BY <3>1, GivenAssumption
    <3>3. QED BY <3>2 DEF Tables
  <2>2. evidence \subseteq (DOMAIN facts) \X AllMemories
    <3>1. \A f \in DOMAIN Given : EvidenceOf[f] \subseteq AllMemories
      BY GivenAssumption DEF AllMemories, Range
    <3>2. \A f \in DOMAIN Given : {f} \X EvidenceOf[f] \subseteq (DOMAIN Given) \X AllMemories
      BY <3>1
    <3>3. QED BY <1>1, <3>2
  <2>3. \A p \in GivenPairs : p \in FactIds \X FactIds /\ p \in (DOMAIN Given) \X (DOMAIN Given)
    BY PairFacts, GivenAssumption
  <2>4. resolution \in Marks /\ DOMAIN resolution = GivenPairs
    <3>1. PICK S \in SUBSET (FactIds \X FactIds) : S = GivenPairs BY <2>3
    <3>2. resolution \in [S -> Outcomes] BY <1>1, <3>1 DEF Outcomes
    <3>3. QED BY <3>1, <3>2 DEF Marks
  <2>5. DOMAIN resolution \subseteq (DOMAIN facts) \X (DOMAIN facts) BY <1>1, <2>3, <2>4
  <2>6. QED BY <1>1, <1>2, <1>3, <2>1, <2>2, <2>4, <2>5 DEF TablesTyped
<1>5. ServiceTyped
  <2>1. [pc |-> "idle"] \in CallRecord BY DEF CallRecord
  <2>2. NoHandler \in HandlerRecord /\ NoHandler.pc = "none" BY DEF NoHandler, HandlerRecord
  <2>3. QED BY <1>1, <2>1, <2>2 DEF ServiceTyped
<1>6. \A s \in Slots : /\ run[s] = IdleRun /\ run[s] \in RunRecord
                       /\ Shape(s, run[s], DOMAIN facts) /\ SeenOK(run[s])
  <2>1. 1 \in 1..MaxAttempts BY SettingsAssumption
  <2>2. QED BY <1>1, <2>1, StoppedRecords
<1>7. \A s \in Slots : ~ run[s].open /\ run[s].tx = NoWrites /\ DOMAIN run[s].tx.rows = {}
  BY <1>6, NoWritesFacts DEF IdleRun
<1>8. WorkerTyped BY <1>1, <1>6 DEF WorkerTyped
<1>9. RowsApart BY <1>7 DEF RowsApart
<1>10. RunsOK BY <1>6, <1>7 DEF RunsOK, RunOK, CountsKept, RowsSettled, PlanSettles
<1>11. Counted
  <2>1. ASSUME NEW f \in DOMAIN facts PROVE RowCounted(f)
    <3>1. f \in FactIds /\ facts[f] \in Row /\ Base(f) = facts[f]
      BY <1>1, GivenAssumption DEF Base
    <3>2. feedback[f]["confirm"] = 0 /\ feedback[f]["reject"] = 0 /\ feedback[f]["correct"] = 0
      BY <1>3, <3>1 DEF Kinds
    <3>3. facts[f].verified \in Nat /\ facts[f].rejected \in Nat /\ facts[f].contradicted \in Nat
      BY <3>1 DEF Row
    <3>4. QED BY <3>1, <3>2, <3>3 DEF RowCounted
  <2>2. ASSUME NEW f \in FactIds PROVE EventsCounted(f)
    BY <1>1, <1>2, <1>3 DEF EventsCounted, Kinds, Entries
  <2>3. \A f \in FactIds : audit[f]["created"] = 0 BY <1>1, <1>2 DEF Entries
  <2>4. AnswersCounted
    <3>1. \A f \in FactIds, k \in Kinds : Answered(f, k) = {} BY <1>1 DEF Answered
    <3>2. QED BY <1>3, <3>1, FS_EmptySet DEF AnswersCounted
  <2>5. QED BY <1>3, <2>1, <2>2, <2>3, <2>4 DEF Counted
<1>12. Corrected
  <2>1. DOMAIN facts \ DOMAIN Given = {} BY <1>1
  <2>2. \A f \in DOMAIN facts : CorrectedBy(f) = {} BY <2>1 DEF CorrectedBy
  <2>3. \A f \in DOMAIN facts : feedback[f]["correct"] = 0
    BY <1>1, <1>3, GivenAssumption DEF Kinds
  <2>4. QED BY <2>1, <2>2, <2>3, FS_EmptySet DEF Corrected
<1>13. QED BY <1>4, <1>5, <1>8, <1>9, <1>10, <1>11, <1>12 DEF IInv, Typed

(* Each action keeps the invariant.                                        *)
LEMMA NextIInv == IInv /\ [Next]_vars => IInv'
<1> SUFFICES ASSUME IInv, [Next]_vars PROVE IInv'
  OBVIOUS
<1>1. CASE UNCHANGED vars
  <2>1. UNCHANGED <<tables, service>> /\ run' = run /\ deadLetter' = deadLetter
    BY <1>1 DEF vars, tables, service
  <2>2. run' \in [Slots -> RunRecord] /\ deadLetter' \subseteq Sweeps
    BY <2>1 DEF IInv, Typed, WorkerTyped
  <2>3. QED BY <2>1, <2>2, NothingWritten
<1>2. ASSUME NEW c \in Clients, NEW request \in Requests[c], Send(c, request) PROVE IInv'
  BY <1>2, SendKeeps
<1>3. ASSUME NEW c \in Clients, ConnectionBreaks(c) \/ GatewayTimesOut(c) PROVE IInv'
  BY <1>3, GatewayKeeps
<1>4. ASSUME NEW h \in Handlers, HandlerStep(h) \/ FeedbackReplyLost(h) \/ FeedbackFails(h)
      PROVE  IInv'
  <2>1. CASE ReadFact(h) BY <2>1, ReadFactKeeps
  <2>2. CASE SchemaRejectsFeedback(h) \/ FeedbackFails(h)
    BY <2>2, RefusedKeeps DEF SchemaRejectsFeedback, FeedbackFails
  <2>3. CASE CommitFeedback(h)
    BY <2>3, UpdateKeeps DEF CommitFeedback
  <2>4. CASE FeedbackReplyLost(h)
    BY <2>4, UpdateKeeps DEF FeedbackReplyLost
  <2>5. QED BY <1>4, <2>1, <2>2, <2>3, <2>4 DEF HandlerStep
<1>5. ASSUME NEW s \in Slots, SweepStep(s) \/ SweepFails(s) \/ SweepReplyLost(s) \/ SweepTimesOut(s)
      PROVE  IInv'
  <2>1. CASE StartSweep(s) BY <2>1, StartSweepKeeps
  <2>2. CASE RetryFindsNothing(s) BY <2>2, RetryFindsNothingKeeps
  <2>3. CASE JudgeContradiction(s) BY <2>3, JudgeKeeps
  <2>4. CASE Execute(s)
    <3>1. run[s].open \in BOOLEAN BY RunParts DEF IInv, RunRecord
    <3>2. CASE run[s].open BY <2>4, <3>2, ExecuteOpenKeeps
    <3>3. CASE ~ run[s].open BY <2>4, <3>3, ExecuteClosedKeeps
    <3>4. QED BY <3>2, <3>3
  <2>5. CASE SchemaRejectsSweep(s) \/ SweepFails(s)
    <3>1. StatementFails(s) /\ UNCHANGED <<tables, service>>
      BY <2>5 DEF SchemaRejectsSweep, SweepFails
    <3>2. QED BY <3>1, SweepEndsBadlyKeeps
  <2>6. CASE DeadlockVictim(s)
    <3>1. StatementFails(s) /\ UNCHANGED <<tables, service>> BY <2>6 DEF DeadlockVictim
    <3>2. QED BY <3>1, SweepEndsBadlyKeeps
  <2>7. CASE CommitSweep(s)
    <3>1. /\ Publish(run[s].tx) /\ UNCHANGED service
          /\ run' = [run EXCEPT ![s] = IdleRun] /\ UNCHANGED deadLetter
      BY <2>7 DEF CommitSweep
    <3>2. QED BY <3>1, CommitKeeps
  <2>8. CASE SweepReplyLost(s)
    <3>1. Publish(run[s].tx) /\ UNCHANGED service /\ SweepEndsBadly(s)
      BY <2>8 DEF SweepReplyLost
    <3>2. QED BY <3>1, CommitKeeps
  <2>9. CASE SweepTimesOut(s) BY <2>9, SweepTimesOutKeeps
  <2>10. ASSUME NEW f \in FactIds, UpdateRow(s, f) PROVE IInv'
    BY <2>10, UpdateRowKeeps
  <2>11. QED BY <1>5, <2>1, <2>2, <2>3, <2>4, <2>5, <2>6, <2>7, <2>8, <2>9, <2>10 DEF SweepStep
<1>6. CASE WorkerRestarts BY <1>6, WorkerRestartsKeeps
<1>7. CASE Rest BY <1>1, <1>7 DEF Rest
<1>8. QED BY <1>1, <1>2, <1>3, <1>4, <1>5, <1>6, <1>7 DEF Next

(* The inductive invariant: types, rows kept apart by their locks, what    *)
(* each sweep's transaction settles, and feedback and corrections counted  *)
(* once.                                                                   *)
THEOREM Invariance == Spec => []IInv
BY InitIInv, NextIInv, PTL DEF Spec

(* The types of the tables, the requests and the runs.                     *)
THEOREM TypeCorrect == Spec => []TypeOK
<1>1. IInv => TypeOK
  <2> SUFFICES ASSUME IInv PROVE TypeOK
    OBVIOUS
  <2>1. /\ DOMAIN facts \subseteq FactIds /\ \A f \in DOMAIN facts : facts[f] \in Row
        /\ evidence \subseteq (DOMAIN facts) \X (UNION Range(EvidenceOf))
        /\ feedback \in [FactIds -> [Kinds -> Nat]] /\ audit \in [FactIds -> [Entries -> Nat]]
    BY TableFacts DEF IInv, Typed, TablesTyped, AllMemories, Trails
  <2>2. \A p \in DOMAIN resolution : /\ p \in (DOMAIN facts) \X (DOMAIN facts)
                                     /\ resolution[p] \in {"unresolved", "superseded", "contested"}
    BY DEF IInv, Typed, TablesTyped, Marks, Outcomes
  <2>3. \A c \in Clients : call[c].pc \in {"idle", "waiting", "ok", "refused"}
    BY DEF IInv, Typed, ServiceTyped, CallRecord
  <2>4. \A h \in Handlers :
          /\ handler[h].pc \in {"none", "read", "write"}
          /\ handler[h].pc = "write" => call[h[1]].request.fact \in DOMAIN facts
    BY DEF IInv, Typed, ServiceTyped, HandlerRecord, FactOf
  <2>5. ASSUME NEW s \in Slots
        PROVE  /\ run[s].pc \in {"idle", "backoff", "judge", "write", "commit"}
               /\ run[s].attempt \in 1..MaxAttempts
               /\ DOMAIN run[s].tx.rows \subseteq DOMAIN facts
               /\ \A f \in DOMAIN run[s].tx.rows : run[s].tx.rows[f] \in Row
    <3>1. Typed BY DEF IInv
    <3>2. run[s] \in RunRecord /\ Shape(s, run[s], DOMAIN facts) /\ run[s].tx.rows \in Tables
      BY <3>1, RunParts
    <3>3. QED BY <3>2, TableFacts DEF RunRecord, Shape
  <2>6. deadLetter \subseteq Sweeps BY DEF IInv, Typed, WorkerTyped
  <2>7. QED BY <2>1, <2>2, <2>3, <2>4, <2>5, <2>6 DEF TypeOK
<1>2. QED BY <1>1, Invariance, PTL

(* Counters, feedback rows and events of a fact agree, and no answered     *)
(* feedback is lost, for any clients, faults and sweeps.                   *)
THEOREM FeedbackCountedOnce == Spec => []FeedbackCounted
<1>1. IInv => FeedbackCounted
  <2> SUFFICES ASSUME IInv, NEW f \in DOMAIN facts
               PROVE  /\ RowCounted(f) /\ EventsCounted(f)
                      /\ \A k \in Kinds : Cardinality(Answered(f, k)) =< feedback[f][k]
    BY DEF FeedbackCounted, RowCounted, EventsCounted
  <2>1. f \in FactIds BY TableFacts DEF IInv, Typed, TablesTyped
  <2>2. QED BY <2>1 DEF IInv, Counted, AnswersCounted
<1>2. QED BY <1>1, Invariance, PTL

(* Every correction is complete, however many there are and whatever the   *)
(* gateway repeats.                                                        *)
THEOREM CorrectionsComplete == Spec => []CorrectionComplete
<1>1. IInv => CorrectionComplete
  <2> SUFFICES ASSUME IInv PROVE CorrectionComplete
    OBVIOUS
  <2>1. ASSUME NEW n \in DOMAIN facts \ DOMAIN Given
        PROVE  \E f \in DOMAIN facts :
                 /\ {g \in DOMAIN facts : n \in CorrectedBy(g)} = {f}
                 /\ resolution[<<f, n>>] = "superseded"
                 /\ audit[n]["created"] = 1
                 /\ \A m \in UNION Range(EvidenceOf) : <<n, m>> \in evidence <=> <<f, m>> \in evidence
    <3>1. PICK f \in FactIds : CorrectionOf(n, f) BY DEF IInv, Corrected
    <3>2. f \in DOMAIN facts /\ \A g \in DOMAIN facts : n \in CorrectedBy(g) <=> g = f
      BY <3>1 DEF CorrectionOf, CorrectedBy
    <3>3. {g \in DOMAIN facts : n \in CorrectedBy(g)} = {f} BY <3>2
    <3>4. /\ resolution[<<f, n>>] = "superseded" /\ audit[n]["created"] = 1
          /\ \A m \in UNION Range(EvidenceOf) : <<n, m>> \in evidence <=> <<f, m>> \in evidence
      BY <3>1 DEF CorrectionOf, AllMemories
    <3>5. QED BY <3>2, <3>3, <3>4
  <2>2. \A f \in DOMAIN facts : Cardinality(CorrectedBy(f)) = feedback[f]["correct"]
    BY DEF IInv, Corrected
  <2>3. QED BY <2>1, <2>2 DEF CorrectionComplete
<1>2. QED BY <1>1, Invariance, PTL

-----------------------------------------------------------------------------
(* The steps that change a row: feedback, a sweep's commit, and a statement *)
(* outside of a transaction.                                               *)
LEMMA WhoChanges ==
  ASSUME IInv, [Next]_vars
  PROVE  \/ facts' = facts
         \/ \E h \in Handlers : UpdateFact(h)
         \/ \E s \in Slots : Publish(run[s].tx)
         \/ \E s \in Slots : Execute(s) /\ ~ run[s].open
<1>1. ASSUME NEW s \in Slots, Execute(s) PROVE facts' = facts \/ ~ run[s].open
  <2>1. CASE run[s].open BY <1>1, <2>1 DEF Execute, tables
  <2>2. QED BY <2>1
<1>2. ASSUME NEW h \in Handlers, HandlerStep(h) \/ FeedbackReplyLost(h) \/ FeedbackFails(h)
      PROVE  facts' = facts \/ UpdateFact(h)
  BY <1>2 DEF HandlerStep, ReadFact, SchemaRejectsFeedback, CommitFeedback, FeedbackReplyLost,
              FeedbackFails, tables
<1>3. ASSUME NEW s \in Slots, SweepStep(s) \/ SweepFails(s) \/ SweepReplyLost(s) \/ SweepTimesOut(s)
      PROVE  facts' = facts \/ Publish(run[s].tx) \/ (Execute(s) /\ ~ run[s].open)
  <2>1. CASE Execute(s) BY <1>1, <2>1
  <2>2. CASE CommitSweep(s) \/ SweepReplyLost(s) BY <2>2 DEF CommitSweep, SweepReplyLost
  <2>3. CASE StartSweep(s) \/ RetryFindsNothing(s) \/ JudgeContradiction(s) \/ SchemaRejectsSweep(s)
               \/ DeadlockVictim(s) \/ SweepFails(s)
    BY <2>3 DEF StartSweep, RetryFindsNothing, JudgeContradiction, SchemaRejectsSweep,
                DeadlockVictim, SweepFails, tables
  <2>4. CASE SweepTimesOut(s) BY <2>4 DEF SweepTimesOut, TimedOut, tables
  <2>5. ASSUME NEW f \in FactIds, UpdateRow(s, f) PROVE facts' = facts
    BY <2>5 DEF UpdateRow, tables
  <2>6. QED BY <1>3, <2>1, <2>2, <2>3, <2>4, <2>5 DEF SweepStep
<1>4. CASE UNCHANGED vars BY <1>4 DEF vars
<1>5. ASSUME NEW c \in Clients, \/ \E request \in Requests[c] : Send(c, request)
                                \/ ConnectionBreaks(c) \/ GatewayTimesOut(c)
      PROVE  facts' = facts
  BY <1>5 DEF Send, ConnectionBreaks, GatewayTimesOut, tables
<1>6. CASE WorkerRestarts BY <1>6 DEF WorkerRestarts, tables
<1>7. CASE Rest BY <1>7 DEF Rest, vars
<1>8. QED BY <1>2, <1>3, <1>4, <1>5, <1>6, <1>7 DEF Next

(* Feedback changes the status of its own fact only; who has seen it       *)
(* superseded leaves it superseded, and only a correction supersedes it.   *)
LEMMA UpdateTruth ==
  ASSUME IInv, NEW h \in Handlers, UpdateFact(h)
  PROVE  \E f \in DOMAIN facts :
           /\ handler[h].pc = "write" /\ f = FactOf(h)
           /\ \A g \in DOMAIN facts \ {f} : facts'[g] = facts[g]
           /\ handler[h].seen = "superseded" =>
                facts'[f].truth = facts[f].truth \/ facts'[f].truth = "superseded"
           /\ facts'[f].truth = "superseded" =>
                \/ facts[f].truth = "superseded"
                \/ feedback'[f]["correct"] > feedback[f]["correct"]
<1> DEFINE kind == call[h[1]].request.kind
           seen == handler[h].seen
<1>1. Typed /\ handler[h].pc = "write" /\ PublishFeedback(h) BY DEF IInv, UpdateFact
<1>2. PICK f \in DOMAIN facts : f = FactOf(h) BY <1>1 DEF Typed, ServiceTyped
<1>3. facts \in Tables /\ facts[f] \in Row BY <1>1, TableFacts DEF Typed, TablesTyped
<1>4. ASSUME NEW R \in Row, facts' = [facts EXCEPT ![f] = R],
             R.truth = "superseded" => facts[f].truth = "superseded",
             seen = "superseded" => R.truth = facts[f].truth
      PROVE  /\ \A g \in DOMAIN facts \ {f} : facts'[g] = facts[g]
             /\ seen = "superseded" => facts'[f].truth = facts[f].truth
             /\ facts'[f].truth = "superseded" => facts[f].truth = "superseded"
  <2>1. facts'[f] = R /\ \A g \in DOMAIN facts \ {f} : facts'[g] = facts[g]
    BY <1>3, <1>4, TableUpdated
  <2>2. QED BY <1>4, <2>1
<1>5. CASE ConfirmFact(f, seen)
  <2>1. PICK R \in Row : /\ R = Confirmed(facts[f], seen)
                         /\ R.truth = "superseded" => facts[f].truth = "superseded"
                         /\ seen = "superseded" => R.truth = facts[f].truth
    BY <1>3, ConfirmedFacts
  <2>2. facts' = [facts EXCEPT ![f] = R] BY <1>5, <2>1 DEF ConfirmFact
  <2>3. QED BY <1>1, <1>2, <1>4, <2>1, <2>2
<1>6. CASE RejectFact(f, seen)
  <2>1. PICK R \in Row : /\ R = Rejected(facts[f], seen)
                         /\ R.truth = "superseded" => facts[f].truth = "superseded"
                         /\ seen = "superseded" => R.truth = facts[f].truth
    BY <1>3, RejectedFacts
  <2>2. facts' = [facts EXCEPT ![f] = R] BY <1>6, <2>1 DEF RejectFact
  <2>3. QED BY <1>1, <1>2, <1>4, <2>1, <2>2
<1>7. CASE CorrectFact(f)
  <2>1. PICK n : Corrects(f, n) BY <1>1, <1>7, CorrectFactFacts
  <2>2. /\ \A g \in DOMAIN facts \ {f} : facts'[g] = facts[g]
        /\ facts'[f].truth = "superseded"
        /\ feedback'[f]["correct"] = feedback[f]["correct"] + 1
    BY <2>1 DEF Corrects
  <2>3. f \in FactIds /\ feedback[f]["correct"] \in Nat
    BY <1>1, <1>3, TableFacts DEF Typed, TablesTyped, Kinds
  <2>4. QED BY <1>1, <1>2, <2>2, <2>3
<1>8. QED BY <1>1, <1>2, <1>5, <1>6, <1>7 DEF PublishFeedback, FactOf

(* A sweep's commit changes the rows of its transaction only; a statement  *)
(* outside of one, those it touches and those of its batch before them.    *)
LEMMA SweepTruth ==
  ASSUME IInv, NEW s \in Slots, Publish(run[s].tx) \/ (Execute(s) /\ ~ run[s].open),
         NEW f \in DOMAIN facts, facts'[f] # facts[f]
  PROVE  \/ f \in DOMAIN run[s].tx.rows /\ facts'[f] = run[s].tx.rows[f]
         \/ /\ run[s].pc = "write" /\ ~ run[s].open /\ f \in Touched(NextStatement(s))
            /\ 1 \in DOMAIN run[s].statements /\ NextStatement(s) = run[s].statements[1]
<1>1. Typed /\ Shape(s, run[s], DOMAIN facts) /\ run[s] \in RunRecord
  BY RunParts DEF IInv
<1>2. CASE Publish(run[s].tx)
  <2>1. PICK W \in Writes : W = run[s].tx BY <1>1 DEF RunRecord
  <2>2. DOMAIN W.rows \subseteq DOMAIN facts /\ Publish(W) BY <1>1, <1>2, <2>1 DEF Shape
  <2>3. /\ \A g \in DOMAIN W.rows : facts'[g] = W.rows[g]
        /\ \A g \in DOMAIN facts \ DOMAIN W.rows : facts'[g] = facts[g]
    BY <1>1, <2>2, PublishFacts
  <2>4. QED BY <2>1, <2>3
<1>3. CASE Execute(s) /\ ~ run[s].open
  <2>1. run[s].pc = "write" /\ Publish(Written(s, Together(s))) BY <1>3 DEF Execute
  <2>2. /\ Together(s) \in 1..Together(s) /\ 1 \in DOMAIN run[s].statements
        /\ NextStatement(s) = run[s].statements[1]
    BY <1>1, <2>1, TogetherFacts
  <2>3. PICK W \in Writes : W = Written(s, Together(s)) BY <1>1, <2>1, <2>2, WrittenFacts
  <2>4. /\ DOMAIN W.rows = Touched(NextStatement(s)) \cup DOMAIN run[s].tx.rows
        /\ \A g \in DOMAIN run[s].tx.rows \ Touched(NextStatement(s)) : W.rows[g] = run[s].tx.rows[g]
    BY <1>1, <2>1, <2>2, <2>3, WrittenFacts
  <2>5. DOMAIN W.rows \subseteq DOMAIN facts
    BY <1>1, <2>1, <2>2, <2>3, WrittenShape
  <2>6. /\ \A g \in DOMAIN W.rows : facts'[g] = W.rows[g]
        /\ \A g \in DOMAIN facts \ DOMAIN W.rows : facts'[g] = facts[g]
    BY <1>1, <2>1, <2>3, <2>5, PublishFacts
  <2>7. CASE f \in Touched(NextStatement(s)) BY <1>3, <2>1, <2>2, <2>7
  <2>8. CASE f \notin Touched(NextStatement(s)) BY <2>4, <2>6, <2>8
  <2>9. QED BY <2>7, <2>8
<1>4. QED BY <1>2, <1>3

(* A superseded fact comes back only by who read it before it was          *)
(* superseded: a request with what it has seen, a sweep that updates what  *)
(* it had seen not superseded.                                             *)
THEOREM SupersededKept == Spec => SupersededStays
<1>1. ASSUME IInv, [Next]_vars, NEW f \in DOMAIN facts, facts[f].truth = "superseded",
             DecidedBefore(f) = {}
      PROVE  facts'[f].truth = "superseded"
  <2>1. CASE facts' = facts BY <1>1, <2>1
  <2>2. ASSUME NEW h \in Handlers, UpdateFact(h) PROVE facts'[f].truth = "superseded"
    <3>1. PICK g \in DOMAIN facts :
            /\ handler[h].pc = "write" /\ g = FactOf(h)
            /\ \A d \in DOMAIN facts \ {g} : facts'[d] = facts[d]
            /\ handler[h].seen = "superseded" =>
                 facts'[g].truth = facts[g].truth \/ facts'[g].truth = "superseded"
      BY <1>1, <2>2, UpdateTruth
    <3>2. CASE g # f BY <1>1, <3>1, <3>2
    <3>3. CASE g = f
      <4>1. h \notin DecidedBefore(f) BY <1>1
      <4>2. handler[h].seen = "superseded" BY <3>1, <3>3, <4>1 DEF DecidedBefore
      <4>3. QED BY <1>1, <3>1, <3>3, <4>2
    <3>4. QED BY <3>2, <3>3
  <2>3. ASSUME NEW s \in Slots, Publish(run[s].tx) \/ (Execute(s) /\ ~ run[s].open)
        PROVE  facts'[f].truth = "superseded"
    <3>1. SUFFICES ASSUME facts'[f].truth # "superseded" PROVE s \in DecidedBefore(f)
      BY <1>1
    <3>2. SeenOK(run[s]) BY <1>1 DEF IInv, RunsOK, RunOK
    <3>3. CASE f \in DOMAIN run[s].tx.rows /\ facts'[f] = run[s].tx.rows[f]
      BY <3>1, <3>2, <3>3 DEF SeenOK, DecidedBefore
    <3>4. CASE /\ f \in Touched(NextStatement(s))
               /\ 1 \in DOMAIN run[s].statements /\ NextStatement(s) = run[s].statements[1]
      BY <3>2, <3>4 DEF SeenOK, DecidedBefore
    <3>5. facts'[f] # facts[f] BY <1>1, <3>1
    <3>6. QED BY <1>1, <2>3, <3>3, <3>4, <3>5, SweepTruth
  <2>4. QED BY <1>1, <2>1, <2>2, <2>3, WhoChanges
<1>2. IInv /\ [Next]_vars =>
        [\A f \in DOMAIN facts :
           facts[f].truth = "superseded" /\ DecidedBefore(f) = {} =>
             facts'[f].truth = "superseded"]_vars
  BY <1>1
<1>3. QED BY <1>2, Invariance, PTL DEF Spec, SupersededStays

(* A run without a transaction has superseded none of the rows of a batch. *)
LEMMA SupersededBefore ==
  ASSUME IInv, NEW s \in Slots, ~ run[s].open, NEW f \in DOMAIN run[s].tx.rows
  PROVE  run[s].tx.rows[f].truth = "superseded" => facts[f].truth = "superseded"
<1>1. Typed /\ RowsSettled(run[s].tx, facts) BY DEF IInv, RunsOK, RunOK
<1>2. f \in FactIds /\ "auto" \in Entries BY <1>1, RunParts, TableFacts DEF Entries
<1>3. run[s].tx.events = NoEvents BY <1>1, RunParts DEF Shape
<1>4. run[s].tx.events[f]["auto"] = 0 BY <1>2, <1>3 DEF NoEvents
<1>5. ~ SettledIn(run[s].tx, f) BY <1>4 DEF SettledIn
<1>6. QED BY <1>1, <1>5 DEF RowsSettled

(* A fact that becomes superseded was corrected, or a sweep has settled    *)
(* its contradiction and written its event in the same commit, unless the  *)
(* sweep had lost its transaction.                                         *)
THEOREM SettlesTogether == Spec => SettledTogether
<1> DEFINE Settles(f) ==
       \/ facts[f].truth = "superseded" \/ facts'[f].truth # "superseded"
       \/ feedback'[f]["correct"] > feedback[f]["correct"]
       \/ \E p \in DOMAIN resolution :
            /\ f \in Range(p) /\ resolution'[p] = "superseded"
            /\ audit'[f]["auto"] > audit[f]["auto"]
       \/ \E s \in Slots : /\ run[s].pc = "write" /\ ~ run[s].open
                           /\ f \in Touched(NextStatement(s))
<1>1. ASSUME IInv, [Next]_vars, NEW f \in DOMAIN facts PROVE Settles(f)
  <2>1. CASE facts' = facts BY <2>1
  <2>2. ASSUME NEW h \in Handlers, UpdateFact(h) PROVE Settles(f)
    <3>1. PICK g \in DOMAIN facts :
            /\ \A d \in DOMAIN facts \ {g} : facts'[d] = facts[d]
            /\ facts'[g].truth = "superseded" =>
                 \/ facts[g].truth = "superseded"
                 \/ feedback'[g]["correct"] > feedback[g]["correct"]
      BY <1>1, <2>2, UpdateTruth
    <3>2. CASE g # f BY <3>1, <3>2
    <3>3. CASE g = f BY <3>1, <3>3
    <3>4. QED BY <3>2, <3>3
  <2>3. ASSUME NEW s \in Slots, Publish(run[s].tx), f \in DOMAIN run[s].tx.rows,
               facts[f].truth # "superseded", facts'[f].truth = "superseded"
        PROVE  \E p \in DOMAIN resolution :
                 /\ f \in Range(p) /\ resolution'[p] = "superseded"
                 /\ audit'[f]["auto"] > audit[f]["auto"]
    <3>1. Typed /\ run[s] \in RunRecord /\ Shape(s, run[s], DOMAIN facts) /\ RunOK(run[s], facts)
      BY <1>1, RunParts DEF IInv, RunsOK
    <3>2. PICK W \in Writes : W = run[s].tx BY <3>1 DEF RunRecord
    <3>3. DOMAIN W.rows \subseteq DOMAIN facts /\ Publish(W) BY <2>3, <3>1, <3>2 DEF Shape
    <3>4. /\ facts'[f] = W.rows[f] /\ audit'[f]["auto"] = audit[f]["auto"] + W.events[f]["auto"]
          /\ \A p \in DOMAIN W.resolved : resolution'[p] = W.resolved[p]
      <4>1. f \in FactIds /\ "auto" \in Entries
        BY <3>1, TableFacts DEF Typed, TablesTyped, Entries
      <4>2. QED BY <2>3, <3>1, <3>2, <3>3, <4>1, PublishFacts
    <3>5. SettledIn(W, f) BY <2>3, <3>1, <3>2, <3>4 DEF RunOK, RowsSettled
    <3>6. PICK p \in DOMAIN W.resolved : f \in Range(p) /\ W.resolved[p] = "superseded"
      BY <3>5 DEF SettledIn
    <3>7. p \in DOMAIN resolution
      <4>1. DOMAIN W.resolved \subseteq GivenPairs BY DEF Writes, SweptMarks
      <4>2. QED BY <3>1, <3>6, <4>1 DEF Typed, TablesTyped
    <3>8. audit'[f]["auto"] > audit[f]["auto"]
      <4>1. f \in FactIds /\ "auto" \in Entries
        BY <3>1, TableFacts DEF Typed, TablesTyped, Entries
      <4>2. audit[f]["auto"] \in Nat /\ W.events[f]["auto"] \in Nat
        BY <3>1, <4>1 DEF Typed, TablesTyped, Trails, Writes
      <4>3. QED BY <3>4, <3>5, <4>2 DEF SettledIn
    <3>9. QED BY <3>4, <3>6, <3>7, <3>8
  <2>4. ASSUME NEW s \in Slots, Publish(run[s].tx) \/ (Execute(s) /\ ~ run[s].open)
        PROVE  Settles(f)
    <3>1. CASE facts'[f] = facts[f] BY <3>1
    <3>2. CASE facts'[f] # facts[f]
      <4>1. CASE f \in DOMAIN run[s].tx.rows /\ facts'[f] = run[s].tx.rows[f]
        <5>1. CASE Publish(run[s].tx) BY <2>3, <4>1, <5>1
        <5>2. CASE ~ run[s].open BY <1>1, <4>1, <5>2, SupersededBefore
        <5>3. QED BY <2>4, <5>1, <5>2
      <4>2. CASE run[s].pc = "write" /\ ~ run[s].open /\ f \in Touched(NextStatement(s))
        BY <4>2
      <4>3. QED BY <1>1, <2>4, <3>2, <4>1, <4>2, SweepTruth
    <3>3. QED BY <3>1, <3>2
  <2>5. QED BY <1>1, <2>1, <2>2, <2>4, WhoChanges
<1>2. IInv /\ [Next]_vars => [\A f \in DOMAIN facts : Settles(f)]_vars
  BY <1>1
<1>3. QED BY <1>2, Invariance, PTL DEF Spec, SettledTogether
=============================================================================
