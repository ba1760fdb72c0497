------------------------------ MODULE ResultProofs ------------------------------
(***************************************************************************)
(* Proofs about the tools that read the results of runs: the holes of a    *)
(* coverage are what the artifacts say, a triaged counterexample accuses   *)
(* only on the evidence of its trace, the judgement of one run never says  *)
(* a false PASS and is never refused by the record's validator, the triage *)
(* of an equivalence check says the same whatever the order of its log,    *)
(* with every mismatch in one group, the findings about a ledger are the   *)
(* same in whatever order it tells its runs, and the verdicts on the       *)
(* performance of a commit follow the bad direction of each metric and     *)
(* ignore a wild sample.                                                   *)
(***************************************************************************)
EXTENDS RunJudgement, CoverageHoles, CounterexampleTriage, EquivalenceTriage,
        RegressionFindings, PerformanceRegression, DataLemmas, TLAPS

-----------------------------------------------------------------------------
(***************************************************************************)
(* The holes of a coverage                                                 *)
(***************************************************************************)

\* Of the lines of an artifact up to the n-th: each item stands for one of them that no other
\* line of its name exceeds, and each line has an item of its name.
MergedUpTo(items, points, n) ==
    /\ \A it \in items : \E k \in 1 .. n :
          /\ it = ItemOf(points[k])
          /\ \A j \in 1 .. n : points[j].id = it.id => points[j].hits <= it.hits
    /\ \A k \in 1 .. n : \E it \in items : it.id = points[k].id

\* One more line.
LEMMA MergeNext ==
    ASSUME NEW points, NEW n \in Nat \ {0}, \A k \in 1 .. n : points[k].hits \in Nat,
           NEW items, MergedUpTo(items, points, n - 1)
    PROVE  MergedUpTo(Merge(items, points[n]), points, n)
<1> DEFINE p == points[n]
<1>1. /\ \A it \in items : \E k \in 1 .. n - 1 :
            /\ it = ItemOf(points[k])
            /\ \A j \in 1 .. n - 1 : points[j].id = it.id => points[j].hits <= it.hits
      /\ \A k \in 1 .. n - 1 : \E it \in items : it.id = points[k].id
  BY DEF MergedUpTo
<1>2. \A k \in 1 .. n : ItemOf(points[k]).id = points[k].id /\ ItemOf(points[k]).hits = points[k].hits
  BY DEF ItemOf
<1>3. \A it \in items : it.hits \in Nat
  BY <1>1, <1>2
<1>4. CASE \E it \in items : it.id = p.id /\ it.hits >= p.hits
  <2>1. Merge(items, p) = items
    BY <1>4 DEF Merge
  <2>2. PICK same \in items : same.id = p.id /\ same.hits >= p.hits
    BY <1>4
  <2>3. ASSUME NEW it \in items
        PROVE  \E k \in 1 .. n :
                  /\ it = ItemOf(points[k])
                  /\ \A j \in 1 .. n : points[j].id = it.id => points[j].hits <= it.hits
    <3>1. PICK k \in 1 .. n - 1 :
              /\ it = ItemOf(points[k])
              /\ \A j \in 1 .. n - 1 : points[j].id = it.id => points[j].hits <= it.hits
      BY <1>1
    <3>2. PICK i \in 1 .. n - 1 : same = ItemOf(points[i])
      BY <1>1
    <3>3. p.id = it.id => p.hits <= it.hits
      <4>1. p.id = it.id => same.hits <= it.hits
        BY <1>2, <2>2, <3>1, <3>2
      <4> QED  BY <1>3, <2>2, <4>1
    <3> QED  BY <3>1, <3>3
  <2>4. ASSUME NEW k \in 1 .. n PROVE \E it \in items : it.id = points[k].id
    <3>1. CASE k = n
      BY <2>2, <3>1
    <3>2. CASE k \in 1 .. n - 1
      BY <1>1, <3>2
    <3> QED  BY <3>1, <3>2
  <2>5. MergedUpTo(items, points, n)
    BY ONLY <2>3, <2>4 DEF MergedUpTo
  <2> QED  BY <2>1, <2>5
<1>5. CASE ~ \E it \in items : it.id = p.id /\ it.hits >= p.hits
  <2> DEFINE rest == {it \in items : it.id # p.id}
  <2>1. Merge(items, p) = rest \cup {ItemOf(p)}
    BY <1>5 DEF Merge
  <2>2. ASSUME NEW it \in rest
        PROVE  \E k \in 1 .. n :
                  /\ it = ItemOf(points[k])
                  /\ \A j \in 1 .. n : points[j].id = it.id => points[j].hits <= it.hits
    BY <1>1
  <2>3. \A j \in 1 .. n : points[j].id = p.id => points[j].hits <= p.hits
    <3> SUFFICES ASSUME NEW j \in 1 .. n - 1, points[j].id = p.id PROVE points[j].hits <= p.hits
      OBVIOUS
    <3>1. PICK it \in items : it.id = points[j].id
      BY <1>1
    <3>2. points[j].hits <= it.hits
      BY <1>1, <3>1
    <3>3. ~ (it.hits >= p.hits)
      BY <1>5, <3>1
    <3> QED  BY <1>3, <3>2, <3>3
  <2>4. \E k \in 1 .. n :
            /\ ItemOf(p) = ItemOf(points[k])
            /\ \A j \in 1 .. n : points[j].id = ItemOf(p).id => points[j].hits <= ItemOf(p).hits
    BY <1>2, <2>3
  <2>5. \A k \in 1 .. n : \E it \in rest \cup {ItemOf(p)} : it.id = points[k].id
    BY <1>1, <1>2
  <2> QED  BY <2>1, <2>2, <2>4, <2>5 DEF MergedUpTo
<1> QED  BY <1>4, <1>5

\* What an artifact is merged into.
LEMMA RealItems ==
    ASSUME NEW points, points \in Seq(Range(points)), \A p \in Range(points) : p.hits \in Nat
    PROVE  MergedUpTo(IngestReal(points), points, Len(points))
<1> DEFINE n == Len(points)
           E == SUBSET {ItemOf(points[k]) : k \in 1 .. n}
           Result == [k \in 1 .. n |-> [items \in E |-> Merge(items, points[k])]]
           by_id == CHOOSE g : g = [k \in 0 .. Len(points) |->
                                      IF k = 0 THEN {} ELSE Merge(g[k - 1], points[k])]
<1>1. n \in Nat /\ \A k \in 1 .. n : points[k] \in Range(points) /\ points[k].hits \in Nat
  BY DEF Range
<1>2. ASSUME NEW k \in 1 .. n, NEW items \in E PROVE Merge(items, points[k]) \in E
  BY DEF Merge
<1>3. \E g : Iterates(g, n, E, {}, Result)
  <2>1. {} \in E
    OBVIOUS
  <2>2. Result \in [1 .. n -> [E -> E]]
    <3> HIDE DEF E
    <3> QED  BY <1>2
  <2> HIDE DEF E, Result
  <2>3. StepsWithin(n, E, {}, Result)
    BY <1>1, <2>1, <2>2 DEF StepsWithin
  <2> QED  BY <2>3, IteratedSteps
<1>4. PICK g \in [0 .. n -> E] : g[0] = {} /\ \A k \in 1 .. n : g[k] = Merge(g[k - 1], points[k])
  <2>1. PICK g : Iterates(g, n, E, {}, Result)
    BY <1>3
  <2>2. g \in [0 .. n -> E] /\ g[0] = {} /\ \A k \in 1 .. n : g[k] = Result[k][g[k - 1]]
    <3> HIDE DEF E, Result
    <3> QED  BY <2>1 DEF Iterates
  <2>3. ASSUME NEW k \in 1 .. n PROVE g[k] = Merge(g[k - 1], points[k])
    <3>1. g[k - 1] \in E
      <4> HIDE DEF E, Result
      <4> QED  BY <1>1, <2>2
    <3>2. g[k] = Result[k][g[k - 1]]
      BY <2>2
    <3> HIDE DEF E
    <3> QED  BY <3>1, <3>2
  <2> HIDE DEF E, Result
  <2> QED  BY <2>2, <2>3
<1>5. g = [k \in 0 .. Len(points) |-> IF k = 0 THEN {} ELSE Merge(g[k - 1], points[k])]
  <2> DEFINE v(k) == IF k = 0 THEN {} ELSE Merge(g[k - 1], points[k])
  <2>1. \A k \in 0 .. n : g[k] = v(k)
    <3> HIDE DEF E
    <3> QED  BY <1>1, <1>4
  <2>2. g \in [0 .. n -> E]
    OBVIOUS
  <2> HIDE DEF v, E, by_id
  <2>3. g = [k \in 0 .. n |-> v(k)]
    BY <2>1, <2>2
  <2> QED  BY <2>3 DEF v
<1>6. by_id = [k \in 0 .. Len(points) |->
                 IF k = 0 THEN {} ELSE Merge(by_id[k - 1], points[k])]
  BY <1>5, Zenon
<1>7. IngestReal(points) = by_id[n]
  BY DEF IngestReal
<1> DEFINE S == {k \in 0 .. n : MergedUpTo(by_id[k], points, k)}
<1> HIDE DEF by_id
<1>8. by_id[0] = {} /\ \A k \in 1 .. n : by_id[k] = Merge(by_id[k - 1], points[k])
  <2> DEFINE v(k) == IF k = 0 THEN {} ELSE Merge(by_id[k - 1], points[k])
  <2>1. by_id = [k \in 0 .. n |-> v(k)]
    BY <1>6
  <2> HIDE DEF v
  <2>2. \A k \in 0 .. n : by_id[k] = v(k)
    BY <2>1
  <2> QED  BY <1>1, <2>2 DEF v
<1>9. 0 \in S
  BY <1>1, <1>8 DEF MergedUpTo
<1>10. ASSUME NEW k \in 1 .. n, k - 1 \in S PROVE k \in S
  <2>1. MergedUpTo(by_id[k - 1], points, k - 1)
    BY <1>10
  <2>2. k \in Nat \ {0} /\ \A i \in 1 .. k : points[i].hits \in Nat
    BY <1>1
  <2>3. MergedUpTo(Merge(by_id[k - 1], points[k]), points, k)
    BY <2>1, <2>2, MergeNext
  <2> QED  BY <1>8, <2>3
<1>11. n \in S
  <2> HIDE DEF S
  <2>1. \A k \in 1 .. n : k - 1 \in S => k \in S
    BY <1>10
  <2>2. 0 .. n \subseteq S
    <3> HIDE DEF n
    <3> QED  BY <1>1, <1>9, <2>1, StepByStep
  <2> QED  BY <1>1, <2>2
<1> QED  BY <1>7, <1>11

\* One call: a bundle that can be asked for, and, once there is a report, the report on it.
CoverageInv ==
    /\ tool = "coverage-triage" /\ input \in CoverageBundles
    /\ reports = {} \/ reports = {CoverageReportOf(input)}

\* The report of the tool is the report on the bundle it was called with.
LEMMA CoverageInvariant == CoverageSpec => []CoverageInv
<1>1. CoverageInit => CoverageInv
  BY DEF CoverageInit, Called, CoverageInv
<1>2. CoverageInv /\ [TriageCoverage]_passVars => CoverageInv'
  BY DEF CoverageInv, TriageCoverage, Computing, Reports, passVars, CoverageReportOf
<1> QED  BY <1>1, <1>2, PTL DEF CoverageSpec

\* Merging neither loses a point that nothing hit nor keeps one that something hit.
LEMMA HolesOfRealItems ==
    ASSUME NEW b \in CoverageBundles, b.real
    PROVE  {it.id : it \in Holes(Items(b))} =
             {p.id : p \in {p \in Range(b.points) :
                              \A q \in Range(b.points) : q.id = p.id => q.hits = 0}}
<1> DEFINE n == Len(b.points)
           items == IngestReal(b.points)
           missed == {p \in Range(b.points) : \A q \in Range(b.points) : q.id = p.id => q.hits = 0}
<1>1. b.points \in Seq(Range(b.points)) /\ \A p \in Range(b.points) : p.hits \in Nat
  BY CoverageAssumption DEF CoverageAssumption
<1>2. Items(b) = items
  BY DEF Items
<1>3. MergedUpTo(items, b.points, n)
  BY <1>1, RealItems
<1>4. Range(b.points) = {b.points[k] : k \in 1 .. n}
  BY <1>1 DEF Range
<1> HIDE DEF items
<1>5. \A k \in 1 .. n : /\ ItemOf(b.points[k]).id = b.points[k].id
                        /\ ItemOf(b.points[k]).hits = b.points[k].hits
                        /\ ItemOf(b.points[k]).goal = 1
  BY DEF ItemOf
<1>6. ASSUME NEW it \in Holes(items) PROVE \E p \in missed : p.id = it.id
  <2>1. it \in items /\ it.hits < it.goal
    BY DEF Holes
  <2>2. PICK k \in 1 .. n :
            /\ it = ItemOf(b.points[k])
            /\ \A j \in 1 .. n : b.points[j].id = it.id => b.points[j].hits <= it.hits
    BY <1>3, <2>1 DEF MergedUpTo
  <2>3. it.hits = 0
    <3>1. b.points[k].hits \in Nat
      BY <1>1, <1>4
    <3>2. it.goal = 1 /\ it.hits = b.points[k].hits
      BY <1>5, <2>2
    <3> QED  BY <2>1, <3>1, <3>2
  <2>4. ASSUME NEW j \in 1 .. n, b.points[j].id = it.id PROVE b.points[j].hits = 0
    <3>1. b.points[j].hits \in Nat
      BY <1>1, <1>4
    <3>2. b.points[j].hits <= it.hits
      BY <2>2, <2>4
    <3> QED  BY <2>3, <3>1, <3>2
  <2> QED  BY <1>4, <1>5, <2>2, <2>4
<1>7. ASSUME NEW p \in missed PROVE \E it \in Holes(items) : it.id = p.id
  <2>1. PICK k \in 1 .. n : p = b.points[k]
    BY <1>4
  <2>2. PICK it \in items : it.id = p.id
    BY <1>3, <2>1 DEF MergedUpTo
  <2>3. PICK i \in 1 .. n : it = ItemOf(b.points[i])
    BY <1>3, <2>2 DEF MergedUpTo
  <2>4. it.hits = 0 /\ it.goal = 1
    BY <1>4, <1>5, <2>2, <2>3
  <2> QED  BY <2>2, <2>4 DEF Holes
<1> HIDE DEF missed
<1>8. {it.id : it \in Holes(items)} = {p.id : p \in missed}
  BY <1>6, <1>7
<1> QED  BY <1>2, <1>8 DEF missed

\* A hole with a test that failed is put down to it, unless the point looks unreachable.
LEMMA FailingFirst ==
    ASSUME NEW b, NEW it,
           NEW failing, failing = {t \in LinkedTests(b, it) : Status(b, t) \in Failed},
           failing # {}, Category(b, it) # "likely_unreachable"
    PROVE  /\ Category(b, it) = "test_ran_but_failed"
           /\ Cited(b, it, Category(b, it)) = failing
           /\ {a.action : a \in Actions(b, it, Category(b, it))} =
                {"run_existing_test", "request_spec_clarification"}
<1> DEFINE statuses == {Status(b, id) : id \in LinkedTests(b, it)}
<1>1. statuses # {} /\ statuses \cap Failed # {}
  OBVIOUS
<1>2. Category(b, it) = "test_ran_but_failed"
  <2> HIDE DEF statuses
  <2> QED  BY <1>1 DEF Category, statuses
<1>3. Cited(b, it, Category(b, it)) = failing
  BY <1>2 DEF Cited
<1>4. Actions(b, it, Category(b, it)) =
        {[action |-> "run_existing_test", tests |-> {FirstId(LinkedTests(b, it))}],
         [action |-> "request_spec_clarification", tests |-> {}]}
  BY <1>2 DEF Actions
<1>5. {a.action : a \in Actions(b, it, Category(b, it))} =
        {"run_existing_test", "request_spec_clarification"}
  <2> DEFINE rerun == [action |-> "run_existing_test",
                       tests |-> {FirstId(LinkedTests(b, it))}]
             ask == [action |-> "request_spec_clarification", tests |-> {}]
  <2>1. rerun.action = "run_existing_test" /\ ask.action = "request_spec_clarification"
    OBVIOUS
  <2>2. Actions(b, it, Category(b, it)) = {rerun, ask}
    BY <1>4
  <2> HIDE DEF rerun, ask
  <2> QED  BY <2>1, <2>2
<1> QED  BY <1>2, <1>3, <1>5

\* What is to be rerun for a hole are tests that are meant for it.
LEMMA RerunsLinked ==
    ASSUME NEW b \in CoverageBundles, NEW it,
           NEW a \in Actions(b, it, Category(b, it)), a.action = "run_existing_test"
    PROVE  a.tests # {} /\ a.tests \subseteq LinkedTests(b, it)
<1> DEFINE category == Category(b, it)
           tests == LinkedTests(b, it)
           statuses == {Status(b, id) : id \in LinkedTests(b, it)}
<1>1. CASE category = "test_exists_not_run"
  BY <1>1 DEF Actions
<1>2. CASE category = "test_ran_but_failed"
  <2>1. statuses # {}
    <3> HIDE DEF statuses
    <3> QED  BY <1>2 DEF Category, statuses
  <2>2. tests # {}
    BY <2>1
  <2>3. a \in {[action |-> "run_existing_test", tests |-> {FirstId(tests)}],
               [action |-> "request_spec_clarification", tests |-> {}]}
    BY <1>2 DEF Actions
  <2>4. tests \in SUBSET {t.test_id : t \in Range(b.tests)}
    BY DEF LinkedTests
  <2>5. FirstId(tests) \in tests
    BY <2>2, <2>4, FirstIdAssumption DEF FirstIdAssumption
  <2> QED  BY <2>2, <2>3, <2>5
<1>3. CASE category \notin {"test_exists_not_run", "test_ran_but_failed"}
  BY <1>3 DEF Actions
<1> QED  BY <1>1, <1>2, <1>3

\* Nothing measured as uncovered is lost, nothing hit is reported, and a failing test is
\* what a hole is put down to first: for every bundle with any number of artifact lines.
THEOREM CoverageHolesSoundAlways == CoverageSpec => []CoverageHolesSound
<1>1. ASSUME CoverageInv, Reported("coverage-triage") PROVE HolesExact /\ FailuresFirst
  <2>1. input \in CoverageBundles /\ Report = CoverageReportOf(input)
    BY <1>1 DEF CoverageInv, Reported, Report
  <2> DEFINE holes == Holes(Items(input))
  <2>2. /\ Report.classes = {ClassifyHole(input, it) : it \in holes}
        /\ Report.review = {c.id : c \in Report.classes}
    BY <2>1 DEF CoverageReportOf
  <2>3. \A it \in holes : ClassifyHole(input, it).id = it.id
    BY DEF ClassifyHole
  <2>4. Report.review = {it.id : it \in holes}
    <3> HIDE DEF holes
    <3> QED  BY <2>2, <2>3
  <2>5. HolesExact
    BY <2>1, <2>4, HolesOfRealItems DEF HolesExact
  <2>6. FailuresFirst
    <3> SUFFICES ASSUME NEW c \in Report.classes
                 PROVE  LET linked == {t.test_id : t \in {t \in Range(input.tests) : c.id \in t.covers}}
                            failing == {t \in linked : Status(input, t) \in Failed}
                            actions == {a.action : a \in c.actions}
                        IN  /\ failing # {} /\ c.category # "likely_unreachable" =>
                                  /\ c.cited = failing
                                  /\ actions = {"run_existing_test", "request_spec_clarification"}
                            /\ \A a \in c.actions : a.action = "run_existing_test" =>
                                  a.tests # {} /\ a.tests \subseteq linked
      BY DEF FailuresFirst
    <3> DEFINE linked == {t.test_id : t \in {t \in Range(input.tests) : c.id \in t.covers}}
               failing == {t \in linked : Status(input, t) \in Failed}
    <3>1. PICK it \in holes : c = ClassifyHole(input, it)
      BY <2>2
    <3>2. /\ c.id = it.id /\ c.category = Category(input, it)
          /\ c.cited = Cited(input, it, Category(input, it))
          /\ c.actions = Actions(input, it, Category(input, it))
      BY <3>1 DEF ClassifyHole
    <3>3. linked = LinkedTests(input, it)
      BY <3>2 DEF LinkedTests
    <3>4. failing = {t \in LinkedTests(input, it) : Status(input, t) \in Failed}
      BY <3>3
    <3> HIDE DEF failing, linked
    <3>5. failing # {} /\ c.category # "likely_unreachable" =>
             /\ c.cited = failing
             /\ {a.action : a \in c.actions} = {"run_existing_test", "request_spec_clarification"}
      BY <3>2, <3>4, FailingFirst
    <3>6. \A a \in c.actions : a.action = "run_existing_test" => a.tests # {} /\ a.tests \subseteq linked
      BY <2>1, <3>2, <3>3, RerunsLinked
    <3> QED  BY <3>5, <3>6 DEF failing, linked
  <2> QED  BY <2>5, <2>6
<1>2. CoverageInv => CoverageHolesSound
  BY <1>1 DEF CoverageHolesSound
<1> QED  BY CoverageInvariant, <1>2, PTL

-----------------------------------------------------------------------------
(***************************************************************************)
(* Counterexamples                                                         *)
(***************************************************************************)

\* One call: a counterexample that can be asked for, and, once there is a report, the report
\* on it.
CounterexampleInv ==
    /\ tool = "cx-triage" /\ input \in Counterexamples
    /\ reports = {} \/ reports = {TriageReportOf(input)}

\* The report of the tool is the report on the counterexample it was called with.
LEMMA CounterexampleInvariant == CounterexampleSpec => []CounterexampleInv
<1>1. CounterexampleInit => CounterexampleInv
  BY DEF CounterexampleInit, Called, CounterexampleInv
<1>2. CounterexampleInv /\ [TriageCounterexample]_passVars => CounterexampleInv'
  BY DEF CounterexampleInv, TriageCounterexample, Computing, Reports, passVars, TriageReportOf
<1> QED  BY <1>1, <1>2, PTL DEF CounterexampleSpec

-----------------------------------------------------------------------------
(* Values *)

\* The samples of a signal are some of its changes.
LEMMA DumpedChanges ==
    ASSUME NEW changes, changes \in Seq(Changes)
    PROVE  Dumped(changes) \in Seq(Changes)
<1> DEFINE n == Len(changes)
           E == Seq(Changes)
           Result == [k \in 1 .. n |-> [s \in E |-> DumpChange(s, changes[k])]]
           f == CHOOSE g : g = [k \in 0 .. Len(changes) |->
                                  IF k = 0 THEN <<>> ELSE DumpChange(g[k - 1], changes[k])]
<1>1. n \in Nat /\ \A k \in 1 .. n : changes[k] \in Changes
  OBVIOUS
<1>2. ASSUME NEW k \in 1 .. n, NEW s \in E PROVE DumpChange(s, changes[k]) \in E
  <2> DEFINE c == changes[k]
  <2>1. c \in Changes /\ s \in Seq(Changes)
    BY <1>1
  <2> HIDE DEF c
  <2>2. Append(s, c) \in Seq(Changes)
    BY <2>1
  <2>3. s # <<>> => Front(s) \in Seq(Changes)
    <3> SUFFICES ASSUME s # <<>> PROVE Front(s) \in Seq(Changes)
      OBVIOUS
    <3>1. Len(s) \in Nat \ {0}
      BY <2>1
    <3> QED  BY <2>1, <3>1 DEF Front
  <2>4. s # <<>> => Append(Front(s), c) \in Seq(Changes)
    BY <2>1, <2>3
  <2>5. DumpChange(s, c) \in Seq(Changes)
    BY <2>1, <2>2, <2>4 DEF DumpChange
  <2> QED  BY <2>5 DEF c
<1>3. \E g : Iterates(g, n, E, <<>>, Result)
  <2>1. <<>> \in E
    OBVIOUS
  <2>2. Result \in [1 .. n -> [E -> E]]
    <3> HIDE DEF E
    <3> QED  BY <1>2
  <2> HIDE DEF E, Result
  <2>3. StepsWithin(n, E, <<>>, Result)
    BY <1>1, <2>1, <2>2 DEF StepsWithin
  <2> QED  BY <2>3, IteratedSteps
<1>4. PICK g \in [0 .. n -> E] : g[0] = <<>> /\ \A k \in 1 .. n : g[k] = DumpChange(g[k - 1], changes[k])
  <2>1. PICK g : Iterates(g, n, E, <<>>, Result)
    BY <1>3
  <2>2. g \in [0 .. n -> E] /\ g[0] = <<>> /\ \A k \in 1 .. n : g[k] = Result[k][g[k - 1]]
    <3> HIDE DEF E, Result
    <3> QED  BY <2>1 DEF Iterates
  <2>3. ASSUME NEW k \in 1 .. n PROVE g[k] = DumpChange(g[k - 1], changes[k])
    <3>1. g[k - 1] \in E
      <4> HIDE DEF E, Result
      <4> QED  BY <1>1, <2>2
    <3>2. g[k] = Result[k][g[k - 1]]
      BY <2>2
    <3> HIDE DEF E
    <3> QED  BY <3>1, <3>2
  <2> HIDE DEF E, Result
  <2> QED  BY <2>2, <2>3
<1>5. g = [k \in 0 .. Len(changes) |-> IF k = 0 THEN <<>> ELSE DumpChange(g[k - 1], changes[k])]
  <2> DEFINE v(k) == IF k = 0 THEN <<>> ELSE DumpChange(g[k - 1], changes[k])
  <2>1. \A k \in 0 .. n : g[k] = v(k)
    <3> HIDE DEF E
    <3> QED  BY <1>1, <1>4
  <2>2. g \in [0 .. n -> E]
    OBVIOUS
  <2> HIDE DEF v, E, f
  <2>3. g = [k \in 0 .. n |-> v(k)]
    BY <2>1, <2>2
  <2> QED  BY <2>3 DEF v
<1>6. f = [k \in 0 .. Len(changes) |->
             IF k = 0 THEN <<>> ELSE DumpChange(f[k - 1], changes[k])]
  BY <1>5, Zenon
<1>7. Dumped(changes) = f[n]
  BY DEF Dumped
<1> DEFINE S == {k \in 0 .. n : f[k] \in E}
<1> HIDE DEF f
<1>8. f[0] = <<>> /\ \A k \in 1 .. n : f[k] = DumpChange(f[k - 1], changes[k])
  <2> DEFINE v(k) == IF k = 0 THEN <<>> ELSE DumpChange(f[k - 1], changes[k])
  <2>1. f = [k \in 0 .. n |-> v(k)]
    BY <1>6
  <2> HIDE DEF v
  <2>2. \A k \in 0 .. n : f[k] = v(k)
    BY <2>1
  <2> QED  BY <1>1, <2>2 DEF v
<1>9. 0 \in S
  <2>1. <<>> \in E
    OBVIOUS
  <2> HIDE DEF E
  <2> QED  BY <1>1, <1>8, <2>1
<1>10. \A k \in 1 .. n : k - 1 \in S => k \in S
  <2> HIDE DEF E
  <2> QED  BY <1>1, <1>2, <1>8
<1>11. n \in S
  <2> HIDE DEF S
  <2>1. 0 .. n \subseteq S
    <3> HIDE DEF n
    <3> QED  BY <1>1, <1>9, <1>10, StepByStep
  <2> QED  BY <1>1, <2>1
<1> QED  BY <1>7, <1>11

\* A signal has one of the values it was dumped with, or none yet.
LEMMA ValuesDumped ==
    ASSUME NEW trace, NEW s, NEW t, \A r \in DOMAIN trace : trace[r] \in Seq(Changes)
    PROVE  ValueAt(trace, s, t) \in {"0", "1", "x", "none"}
<1> DEFINE samples == Samples(trace, s)
           held == {i \in DOMAIN samples : \A j \in 1 .. i : samples[j].time <= t}
<1>1. samples \in Seq(Changes)
  BY DumpedChanges DEF Samples
<1> HIDE DEF samples
<1>2. Len(samples) \in Nat /\ DOMAIN samples = 1 .. Len(samples)
      /\ \A i \in 1 .. Len(samples) : samples[i] \in Changes
  BY <1>1
<1>3. held # {} => Max(held) \in 1 .. Len(samples)
  <2>1. held \in SUBSET (1 .. Len(samples))
    BY <1>2
  <2> HIDE DEF held
  <2> QED  BY <1>2, <2>1, LastPosition
<1>4. held # {} => samples[Max(held)].value \in {"0", "1", "x"}
  <2> HIDE DEF held
  <2> QED  BY <1>2, <1>3 DEF Changes
<1>5. ValueAt(trace, s, t) = IF held = {} THEN "none" ELSE samples[Max(held)].value
  BY DEF ValueAt, samples
<1> QED  BY <1>4, <1>5

\* There are finitely many edges of the clock.
LEMMA EdgesCounted ==
    ASSUME NEW trace, NEW edge, \A r \in DOMAIN trace : trace[r] \in Seq(Changes)
    PROVE  Len(ClockEdgeTimes(trace, edge)) \in Nat
<1> DEFINE s == Samples(trace, "clk")
           level == IF edge = "posedge" THEN "1" ELSE "0"
           at == {i \in 2 .. Len(s) : s[i - 1].value # level /\ s[i].value = level}
           time == [k \in 1 .. Cardinality(at) |-> s[SetToSortSeq(at, <)[k]].time]
<1>1. s \in Seq(Changes)
  BY DumpedChanges DEF Samples
<1>2. ClockEdgeTimes(trace, edge) = time
  BY DEF ClockEdgeTimes
<1>3. Len(s) \in Nat /\ IsFiniteSet(2 .. Len(s)) /\ at \subseteq 2 .. Len(s)
  <2> HIDE DEF s
  <2> QED  BY <1>1, FS_Interval
<1> HIDE DEF at, s
<1>4. Cardinality(at) \in Nat
  BY <1>3, FS_Subset, FS_CardinalityType
<1> DEFINE n == Cardinality(at)
           v(k) == s[SetToSortSeq(at, <)[k]].time
<1> HIDE DEF n, v
<1>5. time = [k \in 1 .. n |-> v(k)]
  BY DEF n, v
<1>6. Len([k \in 1 .. n |-> v(k)]) = n
  BY <1>4 DEF n
<1> QED  BY <1>2, <1>4, <1>5, <1>6 DEF n

-----------------------------------------------------------------------------
(* The divergence *)

\* The window of a property opens no later than it closes.
LEMMA WindowOpens ==
    ASSUME NEW x \in Counterexamples,
           NEW from, from = Max({Base(x.failure), x.failure.delay_min}),
           NEW upto, upto = Max({Base(x.failure), x.failure.delay_max})
    PROVE  from \in Nat /\ upto \in Nat /\ from <= upto
<1> DEFINE b == Base(x.failure)
           d == x.failure.delay_min
           e == x.failure.delay_max
<1>1. d \in Nat /\ e \in Nat /\ d <= e
  BY CounterexamplesAssumption DEF CounterexamplesAssumption
<1>2. b \in Nat
  BY DEF Base
<1> HIDE DEF b, d, e
<1>3. /\ {b, d} \in SUBSET Nat /\ {b, d} # {} /\ IsFiniteSet({b, d})
      /\ {b, e} \in SUBSET Nat /\ {b, e} # {} /\ IsFiniteSet({b, e})
  <2>1. \A i, j : IsFiniteSet({i, j})
    <3> SUFFICES ASSUME NEW i, NEW j PROVE IsFiniteSet({i, j})
      OBVIOUS
    <3>1. IsFiniteSet({i}) /\ IsFiniteSet({j})
      BY FS_Singleton
    <3>2. {i, j} = {i} \cup {j}
      OBVIOUS
    <3> QED  BY <3>1, <3>2, FS_Union
  <2> QED  BY <1>1, <1>2, <2>1
<1>4. /\ Max({b, d}) \in {b, d} /\ b <= Max({b, d}) /\ d <= Max({b, d})
      /\ Max({b, e}) \in {b, e} /\ b <= Max({b, e}) /\ e <= Max({b, e})
  BY <1>3, MaxOfSome
<1>5. from = Max({b, d}) /\ upto = Max({b, e})
  BY DEF b, d, e
<1> QED  BY <1>1, <1>2, <1>4, <1>5

\* An activation that is missed is an attempt that is refuted.
LEMMA MissedIsRefuted ==
    ASSUME NEW x \in Counterexamples, NEW times, Len(times) \in Nat
    PROVE  {c \in Cycles(times) : Activates(Engine(x), times, c) /\ ~Held(Engine(x), times, c)}
             = Refuted(x, times)
<1> DEFINE y == Engine(x)
           from == Max({Base(x.failure), x.failure.delay_min})
           upto == Max({Base(x.failure), x.failure.delay_max})
           val(n) == ValueAt(x.trace, "cons", times[n])
<1>1. y.trace = x.trace /\ y.failure = x.failure
  BY DEF Engine
<1>2. from \in Nat /\ upto \in Nat /\ from <= upto
  BY WindowOpens
<1>3. \A c \in Cycles(times) : Activates(y, times, c) <=> Activates(x, times, c)
  BY <1>1 DEF Activates, ResetAt
<1>4. ASSUME NEW c \in Cycles(times)
      PROVE  ~Held(y, times, c) <=>
                c + upto < Len(times) /\ \A w \in from .. upto : val(c + w + 1) # "1"
  <2> HIDE DEF from, upto, val, y
  <2>1. c \in Nat
    BY DEF Cycles
  <2>2. Held(y, times, c) <=>
          \E w \in (c + from) .. (c + upto) : w >= Len(times) \/ val(w + 1) = "1"
    BY <1>1 DEF Held, from, upto, val
  <2>3. ASSUME ~Held(y, times, c)
        PROVE  c + upto < Len(times) /\ \A w \in from .. upto : val(c + w + 1) # "1"
    <3>1. c + upto \in (c + from) .. (c + upto)
      BY <1>2, <2>1
    <3>2. c + upto < Len(times)
      BY <1>2, <2>1, <2>2, <2>3, <3>1
    <3>3. ASSUME NEW w \in from .. upto PROVE val(c + w + 1) # "1"
      <4>1. c + w \in (c + from) .. (c + upto)
        BY <1>2, <2>1
      <4> QED  BY <2>2, <2>3, <4>1
    <3> QED  BY <3>2, <3>3
  <2>4. ASSUME c + upto < Len(times), \A w \in from .. upto : val(c + w + 1) # "1"
        PROVE  ~Held(y, times, c)
    <3> SUFFICES ASSUME NEW w \in (c + from) .. (c + upto), w >= Len(times) \/ val(w + 1) = "1"
                 PROVE  FALSE
      BY <2>2
    <3>1. w - c \in from .. upto /\ c + (w - c) = w
      BY <1>2, <2>1
    <3>2. val(w + 1) # "1"
      BY <2>4, <3>1
    <3> QED  BY <1>2, <2>1, <2>4, <3>2
  <2> QED  BY <2>3, <2>4
<1>5. Refuted(x, times) =
        {c \in Cycles(times) : /\ Activates(x, times, c) /\ c + upto < Len(times)
                               /\ \A w \in from .. upto : val(c + w + 1) # "1"}
  BY DEF Refuted
<1> HIDE DEF from, upto, val, y
<1> QED  BY <1>3, <1>4, <1>5 DEF y

\* The divergence of an implication is where the window of the first refuted attempt opens.
LEMMA DivergenceOfImplication ==
    ASSUME NEW x \in Counterexamples, x.failure.antecedent,
           NEW times, Len(times) \in Nat
    PROVE  /\ x.failure.consequent /\ {"ant", "cons"} \subseteq DOMAIN x.trace =>
                FirstDivergence(Engine(x), times) =
                  IF Refuted(x, times) = {} THEN NoCycle
                  ELSE Min(Refuted(x, times)) + Max({Base(x.failure), x.failure.delay_min})
           /\ FirstDivergence(Engine(x), times) # NoCycle =>
                /\ x.failure.consequent /\ "cons" \in DOMAIN x.trace
                /\ Refuted(x, times) # {}
                /\ ValueAt(x.trace, "cons", times[FirstDivergence(Engine(x), times) + 1]) # "1"
<1> DEFINE y == Engine(x)
           from == Max({Base(x.failure), x.failure.delay_min})
           upto == Max({Base(x.failure), x.failure.delay_max})
           refuted == Refuted(x, times)
           lo == Min(refuted) + from
           given == x.failure.consequent /\ {"ant", "cons"} \subseteq DOMAIN x.trace
<1>1. y.trace = x.trace /\ y.failure = x.failure
  BY DEF Engine
<1>2. {c \in Cycles(times) : Activates(y, times, c) /\ ~Held(y, times, c)} = refuted
  BY MissedIsRefuted
<1>3. FirstDivergence(y, times) =
        IF ~given \/ refuted = {} THEN NoCycle ELSE Min({lo, Len(times) - 1})
  <2> HIDE DEF y
  <2> QED  BY <1>1, <1>2 DEF FirstDivergence
<1>4. from \in Nat /\ upto \in Nat /\ from <= upto
  BY WindowOpens
<1>5. refuted # {} =>
        /\ Min(refuted) \in refuted /\ lo \in Nat /\ lo < Len(times)
        /\ Min({lo, Len(times) - 1}) = lo
        /\ ValueAt(x.trace, "cons", times[lo + 1]) # "1"
  <2> SUFFICES ASSUME refuted # {}
               PROVE  /\ Min(refuted) \in refuted /\ lo \in Nat /\ lo < Len(times)
                      /\ Min({lo, Len(times) - 1}) = lo
                      /\ ValueAt(x.trace, "cons", times[lo + 1]) # "1"
    OBVIOUS
  <2>1. refuted \in SUBSET Nat
    BY DEF Refuted, Cycles
  <2>2. Min(refuted) \in refuted /\ Min(refuted) \in Nat
    <3> HIDE DEF refuted
    <3> QED  BY <2>1, MinOfSome
  <2>3. /\ Min(refuted) + upto < Len(times)
        /\ \A w \in from .. upto : ValueAt(x.trace, "cons", times[Min(refuted) + w + 1]) # "1"
    <3>1. ASSUME NEW c \in refuted
          PROVE  /\ c + upto < Len(times)
                 /\ \A w \in from .. upto : ValueAt(x.trace, "cons", times[c + w + 1]) # "1"
      BY DEF Refuted
    <3> HIDE DEF refuted, from, upto
    <3> QED  BY <2>2, <3>1
  <2> HIDE DEF refuted, from, upto
  <2>4. lo \in Nat /\ lo < Len(times)
    BY <1>4, <2>2, <2>3
  <2>5. Min({lo, Len(times) - 1}) = lo
    <3> DEFINE last == Len(times) - 1
    <3>1. last \in Nat /\ lo <= last
      BY <2>4
    <3> HIDE DEF last, lo
    <3>2. {lo, last} \in SUBSET Nat /\ {lo, last} # {}
      BY <2>4, <3>1
    <3>3. Min({lo, last}) \in {lo, last} /\ Min({lo, last}) <= lo
      BY <3>2, MinOfSome
    <3>4. Min({lo, last}) = lo
      BY <2>4, <3>1, <3>3
    <3> QED  BY <3>4 DEF last
  <2>6. from \in from .. upto
    BY <1>4
  <2> QED  BY <2>2, <2>3, <2>4, <2>5, <2>6
<1> HIDE DEF y, refuted, from, upto
<1>6. given =>
        FirstDivergence(y, times) = IF refuted = {} THEN NoCycle ELSE Min(refuted) + from
  BY <1>3, <1>5
<1>7. FirstDivergence(y, times) # NoCycle =>
        /\ given /\ refuted # {}
        /\ ValueAt(x.trace, "cons", times[FirstDivergence(y, times) + 1]) # "1"
  <2> SUFFICES ASSUME FirstDivergence(y, times) # NoCycle
               PROVE  /\ given /\ refuted # {}
                      /\ ValueAt(x.trace, "cons", times[FirstDivergence(y, times) + 1]) # "1"
    OBVIOUS
  <2>1. given /\ refuted # {}
    BY <1>3
  <2>2. FirstDivergence(y, times) = lo
    BY <1>3, <1>5, <2>1
  <2> QED  BY <1>5, <2>1, <2>2
<1> QED  BY <1>6, <1>7 DEF y, refuted, from

-----------------------------------------------------------------------------
(* Hypotheses *)

\* The design is accused only of a divergence after an activation, where the signal has a
\* value.
LEMMA AccusedOnEvidence ==
    ASSUME NEW y, NEW times, NEW ant, NEW div,
           NEW h \in Hypotheses(y, times, ant, div), h.category = "design_bug"
    PROVE  /\ div # NoCycle /\ ant # NoCycle
           /\ y.failure.consequent /\ "cons" \in DOMAIN y.trace =>
                ValueAt(y.trace, "cons", times[div + 1]) \notin {"x", "none"}
<1> DEFINE e == TraceEvidence(y, times, ant, div)
           design == div # NoCycle /\ ~e.reset_at_div /\ ~e.x_at_div /\ ant # NoCycle
<1>1. design
  <2> SUFFICES ASSUME ~design PROVE FALSE
    OBVIOUS
  <2> DEFINE hyp(category, confidence) == [category |-> category, confidence |-> confidence]
             property == {hyp("property_issue", 30 +
                            (IF y.failure.implication = "non_overlapping" /\ y.failure.delay_min = 0
                             THEN 10 ELSE 0)
                            + (IF div # NoCycle /\ ant = NoCycle THEN 10 ELSE 0))}
             rst == IF e.reset_at_div THEN {hyp("reset_issue", 55)}
                    ELSE IF y.failure.reset /\ ~e.reset_seen THEN {hyp("reset_issue", 40)} ELSE {}
             env == IF y.failure.antecedent /\ ~e.ant_ever THEN {hyp("environment_issue", 45)} ELSE {}
             model == IF e.x_at_div \/ Missing(y) # {} THEN {hyp("modeling_issue", 50)} ELSE {}
  <2>1. Hypotheses(y, times, ant, div) = property \cup {} \cup rst \cup env \cup model
    <3> HIDE DEF e
    <3>1. ~ design
      OBVIOUS
    <3> QED  BY <3>1 DEF Hypotheses, e
  <2>2. \A k \in property \cup rst \cup env \cup model : k.category # "design_bug"
    <3> HIDE DEF e
    <3>1. \A k \in property : k.category # "design_bug"
      OBVIOUS
    <3>2. \A k \in rst : k.category # "design_bug"
      OBVIOUS
    <3>3. \A k \in env : k.category # "design_bug"
      OBVIOUS
    <3>4. \A k \in model : k.category # "design_bug"
      OBVIOUS
    <3> HIDE DEF property, rst, env, model
    <3> QED  BY <3>1, <3>2, <3>3, <3>4
  <2> HIDE DEF property, rst, env, model, design, e
  <2> QED  BY <2>1, <2>2
<1>2. e.x_at_div <=> /\ div # NoCycle /\ y.failure.consequent /\ "cons" \in DOMAIN y.trace
                     /\ ValueAt(y.trace, "cons", times[div + 1]) \in {"x", "none"}
  BY DEF TraceEvidence
<1> HIDE DEF e
<1> QED  BY <1>1, <1>2

\* The property itself may always be wrong.
LEMMA PropertySuspected ==
    ASSUME NEW y, NEW times, NEW ant, NEW div
    PROVE  \E h \in Hypotheses(y, times, ant, div) : h.category # "design_bug"
<1> DEFINE confidence == 30 + (IF y.failure.implication = "non_overlapping" /\ y.failure.delay_min = 0
                               THEN 10 ELSE 0)
                            + (IF div # NoCycle /\ ant = NoCycle THEN 10 ELSE 0)
           h == [category |-> "property_issue", confidence |-> confidence]
<1>1. h \in Hypotheses(y, times, ant, div)
  BY DEF Hypotheses
<1>2. h.category # "design_bug"
  OBVIOUS
<1> QED  BY <1>1, <1>2

-----------------------------------------------------------------------------
(* The cone *)

\* What is driven by something in the set, in one step more.
Reached(x, S) == S \cup {e[2] : e \in {e \in SymbolDrivers(x.design) : e[1] \in S}}
ConeSeeds(x) == (IF x.failure.consequent THEN {"cons"} ELSE {})
                \cup IF x.failure.antecedent THEN {"ant"} ELSE {}

\* A signal is driven by declared ones.
LEMMA DriversDeclared ==
    ASSUME NEW d, NEW e \in SymbolDrivers(d)
    PROVE  e[2] \in d.declared
<1> DEFINE edges == {<<a.lhs, r>> : a \in d.assigns, r \in d.declared}
           reads == {k \in edges : \E a \in d.assigns : a.lhs = k[1] /\ k[2] \in a.reads}
           parsed(p) == {k \in {<<a.lhs, r>> : a \in p.assigns, r \in d.declared} :
                           \/ k[2] \in p.conditions
                           \/ \E a \in p.assigns : a.lhs = k[1] /\ k[2] \in a.reads}
           coarse(p) == p.targets \X (p.conditions \cap d.declared)
           of(p) == IF p.assigns # {} THEN parsed(p) ELSE coarse(p)
<1>1. e \in reads \/ \E p \in d.procedures : e \in of(p)
  BY DEF SymbolDrivers
<1>2. \A k \in reads : k[2] \in d.declared
  OBVIOUS
<1>3. \A p : \A k \in parsed(p) : k[2] \in d.declared
  OBVIOUS
<1>4. \A p : \A k \in coarse(p) : k[2] \in d.declared
  OBVIOUS
<1> HIDE DEF reads, parsed, coarse
<1> QED  BY <1>1, <1>2, <1>3, <1>4

\* The cone is the last of as many steps from the seeds as there are declared signals.
LEMMA ConeSteps ==
    ASSUME NEW x, IsFiniteSet(x.design.declared)
    PROVE  \E g : /\ g[0] = ConeSeeds(x)
                  /\ \A k \in 1 .. Cardinality(x.design.declared) : g[k] = Reached(x, g[k - 1])
                  /\ Cone(x) = g[Cardinality(x.design.declared)]
<1> DEFINE n == Cardinality(x.design.declared)
           drivers == SymbolDrivers(x.design)
           E == SUBSET (ConeSeeds(x) \cup x.design.declared)
           Result == [k \in 1 .. n |-> [S \in E |-> Reached(x, S)]]
           first == ConeSeeds(x)
           f == CHOOSE g : g = [k \in 0 .. Cardinality(x.design.declared) |->
                   IF k = 0 THEN (IF x.failure.consequent THEN {"cons"} ELSE {})
                                 \cup IF x.failure.antecedent THEN {"ant"} ELSE {}
                   ELSE g[k - 1] \cup {e[2] : e \in {e \in SymbolDrivers(x.design) : e[1] \in g[k - 1]}}]
<1>1. n \in Nat
  BY FS_CardinalityType
<1>2. ASSUME NEW S \in E PROVE Reached(x, S) \in E
  BY DriversDeclared DEF Reached
<1>3. \E g : Iterates(g, n, E, first, Result)
  <2>1. first \in E
    OBVIOUS
  <2>2. Result \in [1 .. n -> [E -> E]]
    <3> HIDE DEF E, n
    <3> QED  BY <1>2
  <2> HIDE DEF E, Result, n, first
  <2>3. StepsWithin(n, E, first, Result)
    BY <1>1, <2>1, <2>2 DEF StepsWithin
  <2> QED  BY <2>3, IteratedSteps
<1>4. PICK g \in [0 .. n -> E] : g[0] = first /\ \A k \in 1 .. n : g[k] = Reached(x, g[k - 1])
  <2>1. PICK g : Iterates(g, n, E, first, Result)
    BY <1>3
  <2>2. g \in [0 .. n -> E] /\ g[0] = first /\ \A k \in 1 .. n : g[k] = Result[k][g[k - 1]]
    <3> HIDE DEF E, Result, n, first
    <3> QED  BY <2>1 DEF Iterates
  <2>3. ASSUME NEW k \in 1 .. n PROVE g[k] = Reached(x, g[k - 1])
    <3>1. g[k - 1] \in E
      <4> HIDE DEF E, Result, n, first
      <4> QED  BY <1>1, <2>2
    <3>2. g[k] = Result[k][g[k - 1]]
      BY <2>2
    <3> HIDE DEF E, n, first
    <3> QED  BY <3>1, <3>2
  <2> HIDE DEF E, Result, n, first
  <2> QED  BY <2>2, <2>3
<1> DEFINE w(S) == S \cup {e[2] : e \in {e \in SymbolDrivers(x.design) : e[1] \in S}}
           z == (IF x.failure.consequent THEN {"cons"} ELSE {})
                \cup IF x.failure.antecedent THEN {"ant"} ELSE {}
<1>5. (\A S : Reached(x, S) = w(S)) /\ first = z
  BY DEF Reached, ConeSeeds
<1> HIDE DEF n, E, first, w, z
<1>6. g = [k \in 0 .. n |-> IF k = 0 THEN z ELSE w(g[k - 1])]
  <2> DEFINE v(k) == IF k = 0 THEN z ELSE w(g[k - 1])
  <2>1. \A k \in 0 .. n : g[k] = v(k)
    BY <1>1, <1>4, <1>5
  <2>2. g \in [0 .. n -> E]
    OBVIOUS
  <2> HIDE DEF v, f
  <2>3. g = [k \in 0 .. n |-> v(k)]
    BY <2>1, <2>2
  <2> QED  BY <2>3 DEF v
<1>7. f = CHOOSE h : h = [k \in 0 .. n |-> IF k = 0 THEN z ELSE w(h[k - 1])]
  BY DEF n, z, w
<1>8. Cone(x) = f[n]
  BY DEF Cone, n
<1> HIDE DEF f
<1>9. f = [k \in 0 .. n |-> IF k = 0 THEN z ELSE w(f[k - 1])]
  BY <1>6, <1>7, Zenon
<1>10. f[0] = z /\ \A k \in 1 .. n : f[k] = w(f[k - 1])
  <2> DEFINE v(k) == IF k = 0 THEN z ELSE w(f[k - 1])
  <2>1. f = [k \in 0 .. n |-> v(k)]
    BY <1>9
  <2> HIDE DEF v
  <2>2. \A k \in 0 .. n : f[k] = v(k)
    BY <2>1
  <2> QED  BY <1>1, <2>2 DEF v
<1>11. f[0] = ConeSeeds(x) /\ \A k \in 1 .. n : f[k] = Reached(x, f[k - 1])
  BY <1>5, <1>10 DEF first
<1> QED  BY <1>8, <1>11 DEF n

FanInClosed(x, S) == \A e \in SymbolDrivers(x.design) : e[1] \in S => e[2] \in S

\* Each step that is not the last reaches a declared signal that was not reached before.
LEMMA ConeClosed ==
    ASSUME NEW x, IsFiniteSet(x.design.declared)
    PROVE  FanInClosed(x, Cone(x)) /\ ConeSeeds(x) \subseteq Cone(x)
<1> DEFINE D == x.design.declared
           n == Cardinality(D)
<1>1. n \in Nat
  BY FS_CardinalityType
<1>2. PICK g : /\ g[0] = ConeSeeds(x)
               /\ \A k \in 1 .. n : g[k] = Reached(x, g[k - 1])
               /\ Cone(x) = g[n]
  BY ConeSteps
<1> DEFINE S == {k \in 0 .. n : /\ ConeSeeds(x) \subseteq g[k]
                                /\ \/ FanInClosed(x, g[k])
                                   \/ k <= Cardinality(g[k] \cap D)}
<1>3. \A T : IsFiniteSet(T \cap D) /\ Cardinality(T \cap D) \in Nat /\ Cardinality(T \cap D) <= n
  <2> SUFFICES ASSUME NEW T
               PROVE  IsFiniteSet(T \cap D) /\ Cardinality(T \cap D) \in Nat /\ Cardinality(T \cap D) <= n
    OBVIOUS
  <2>1. T \cap D \in SUBSET D
    OBVIOUS
  <2> QED  BY <2>1, FS_Subset, FS_CardinalityType
<1>4. 0 \in S
  BY <1>1, <1>2, <1>3
<1>5. ASSUME NEW k \in 1 .. n, k - 1 \in S PROVE k \in S
  <2> DEFINE T == g[k - 1]
  <2>1. g[k] = T \cup {e[2] : e \in {e \in SymbolDrivers(x.design) : e[1] \in T}}
    BY <1>2 DEF Reached
  <2>2. ConeSeeds(x) \subseteq g[k] /\ T \subseteq g[k]
    BY <1>5, <2>1
  <2>3. CASE FanInClosed(x, T)
    <3>1. g[k] = T
      BY <2>1, <2>3 DEF FanInClosed
    <3> QED  BY <2>2, <2>3, <3>1
  <2>4. CASE ~ FanInClosed(x, T)
    <3>1. PICK e \in SymbolDrivers(x.design) : e[1] \in T /\ e[2] \notin T
      BY <2>4 DEF FanInClosed
    <3>2. e[2] \in D /\ e[2] \in g[k]
      BY <2>1, <3>1, DriversDeclared
    <3>3. k - 1 <= Cardinality(T \cap D)
      BY <1>5, <2>4
    <3> DEFINE A == T \cap D
               B == g[k] \cap D
    <3>4. A \in SUBSET B /\ A # B
      BY <2>2, <3>1, <3>2
    <3>5. IsFiniteSet(B) /\ Cardinality(A) \in Nat /\ Cardinality(B) \in Nat
      BY <1>3
    <3>6. Cardinality(A) < Cardinality(B)
      <4> HIDE DEF A, B
      <4>1. Cardinality(A) <= Cardinality(B) /\ Cardinality(A) # Cardinality(B)
        BY <3>4, <3>5, FS_Subset
      <4> QED  BY <3>5, <4>1
    <3>7. k <= Cardinality(B)
      <4> HIDE DEF B
      <4>1. k - 1 <= Cardinality(A)
        BY <3>3
      <4> HIDE DEF A
      <4> QED  BY <1>1, <3>5, <3>6, <4>1
    <3> QED  BY <2>2, <3>7
  <2> QED  BY <2>3, <2>4
<1>6. n \in S
  <2> HIDE DEF S
  <2>1. \A k \in 1 .. n : k - 1 \in S => k \in S
    BY <1>5
  <2>2. 0 .. n \subseteq S
    <3> HIDE DEF n
    <3> QED  BY <1>1, <1>4, <2>1, StepByStep
  <2> QED  BY <1>1, <2>2
<1>7. CASE FanInClosed(x, g[n])
  BY <1>2, <1>6, <1>7
<1>8. CASE n <= Cardinality(g[n] \cap D)
  <2> DEFINE B == g[n] \cap D
  <2>1. B \in SUBSET D /\ Cardinality(B) = n
    BY <1>1, <1>3, <1>8
  <2>2. B = D
    <3> HIDE DEF B
    <3> QED  BY <2>1, FS_Subset
  <2>3. D \subseteq g[n]
    BY <2>2
  <2>4. FanInClosed(x, g[n])
    BY <2>3, DriversDeclared DEF FanInClosed
  <2> QED  BY <1>2, <1>6, <2>4
<1> QED  BY <1>6, <1>7, <1>8

\* Nothing is in the cone that is not in every closed set with the seeds.
LEMMA ConeSmallest ==
    ASSUME NEW x, IsFiniteSet(x.design.declared),
           NEW T, ConeSeeds(x) \subseteq T, FanInClosed(x, T)
    PROVE  Cone(x) \subseteq T
<1> DEFINE n == Cardinality(x.design.declared)
<1>1. n \in Nat
  BY FS_CardinalityType
<1>2. PICK g : /\ g[0] = ConeSeeds(x)
               /\ \A k \in 1 .. n : g[k] = Reached(x, g[k - 1])
               /\ Cone(x) = g[n]
  BY ConeSteps
<1> DEFINE S == {k \in 0 .. n : g[k] \subseteq T}
<1>3. 0 \in S
  BY <1>1, <1>2
<1>4. ASSUME NEW k \in 1 .. n, k - 1 \in S PROVE k \in S
  <2>1. g[k] = g[k - 1] \cup {e[2] : e \in {e \in SymbolDrivers(x.design) : e[1] \in g[k - 1]}}
    BY <1>2 DEF Reached
  <2>2. g[k - 1] \subseteq T
    BY <1>4
  <2>3. g[k] \subseteq T
    BY <2>1, <2>2 DEF FanInClosed
  <2> QED  BY <2>3
<1>5. n \in S
  <2> HIDE DEF S
  <2>1. \A k \in 1 .. n : k - 1 \in S => k \in S
    BY <1>4
  <2>2. 0 .. n \subseteq S
    <3> HIDE DEF n
    <3> QED  BY <1>1, <1>3, <2>1, StepByStep
  <2> QED  BY <1>1, <2>2
<1> QED  BY <1>2, <1>5

\* The divergence is where a refuted attempt should have been met, the design is accused of
\* nothing else, the cone is exactly the fan-in of the property, and a rerun leaves the ranking
\* as it was: for every trace, failure and design.
THEOREM CounterexampleSoundAlways == CounterexampleSpec => []CounterexampleSound
<1>1. ASSUME CounterexampleInv, Reported("cx-triage")
      PROVE  /\ DivergenceRefutes /\ ConeIsFanIn
             /\ Report.hypotheses = TriageReportOf([input EXCEPT !.reproduce = FALSE]).hypotheses
  <2> DEFINE x == input
             engine == Engine(x)
             times == ClockEdgeTimes(x.trace, x.failure.edge)
             ant == AntecedentCycle(engine, times)
             div == FirstDivergence(engine, times)
             quiet == [input EXCEPT !.reproduce = FALSE]
  <2>1. x \in Counterexamples /\ Report = TriageReportOf(x)
    BY <1>1 DEF CounterexampleInv, Reported, Report
  <2>2. /\ {"trace", "failure", "design"} \subseteq DOMAIN x
        /\ \A s \in DOMAIN x.trace : x.trace[s] \in Seq(Changes)
        /\ IsFiniteSet(x.design.declared)
    BY <2>1, CounterexamplesAssumption DEF CounterexamplesAssumption
  <2>3. engine.trace = x.trace /\ engine.failure = x.failure /\ engine.design = x.design
    BY DEF Engine
  <2>4. Len(times) \in Nat
    BY <2>2, EdgesCounted
  <2> HIDE DEF engine, ant, div, times
  <2>5. /\ Report.divergence = div /\ Report.cone = Cone(engine)
        /\ Report.hypotheses = Hypotheses(engine, times, ant, div)
    BY <2>1 DEF TriageReportOf, ComposeReport, engine, times, ant, div
  <2>6. Report.hypotheses = TriageReportOf(quiet).hypotheses
    <3>1. quiet.trace = x.trace /\ quiet.failure = x.failure /\ quiet.design = x.design
      BY <2>2
    <3>2. Engine(quiet) = engine
      BY <3>1 DEF Engine, engine
    <3>3. ClockEdgeTimes(quiet.trace, quiet.failure.edge) = times
      BY <3>1 DEF times
    <3> HIDE DEF quiet
    <3>4. TriageReportOf(quiet).hypotheses = Hypotheses(engine, times, ant, div)
      BY <3>2, <3>3 DEF TriageReportOf, ComposeReport, ant, div
    <3> QED  BY <2>5, <3>4
  <2>7. DivergenceRefutes
    <3> DEFINE refuted == Refuted(x, times)
               from == Max({Base(x.failure), x.failure.delay_min})
               accused == {h \in Report.hypotheses : h.category = "design_bug"}
    <3> HIDE DEF refuted, from
    <3>1. x.failure.antecedent =>
            /\ x.failure.consequent /\ {"ant", "cons"} \subseteq DOMAIN x.trace =>
                 div = IF refuted = {} THEN NoCycle ELSE Min(refuted) + from
            /\ div # NoCycle =>
                 /\ x.failure.consequent /\ "cons" \in DOMAIN x.trace /\ refuted # {}
                 /\ ValueAt(x.trace, "cons", times[div + 1]) # "1"
      BY <2>1, <2>4, DivergenceOfImplication DEF refuted, from, div, engine
    <3>2. ASSUME NEW h \in accused
          PROVE  /\ refuted # {}
                 /\ ValueAt(x.trace, "cons", times[div + 1]) = "0"
                 /\ Report.hypotheses # accused
      <4>1. /\ div # NoCycle /\ ant # NoCycle
            /\ x.failure.consequent /\ "cons" \in DOMAIN x.trace =>
                 ValueAt(x.trace, "cons", times[div + 1]) \notin {"x", "none"}
        BY <2>3, <2>5, AccusedOnEvidence
      <4>2. x.failure.antecedent
        BY <2>3, <4>1 DEF ant, AntecedentCycle
      <4>3. ValueAt(x.trace, "cons", times[div + 1]) \in {"0", "1", "x", "none"}
        BY <2>2, ValuesDumped
      <4>4. Report.hypotheses # accused
        BY <2>5, PropertySuspected
      <4> HIDE DEF accused
      <4> QED  BY <3>1, <4>1, <4>2, <4>3, <4>4
    <3>3. x.failure.antecedent /\ x.failure.consequent /\ {"ant", "cons"} \subseteq DOMAIN x.trace =>
            Report.divergence = IF refuted = {} THEN NoCycle ELSE Min(refuted) + from
      BY <2>5, <3>1
    <3>4. accused # {} =>
            /\ refuted # {}
            /\ ValueAt(x.trace, "cons", times[Report.divergence + 1]) = "0"
            /\ Report.hypotheses # accused
      <4> HIDE DEF accused
      <4> QED  BY <2>5, <3>2
    <3> HIDE DEF accused
    <3> QED  BY <3>3, <3>4 DEF DivergenceRefutes, accused, refuted, from, times
  <2>8. ConeIsFanIn
    <3>1. SymbolDrivers(engine.design) = SymbolDrivers(x.design) /\ IsFiniteSet(engine.design.declared)
      BY <2>2, <2>3
    <3>2. FanInClosed(engine, Cone(engine)) /\ ConeSeeds(engine) \subseteq Cone(engine)
      BY <3>1, ConeClosed
    <3>3. ASSUME NEW S \in SUBSET Report.cone, {"ant", "cons"} \cap Report.cone \subseteq S,
                 \A e \in SymbolDrivers(x.design) : e[1] \in S => e[2] \in S
          PROVE  S = Report.cone
      <4>1. ConeSeeds(engine) \subseteq S
        BY <2>5, <3>2, <3>3 DEF ConeSeeds
      <4>2. FanInClosed(engine, S)
        BY <3>1, <3>3 DEF FanInClosed
      <4>3. Cone(engine) \subseteq S
        BY <3>1, <4>1, <4>2, ConeSmallest
      <4> QED  BY <2>5, <4>3
    <3>4. \A e \in SymbolDrivers(x.design) : e[1] \in Report.cone => e[2] \in Report.cone
      BY <2>5, <3>1, <3>2 DEF FanInClosed
    <3> QED  BY <3>3, <3>4 DEF ConeIsFanIn
  <2> QED  BY <2>6, <2>7, <2>8
<1>2. CounterexampleInv => CounterexampleSound
  BY <1>1 DEF CounterexampleSound
<1> QED  BY CounterexampleInvariant, <1>2, PTL

-----------------------------------------------------------------------------
(***************************************************************************)
(* The judgement of one run                                                *)
(***************************************************************************)

USE JudgementAssumption

\* classify answers with a status of the enumeration.
LEMMA ClassifyType ==
    ASSUME NEW signals \in RawResult
    PROVE  Classify(signals) \in RunStatus
BY DEF Classify, RunStatus, RawResult

\* classify says PASS only of a clean exit with a conclusion that holds.
LEMMA ClassifyPass ==
    ASSUME NEW signals \in RawResult, Classify(signals) = "PASS"
    PROVE  /\ signals.return_code = 0
           /\ signals.reached_conclusion
           /\ signals.conclusion_holds = "holds"
           /\ ~signals.tool_reported_error
BY DEF Classify, RawResult

\* Hence the validator accepts what the classifier decided.
LEMMA ClassifyAccepted ==
    ASSUME NEW signals \in RawResult
    PROVE  RecordAccepted(Classify(signals), signals.return_code)
BY ClassifyPass DEF RecordAccepted

\* The mock's raw result is well formed: its time is the cost or less.
LEMMA SimulateType ==
    ASSUME NEW cost \in Nat, NEW budget \in Nat, NEW deep \in BOOLEAN,
           NEW failing \in BOOLEAN, NEW holds \in Verdicts
    PROVE  Simulate(cost, budget, deep, failing, holds) \in RawResult
<1>1. (3 * cost) \div 10 \in Nat
  OBVIOUS
<1>2. AtMost((3 * cost) \div 10, budget) \in Nat
  BY <1>1 DEF AtMost
<1> QED  BY <1>2 DEF Simulate, Raw, RawResult, Verdicts

\* A reward is an integer.
LEMMA RewardType ==
    ASSUME NEW r \in RunFields, NEW valid \in BOOLEAN
    PROVE  Reward(r, valid) \in Int
<1>1. \A used, limit \in Nat : Percent(used, limit) \in Int
  <2> SUFFICES ASSUME NEW used \in Nat, NEW limit \in Nat
               PROVE  Percent(used, limit) \in Int
    OBVIOUS
  <2>1. AtLeastOne(limit) \in Nat \ {0}
    BY DEF AtLeastOne
  <2> QED  BY <2>1 DEF Percent
<1>2. /\ r.wall \in Nat /\ r.timeout \in Nat
      /\ r.mem \in Nat /\ r.cap \in Nat
  BY DEF RunFields
<1>3. AtMost(Percent(r.wall, r.timeout), 100) \in Int
  BY <1>1, <1>2 DEF AtMost
<1>4. Excess(Percent(r.mem, r.cap), 80) \in Int
  BY <1>1, <1>2 DEF Excess
<1> QED
  BY <1>3, <1>4 DEF Reward, R_SOLVED, P_TIMEOUT, P_ERROR, P_INCONCLUSIVE,
                    P_INVALID_CONFIG

-----------------------------------------------------------------------------
(* The inductive invariant. *)

\* A record that is judged was classified from the raw signals it stands
\* beside, or it is the ERROR record of an unknown config.
StatusIsClassified ==
    stage \in {"judged", "scored"} =>
        run.status = Classify(raw) \/ run.status = "ERROR"

JudgementInv == JudgementTypeOK /\ StatusIsClassified /\ NeverRefused

LEMMA JudgementInitInv == JudgementInit => JudgementInv
BY DEF JudgementInit, JudgementInv, JudgementTypeOK, StatusIsClassified,
       NeverRefused, NoRaw, RawResult, Verdicts, NoFields, RunFields,
       RunStatus, ValidationStatus

LEMMA JudgementStep ==
    JudgementInv /\ [JudgementNext]_judgementVars => JudgementInv'
<1> SUFFICES ASSUME JudgementInv, [JudgementNext]_judgementVars
             PROVE  JudgementInv'
  OBVIOUS
<1>1. ASSUME NEW cost \in Times, NEW budget \in Times, NEW mem \in Sizes,
             NEW cap \in Sizes, NEW deep \in BOOLEAN, NEW roll \in BOOLEAN,
             NEW holds \in Truth,
             ExecuteMock(cost, budget, mem, cap, deep, roll, holds)
      PROVE  JudgementInv'
  <2>1. raw' \in RawResult
    <3>1. (mem > cap \/ roll) \in BOOLEAN
      OBVIOUS
    <3>2. holds \in Verdicts /\ cost \in Nat /\ budget \in Nat
      BY DEF Truth
    <3> QED  BY <1>1, <3>1, <3>2, SimulateType DEF ExecuteMock
  <2>2. raw'.wall_time_s \in Nat /\ raw'.return_code \in Int
    BY <2>1 DEF RawResult
  <2>3. run' \in RunFields
    BY <1>1, <2>2 DEF ExecuteMock, NoFields, RunFields, RunStatus,
                      ValidationStatus
  <2> QED
    BY <1>1, <2>1, <2>3 DEF ExecuteMock, JudgementInv, JudgementTypeOK,
                            StatusIsClassified, NeverRefused
<1>2. CASE ExecuteUnknown
  <2>1. run' \in RunFields
    <3>1. 2 \in Int /\ 0 \in Nat
      OBVIOUS
    <3>2. NoFields \in RunFields
      BY <3>1 DEF NoFields, RunFields, RunStatus, ValidationStatus
    <3> QED  BY <1>2, <3>1, <3>2 DEF ExecuteUnknown, RunFields, RunStatus, ValidationStatus
  <2> QED
    BY <1>2, <2>1 DEF ExecuteUnknown, NoFields, JudgementInv, JudgementTypeOK,
                      StatusIsClassified, NeverRefused
<1>3. ASSUME NEW mem \in Sizes, NEW cap \in Sizes,
             NEW signals \in [return_code : Codes, wall_time_s : Times,
                       timeout_s : Times, reached_conclusion : BOOLEAN,
                       conclusion_holds : Verdicts,
                       tool_reported_error : BOOLEAN],
             AdapterResult(signals, mem, cap)
      PROVE  JudgementInv'
  <2>1. signals \in RawResult
    BY DEF RawResult
  <2>2. run' \in RunFields
    BY <1>3, <2>1 DEF AdapterResult, NoFields, RunFields, RunStatus,
                      ValidationStatus, RawResult
  <2> QED
    BY <1>3, <2>1, <2>2 DEF AdapterResult, JudgementInv, JudgementTypeOK,
                            StatusIsClassified, NeverRefused
<1>4. CASE Judge
  <2>1. raw \in RawResult /\ run \in RunFields
    BY DEF JudgementInv, JudgementTypeOK
  <2>2. Classify(raw) \in RunStatus
    BY <2>1, ClassifyType
  <2>3. stage' = "judged"
    BY <1>4, <2>1, ClassifyAccepted DEF Judge
  <2>4. run' \in RunFields /\ run'.status = Classify(raw)
    BY <1>4, <2>1, <2>2 DEF Judge, RunFields
  <2> QED
    BY <1>4, <2>1, <2>3, <2>4 DEF Judge, JudgementInv, JudgementTypeOK,
                                  StatusIsClassified, NeverRefused
<1>5. CASE Score
  <2>1. score' \in Int
    BY <1>5, RewardType DEF Score, JudgementInv, JudgementTypeOK
  <2> QED
    BY <1>5, <2>1 DEF Score, JudgementInv, JudgementTypeOK,
                      StatusIsClassified, NeverRefused
<1>6. CASE UNCHANGED judgementVars
  BY <1>6 DEF judgementVars, JudgementInv, JudgementTypeOK,
              StatusIsClassified, NeverRefused
<1> QED  BY <1>1, <1>2, <1>3, <1>4, <1>5, <1>6 DEF JudgementNext

\* The status of a judged run is the one its signals are classified as, and the validator
\* of the record did not refuse it, at every moment of a judgement.
THEOREM JudgementInvariant == JudgementSpec => []JudgementInv
BY JudgementInitInv, JudgementStep, PTL DEF JudgementSpec

-----------------------------------------------------------------------------
(* The theorems. *)

\* The variables of a run's judgement keep the types of the code.
THEOREM JudgementTypeCorrect == JudgementSpec => []JudgementTypeOK
<1>1. JudgementInv => JudgementTypeOK
  BY DEF JudgementInv
<1> QED  BY <1>1, JudgementInvariant, PTL

\* "Never classifies a timeout, error or inconclusive run as PASS"
\* (classifier.py), whatever an adapter hands over.
THEOREM NeverFalsePassAlways == JudgementSpec => []NeverFalsePass
<1>1. JudgementInv => NeverFalsePass
  <2> SUFFICES ASSUME JudgementInv, Judged, run.status = "PASS"
               PROVE  /\ raw.return_code = 0
                      /\ raw.reached_conclusion
                      /\ raw.conclusion_holds = "holds"
                      /\ ~raw.tool_reported_error
    BY DEF NeverFalsePass
  <2>1. raw \in RawResult /\ Classify(raw) = "PASS"
    BY DEF JudgementInv, JudgementTypeOK, StatusIsClassified, Judged
  <2> QED  BY <2>1, ClassifyPass
<1> QED  BY <1>1, JudgementInvariant, PTL

\* The validator of RunRecord never raises on a classified run.
THEOREM NeverRefusedAlways == JudgementSpec => []NeverRefused
<1>1. JudgementInv => NeverRefused
  BY DEF JudgementInv
<1> QED  BY <1>1, JudgementInvariant, PTL
-----------------------------------------------------------------------------
(* The runs of the mock, and their scores. *)

\* A fraction is at most 100 percent of its limit.
LEMMA PercentBound ==
    ASSUME NEW used \in Nat, NEW limit \in Nat, used <= limit
    PROVE  Percent(used, limit) \in 0 .. 100
<1> DEFINE n == AtLeastOne(limit)
           q == (100 * used) \div n
<1>1. n \in Nat /\ n > 0 /\ used <= n
  BY DEF AtLeastOne
<1> HIDE DEF n
<1>2. 100 * used \in Nat /\ 100 * used <= 100 * n
  BY <1>1
<1>3. q \in Int /\ n * q <= 100 * used /\ 100 * used < n * q + n
  BY <1>1, <1>2
<1> HIDE DEF q
<1>4. q >= 0
  BY <1>1, <1>2, <1>3
<1>5. q <= 100
  BY <1>1, <1>2, <1>3
<1> QED  BY <1>3, <1>4, <1>5 DEF Percent, q, n

\* What reward gives a conclusive run that kept its limits is at least 6000.
LEMMA SolvedReward ==
    ASSUME NEW r \in RunFields, r.wall <= r.timeout, r.mem <= r.cap
    PROVE  R_SOLVED - 30 * AtMost(Percent(r.wall, r.timeout), 100)
                    - 50 * Excess(Percent(r.mem, r.cap), 80) >= 6000
<1>1. /\ r.wall \in Nat /\ r.timeout \in Nat
      /\ r.mem \in Nat /\ r.cap \in Nat
  BY DEF RunFields
<1> DEFINE time == Percent(r.wall, r.timeout)
           room == Percent(r.mem, r.cap)
<1>2. time \in 0 .. 100 /\ room \in 0 .. 100
  BY <1>1, PercentBound
<1> HIDE DEF time, room
<1> DEFINE a == AtMost(time, 100)
           e == Excess(room, 80)
<1>3. a \in 0 .. 100 /\ e \in 0 .. 20
  BY <1>2 DEF AtMost, Excess
<1> HIDE DEF a, e
<1>4. 10000 - 30 * a - 50 * e >= 6000
  BY <1>3
<1> QED  BY <1>4 DEF R_SOLVED, a, e, time, room

\* A conclusive status is that of signals that reached a conclusion.
LEMMA ClassifyConclusive ==
    ASSUME NEW signals \in RawResult, Conclusive(Classify(signals))
    PROVE  signals.reached_conclusion
BY DEF Classify, Conclusive, RawResult

\* What simulate's four ways out say of time, return code and conclusion.
LEMMA SimulateWithin ==
    ASSUME NEW cost \in Nat, NEW budget \in Nat, NEW deep \in BOOLEAN,
           NEW failing \in BOOLEAN, NEW holds \in Verdicts,
           NEW signals, signals = Simulate(cost, budget, deep, failing, holds)
    PROVE  /\ signals.wall_time_s <= budget
           /\ signals.reached_conclusion =>
                ~failing /\ signals.return_code = 0
<1>1. (3 * cost) \div 10 \in Nat
  OBVIOUS
<1>2. AtMost((3 * cost) \div 10, budget) <= budget
  BY <1>1 DEF AtMost
<1> HIDE DEF AtMost
<1>3. CASE failing
  BY <1>2, <1>3 DEF Simulate, Raw
<1>4. CASE ~failing
  BY <1>4 DEF Simulate, Raw
<1> QED  BY <1>3, <1>4

\* A run of the mock keeps its time, concludes only under its memory cap and
\* with return code 0, has the status of its signals, and is an invalid_config
\* ERROR when its config is not in the catalog.
MockRun ==
    source = "mock" /\ stage # "start" =>
        IF inCatalog
        THEN /\ run.validation = "valid" /\ run.wall <= run.timeout
             /\ raw.reached_conclusion =>
                  run.mem <= run.cap /\ run.return_code = 0
             /\ stage # "raw" => run.status = Classify(raw)
        ELSE /\ run.validation = "invalid_config" /\ run.status = "ERROR"
             /\ stage # "raw"

\* A score is reward's answer for the record it stands beside.
ScoreIsReward == stage = "scored" => score = Reward(run, inCatalog)

MockInv == MockRun /\ ScoreIsReward

LEMMA MockInitInv == JudgementInit => MockInv
BY DEF JudgementInit, MockInv, MockRun, ScoreIsReward

LEMMA MockStep ==
    JudgementInv /\ MockInv /\ [JudgementNext]_judgementVars => MockInv'
<1> SUFFICES ASSUME JudgementInv, MockInv, [JudgementNext]_judgementVars
             PROVE  MockInv'
  OBVIOUS
<1>1. ASSUME NEW cost \in Times, NEW budget \in Times, NEW mem \in Sizes,
             NEW cap \in Sizes, NEW deep \in BOOLEAN, NEW roll \in BOOLEAN,
             NEW holds \in Truth,
             ExecuteMock(cost, budget, mem, cap, deep, roll, holds)
      PROVE  MockInv'
  <2> DEFINE failing == mem > cap \/ roll
  <2>1. /\ cost \in Nat /\ budget \in Nat /\ mem \in Nat /\ cap \in Nat
        /\ failing \in BOOLEAN /\ holds \in Verdicts
    BY DEF Truth
  <2>2. /\ raw'.wall_time_s <= budget
        /\ raw'.reached_conclusion => ~failing /\ raw'.return_code = 0
    BY <1>1, <2>1, SimulateWithin DEF ExecuteMock
  <2>3. /\ stage' = "raw" /\ inCatalog' = TRUE
        /\ run'.validation = "valid" /\ run'.wall = raw'.wall_time_s
        /\ run'.timeout = budget /\ run'.mem = mem /\ run'.cap = cap
        /\ run'.return_code = raw'.return_code
    BY <1>1 DEF ExecuteMock, NoFields, JudgementInv, JudgementTypeOK
  <2> QED  BY <2>1, <2>2, <2>3 DEF MockInv, MockRun, ScoreIsReward
<1>2. CASE ExecuteUnknown
  BY <1>2 DEF ExecuteUnknown, NoFields, MockInv, MockRun, ScoreIsReward
<1>3. ASSUME NEW mem \in Sizes, NEW cap \in Sizes, NEW signals,
             AdapterResult(signals, mem, cap)
      PROVE  MockInv'
  BY <1>3 DEF AdapterResult, MockInv, MockRun, ScoreIsReward
<1>4. CASE Judge
  <2>1. /\ run'.status = Classify(raw) /\ run'.validation = run.validation
        /\ run'.wall = run.wall /\ run'.timeout = run.timeout
        /\ run'.mem = run.mem /\ run'.cap = run.cap
        /\ run'.return_code = run.return_code
    BY <1>4 DEF Judge, JudgementInv, JudgementTypeOK, RunFields
  <2>2. source = "mock" => inCatalog
    BY <1>4 DEF Judge, MockInv, MockRun
  <2> QED
    BY <1>4, <2>1, <2>2 DEF Judge, MockInv, MockRun, ScoreIsReward
<1>5. CASE Score
  BY <1>5 DEF Score, MockInv, MockRun, ScoreIsReward
<1>6. CASE UNCHANGED judgementVars
  BY <1>6 DEF judgementVars, MockInv, MockRun, ScoreIsReward
<1> QED  BY <1>1, <1>2, <1>3, <1>4, <1>5, <1>6 DEF JudgementNext

\* The reward ranks as reward.py's documentation says: for any costs, limits
\* and ground truths of the mock, every solved run scores at least 6000, every
\* unsolved one between -9000 and -8000, and every config from outside the
\* catalog -20000.
THEOREM RewardRanksAlways == JudgementSpec => []RewardRanks
<1>1. ASSUME JudgementInv, MockInv PROVE RewardRanks
  <2> SUFFICES ASSUME stage = "scored", source = "mock"
               PROVE  /\ Conclusive(run.status) /\ inCatalog => score >= 6000
                      /\ ~Conclusive(run.status) /\ inCatalog =>
                           score \in -9000 .. -8000
                      /\ ~inCatalog => score = -20000
    BY DEF RewardRanks
  <2>1. /\ run \in RunFields /\ raw \in RawResult /\ inCatalog \in BOOLEAN
        /\ score = Reward(run, inCatalog)
    BY <1>1 DEF JudgementInv, JudgementTypeOK, MockInv, ScoreIsReward
  <2>2. CASE inCatalog /\ Conclusive(run.status)
    <3>1. /\ run.validation = "valid" /\ run.wall <= run.timeout
          /\ run.status = Classify(raw)
          /\ raw.reached_conclusion => run.mem <= run.cap
      BY <1>1, <2>2 DEF MockInv, MockRun
    <3>2. run.mem <= run.cap
      BY <2>1, <2>2, <3>1, ClassifyConclusive
    <3>3. R_SOLVED - 30 * AtMost(Percent(run.wall, run.timeout), 100)
                   - 50 * Excess(Percent(run.mem, run.cap), 80) >= 6000
      BY <2>1, <3>1, <3>2, SolvedReward
    <3> QED  BY <2>1, <2>2, <3>1, <3>3 DEF Reward
  <2>3. CASE inCatalog /\ ~Conclusive(run.status)
    <3>1. run.validation = "valid" /\ run.status \in RunStatus
      BY <1>1, <2>1, <2>3 DEF MockInv, MockRun, RunFields
    <3> QED
      BY <2>1, <2>3, <3>1 DEF Reward, P_TIMEOUT, P_ERROR, P_INCONCLUSIVE
  <2>4. CASE ~inCatalog
    BY <2>1, <2>4 DEF Reward, P_INVALID_CONFIG
  <2> QED  BY <2>1, <2>2, <2>3, <2>4
<1>2. JudgementInv /\ MockInv => RewardRanks
  BY <1>1
<1> QED
  BY <1>2, JudgementInvariant, MockInitInv, MockStep, PTL DEF JudgementSpec

\* The mock's verdict is never stronger than its simulation: conclusive only in
\* time, under the cap and with a clean exit.
THEOREM MockConclusionAlways == JudgementSpec => []MockConclusionInBudget
<1>1. ASSUME JudgementInv, MockInv PROVE MockConclusionInBudget
  <2> SUFFICES ASSUME Judged, source = "mock", Conclusive(run.status)
               PROVE  /\ run.wall <= run.timeout /\ run.mem <= run.cap
                      /\ raw.reached_conclusion /\ run.return_code = 0
    BY DEF MockConclusionInBudget
  <2>1. raw \in RawResult /\ stage # "start" /\ stage # "raw"
    BY <1>1 DEF JudgementInv, JudgementTypeOK, Judged
  <2>2. inCatalog
    BY <1>1, <2>1 DEF MockInv, MockRun, Conclusive
  <2>3. raw.reached_conclusion
    BY <1>1, <2>1, <2>2, ClassifyConclusive DEF MockInv, MockRun
  <2> QED  BY <1>1, <2>1, <2>2, <2>3 DEF MockInv, MockRun
<1>2. JudgementInv /\ MockInv => MockConclusionInBudget
  BY <1>1
<1> QED
  BY <1>2, JudgementInvariant, MockInitInv, MockStep, PTL DEF JudgementSpec

-----------------------------------------------------------------------------
(***************************************************************************)
(* Mismatches of an equivalence check                                      *)
(***************************************************************************)

\* While the triage runs, and when it has reported.
EquivalenceInv ==
    /\ tool = "eq-triage"
    /\ \E x \in EquivalenceRuns : input = x /\ reports \in {{}, {EquivalenceReportOf(x)}}

\* The report is that of the log it was called with.
LEMMA EquivalenceInvariant == EquivalenceSpec => []EquivalenceInv
<1>1. EquivalenceInit => EquivalenceInv
  BY DEF EquivalenceInit, EquivalenceInv, Called
<1>2. EquivalenceInv /\ [TriageEquivalence]_passVars => EquivalenceInv'
  BY DEF EquivalenceInv, TriageEquivalence, Computing, Reports, passVars
<1> QED  BY <1>1, <1>2, PTL DEF EquivalenceSpec

\* The order names the points of the log, all of them.
LEMMA LogOf ==
    ASSUME NEW T, NEW lines \in Seq(T)
    PROVE  LET log == ParseLog(lines) IN
           /\ log.order \in Seq(DOMAIN log.points)
           /\ Range(log.order) = DOMAIN log.points
           /\ \E at : /\ at \in [DOMAIN log.order -> Declaring(lines)]
                      /\ \A k \in DOMAIN log.order : log.order[k] = lines[at[k]].name
                      /\ \A k, l \in DOMAIN log.order : at[k] = at[l] => k = l
<1> DEFINE log == ParseLog(lines)
           declaring == Declaring(lines)
           mismatches == Picked(lines, declaring)
           names == {lines[i].name : i \in declaring}
           order == [k \in DOMAIN mismatches |-> mismatches[k].name]
<1>1. log.order = order /\ DOMAIN log.points = names
  BY DEF ParseLog
<1>2. declaring \in SUBSET (DOMAIN lines)
  BY DEF Declaring
<1> HIDE DEF log, declaring
<1>3. PICK at : PickedAt(lines, declaring, at)
  BY <1>2, PickedPositions
<1>4. mismatches \in Seq(T) /\ Cardinality(declaring) \in Nat
  BY <1>2, PickedElements, PickedPositions
<1>5. /\ DOMAIN mismatches = 1 .. Cardinality(declaring)
      /\ DOMAIN at = 1 .. Cardinality(declaring)
      /\ \A k \in DOMAIN mismatches : at[k] \in declaring /\ mismatches[k] = lines[at[k]]
      /\ \A i \in declaring : \E k \in DOMAIN mismatches : at[k] = i
      /\ \A k, l \in DOMAIN mismatches : at[k] = at[l] => k = l
      /\ at = [k \in DOMAIN mismatches |-> at[k]]
  BY <1>3, <1>4 DEF PickedAt
<1> HIDE DEF mismatches
<1>6. DOMAIN order = DOMAIN mismatches /\ \A k \in DOMAIN order : order[k] = lines[at[k]].name /\ order[k] \in names
  BY <1>5
<1>7. order \in Seq(names)
  <2>1. DOMAIN order = 1 .. Cardinality(declaring)
    BY <1>5, <1>6
  <2>2. order = [k \in 1 .. Cardinality(declaring) |-> order[k]]
    BY <2>1
  <2> HIDE DEF order, names
  <2> QED  BY <1>4, <1>6, <2>1, <2>2
<1>8. Range(order) = names
  <2>1. \A n \in names : \E k \in DOMAIN order : order[k] = n
    <3> SUFFICES ASSUME NEW i \in declaring PROVE \E k \in DOMAIN order : order[k] = lines[i].name
      OBVIOUS
    <3> QED  BY <1>5, <1>6
  <2> HIDE DEF order, names
  <2> QED  BY <1>6, <2>1 DEF Range
<1>9. at \in [DOMAIN order -> declaring]
  <2>1. \A k \in DOMAIN order : at[k] \in declaring
    BY <1>5, <1>6
  <2>2. DOMAIN at = DOMAIN order
    BY <1>5, <1>6
  <2> HIDE DEF order
  <2> QED  BY <1>5, <1>6, <2>1, <2>2
<1> HIDE DEF order, names
<1> QED  BY <1>1, <1>5, <1>6, <1>7, <1>8, <1>9 DEF log, declaring

\* A log read: the order names its points, each once or more.
ReadLog(log) ==
    log.order \in Seq(DOMAIN log.points) /\ Range(log.order) = DOMAIN log.points

\* Where the mismatches of a signature are in the order of a log.
Sharing(log, s) == {i \in DOMAIN log.order : Signature(log.points[log.order[i]]) = s}

\* The group of a signature has all its points, and begins with one of them.
GroupFormed(log, s, g) ==
    /\ g.members \in Seq(DOMAIN log.points) /\ g.members # <<>>
    /\ \A m : m \in Range(g.members) <=> m \in DOMAIN log.points /\ Signature(log.points[m]) = s
    /\ \E at : PickedAt(log.order, Sharing(log, s), at)
    /\ g.members = Picked(log.order, Sharing(log, s))
    /\ g.members[1] \in DOMAIN log.points
    /\ Signature(log.points[g.members[1]]) = s

LEMMA GroupOf ==
    ASSUME NEW log, ReadLog(log), NEW n \in DOMAIN log.points, NEW s, s = Signature(log.points[n])
    PROVE  GroupFormed(log, s, GroupOfSignature(log, s))
<1> DEFINE keep == Sharing(log, s)
           members == Picked(log.order, keep)
<1>1. GroupOfSignature(log, s).members = members
  BY DEF GroupOfSignature, Sharing
<1>2. keep \in SUBSET (DOMAIN log.order) /\ log.order \in Seq(DOMAIN log.points)
  BY DEF ReadLog, Sharing
<1>3. /\ members \in Seq(DOMAIN log.points)
      /\ Range(members) = {log.order[i] : i \in keep}
      /\ \E at : PickedAt(log.order, keep, at)
  <2> HIDE DEF keep
  <2> QED  BY <1>2, PickedElements, PickedPositions
<1>4. \A m : m \in Range(members) <=> m \in DOMAIN log.points /\ Signature(log.points[m]) = s
  <2>1. \A m \in DOMAIN log.points : \E i \in DOMAIN log.order : log.order[i] = m
    BY DEF ReadLog, Range
  <2>2. \A i \in DOMAIN log.order : log.order[i] \in DOMAIN log.points
    BY DEF ReadLog, Range
  <2>3. \A i : i \in keep <=> i \in DOMAIN log.order /\ Signature(log.points[log.order[i]]) = s
    BY DEF Sharing
  <2> HIDE DEF members, keep
  <2> QED  BY <1>3, <2>1, <2>2, <2>3
<1>5. members # <<>>
  <2>1. n \in Range(members)
    BY <1>4
  <2> HIDE DEF members
  <2> QED  BY <2>1 DEF Range
<1> HIDE DEF members
<1>6. members[1] \in Range(members)
  BY <1>3, <1>5 DEF Range
<1>7. members[1] \in DOMAIN log.points /\ Signature(log.points[members[1]]) = s
  BY <1>4, <1>6
<1> QED  BY <1>1, <1>3, <1>4, <1>5, <1>7 DEF members, GroupFormed

\* The rest of a group, of the same points whatever their order.
LEMMA ConeOf ==
    ASSUME NEW log, NEW s
    PROVE  LET g == GroupOfSignature(log, s) IN
           /\ \A c : c \in g.cone <=> \E m \in Range(g.members) :
                       c \in log.points[m].at.fanin \cup DiffSignals(log.points[m])
           /\ g.kind = log.points[g.members[1]].at.kind
           /\ g.wref = log.points[g.members[1]].at.wref
           /\ g.wrev = log.points[g.members[1]].at.wrev
<1> DEFINE members == Picked(log.order, {i \in DOMAIN log.order :
                                           Signature(log.points[log.order[i]]) = s})
           cone == UNION {p.at.fanin \cup DiffSignals(p) : p \in {log.points[m] : m \in Range(members)}}
           first == log.points[members[1]].at
<1>1. GroupOfSignature(log, s) = [members |-> members, kind |-> first.kind, wref |-> first.wref,
                                 wrev |-> first.wrev, cone |-> cone]
  BY DEF GroupOfSignature
<1>2. \A c : c \in cone <=> \E m \in Range(members) :
               c \in log.points[m].at.fanin \cup DiffSignals(log.points[m])
  <2> HIDE DEF members
  <2> QED  OBVIOUS
<1> HIDE DEF members, cone
<1> QED  BY <1>1, <1>2

\* Two mismatches have one group only if they have one signature.
LEMMA GroupTellsSignature ==
    ASSUME NEW log, ReadLog(log), NEW m \in DOMAIN log.points, NEW n \in DOMAIN log.points,
           GroupOfSignature(log, Signature(log.points[m])).members
              = GroupOfSignature(log, Signature(log.points[n])).members
    PROVE  Signature(log.points[m]) = Signature(log.points[n])
<1> DEFINE s == Signature(log.points[m])
           t == Signature(log.points[n])
<1>1. s = Signature(log.points[m]) /\ t = Signature(log.points[n])
      /\ GroupOfSignature(log, s).members = GroupOfSignature(log, t).members
  OBVIOUS
<1> HIDE DEF s, t
<1>2. Signature(log.points[GroupOfSignature(log, s).members[1]]) = s
  <2> DEFINE g == GroupOfSignature(log, s)
  <2>1. GroupFormed(log, s, g)
    BY <1>1, GroupOf
  <2> HIDE DEF g
  <2> QED  BY <2>1 DEF GroupFormed, g
<1>3. Signature(log.points[GroupOfSignature(log, t).members[1]]) = t
  <2> DEFINE g == GroupOfSignature(log, t)
  <2>1. GroupFormed(log, t, g)
    BY <1>1, GroupOf
  <2> HIDE DEF g
  <2> QED  BY <2>1 DEF GroupFormed, g
<1> QED  BY <1>1, <1>2, <1>3

\* What the report says of a group.
Told(x, log, g) ==
    [members |-> g.members, cone |-> g.cone, causes |-> ClassifyCauses(x, log, g),
     locations |-> RankLocations(x, log, g)]

ReportFormed(x, log, r) ==
    /\ r = [parsed |-> TRUE, status |-> x.status, mismatches |-> Len(log.order),
            deltas |-> log.deltas, groups |-> r.groups, warnings |-> Warnings(x, log),
            steps |-> NextSteps(log, r.groups)]
    /\ \A t : t \in r.groups <=> \E n \in Range(log.order) :
                t = Told(x, log, GroupOfSignature(log, Signature(log.points[n])))

LEMMA ReportForm ==
    ASSUME NEW x, ParseLog(x.lines).parsed
    PROVE  ReportFormed(x, ParseLog(x.lines), EquivalenceReportOf(x))
<1> DEFINE log == ParseLog(x.lines)
           of(g) == [members |-> g.members, cone |-> g.cone, causes |-> ClassifyCauses(x, log, g),
                     locations |-> RankLocations(x, log, g)]
           groups == {of(g) : g \in GroupSignatures(log)}
           made == [parsed |-> TRUE, status |-> x.status, mismatches |-> Len(log.order),
                    deltas |-> log.deltas, groups |-> groups, warnings |-> Warnings(x, log),
                    steps |-> NextSteps(log, groups)]
<1>1. EquivalenceReportOf(x) = made
  BY DEF EquivalenceReportOf
<1>2. \A t : t \in groups <=> \E n \in Range(log.order) :
               t = Told(x, log, GroupOfSignature(log, Signature(log.points[n])))
  <2>1. \A g : of(g) = Told(x, log, g)
    BY DEF Told
  <2> HIDE DEF log, of
  <2>2. \A g : g \in GroupSignatures(log) <=>
               \E n \in Range(log.order) : g = GroupOfSignature(log, Signature(log.points[n]))
    BY DEF GroupSignatures
  <2> QED  BY <2>1, <2>2
<1> HIDE DEF groups, log
<1>3. made.groups = groups
  OBVIOUS
<1>4. made = [parsed |-> TRUE, status |-> x.status, mismatches |-> Len(log.order),
              deltas |-> log.deltas, groups |-> made.groups, warnings |-> Warnings(x, log),
              steps |-> NextSteps(log, made.groups)]
  BY <1>3 DEF made
<1> HIDE DEF made
<1>5. ReportFormed(x, log, made)
  BY <1>2, <1>3, <1>4 DEF ReportFormed
<1> QED  BY <1>1, <1>5 DEF log

\* Where a mismatch is in its group: at says of each group where its members were.
LEMMA PlaceInGroup ==
    ASSUME NEW log, ReadLog(log), NEW i \in DOMAIN log.order, NEW s, s = Signature(log.points[log.order[i]]),
           NEW at, PickedAt(log.order, Sharing(log, s), at)
    PROVE  LET members == GroupOfSignature(log, s).members IN
           /\ DOMAIN members = DOMAIN at
           /\ \E k \in DOMAIN members : at[k] = i
           /\ \A k \in DOMAIN members : /\ at[k] \in DOMAIN log.order
                                      /\ Signature(log.points[log.order[at[k]]]) = s
           /\ \A k, l \in DOMAIN members : at[k] = at[l] => k = l
<1> DEFINE members == GroupOfSignature(log, s).members
           keep == Sharing(log, s)
<1>1. log.order[i] \in DOMAIN log.points
  BY DEF ReadLog, Range
<1>2. members = Picked(log.order, keep)
  <2> DEFINE g == GroupOfSignature(log, s)
  <2>1. GroupFormed(log, s, g)
    BY <1>1, GroupOf
  <2> HIDE DEF g
  <2> QED  BY <2>1 DEF GroupFormed, g
<1>3. i \in keep /\ \A j \in keep : j \in DOMAIN log.order /\ Signature(log.points[log.order[j]]) = s
  BY DEF Sharing
<1> HIDE DEF members, keep
<1>4. /\ members = [m \in DOMAIN at |-> log.order[at[m]]] /\ at \in [DOMAIN at -> keep]
      /\ \A l, m \in DOMAIN at : at[l] = at[m] => l = m
      /\ \A j \in keep : \E m \in DOMAIN at : at[m] = j
  BY <1>2 DEF PickedAt, keep
<1>5. DOMAIN members = DOMAIN at
  BY <1>4
<1> QED  BY <1>3, <1>4, <1>5 DEF members

LEMMA AllGroupedOf ==
    ASSUME NEW x \in EquivalenceRuns, Report = EquivalenceReportOf(x), ParseLog(x.lines).parsed
    PROVE  MismatchesAllGrouped
<1> DEFINE log == ParseLog(x.lines)
           r == EquivalenceReportOf(x)
           sig(n) == Signature(log.points[n])
           told(n) == Told(x, log, GroupOfSignature(log, sig(n)))
           N == DOMAIN log.order
<1>1. ReadLog(log)
  <2>1. x.lines \in Seq(Range(x.lines))
    BY EquivalenceAssumption
  <2> QED  BY <2>1, LogOf DEF ReadLog
<1>2. /\ r.mismatches = Len(log.order)
      /\ \A t : t \in r.groups <=> \E n \in Range(log.order) : t = told(n)
  <2>1. ReportFormed(x, log, r)
    BY ReportForm
  <2> HIDE DEF log, r
  <2>2. \A t : t \in r.groups <=> \E n \in Range(log.order) : t = told(n)
    BY <2>1 DEF ReportFormed
  <2>3. r.mismatches = Len(log.order)
    BY <2>1 DEF ReportFormed
  <2> QED  BY <2>2, <2>3
<1> HIDE DEF log, r
<1>3. \A n : told(n).members = GroupOfSignature(log, sig(n)).members
  BY DEF Told
<1>4. /\ log.order \in Seq(DOMAIN log.points) /\ N = 1 .. Len(log.order) /\ Len(log.order) \in Nat
      /\ \A i \in N : log.order[i] \in DOMAIN log.points
      /\ \A n \in DOMAIN log.points : \E i \in N : log.order[i] = n
      /\ Range(log.order) = DOMAIN log.points
  BY <1>1 DEF ReadLog, Range
<1> HIDE DEF told
<1>5. ASSUME NEW m \in DOMAIN log.points, NEW n \in DOMAIN log.points, told(m) # told(n)
      PROVE  Range(told(m).members) \cap Range(told(n).members) = {}
  <2>1. sig(m) # sig(n)
    BY <1>5 DEF told
  <2>2. ASSUME NEW k \in DOMAIN log.points, NEW c \in Range(told(k).members) PROVE sig(c) = sig(k)
    <3> DEFINE g == GroupOfSignature(log, sig(k))
    <3>1. GroupFormed(log, sig(k), g)
      BY <1>1, GroupOf
    <3>2. c \in Range(g.members)
      BY <1>3, <2>2
    <3> HIDE DEF g
    <3> QED  BY <3>1, <3>2 DEF GroupFormed
  <2> HIDE DEF sig
  <2> QED  BY <2>1, <2>2
<1>6. \A g, h \in r.groups : g = h \/ Range(g.members) \cap Range(h.members) = {}
  <2> TAKE g, h \in r.groups
  <2>1. PICK m \in DOMAIN log.points : g = told(m)
    BY <1>2, <1>4
  <2>2. PICK n \in DOMAIN log.points : h = told(n)
    BY <1>2, <1>4
  <2> QED  BY <1>5, <2>1, <2>2
<1> DEFINE pairs == UNION {{g} \X DOMAIN g.members : g \in r.groups}
           at(s) == CHOOSE a : PickedAt(log.order, Sharing(log, s), a)
           place(i) == CHOOSE k \in DOMAIN told(log.order[i]).members : at(sig(log.order[i]))[k] = i
           f == [i \in N |-> <<told(log.order[i]), place(i)>>]
<1>7. \A p : p \in pairs <=> \E n \in DOMAIN log.points : \E k \in DOMAIN told(n).members : p = <<told(n), k>>
  <2>1. \A p : p \in pairs <=> \E g \in r.groups : \E k \in DOMAIN g.members : p = <<g, k>>
    OBVIOUS
  <2> HIDE DEF pairs
  <2>2. \A g : g \in r.groups <=> \E n \in DOMAIN log.points : g = told(n)
    BY <1>2, <1>4
  <2> TAKE p
  <2>3. ASSUME p \in pairs
        PROVE  \E n \in DOMAIN log.points : \E k \in DOMAIN told(n).members : p = <<told(n), k>>
    <3>1. PICK g \in r.groups : \E k \in DOMAIN g.members : p = <<g, k>>
      BY <2>1, <2>3
    <3>2. PICK n \in DOMAIN log.points : g = told(n)
      BY <2>2
    <3> QED  BY <3>1, <3>2
  <2>4. ASSUME NEW n \in DOMAIN log.points, NEW k \in DOMAIN told(n).members, p = <<told(n), k>>
        PROVE  p \in pairs
    <3>1. told(n) \in r.groups
      BY <2>2
    <3> QED  BY <2>1, <2>4, <3>1
  <2> QED  BY <2>3, <2>4
<1> HIDE DEF pairs
<1>8. ASSUME NEW i \in N
      PROVE  LET members == told(log.order[i]).members
                 a == at(sig(log.order[i]))
             IN  /\ place(i) \in DOMAIN members /\ a[place(i)] = i
                 /\ \A k \in DOMAIN members : /\ a[k] \in N
                                            /\ sig(log.order[a[k]]) = sig(log.order[i])
                 /\ \A k, l \in DOMAIN members : a[k] = a[l] => k = l
  <2> DEFINE s == sig(log.order[i])
             g == GroupOfSignature(log, s)
             a == at(s)
             members == told(log.order[i]).members
  <2>1. GroupFormed(log, s, g)
    BY <1>1, <1>4, GroupOf
  <2>2. PickedAt(log.order, Sharing(log, s), a)
    <3>1. \E b : PickedAt(log.order, Sharing(log, s), b)
      <4> HIDE DEF g, s
      <4> QED  BY <2>1 DEF GroupFormed
    <3> HIDE DEF s
    <3> QED  BY <3>1
  <2> HIDE DEF a
  <2>3. LET own == GroupOfSignature(log, s).members IN
        /\ \E k \in DOMAIN own : a[k] = i
        /\ \A k \in DOMAIN own : a[k] \in DOMAIN log.order /\ Signature(log.points[log.order[a[k]]]) = s
        /\ \A k, l \in DOMAIN own : a[k] = a[l] => k = l
    BY <1>1, <2>2, PlaceInGroup
  <2>4. members = GroupOfSignature(log, s).members
    BY <1>3
  <2> HIDE DEF members
  <2>5. \E k \in DOMAIN members : a[k] = i
    BY <2>3, <2>4
  <2>6. place(i) = CHOOSE k \in DOMAIN members : a[k] = i
    BY DEF a, members
  <2> HIDE DEF place
  <2>7. place(i) \in DOMAIN members /\ a[place(i)] = i
    BY <2>5, <2>6
  <2> QED  BY <2>3, <2>4, <2>7 DEF a, members
<1> HIDE DEF at, place
<1>9. f \in [N -> pairs]
  <2>1. \A i \in N : <<told(log.order[i]), place(i)>> \in pairs
    BY <1>4, <1>7, <1>8
  <2> QED  BY <2>1
<1>10. ASSUME NEW i \in N, NEW j \in N, f[i] = f[j] PROVE i = j
  <2>1. told(log.order[i]) = told(log.order[j]) /\ place(i) = place(j)
    BY <1>10
  <2>2. sig(log.order[i]) = sig(log.order[j])
    <3>1. GroupOfSignature(log, sig(log.order[i])).members = GroupOfSignature(log, sig(log.order[j])).members
      BY <1>3, <2>1
    <3> QED  BY <1>1, <1>4, <3>1, GroupTellsSignature
  <2> HIDE DEF sig
  <2> QED  BY <1>8, <2>1, <2>2
<1>11. ASSUME NEW p \in pairs PROVE \E i \in N : f[i] = p
  <2>1. PICK n \in DOMAIN log.points : \E k \in DOMAIN told(n).members : p = <<told(n), k>>
    BY <1>7
  <2>2. PICK k \in DOMAIN told(n).members : p = <<told(n), k>>
    BY <2>1
  <2>3. PICK i \in N : log.order[i] = n
    BY <1>4
  <2> DEFINE a == at(sig(n))
             j == a[k]
  <2>4. j \in N /\ sig(log.order[j]) = sig(n)
    BY <1>8, <2>2, <2>3
  <2>5. told(log.order[j]) = told(n)
    <3> HIDE DEF j
    <3> QED  BY <2>4 DEF told
  <2>6. place(j) \in DOMAIN told(n).members /\ a[place(j)] = j
    <3>1. /\ place(j) \in DOMAIN told(log.order[j]).members
          /\ at(sig(log.order[j]))[place(j)] = j
      <4> HIDE DEF j, sig
      <4> QED  BY <1>8, <2>4
    <3> HIDE DEF j, sig, a
    <3> QED  BY <2>4, <2>5, <3>1 DEF a
  <2>7. place(j) = k
    <3>1. \A m, l \in DOMAIN told(n).members : a[m] = a[l] => m = l
      BY <1>8, <2>3
    <3>2. a[place(j)] = a[k]
      <4> HIDE DEF a
      <4> QED  BY <2>6
    <3> HIDE DEF a, j
    <3> QED  BY <2>2, <2>6, <3>1, <3>2
  <2>8. f[j] = <<told(log.order[j]), place(j)>>
    <3> HIDE DEF j
    <3> QED  BY <2>4
  <2> HIDE DEF j, f
  <2> QED  BY <2>2, <2>4, <2>5, <2>7, <2>8
<1> HIDE DEF f
<1>12. f \in Bijection(N, pairs)
  <2>1. f \in Injection(N, pairs)
    BY <1>9, <1>10 DEF Injection, IsInjective
  <2>2. f \in Surjection(N, pairs)
    BY <1>9, <1>11 DEF Surjection
  <2> QED  BY <2>1, <2>2 DEF Bijection
<1>13. IsFiniteSet(N) /\ Cardinality(N) = Len(log.order)
  <2> HIDE DEF N
  <2> QED  BY <1>4, FS_Interval
<1>14. Cardinality(pairs) = Len(log.order)
  <2>1. ExistsBijection(N, pairs)
    BY <1>12 DEF ExistsBijection
  <2> QED  BY <1>13, <2>1, FS_Bijection
<1> QED  BY <1>2, <1>6, <1>14 DEF MismatchesAllGrouped, pairs, r

\* What is counted for a place, and where places are sought.
Hits(log, g, s, d) == {i \in DOMAIN g.members : ComparedSignal(log.points[g.members[i]], d) = s}
PlaceScore(x, log, g, s, d) ==
    6 * Cardinality(Hits(log, g, s, d)) + (IF s \in g.cone THEN 2 ELSE 0)
      + (IF s \in Gating(x, g) THEN 1 ELSE 0)
Signals(log, g) ==
    g.cone \cup {ComparedSignal(log.points[n], d) : n \in Range(g.members), d \in Designs}

LEMMA LocationsOf ==
    ASSUME NEW x, NEW log, NEW g
    PROVE  \A l : l \in RankLocations(x, log, g) <=>
              \E s \in Signals(log, g), d \in Designs :
                 /\ l = [signal |-> s, design |-> d, score |-> PlaceScore(x, log, g, s, d)]
                 /\ PlaceScore(x, log, g, s, d) > 0
<1> DEFINE place(s, d) == [signal |-> s, design |-> d, score |-> PlaceScore(x, log, g, s, d)]
           all == {place(s, d) : s \in Signals(log, g), d \in Designs}
<1>1. RankLocations(x, log, g) = {l \in all : l.score > 0}
  BY DEF RankLocations, PlaceScore, Hits, Signals
<1>2. \A s, d : place(s, d).score = PlaceScore(x, log, g, s, d)
  OBVIOUS
<1>3. \A l : l \in all <=> \E s \in Signals(log, g), d \in Designs : l = place(s, d)
  OBVIOUS
<1> HIDE DEF all, place
<1>4. \A l : l \in RankLocations(x, log, g) <=>
              \E s \in Signals(log, g), d \in Designs : l = place(s, d) /\ PlaceScore(x, log, g, s, d) > 0
  BY <1>1, <1>2, <1>3
<1> QED  BY <1>4 DEF place

\* A place the tool compared for a member of the group.
Compared(log, g, s, d) == \E n \in Range(g.members) : ComparedSignal(log.points[n], d) = s

LEMMA HitsOf ==
    ASSUME NEW log, NEW N, NEW g, g.members \in Seq(N), NEW s, NEW d
    PROVE  /\ Cardinality(Hits(log, g, s, d)) \in Nat
           /\ (Cardinality(Hits(log, g, s, d)) # 0) = Compared(log, g, s, d)
<1> DEFINE hits == Hits(log, g, s, d)
           D == DOMAIN g.members
<1>1. D = 1 .. Len(g.members) /\ Len(g.members) \in Nat /\ hits \subseteq D
  BY DEF Hits
<1>2. \A i : i \in hits <=> i \in D /\ ComparedSignal(log.points[g.members[i]], d) = s
  BY DEF Hits
<1>3. \A n : n \in Range(g.members) <=> \E i \in D : g.members[i] = n
  BY DEF Range
<1> HIDE DEF hits, D
<1>4. IsFiniteSet(D)
  BY <1>1, FS_Interval
<1>5. IsFiniteSet(hits)
  BY <1>1, <1>4, FS_Subset
<1>6. Cardinality(hits) \in Nat /\ (Cardinality(hits) = 0 <=> hits = {})
  BY <1>5, FS_CardinalityType, FS_EmptySet
<1>7. hits # {} <=> Compared(log, g, s, d)
  BY <1>2, <1>3 DEF Compared
<1>8. Compared(log, g, s, d) \in BOOLEAN
  BY DEF Compared
<1> QED  BY <1>6, <1>7, <1>8 DEF hits

LEMMA ScoreOf ==
    ASSUME NEW x, NEW log, NEW N, NEW g, g.members \in Seq(N), NEW s, NEW d
    PROVE  /\ PlaceScore(x, log, g, s, d) \in Nat
           /\ (PlaceScore(x, log, g, s, d) >= 6) = Compared(log, g, s, d)
<1> DEFINE c == Cardinality(Hits(log, g, s, d))
           a == IF s \in g.cone THEN 2 ELSE 0
           b == IF s \in Gating(x, g) THEN 1 ELSE 0
<1>1. c \in Nat /\ (c # 0) = Compared(log, g, s, d)
  <2>1. c \in Nat
    BY HitsOf
  <2>2. (c # 0) = Compared(log, g, s, d)
    BY HitsOf
  <2> HIDE DEF c
  <2> QED  BY <2>1, <2>2
<1>2. a \in 0 .. 2 /\ b \in 0 .. 1
  OBVIOUS
<1>3. PlaceScore(x, log, g, s, d) = 6 * c + a + b
  BY DEF PlaceScore
<1> HIDE DEF a, b, c
<1>4. 6 * c + a + b \in Nat /\ (6 * c + a + b >= 6) = (c # 0)
  BY <1>1, <1>2
<1> QED  BY <1>1, <1>3, <1>4

LEMMA ComparedFirstOf ==
    ASSUME NEW x \in EquivalenceRuns, input = x, Report = EquivalenceReportOf(x),
           ParseLog(x.lines).parsed
    PROVE  ComparedFirst
<1> DEFINE log == ParseLog(x.lines)
           r == EquivalenceReportOf(x)
<1>1. ReadLog(log)
  <2>1. x.lines \in Seq(Range(x.lines))
    BY EquivalenceAssumption
  <2> QED  BY <2>1, LogOf DEF ReadLog
<1>2. ReportFormed(x, log, r)
  BY ReportForm
<1>3. log = ParseLog(input.lines) /\ r = Report
  OBVIOUS
<1> HIDE DEF log, r
<1>4. ASSUME NEW t \in r.groups, NEW d \in Designs
      PROVE  LET compared == {ComparedSignal(log.points[n], d) : n \in Range(t.members)}
             IN  /\ compared \subseteq {l.signal : l \in {l \in t.locations : l.design = d}}
                 /\ \A k, l \in t.locations :
                       k.signal \in compared /\ k.design = d /\ l.score >= k.score =>
                           \E n \in Range(t.members) :
                               l.signal = ComparedSignal(log.points[n], l.design)
  <2>1. PICK m \in Range(log.order) : t = Told(x, log, GroupOfSignature(log, Signature(log.points[m])))
    BY <1>2 DEF ReportFormed
  <2> DEFINE s == Signature(log.points[m])
             g == GroupOfSignature(log, s)
             compared == {ComparedSignal(log.points[n], d) : n \in Range(g.members)}
  <2>2. t.members = g.members /\ t.locations = RankLocations(x, log, g)
    BY <2>1 DEF Told
  <2>3. g.members \in Seq(DOMAIN log.points)
    <3>1. m \in DOMAIN log.points
      BY <1>1 DEF ReadLog
    <3>2. GroupFormed(log, s, g)
      BY <1>1, <3>1, GroupOf
    <3> HIDE DEF g, s
    <3> QED  BY <3>2 DEF GroupFormed
  <2> HIDE DEF g
  <2>4. ASSUME NEW n \in Range(g.members)
        PROVE  \E l \in RankLocations(x, log, g) : l.design = d /\ l.signal = ComparedSignal(log.points[n], d)
    <3> DEFINE c == ComparedSignal(log.points[n], d)
               l == [signal |-> c, design |-> d, score |-> PlaceScore(x, log, g, c, d)]
    <3>1. c \in Signals(log, g)
      BY DEF Signals
    <3> HIDE DEF c
    <3>2. PlaceScore(x, log, g, c, d) \in Nat /\ PlaceScore(x, log, g, c, d) >= 6
      <4>1. Compared(log, g, c, d)
        BY DEF Compared, c
      <4> QED  BY <2>3, <4>1, ScoreOf
    <3>3. PlaceScore(x, log, g, c, d) > 0
      BY <3>2
    <3>4. l \in RankLocations(x, log, g)
      BY <3>1, <3>3, LocationsOf
    <3>5. l.design = d /\ l.signal = c
      OBVIOUS
    <3> HIDE DEF l
    <3> QED  BY <3>4, <3>5 DEF c
  <2>5. ASSUME NEW k \in RankLocations(x, log, g), NEW l \in RankLocations(x, log, g),
               NEW n \in Range(g.members), k.signal = ComparedSignal(log.points[n], d),
               k.design = d, l.score >= k.score
        PROVE  \E q \in Range(g.members) : l.signal = ComparedSignal(log.points[q], l.design)
    <3>1. ASSUME NEW h \in RankLocations(x, log, g)
          PROVE  h.score = PlaceScore(x, log, g, h.signal, h.design)
      <4>1. PICK a, b : h = [signal |-> a, design |-> b, score |-> PlaceScore(x, log, g, a, b)]
        BY LocationsOf
      <4> QED  BY <4>1
    <3>2. PlaceScore(x, log, g, k.signal, k.design) \in Nat /\ PlaceScore(x, log, g, k.signal, k.design) >= 6
      <4>1. Compared(log, g, k.signal, k.design)
        BY <2>5 DEF Compared
      <4> QED  BY <2>3, <4>1, ScoreOf
    <3>3. PlaceScore(x, log, g, l.signal, l.design) \in Nat
      BY <2>3, ScoreOf
    <3>4. l.score \in Nat /\ k.score \in Nat /\ k.score >= 6
      BY <3>1, <3>2, <3>3
    <3>5. PlaceScore(x, log, g, l.signal, l.design) >= 6
      BY <2>5, <3>1, <3>4
    <3>6. Compared(log, g, l.signal, l.design)
      BY <2>3, <3>5, ScoreOf
    <3> QED  BY <3>6 DEF Compared
  <2>6. compared \subseteq {l.signal : l \in {l \in RankLocations(x, log, g) : l.design = d}}
    BY <2>4
  <2>7. \A k, l \in RankLocations(x, log, g) :
           k.signal \in compared /\ k.design = d /\ l.score >= k.score =>
              \E n \in Range(g.members) : l.signal = ComparedSignal(log.points[n], l.design)
    BY <2>5
  <2> QED  BY <2>2, <2>6, <2>7
<1> QED  BY <1>3, <1>4 DEF ComparedFirst

LEMMA JoinedHead ==
    ASSUME NEW S, NEW s \in Seq(S), NEW t \in Seq(S), s # <<>>
    PROVE  s \o t \in Seq(S) /\ s \o t # <<>> /\ (s \o t)[1] = s[1]
<1>1. Len(s) \in Nat /\ Len(t) \in Nat /\ 1 <= Len(s) /\ s \o t \in Seq(S) /\ Len(s \o t) = Len(s) + Len(t)
  OBVIOUS
<1>2. (s \o t)[1] = s[1]
  BY <1>1
<1>3. s \o t # <<>>
  BY <1>1
<1> QED  BY <1>1, <1>2, <1>3

\* A difference of the configurations is told first and is a cause of every group.
LEMMA ConfigurationTold ==
    ASSUME NEW x, ParseLog(x.lines).parsed, NEW r, r = EquivalenceReportOf(x),
           \E d \in r.deltas : d.ref # d.rev
    PROVE  /\ "config" \in r.warnings /\ r.steps[1] = "reconcile config"
           /\ \A g \in r.groups : \E c \in g.causes : c.category = "config_constraint"
<1> DEFINE log == ParseLog(x.lines)
<1>1. ReportFormed(x, log, r)
  BY ReportForm
<1> HIDE DEF log
<1>2. r.deltas = log.deltas /\ r.warnings = Warnings(x, log) /\ r.steps = NextSteps(log, r.groups)
  BY <1>1 DEF ReportFormed
<1>3. Deltas(log) # {}
  BY <1>2 DEF Deltas
<1>4. "config" \in r.warnings
  BY <1>2, <1>3 DEF Warnings
<1>5. r.steps[1] = "reconcile config"
  <2> DEFINE rest == <<"rerun", "inspect locations">>
             last == IF \E g \in r.groups : \E c \in g.causes : c.category \in {"reset_init", "polarity"}
                       THEN <<"compare resets">> ELSE <<>>
  <2>1. r.steps = <<"reconcile config">> \o rest \o last
    BY <1>2, <1>3 DEF NextSteps
  <2> DEFINE S == {"reconcile config", "rerun", "inspect locations", "compare resets"}
             first == <<"reconcile config">>
  <2>2. rest \in Seq(S) /\ first \in Seq(S) /\ first # <<>> /\ first[1] = "reconcile config"
    OBVIOUS
  <2>3. last \in Seq(S)
    <3>1. <<"compare resets">> \in Seq(S) /\ <<>> \in Seq(S)
      OBVIOUS
    <3> QED  BY <3>1
  <2> HIDE DEF rest, last, S, first
  <2>4. first \o rest \in Seq(S) /\ first \o rest # <<>> /\ (first \o rest)[1] = first[1]
    BY <2>2, JoinedHead
  <2>5. (first \o rest \o last)[1] = (first \o rest)[1]
    BY <2>3, <2>4, JoinedHead
  <2> QED  BY <2>1, <2>2, <2>4, <2>5 DEF first
<1>6. \A g : [category |-> "config_constraint", confidence |-> 50] \in ClassifyCauses(x, log, g)
  BY <1>3 DEF ClassifyCauses
<1>7. ASSUME NEW t \in r.groups PROVE \E c \in t.causes : c.category = "config_constraint"
  <2>1. PICK n : t = Told(x, log, GroupOfSignature(log, Signature(log.points[n])))
    BY <1>1 DEF ReportFormed
  <2>2. t.causes = ClassifyCauses(x, log, GroupOfSignature(log, Signature(log.points[n])))
    BY <2>1 DEF Told
  <2> QED  BY <1>6, <2>2
<1> QED  BY <1>4, <1>5, <1>7

\* Lines that stand in two orders are the same lines.
LEMMA SwappedSame ==
    ASSUME NEW T, NEW lines \in Seq(T), NEW i \in 1 .. (Len(lines) - 1)
    PROVE  SwappedLines(lines, i) \in Seq(T) /\ Range(SwappedLines(lines, i)) = Range(lines)
<1> DEFINE other == SwappedLines(lines, i)
           D == DOMAIN lines
<1>1. D = 1 .. Len(lines) /\ Len(lines) \in Nat /\ i \in D /\ i + 1 \in D /\ \A k \in D : lines[k] \in T
  OBVIOUS
<1>2. other = [k \in D |-> IF k = i + 1 THEN lines[i] ELSE IF k = i THEN lines[i + 1] ELSE lines[k]]
  BY <1>1 DEF SwappedLines
<1> HIDE DEF other, D
<1>3. \A k \in D : other[k] \in T
  BY <1>1, <1>2
<1>4. DOMAIN other = D
  BY <1>2
<1>5. \A k \in D : \E j \in D : other[j] = lines[k]
  <2> TAKE k \in D
  <2>1. CASE k = i      BY <1>1, <1>2, <2>1
  <2>2. CASE k = i + 1  BY <1>1, <1>2, <2>2
  <2>3. CASE k # i /\ k # i + 1  BY <1>1, <1>2, <2>3
  <2> QED  BY <2>1, <2>2, <2>3
<1>6. \A k \in D : \E j \in D : other[k] = lines[j]
  BY <1>1, <1>2
<1>7. other \in Seq(T)
  BY <1>1, <1>2, <1>3
<1>8. Range(other) = Range(lines)
  BY <1>4, <1>5, <1>6 DEF Range, D
<1> QED  BY <1>7, <1>8 DEF other

\* A point as the lines of a well ordered log tell it, in whatever order they stand.
Point(L, l) == [at |-> l, vectors |-> {v \in L : v.tag = "cex" /\ v.name = l.name}]

\* A log read from the lines L.
LogTold(L, log) ==
    /\ log.parsed = TRUE
    /\ \A n : n \in DOMAIN log.points <=> \E l \in L : l.tag = "mismatch" /\ l.name = n
    /\ \A l \in L : l.tag = "mismatch" => log.points[l.name] = Point(L, l)
    /\ log.points = [n \in DOMAIN log.points |-> log.points[n]]
    /\ log.deltas = {l \in L : l.tag = "config"}
    /\ \A k, l \in DOMAIN log.order : log.order[k] = log.order[l] => k = l

LEMMA WellOrderedLog ==
    ASSUME NEW T, NEW lines \in Seq(T), WellOrdered(lines)
    PROVE  LogTold(Range(lines), ParseLog(lines))
<1> DEFINE log == ParseLog(lines)
           D == DOMAIN lines
           L == Range(lines)
           names == {lines[i].name : i \in Declaring(lines)}
<1>1. D = 1 .. Len(lines) /\ Len(lines) \in Nat
  OBVIOUS
<1>2. \A l : l \in L <=> \E i \in D : lines[i] = l
  BY DEF Range
<1>3. \A i : i \in Declaring(lines) <=> i \in D /\ lines[i].tag = "mismatch"
  BY DEF Declaring
<1>4. /\ log.points = [n \in names |-> PointOf(lines, n)]
      /\ log.deltas = {lines[i] : i \in {i \in D : lines[i].tag = "config"}}
      /\ log.parsed = \A i \in D : lines[i].tag = "cex" =>
                        \E j \in Declaring(lines) : j < i /\ lines[j].name = lines[i].name
  BY DEF ParseLog
<1>5. /\ \A i, j \in D : i # j /\ lines[i].tag = "mismatch" /\ lines[j].tag = "mismatch" =>
            lines[i].name # lines[j].name
      /\ \A i \in D : lines[i].tag = "cex" =>
            \E j \in 1..(i - 1) : lines[j].tag = "mismatch" /\ lines[j].name = lines[i].name
  BY DEF WellOrdered
<1> HIDE DEF D, log, L
<1>6. \A i \in D : lines[i].tag = "cex" =>
         \E j \in Declaring(lines) : j < i /\ lines[j].name = lines[i].name
  <2> TAKE i \in D
  <2> HAVE lines[i].tag = "cex"
  <2>1. PICK j \in 1..(i - 1) : lines[j].tag = "mismatch" /\ lines[j].name = lines[i].name
    BY <1>5
  <2>2. j \in D /\ j < i
    BY <1>1
  <2> QED  BY <1>3, <2>1, <2>2
<1>7. log.parsed = TRUE
  BY <1>4, <1>6
<1>8. \A n : n \in names <=> \E l \in L : l.tag = "mismatch" /\ l.name = n
  BY <1>2, <1>3
<1>9. DOMAIN log.points = names /\ log.points = [n \in names |-> log.points[n]]
  <2> HIDE DEF names
  <2> QED  BY <1>4
<1>10. ASSUME NEW l \in L, l.tag = "mismatch" PROVE log.points[l.name] = Point(L, l)
  <2>1. PICK i \in D : lines[i] = l
    BY <1>2
  <2>2. \A j \in Declaring(lines) : lines[j].name = l.name => j = i
    BY <1>3, <1>5, <1>10, <2>1
  <2>3. i \in Declaring(lines)
    BY <1>3, <1>10, <2>1
  <2>4. {j \in Declaring(lines) : lines[j].name = l.name} = {i}
    BY <2>1, <2>2, <2>3
  <2>5. Max({i}) = i
    BY <1>1 DEF Max
  <2>6. \A j \in D : lines[j].tag = "cex" /\ lines[j].name = l.name => j > i
    <3> TAKE j \in D
    <3> HAVE lines[j].tag = "cex" /\ lines[j].name = l.name
    <3>1. PICK k \in Declaring(lines) : k < j /\ lines[k].name = lines[j].name
      BY <1>6
    <3> QED  BY <1>1, <2>2, <3>1
  <2> DEFINE after == {k \in D : lines[k].tag = "cex" /\ lines[k].name = l.name /\ k > i}
             vectors == {lines[k] : k \in after}
  <2>7. \A v : v \in vectors <=> v \in L /\ v.tag = "cex" /\ v.name = l.name
    <3>1. \A k : k \in after <=> k \in D /\ lines[k].tag = "cex" /\ lines[k].name = l.name
      BY <2>6
    <3> HIDE DEF after
    <3> QED  BY <1>2, <3>1
  <2>8. vectors = {v \in L : v.tag = "cex" /\ v.name = l.name}
    <3> HIDE DEF vectors
    <3> QED  BY <2>7
  <2>9. PointOf(lines, l.name) = [at |-> lines[i], vectors |-> vectors]
    BY <2>4, <2>5 DEF PointOf, D
  <2>10. l.name \in names
    BY <1>8, <1>10
  <2> HIDE DEF vectors, names
  <2> QED  BY <1>4, <2>1, <2>8, <2>9, <2>10 DEF Point
<1>11. log.deltas = {l \in L : l.tag = "config"}
  <2> DEFINE told == {lines[i] : i \in {i \in D : lines[i].tag = "config"}}
  <2>1. \A l : l \in told <=> l \in L /\ l.tag = "config"
    BY <1>2
  <2> HIDE DEF told
  <2>2. told = {l \in L : l.tag = "config"}
    BY <2>1
  <2> QED  BY <1>4, <2>2 DEF told
<1>12. \A k, l \in DOMAIN log.order : log.order[k] = log.order[l] => k = l
  <2>1. PICK at : /\ at \in [DOMAIN log.order -> Declaring(lines)]
                  /\ \A k \in DOMAIN log.order : log.order[k] = lines[at[k]].name
                  /\ \A k, l \in DOMAIN log.order : at[k] = at[l] => k = l
    BY LogOf DEF log
  <2> TAKE k, l \in DOMAIN log.order
  <2> HAVE log.order[k] = log.order[l]
  <2>2. at[k] \in Declaring(lines) /\ at[l] \in Declaring(lines) /\ lines[at[k]].name = lines[at[l]].name
    BY <2>1
  <2>3. at[k] = at[l]
    BY <1>3, <1>5, <2>2
  <2> QED  BY <2>1, <2>3
<1>13. \A n : n \in DOMAIN log.points <=> \E l \in L : l.tag = "mismatch" /\ l.name = n
  <2> HIDE DEF names
  <2> QED  BY <1>8, <1>9
<1>14. log.points = [n \in DOMAIN log.points |-> log.points[n]]
  BY <1>9
<1> HIDE DEF names
<1>15. LogTold(L, log)
  BY <1>7, <1>10, <1>11, <1>12, <1>13, <1>14 DEF LogTold
<1> QED  BY <1>15 DEF L, log

\* Two logs that tell the same, each point once, in whatever order.
Alike(log, other) ==
    /\ ReadLog(log) /\ ReadLog(other)
    /\ log.points = other.points /\ log.deltas = other.deltas
    /\ \A k, l \in DOMAIN log.order : log.order[k] = log.order[l] => k = l
    /\ \A k, l \in DOMAIN other.order : other.order[k] = other.order[l] => k = l

LEMMA AlikeLogs ==
    ASSUME NEW L, NEW log, NEW other, ReadLog(log), ReadLog(other),
           LogTold(L, log), LogTold(L, other)
    PROVE  Alike(log, other)
<1>1. DOMAIN log.points = DOMAIN other.points
  <2>1. \A n : n \in DOMAIN log.points <=> n \in DOMAIN other.points
    BY DEF LogTold
  <2> QED  BY <2>1
<1>2. \A n \in DOMAIN log.points : log.points[n] = other.points[n]
  BY DEF LogTold
<1>3. log.points = other.points
  <2>1. /\ log.points = [n \in DOMAIN log.points |-> log.points[n]]
        /\ other.points = [n \in DOMAIN other.points |-> other.points[n]]
    BY DEF LogTold
  <2> DEFINE p == log.points
             q == other.points
             D == DOMAIN log.points
  <2>2. p = [n \in D |-> p[n]] /\ q = [n \in D |-> q[n]] /\ \A n \in D : p[n] = q[n]
    BY <1>1, <1>2, <2>1
  <2> HIDE DEF p, q, D
  <2>3. p = q
    BY <2>2
  <2> QED  BY <2>3 DEF p, q
<1>4. log.deltas = other.deltas
  BY DEF LogTold
<1> QED  BY <1>3, <1>4 DEF Alike, LogTold

\* How many the values of a sequence are, none given twice.
LEMMA CountedOnce ==
    ASSUME NEW N, NEW s \in Seq(N), \A k, l \in DOMAIN s : s[k] = s[l] => k = l, NEW C
    PROVE  Cardinality({i \in DOMAIN s : s[i] \in C}) = Cardinality({n \in Range(s) : n \in C})
<1> DEFINE D == {i \in DOMAIN s : s[i] \in C}
           R == {n \in Range(s) : n \in C}
           f == [i \in D |-> s[i]]
<1>1. DOMAIN s = 1 .. Len(s) /\ Len(s) \in Nat /\ D \subseteq DOMAIN s
  OBVIOUS
<1>2. f \in [D -> R]
  BY DEF Range
<1>3. f \in Injection(D, R)
  BY <1>2 DEF Injection, IsInjective
<1>4. f \in Surjection(D, R)
  <2>1. \A n \in R : \E i \in D : s[i] = n
    BY DEF Range
  <2> HIDE DEF D, R
  <2> QED  BY <1>2, <2>1 DEF Surjection
<1>5. ExistsBijection(D, R)
  BY <1>3, <1>4 DEF ExistsBijection, Bijection
<1>6. IsFiniteSet(D)
  <2> DEFINE E == DOMAIN s
  <2>1. E = 1 .. Len(s) /\ D \subseteq E
    BY <1>1
  <2> HIDE DEF D, E
  <2>2. IsFiniteSet(E)
    BY <1>1, <2>1, FS_Interval
  <2> QED  BY <2>1, <2>2, FS_Subset
<1> HIDE DEF D, R
<1>7. Cardinality(D) = Cardinality(R)
  BY <1>5, <1>6, FS_Bijection
<1> QED  BY <1>7 DEF D, R

\* Groups of one signature in two logs that tell the same.
AlikeGroups(g, h) ==
    /\ Range(g.members) = Range(h.members) /\ g.cone = h.cone /\ g.kind = h.kind
    /\ (g.wref # 0 /\ g.wrev # 0 /\ g.wref # g.wrev) = (h.wref # 0 /\ h.wrev # 0 /\ h.wref # h.wrev)
    /\ \E N : g.members \in Seq(N) /\ h.members \in Seq(N)
    /\ \A k, l \in DOMAIN g.members : g.members[k] = g.members[l] => k = l
    /\ \A k, l \in DOMAIN h.members : h.members[k] = h.members[l] => k = l

\* The mismatches of one signature have one kind, and differ in width or do not.
LEMMA SignatureTells ==
    ASSUME NEW p, NEW q, Signature(p) = Signature(q)
    PROVE  /\ p.at.kind = q.at.kind
           /\ (p.at.wref # 0 /\ p.at.wrev # 0 /\ p.at.wref # p.at.wrev)
                = (q.at.wref # 0 /\ q.at.wrev # 0 /\ q.at.wref # q.at.wrev)
<1> DEFINE W(r) == r.at.wref # 0 /\ r.at.wrev # 0 /\ r.at.wref # r.at.wrev
           width(r) == IF W(r) THEN <<r.at.wref, r.at.wrev>> ELSE <<>>
           name(r) == StripIndex(r.at.name)
           differ(r) == {StripIndex(s) : s \in DiffSignals(r)}
           fanin(r) == {StripIndex(s) : s \in r.at.fanin}
<1>1. \A r : Signature(r) = <<r.at.kind, width(r), name(r), differ(r), fanin(r)>>
  BY DEF Signature
<1> HIDE DEF width, name, differ, fanin
<1>2. p.at.kind = q.at.kind /\ width(p) = width(q)
  <2>1. Signature(p)[1] = p.at.kind /\ Signature(q)[1] = q.at.kind
    BY <1>1
  <2>2. Signature(p)[2] = width(p) /\ Signature(q)[2] = width(q)
    BY <1>1
  <2> QED  BY <2>1, <2>2
<1>3. \A r : width(r) = <<>> <=> ~W(r)
  <2> TAKE r
  <2>1. CASE W(r)
    <3>1. width(r) = <<r.at.wref, r.at.wrev>>
      BY <2>1 DEF width
    <3> HIDE DEF W
    <3>2. width(r) # <<>>
      BY <3>1
    <3> QED  BY <2>1, <3>2
  <2>2. CASE ~W(r)
    BY <2>2 DEF width
  <2> QED  BY <2>1, <2>2
<1>4. W(p) <=> W(q)
  <2> HIDE DEF W
  <2> QED  BY <1>2, <1>3
<1>5. W(p) \in BOOLEAN /\ W(q) \in BOOLEAN
  OBVIOUS
<1> QED  BY <1>2, <1>4, <1>5

\* The members of a group, none twice if the order has none twice.
LEMMA MembersOnce ==
    ASSUME NEW log, NEW s, NEW g, GroupFormed(log, s, g),
           \A k, l \in DOMAIN log.order : log.order[k] = log.order[l] => k = l
    PROVE  \A k, l \in DOMAIN g.members : g.members[k] = g.members[l] => k = l
<1> DEFINE keep == Sharing(log, s)
<1>1. PICK at : PickedAt(log.order, keep, at)
  BY DEF GroupFormed
<1>2. g.members = Picked(log.order, keep)
  BY DEF GroupFormed
<1>3. \A i : i \in keep => i \in DOMAIN log.order
  BY DEF Sharing
<1> HIDE DEF keep
<1>4. /\ g.members = [m \in DOMAIN at |-> log.order[at[m]]] /\ at \in [DOMAIN at -> keep]
      /\ \A l, m \in DOMAIN at : at[l] = at[m] => l = m
  BY <1>1, <1>2 DEF PickedAt
<1>5. DOMAIN g.members = DOMAIN at /\ \A k \in DOMAIN at : g.members[k] = log.order[at[k]] /\ at[k] \in keep
  BY <1>4
<1> QED  BY <1>3, <1>4, <1>5

LEMMA AlikeGroupOf ==
    ASSUME NEW log, NEW other, Alike(log, other), NEW n \in DOMAIN log.points, NEW s,
           s = Signature(log.points[n])
    PROVE  AlikeGroups(GroupOfSignature(log, s), GroupOfSignature(other, s))
<1> DEFINE g == GroupOfSignature(log, s)
           h == GroupOfSignature(other, s)
           P == log.points
<1>1. /\ ReadLog(log) /\ ReadLog(other) /\ n \in DOMAIN other.points
      /\ s = Signature(other.points[n]) /\ other.points = P
      /\ \A k, l \in DOMAIN log.order : log.order[k] = log.order[l] => k = l
      /\ \A k, l \in DOMAIN other.order : other.order[k] = other.order[l] => k = l
  BY DEF Alike
<1>2. GroupFormed(log, s, g)
  BY <1>1, GroupOf
<1>3. GroupFormed(other, s, h)
  <2> HIDE DEF P
  <2> QED  BY <1>1, GroupOf
<1>4. /\ \A c : c \in g.cone <=> \E m \in Range(g.members) :
                       c \in P[m].at.fanin \cup DiffSignals(P[m])
      /\ g.kind = P[g.members[1]].at.kind
      /\ g.wref = P[g.members[1]].at.wref /\ g.wrev = P[g.members[1]].at.wrev
  BY ConeOf
<1>5. /\ \A c : c \in h.cone <=> \E m \in Range(h.members) :
                       c \in other.points[m].at.fanin \cup DiffSignals(other.points[m])
      /\ h.kind = other.points[h.members[1]].at.kind
      /\ h.wref = other.points[h.members[1]].at.wref
      /\ h.wrev = other.points[h.members[1]].at.wrev
  BY ConeOf
<1>6. g.cone = UNION {log.points[m].at.fanin \cup DiffSignals(log.points[m]) : m \in Range(g.members)}
  <2> DEFINE U == UNION {log.points[m].at.fanin \cup DiffSignals(log.points[m]) : m \in Range(g.members)}
  <2>1. g.cone = UNION {p.at.fanin \cup DiffSignals(p) : p \in {log.points[m] : m \in Range(g.members)}}
    BY DEF GroupOfSignature
  <2> HIDE DEF g
  <2> QED  BY <2>1
<1>7. h.cone = UNION {other.points[m].at.fanin \cup DiffSignals(other.points[m]) : m \in Range(h.members)}
  <2>1. h.cone = UNION {p.at.fanin \cup DiffSignals(p) : p \in {other.points[m] : m \in Range(h.members)}}
    BY DEF GroupOfSignature
  <2> HIDE DEF h
  <2> QED  BY <2>1
<1> HIDE DEF g, h, P
<1>8. Range(g.members) = Range(h.members)
  <2>1. \A m : m \in Range(g.members) <=> m \in DOMAIN P /\ Signature(P[m]) = s
    BY <1>2 DEF GroupFormed, P
  <2>2. \A m : m \in Range(h.members) <=> m \in DOMAIN P /\ Signature(P[m]) = s
    BY <1>1, <1>3 DEF GroupFormed
  <2> QED  BY <2>1, <2>2
<1>9. g.cone = h.cone
  BY <1>1, <1>6, <1>7, <1>8 DEF P
<1>10. Signature(P[g.members[1]]) = Signature(P[h.members[1]])
  BY <1>1, <1>2, <1>3 DEF GroupFormed, P
<1> DEFINE p == P[g.members[1]]
           q == P[h.members[1]]
<1>11. /\ g.kind = p.at.kind /\ g.wref = p.at.wref /\ g.wrev = p.at.wrev
       /\ h.kind = q.at.kind /\ h.wref = q.at.wref /\ h.wrev = q.at.wrev /\ Signature(p) = Signature(q)
  BY <1>1, <1>4, <1>5, <1>10
<1> HIDE DEF p, q
<1>12. /\ p.at.kind = q.at.kind
       /\ (p.at.wref # 0 /\ p.at.wrev # 0 /\ p.at.wref # p.at.wrev)
            = (q.at.wref # 0 /\ q.at.wrev # 0 /\ q.at.wref # q.at.wrev)
  BY <1>11, SignatureTells
<1>13. g.members \in Seq(DOMAIN P) /\ h.members \in Seq(DOMAIN P)
  BY <1>1, <1>2, <1>3 DEF GroupFormed, P
<1>14. /\ \A k, l \in DOMAIN g.members : g.members[k] = g.members[l] => k = l
       /\ \A k, l \in DOMAIN h.members : h.members[k] = h.members[l] => k = l
  <2>1. \A k, l \in DOMAIN g.members : g.members[k] = g.members[l] => k = l
    BY <1>1, <1>2, MembersOnce
  <2>2. \A k, l \in DOMAIN h.members : h.members[k] = h.members[l] => k = l
    BY <1>1, <1>3, MembersOnce
  <2> QED  BY <2>1, <2>2
<1>15. AlikeGroups(g, h)
  BY <1>8, <1>9, <1>11, <1>12, <1>13, <1>14 DEF AlikeGroups
<1> QED  BY <1>15 DEF g, h

\* Calls that differ in their lines only.
SameCall(x, y) ==
    /\ x.ref = y.ref /\ x.rev = y.rev /\ x.enables = y.enables /\ x.resetlike = y.resetlike
    /\ x.status = y.status

LEMMA CausesAlike ==
    ASSUME NEW x, NEW y, SameCall(x, y), NEW log, NEW other, Alike(log, other),
           NEW g, NEW h, AlikeGroups(g, h)
    PROVE  ClassifyCauses(x, log, g) = ClassifyCauses(y, other, h)
<1>1. CompareReset(x) = CompareReset(y)
  BY DEF CompareReset, SameCall
<1>2. MismatchAtTimeZero(log, g) = MismatchAtTimeZero(other, h)
  BY DEF MismatchAtTimeZero, Alike, AlikeGroups
<1>3. InvertedCex(log, g) = InvertedCex(other, h)
  BY DEF InvertedCex, Alike, AlikeGroups
<1>4. Gating(x, g) = Gating(y, h)
  BY DEF Gating, SameCall, AlikeGroups
<1>5. StateEncodingDiffers(x, g) = StateEncodingDiffers(y, h)
  BY DEF StateEncodingDiffers, SameCall, AlikeGroups
<1>6. Deltas(log) = Deltas(other)
  BY DEF Deltas, Alike
<1>7. (\E s \in g.cone : StripIndex(s) \in x.resetlike) = (\E s \in h.cone : StripIndex(s) \in y.resetlike)
  BY DEF SameCall, AlikeGroups
<1> DEFINE cause(c, confidence) == [category |-> c, confidence |-> confidence]
           found(z, l, k) ==
            (IF k.wref # 0 /\ k.wrev # 0 /\ k.wref # k.wrev THEN {cause("width", 90)} ELSE {})
            \cup (IF InvertedCex(l, k) THEN {cause("polarity", 75)}
                  ELSE IF CompareReset(z).polarity /\ (\E s \in k.cone : StripIndex(s) \in z.resetlike)
                       THEN {cause("polarity", 60)} ELSE {})
            \cup (IF Gating(z, k) # {} THEN {cause("gating", 55)} ELSE {})
            \cup (IF CompareReset(z).polarity \/ CompareReset(z).sync
                     \/ (CompareReset(z).init # {} /\ MismatchAtTimeZero(l, k))
                    THEN {cause("reset_init", IF MismatchAtTimeZero(l, k) THEN 60 ELSE 40)} ELSE {})
            \cup (IF StateEncodingDiffers(z, k) THEN {cause("state_encoding", 65)} ELSE {})
            \cup (IF Deltas(l) # {} THEN {cause("config_constraint", 50)} ELSE {})
<1>8. \A z, l, k : ClassifyCauses(z, l, k) =
          IF found(z, l, k) # {} THEN found(z, l, k)
          ELSE IF k.kind \in {"state", "cutpoint"} THEN {cause("optimization", 35)}
          ELSE {cause("unknown", 20)}
  BY DEF ClassifyCauses
<1> HIDE DEF cause
<1>9. found(x, log, g) = found(y, other, h)
  <2>1. (g.wref # 0 /\ g.wrev # 0 /\ g.wref # g.wrev) = (h.wref # 0 /\ h.wrev # 0 /\ h.wref # h.wrev)
    BY DEF AlikeGroups
  <2> QED  BY <1>1, <1>2, <1>3, <1>4, <1>5, <1>6, <1>7, <2>1
<1> HIDE DEF found
<1> QED  BY <1>8, <1>9 DEF AlikeGroups

LEMMA LocationsAlike ==
    ASSUME NEW x, NEW y, SameCall(x, y), NEW log, NEW other, Alike(log, other),
           NEW g, NEW h, AlikeGroups(g, h)
    PROVE  RankLocations(x, log, g) = RankLocations(y, other, h)
<1>1. Signals(log, g) = Signals(other, h)
  BY DEF Signals, Alike, AlikeGroups
<1>2. ASSUME NEW s, NEW d PROVE PlaceScore(x, log, g, s, d) = PlaceScore(y, other, h, s, d)
  <2> DEFINE C == {n \in Range(g.members) : ComparedSignal(log.points[n], d) = s}
  <2>1. PICK N : g.members \in Seq(N) /\ h.members \in Seq(N)
    BY DEF AlikeGroups
  <2>2. Hits(log, g, s, d) = {i \in DOMAIN g.members : g.members[i] \in C}
    BY DEF Hits, Range
  <2>3. Hits(other, h, s, d) = {i \in DOMAIN h.members : h.members[i] \in C}
    <3>1. C = {n \in Range(h.members) : ComparedSignal(other.points[n], d) = s}
      BY DEF Alike, AlikeGroups
    <3> HIDE DEF C
    <3> QED  BY <3>1 DEF Hits, Range
  <2> HIDE DEF C
  <2>4. Cardinality(Hits(log, g, s, d)) = Cardinality({n \in Range(g.members) : n \in C})
    <3>1. \A k, l \in DOMAIN g.members : g.members[k] = g.members[l] => k = l
      BY DEF AlikeGroups
    <3> DEFINE members == g.members
    <3>2. members \in Seq(N) /\ \A k, l \in DOMAIN members : members[k] = members[l] => k = l
      BY <2>1, <3>1
    <3> HIDE DEF members
    <3>3. Cardinality({i \in DOMAIN members : members[i] \in C}) = Cardinality({n \in Range(members) : n \in C})
      BY <3>2, CountedOnce
    <3> QED  BY <2>2, <3>3 DEF members
  <2>5. Cardinality(Hits(other, h, s, d)) = Cardinality({n \in Range(h.members) : n \in C})
    <3>1. \A k, l \in DOMAIN h.members : h.members[k] = h.members[l] => k = l
      BY DEF AlikeGroups
    <3> DEFINE members == h.members
    <3>2. members \in Seq(N) /\ \A k, l \in DOMAIN members : members[k] = members[l] => k = l
      BY <2>1, <3>1
    <3> HIDE DEF members
    <3>3. Cardinality({i \in DOMAIN members : members[i] \in C}) = Cardinality({n \in Range(members) : n \in C})
      BY <3>2, CountedOnce
    <3> QED  BY <2>3, <3>3 DEF members
  <2>6. Cardinality(Hits(log, g, s, d)) = Cardinality(Hits(other, h, s, d))
    BY <2>4, <2>5 DEF AlikeGroups
  <2>7. Gating(x, g) = Gating(y, h)
    BY DEF Gating, SameCall, AlikeGroups
  <2>8. g.cone = h.cone
    BY DEF AlikeGroups
  <2> QED  BY <2>6, <2>7, <2>8 DEF PlaceScore
<1>3. \A l : l \in RankLocations(x, log, g) <=> l \in RankLocations(y, other, h)
  <2>1. \A l : l \in RankLocations(x, log, g) <=>
              \E s \in Signals(log, g), d \in Designs :
                 /\ l = [signal |-> s, design |-> d, score |-> PlaceScore(x, log, g, s, d)]
                 /\ PlaceScore(x, log, g, s, d) > 0
    BY LocationsOf
  <2>2. \A l : l \in RankLocations(y, other, h) <=>
              \E s \in Signals(other, h), d \in Designs :
                 /\ l = [signal |-> s, design |-> d, score |-> PlaceScore(y, other, h, s, d)]
                 /\ PlaceScore(y, other, h, s, d) > 0
    BY LocationsOf
  <2> QED  BY <1>1, <1>2, <2>1, <2>2
<1>4. \A l \in RankLocations(x, log, g) : l \in RankLocations(y, other, h)
  BY <1>3
<1>5. \A l \in RankLocations(y, other, h) : l \in RankLocations(x, log, g)
  BY <1>3
<1> QED  BY <1>4, <1>5

\* A told group without the order of its members.
Plain(t) == [t EXCEPT !.members = Range(@)]

LEMMA PlainTold ==
    ASSUME NEW x, NEW log, NEW g
    PROVE  Plain(Told(x, log, g)) =
             [members |-> Range(g.members), cone |-> g.cone,
              causes |-> ClassifyCauses(x, log, g), locations |-> RankLocations(x, log, g)]
BY DEF Plain, Told

LEMMA PlainAlike ==
    ASSUME NEW x, NEW y, SameCall(x, y), NEW log, NEW other, Alike(log, other),
           NEW g, NEW h, AlikeGroups(g, h)
    PROVE  Plain(Told(x, log, g)) = Plain(Told(y, other, h))
<1>1. ClassifyCauses(x, log, g) = ClassifyCauses(y, other, h)
  BY CausesAlike
<1>2. RankLocations(x, log, g) = RankLocations(y, other, h)
  BY LocationsAlike
<1>3. Plain(Told(x, log, g)) =
        [members |-> Range(g.members), cone |-> g.cone,
         causes |-> ClassifyCauses(x, log, g), locations |-> RankLocations(x, log, g)]
  BY PlainTold
<1>4. Plain(Told(y, other, h)) =
        [members |-> Range(h.members), cone |-> h.cone,
         causes |-> ClassifyCauses(y, other, h), locations |-> RankLocations(y, other, h)]
  BY PlainTold
<1> QED  BY <1>1, <1>2, <1>3, <1>4 DEF AlikeGroups

\* As many mismatches in logs that tell the same.
LEMMA AllCounted ==
    ASSUME NEW P, NEW s \in Seq(P), \A k, l \in DOMAIN s : s[k] = s[l] => k = l
    PROVE  (\A n \in P : \E i \in DOMAIN s : s[i] = n) => Len(s) = Cardinality(P)
<1>1. Cardinality({i \in DOMAIN s : s[i] \in P}) = Cardinality({n \in Range(s) : n \in P})
  BY CountedOnce
<1> HAVE \A n \in P : \E i \in DOMAIN s : s[i] = n
<1>2. {n \in Range(s) : n \in P} = P
  BY DEF Range
<1> DEFINE D == DOMAIN s
<1>3. D = 1 .. Len(s) /\ Len(s) \in Nat
  OBVIOUS
<1>4. {i \in D : s[i] \in P} = D
  <2>1. \A i \in D : s[i] \in P
    OBVIOUS
  <2> HIDE DEF D
  <2> QED  BY <2>1
<1> HIDE DEF D
<1>5. Cardinality(D) = Len(s)
  BY <1>3, FS_Interval
<1> QED  BY <1>1, <1>2, <1>4, <1>5 DEF D

LEMMA OrderAlike ==
    ASSUME NEW log, NEW other, Alike(log, other)
    PROVE  Len(log.order) = Len(other.order)
<1> DEFINE P == DOMAIN log.points
<1>2. /\ log.order \in Seq(P) /\ Range(log.order) = P
      /\ other.order \in Seq(P) /\ Range(other.order) = P
  BY DEF Alike, ReadLog
<1>3. /\ \A k, l \in DOMAIN log.order : log.order[k] = log.order[l] => k = l
      /\ \A k, l \in DOMAIN other.order : other.order[k] = other.order[l] => k = l
      /\ \A n \in P : \E i \in DOMAIN log.order : log.order[i] = n
      /\ \A n \in P : \E i \in DOMAIN other.order : other.order[i] = n
  BY <1>2 DEF Alike, Range
<1> HIDE DEF P
<1>4. Len(log.order) = Cardinality(P)
  BY <1>2, <1>3, AllCounted
<1>5. Len(other.order) = Cardinality(P)
  BY <1>2, <1>3, AllCounted
<1> QED  BY <1>4, <1>5

\* The groups of reports of logs that tell the same, but for the order of members.
LEMMA GroupsAlike ==
    ASSUME NEW x, NEW y, SameCall(x, y), NEW log, NEW other, Alike(log, other),
           NEW q, NEW r, ReportFormed(x, log, q), ReportFormed(y, other, r)
    PROVE  \A t \in q.groups : \E u \in r.groups : Plain(t) = Plain(u)
<1>1. \A t : t \in q.groups <=> \E n \in Range(log.order) :
                t = Told(x, log, GroupOfSignature(log, Signature(log.points[n])))
  BY DEF ReportFormed
<1>2. \A t : t \in r.groups <=> \E n \in Range(other.order) :
                t = Told(y, other, GroupOfSignature(other, Signature(other.points[n])))
  BY DEF ReportFormed
<1>3. Range(log.order) = DOMAIN log.points /\ Range(other.order) = DOMAIN log.points /\ other.points = log.points
  BY DEF Alike, ReadLog
<1> TAKE t \in q.groups
<1>4. PICK n \in DOMAIN log.points : t = Told(x, log, GroupOfSignature(log, Signature(log.points[n])))
  BY <1>1, <1>3
<1> DEFINE s == Signature(log.points[n])
           g == GroupOfSignature(log, s)
           h == GroupOfSignature(other, s)
<1>5. AlikeGroups(g, h)
  BY AlikeGroupOf
<1>6. Told(y, other, h) \in r.groups
  BY <1>2, <1>3
<1> HIDE DEF g, h
<1>7. Plain(Told(x, log, g)) = Plain(Told(y, other, h))
  BY <1>5, PlainAlike
<1> QED  BY <1>4, <1>6, <1>7 DEF g

LEMMA PlainKeepsCauses ==
    ASSUME NEW x, NEW log, NEW r, ReportFormed(x, log, r), NEW y, NEW other, NEW q, ReportFormed(y, other, q),
           NEW t \in r.groups, NEW u \in q.groups, Plain(t) = Plain(u)
    PROVE  t.causes = u.causes
<1>1. PICK g : t = Told(x, log, g)
  BY DEF ReportFormed
<1>2. PICK h : u = Told(y, other, h)
  BY DEF ReportFormed
<1>3. Plain(Told(x, log, g)).causes = ClassifyCauses(x, log, g)
  BY PlainTold
<1>4. Plain(Told(y, other, h)).causes = ClassifyCauses(y, other, h)
  BY PlainTold
<1>5. t.causes = ClassifyCauses(x, log, g) /\ u.causes = ClassifyCauses(y, other, h)
  BY <1>1, <1>2 DEF Told
<1> QED  BY <1>1, <1>2, <1>3, <1>4, <1>5

LEMMA SameCallBack ==
    ASSUME NEW x, NEW y, SameCall(x, y), NEW log, NEW other, Alike(log, other)
    PROVE  SameCall(y, x) /\ Alike(other, log)
<1>1. SameCall(y, x)
  BY DEF SameCall
<1>2. Alike(other, log)
  BY DEF Alike
<1> QED  BY <1>1, <1>2

\* A report with other groups.
LEMMA GroupsPut ==
    ASSUME NEW b, NEW s, NEW m, NEW d, NEW g, NEW w, NEW n, NEW f, NEW r,
           r = [parsed |-> b, status |-> s, mismatches |-> m, deltas |-> d, groups |-> g,
                warnings |-> w, steps |-> n]
    PROVE  [r EXCEPT !.groups = f]
             = [parsed |-> b, status |-> s, mismatches |-> m, deltas |-> d, groups |-> f,
                warnings |-> w, steps |-> n]
OBVIOUS

LEMMA ReportsAlike ==
    ASSUME NEW x, NEW y, SameCall(x, y), NEW log, NEW other, Alike(log, other),
           NEW q, NEW r, ReportFormed(x, log, q), ReportFormed(y, other, r)
    PROVE  Unordered(q) = Unordered(r)
<1>1. \A t \in q.groups : \E u \in r.groups : Plain(t) = Plain(u)
  BY GroupsAlike
<1>2. \A u \in r.groups : \E t \in q.groups : Plain(u) = Plain(t)
  <2>1. SameCall(y, x) /\ Alike(other, log)
    BY SameCallBack
  <2> QED  BY <2>1, GroupsAlike
<1>3. {Plain(t) : t \in q.groups} = {Plain(t) : t \in r.groups}
  BY <1>1, <1>2
<1>4. (\E t \in q.groups : \E c \in t.causes : c.category \in {"reset_init", "polarity"})
        = (\E t \in r.groups : \E c \in t.causes : c.category \in {"reset_init", "polarity"})
  <2>1. \A t \in q.groups : \E u \in r.groups : t.causes = u.causes
    BY <1>1, PlainKeepsCauses
  <2>2. \A u \in r.groups : \E t \in q.groups : t.causes = u.causes
    <3> TAKE u \in r.groups
    <3>1. PICK t \in q.groups : Plain(u) = Plain(t)
      BY <1>2
    <3>2. u.causes = t.causes
      BY <3>1, PlainKeepsCauses
    <3> QED  BY <3>2
  <2> QED  BY <2>1, <2>2
<1>5. Deltas(log) = Deltas(other) /\ log.deltas = other.deltas
  BY DEF Deltas, Alike
<1>6. NextSteps(log, q.groups) = NextSteps(other, r.groups)
  BY <1>4, <1>5 DEF NextSteps
<1>7. Warnings(x, log) = Warnings(y, other)
  BY <1>5 DEF Warnings, SameCall
<1>8. Len(log.order) = Len(other.order) /\ x.status = y.status
  BY OrderAlike DEF SameCall
<1>9. q = [parsed |-> TRUE, status |-> x.status, mismatches |-> Len(log.order),
           deltas |-> log.deltas, groups |-> q.groups, warnings |-> Warnings(x, log),
           steps |-> NextSteps(log, q.groups)]
  BY DEF ReportFormed
<1>10. r = [parsed |-> TRUE, status |-> y.status, mismatches |-> Len(other.order),
            deltas |-> other.deltas, groups |-> r.groups, warnings |-> Warnings(y, other),
            steps |-> NextSteps(other, r.groups)]
  BY DEF ReportFormed
<1> DEFINE yes == TRUE
           rest(f) == [parsed |-> yes, status |-> x.status, mismatches |-> Len(log.order),
                       deltas |-> log.deltas, groups |-> f, warnings |-> Warnings(x, log),
                       steps |-> NextSteps(log, q.groups)]
<1>11. q = rest(q.groups) /\ r = rest(r.groups)
  BY <1>5, <1>6, <1>7, <1>8, <1>9, <1>10
<1> HIDE DEF yes
<1>12. ASSUME NEW p, p = rest(p.groups)
       PROVE  Unordered(p) = rest({Plain(t) : t \in p.groups})
  <2> DEFINE bare == {Plain(t) : t \in p.groups}
  <2>1. Unordered(p) = [p EXCEPT !.groups = bare]
    BY DEF Unordered, Plain
  <2> HIDE DEF bare
  <2>2. [p EXCEPT !.groups = bare] = rest(bare)
    BY <1>12, GroupsPut
  <2> QED  BY <2>1, <2>2 DEF bare
<1> HIDE DEF rest
<1> QED  BY <1>3, <1>11, <1>12

LEMMA LinesInAnyOrderOf ==
    ASSUME NEW x \in EquivalenceRuns, input = x, Report = EquivalenceReportOf(x)
    PROVE  LinesInAnyOrder
<1> DEFINE swapped(i) == [x EXCEPT !.lines = SwappedLines(@, i)]
<1>1. SUFFICES ASSUME NEW i \in 1 .. (Len(x.lines) - 1), WellOrdered(x.lines),
                      WellOrdered(SwappedLines(x.lines, i))
               PROVE  Unordered(EquivalenceReportOf(swapped(i))) = Unordered(EquivalenceReportOf(x))
  BY DEF LinesInAnyOrder
<1> DEFINE y == swapped(i)
           T == Range(x.lines)
<1>2. x.lines \in Seq(T)
  BY EquivalenceAssumption
<1>3. y.lines = SwappedLines(x.lines, i) /\ SameCall(x, y)
  <2>1. x = [lines |-> x.lines, status |-> x.status, ref |-> x.ref, rev |-> x.rev,
             enables |-> x.enables, resetlike |-> x.resetlike]
    BY EquivalenceAssumption
  <2> DEFINE other == SwappedLines(x.lines, i)
             made == [lines |-> other, status |-> x.status, ref |-> x.ref, rev |-> x.rev,
                      enables |-> x.enables, resetlike |-> x.resetlike]
  <2>2. y = [x EXCEPT !.lines = other]
    OBVIOUS
  <2> HIDE DEF other
  <2>3. y = made
    BY <2>1, <2>2
  <2> HIDE DEF y
  <2> QED  BY <2>3 DEF SameCall, other
<1> HIDE DEF y
<1>4. SwappedLines(x.lines, i) \in Seq(T) /\ Range(SwappedLines(x.lines, i)) = T
  <2> HIDE DEF T
  <2>1. Range(SwappedLines(x.lines, i)) = Range(x.lines)
    BY <1>2, SwappedSame
  <2> QED  BY <1>2, <2>1, SwappedSame DEF T
<1> DEFINE log == ParseLog(x.lines)
           other == ParseLog(y.lines)
<1>5. LogTold(T, log) /\ LogTold(T, other)
  <2>1. LogTold(T, log)
    BY <1>1, <1>2, WellOrderedLog
  <2>2. LogTold(Range(SwappedLines(x.lines, i)), ParseLog(SwappedLines(x.lines, i)))
    BY <1>1, <1>4, WellOrderedLog
  <2> QED  BY <1>3, <1>4, <2>1, <2>2
<1>6. ReadLog(log) /\ ReadLog(other)
  <2>1. ReadLog(log)
    BY <1>2, LogOf DEF ReadLog
  <2>2. ReadLog(other)
    <3>1. y.lines \in Seq(T)
      BY <1>3, <1>4
    <3> QED  BY <3>1, LogOf DEF ReadLog
  <2> QED  BY <2>1, <2>2
<1>7. log.parsed /\ other.parsed
  BY <1>5 DEF LogTold
<1>8. ReportFormed(x, log, EquivalenceReportOf(x)) /\ ReportFormed(y, other, EquivalenceReportOf(y))
  BY <1>7, ReportForm
<1> HIDE DEF log, other, T
<1>9. Alike(log, other)
  BY <1>5, <1>6, AlikeLogs
<1> QED  BY <1>3, <1>8, <1>9, ReportsAlike DEF y

\* A report says the same whatever the order of the lines, groups every mismatch once,
\* shows compared places first, and tells a difference of configurations.
THEOREM EquivalenceSoundAlways == EquivalenceSpec => []EquivalenceSound
<1>1. EquivalenceInv => EquivalenceSound
  <2> SUFFICES ASSUME EquivalenceInv, Reported("eq-triage"), Report.parsed PROVE EquivalenceSound
    BY DEF EquivalenceSound
  <2>1. PICK x \in EquivalenceRuns : input = x /\ reports \in {{}, {EquivalenceReportOf(x)}}
    BY DEF EquivalenceInv
  <2>2. reports = {EquivalenceReportOf(x)}
    BY <2>1 DEF Reported
  <2>3. Report = EquivalenceReportOf(x)
    BY <2>2 DEF Report
  <2>4. ParseLog(x.lines).parsed
    BY <2>3 DEF EquivalenceReportOf
  <2>5. LinesInAnyOrder
    BY <2>1, <2>3, LinesInAnyOrderOf
  <2>6. MismatchesAllGrouped
    BY <2>3, <2>4, AllGroupedOf
  <2>7. ComparedFirst
    BY <2>1, <2>3, <2>4, ComparedFirstOf
  <2>8. Report.status = input.status
    <3> DEFINE log == ParseLog(x.lines)
               r == EquivalenceReportOf(x)
    <3>1. ReportFormed(x, log, r)
      BY <2>4, ReportForm
    <3> HIDE DEF log, r
    <3>2. r.status = x.status
      BY <3>1 DEF ReportFormed
    <3> QED  BY <2>1, <2>3, <3>2 DEF r
  <2>9. (\E d \in Report.deltas : d.ref # d.rev) =>
              /\ "config" \in Report.warnings /\ Report.steps[1] = "reconcile config"
              /\ \A g \in Report.groups : \E c \in g.causes : c.category = "config_constraint"
    BY <2>3, <2>4, ConfigurationTold
  <2> QED  BY <2>5, <2>6, <2>7, <2>8, <2>9 DEF EquivalenceSound
<1> QED  BY <1>1, EquivalenceInvariant, PTL

-----------------------------------------------------------------------------
(***************************************************************************)
(* The findings about a ledger                                             *)
(***************************************************************************)

\* Two lines that tell the same, but for the time of a run without a conclusion.
SameRun(a, b) ==
    /\ a.run_id = b.run_id /\ a.benchmark = b.benchmark /\ a.config = b.config
    /\ a.design = b.design /\ a.property = b.property /\ a.catalog = b.catalog
    /\ a.seed = b.seed /\ a.start = b.start /\ a.memory = b.memory
    /\ a.return_code = b.return_code /\ a.status = b.status
    /\ RunConclusive(b) => a.wall = b.wall

\* p takes each of some lines to one of others, and leaves none out.
Carries(p, D, E) ==
    /\ IsFiniteSet(D) /\ p \in [D -> E]
    /\ \A i, j \in D : p[i] = p[j] => i = j
    /\ \A k \in E : \E i \in D : p[i] = k

\* p takes every line of one ledger to a line of another that tells the same.
Retold(o, l, p) ==
    /\ Carries(p, DOMAIN o, DOMAIN l)
    /\ \A i \in DOMAIN o : SameRun(o[i], l[p[i]])

\* A group of runs of one ledger, and the same runs in the other.
SameGroup(p, D, E, S, T) ==
    /\ S \in SUBSET D /\ T \in SUBSET E
    /\ \A i \in D : i \in S <=> p[i] \in T

LEMMA SameCount ==
    ASSUME NEW D, NEW E, NEW p, Carries(p, D, E), NEW S, NEW T, SameGroup(p, D, E, S, T)
    PROVE  /\ Cardinality(S) = Cardinality(T) /\ IsFiniteSet(S) /\ IsFiniteSet(T)
           /\ Cardinality(S) \in Nat
<1> DEFINE f == [i \in S |-> p[i]]
<1>1. f \in [S -> T]
  BY DEF SameGroup
<1>2. \A i, j \in S : f[i] = f[j] => i = j
  BY DEF SameGroup, Carries
<1>3. \A k \in T : \E i \in S : f[i] = k
  BY DEF SameGroup, Carries
<1> HIDE DEF f
<1>4. f \in Bijection(S, T)
  BY <1>1, <1>2, <1>3 DEF Bijection, Injection, Surjection, IsInjective
<1>5. IsFiniteSet(S)
  BY FS_Subset DEF SameGroup, Carries
<1> QED  BY <1>4, <1>5, FS_Bijection, FS_CardinalityType DEF ExistsBijection

LEMMA SameFinding ==
    ASSUME NEW o, NEW l, NEW p, Retold(o, l, p),
           NEW S, NEW T, SameGroup(p, DOMAIN o, DOMAIN l, S, T),
           NEW kind, NEW about, NEW severity, NEW priority
    PROVE  Finding(o, kind, about, severity, S, priority) = Finding(l, kind, about, severity, T, priority)
<1>1. \A i \in S : p[i] \in T /\ o[i].run_id = l[p[i]].run_id
  BY DEF SameGroup, Retold, SameRun
<1>2. \A k \in T : \E i \in S : p[i] = k
  BY DEF SameGroup, Carries, Retold
<1>3. {o[i].run_id : i \in S} = {l[i].run_id : i \in T}
  BY <1>1, <1>2
<1> QED  BY <1>3 DEF Finding

\* Findings, one for each of some things, that are the same for each of the same things.
LEMMA SameSet ==
    ASSUME NEW K, NEW L, NEW f, NEW g, \A k : k \in K <=> k \in L, \A k \in K : f[k] = g[k]
    PROVE  {f[k] : k \in K} = {g[k] : k \in L}
OBVIOUS

LEMMA SameClusters ==
    ASSUME NEW o, NEW l, NEW p, Retold(o, l, p), NEW kind, NEW status, NEW weight,
           NEW ko, NEW kl, \A i \in DOMAIN o : ko[i] = kl[p[i]]
    PROVE  Clusters(o, kind, status, ko, weight) = Clusters(l, kind, status, kl, weight)
<1> DEFINE D == DOMAIN o
           E == DOMAIN l
           R == {i \in DOMAIN o : o[i].status = status}
           Q == {i \in DOMAIN l : l[i].status = status}
           S(k) == Agreeing(R, ko, k)
           T(k) == Agreeing(Q, kl, k)
           F(k) == Finding(o, kind, k, ClusterSeverity(S(k)), S(k), weight * Cardinality(S(k)))
           G(k) == Finding(l, kind, k, ClusterSeverity(T(k)), T(k), weight * Cardinality(T(k)))
           K == {k \in {ko[i] : i \in R} : Cardinality(S(k)) >= MinClusterSize}
           L == {k \in {kl[i] : i \in Q} : Cardinality(T(k)) >= MinClusterSize}
<1>1. Carries(p, D, E) /\ \A i \in D : o[i].status = l[p[i]].status
  BY DEF Retold, SameRun
<1>2. SameGroup(p, D, E, R, Q)
  BY <1>1 DEF Carries, SameGroup
<1>3. {ko[i] : i \in R} = {kl[i] : i \in Q}
  <2>1. \A i \in R : ko[i] = kl[p[i]] /\ p[i] \in Q
    BY <1>2 DEF SameGroup
  <2>2. \A k \in Q : \E i \in R : p[i] = k
    BY <1>1, <1>2 DEF SameGroup, Carries
  <2> HIDE DEF R, Q
  <2> QED  BY <2>1, <2>2
<1>4. ASSUME NEW k PROVE SameGroup(p, D, E, S(k), T(k))
  <2> HIDE DEF R, Q
  <2> QED  BY <1>2 DEF SameGroup, Agreeing
<1>5. ASSUME NEW k PROVE Cardinality(S(k)) = Cardinality(T(k)) /\ F(k) = G(k)
  <2>1. SameGroup(p, D, E, S(k), T(k))
    BY <1>4
  <2> HIDE DEF S, T
  <2>2. Cardinality(S(k)) = Cardinality(T(k))
    BY <1>1, <2>1, SameCount
  <2>3. F(k) = G(k)
    BY <2>1, <2>2, SameFinding DEF ClusterSeverity
  <2> QED  BY <2>2, <2>3
<1>6. Clusters(o, kind, status, ko, weight) = {F(k) : k \in K}
  BY DEF Clusters
<1>7. Clusters(l, kind, status, kl, weight) = {G(k) : k \in L}
  BY DEF Clusters
<1>8. K = L
  <2> HIDE DEF S, T, R, Q
  <2> QED  BY <1>3, <1>5
<1> HIDE DEF F, G, K, L
<1> QED  BY <1>5, <1>6, <1>7, <1>8

LEMMA SameFailures ==
    ASSUME NEW o, NEW l, NEW p, Retold(o, l, p)
    PROVE  FailureClusters(o) = FailureClusters(l) /\ TimeoutClusters(o) = TimeoutClusters(l)
<1> DEFINE ko == [i \in DOMAIN o |-> <<o[i].property, o[i].return_code>>]
           kl == [i \in DOMAIN l |-> <<l[i].property, l[i].return_code>>]
           co == [i \in DOMAIN o |-> <<o[i].config>>]
           cl == [i \in DOMAIN l |-> <<l[i].config>>]
<1>1. \A i \in DOMAIN o : /\ p[i] \in DOMAIN l /\ o[i].property = l[p[i]].property
                         /\ o[i].return_code = l[p[i]].return_code /\ o[i].config = l[p[i]].config
  BY DEF Retold, SameRun, Carries
<1>2. \A i \in DOMAIN o : ko[i] = kl[p[i]] /\ co[i] = cl[p[i]]
  BY <1>1
<1>3. /\ FailureClusters(o) = Clusters(o, "failure_cluster", "FAIL", ko, 20)
      /\ FailureClusters(l) = Clusters(l, "failure_cluster", "FAIL", kl, 20)
      /\ TimeoutClusters(o) = Clusters(o, "timeout_cluster", "TIMEOUT", co, 25)
      /\ TimeoutClusters(l) = Clusters(l, "timeout_cluster", "TIMEOUT", cl, 25)
  BY DEF FailureClusters, TimeoutClusters
<1> HIDE DEF ko, kl, co, cl
<1>4. Clusters(o, "failure_cluster", "FAIL", ko, 20) = Clusters(l, "failure_cluster", "FAIL", kl, 20)
  BY <1>2, SameClusters
<1>5. Clusters(o, "timeout_cluster", "TIMEOUT", co, 25) = Clusters(l, "timeout_cluster", "TIMEOUT", cl, 25)
  BY <1>2, SameClusters
<1> QED  BY <1>3, <1>4, <1>5

LEMMA SameDuplicates ==
    ASSUME NEW o, NEW l, NEW p, Retold(o, l, p)
    PROVE  DuplicateJobs(o) = DuplicateJobs(l)
<1> DEFINE D == DOMAIN o
           E == DOMAIN l
           S(f) == SameInputs(o, f)
           T(f) == SameInputs(l, f)
           seeds(f) == {o[i].seed : i \in S(f)}
           sown(f) == {l[i].seed : i \in T(f)}
           XO(f) == ExactDuplicates(o, S(f))
           XL(f) == ExactDuplicates(l, T(f))
           near(f) == Cardinality(S(f)) - Cardinality(seeds(f))
           nigh(f) == Cardinality(T(f)) - Cardinality(sown(f))
           F(f) == Finding(o, "duplicate_jobs", f, IF XO(f) # {} THEN "medium" ELSE "low",
                           S(f), 10 + 15 * Cardinality(XO(f)) + 5 * near(f))
           G(f) == Finding(l, "duplicate_jobs", f, IF XL(f) # {} THEN "medium" ELSE "low",
                           T(f), 10 + 15 * Cardinality(XL(f)) + 5 * nigh(f))
           K == {f \in {SignatureFields(o[i]) : i \in D} : Cardinality(S(f)) >= 2}
           L == {f \in {SignatureFields(l[i]) : i \in E} : Cardinality(T(f)) >= 2}
<1>1. Carries(p, D, E) /\ \A i \in D : /\ SignatureFields(o[i]) = SignatureFields(l[p[i]])
                                       /\ o[i].seed = l[p[i]].seed
  BY DEF Retold, SameRun, SignatureFields
<1>2. {SignatureFields(o[i]) : i \in D} = {SignatureFields(l[i]) : i \in E}
  <2>1. \A i \in D : p[i] \in E /\ SignatureFields(o[i]) = SignatureFields(l[p[i]])
    BY <1>1 DEF Carries
  <2>2. \A k \in E : \E i \in D : p[i] = k
    BY <1>1 DEF Carries
  <2> HIDE DEF D, E
  <2> QED  BY <2>1, <2>2
<1>3. ASSUME NEW f PROVE SameGroup(p, D, E, S(f), T(f))
  <2>1. \A i \in D : p[i] \in E
    BY <1>1 DEF Carries
  <2> QED  BY <1>1, <2>1 DEF SameGroup, SameInputs
<1>4. ASSUME NEW f PROVE Cardinality(S(f)) = Cardinality(T(f)) /\ F(f) = G(f)
  <2>1. SameGroup(p, D, E, S(f), T(f))
    BY <1>3
  <2> HIDE DEF S, T, D, E
  <2>2. Cardinality(S(f)) = Cardinality(T(f))
    BY <1>1, <2>1, SameCount
  <2>3. \A i \in S(f) : i \in D /\ p[i] \in T(f) /\ o[i].seed = l[p[i]].seed
    BY <1>1, <2>1 DEF SameGroup
  <2>4. \A k \in T(f) : \E i \in S(f) : p[i] = k
    BY <1>1, <2>1 DEF SameGroup, Carries
  <2>5. seeds(f) = sown(f)
    BY <2>3, <2>4
  <2>6. SameGroup(p, D, E, XO(f), XL(f))
    <3>1. \A i \in D : i \in S(f) <=> p[i] \in T(f)
      BY <2>1 DEF SameGroup
    <3>2. \A i, j \in D : p[i] = p[j] => i = j
      BY <1>1 DEF Carries
    <3>3. XO(f) \in SUBSET D /\ XL(f) \in SUBSET E
      BY <2>1 DEF SameGroup, ExactDuplicates
    <3>4. ASSUME NEW i \in D, i \in XO(f) PROVE p[i] \in XL(f)
      <4>1. PICK j \in S(f) \ {i} : o[j].seed = o[i].seed
        BY <3>4 DEF ExactDuplicates
      <4>2. i \in S(f)
        BY <3>4 DEF ExactDuplicates
      <4>3. p[j] \in T(f) \ {p[i]} /\ p[i] \in T(f) /\ l[p[j]].seed = l[p[i]].seed
        BY <2>3, <3>2, <4>1, <4>2
      <4> QED  BY <4>3 DEF ExactDuplicates
    <3>5. ASSUME NEW i \in D, p[i] \in XL(f) PROVE i \in XO(f)
      <4>1. PICK k \in T(f) \ {p[i]} : l[k].seed = l[p[i]].seed
        BY <3>5 DEF ExactDuplicates
      <4>2. i \in S(f)
        BY <3>1, <3>5 DEF ExactDuplicates
      <4>3. PICK j \in S(f) : p[j] = k
        BY <2>4, <4>1
      <4>4. j \in S(f) \ {i} /\ o[j].seed = o[i].seed
        BY <2>3, <4>1, <4>2, <4>3
      <4> QED  BY <4>2, <4>4 DEF ExactDuplicates
    <3> HIDE DEF XO, XL
    <3> QED  BY <3>3, <3>4, <3>5 DEF SameGroup
  <2>7. Cardinality(XO(f)) = Cardinality(XL(f)) /\ (XO(f) = {} <=> XL(f) = {})
    <3> HIDE DEF XO, XL
    <3>1. Cardinality(XO(f)) = Cardinality(XL(f))
      BY <1>1, <2>6, SameCount
    <3>2. XO(f) = {} <=> XL(f) = {}
      BY <1>1, <2>6 DEF SameGroup, Carries
    <3> QED  BY <3>1, <3>2
  <2> HIDE DEF XO, XL, seeds, sown
  <2>8. near(f) = nigh(f)
    BY <2>2, <2>5
  <2> HIDE DEF near, nigh
  <2>9. F(f) = G(f)
    <3> DEFINE severity == IF XO(f) # {} THEN "medium" ELSE "low"
               priority == 10 + 15 * Cardinality(XO(f)) + 5 * near(f)
    <3>1. F(f) = Finding(o, "duplicate_jobs", f, severity, S(f), priority)
      OBVIOUS
    <3>2. G(f) = Finding(l, "duplicate_jobs", f, severity, T(f), priority)
      BY <2>7, <2>8
    <3> HIDE DEF severity, priority, F, G
    <3> QED  BY <2>1, <3>1, <3>2, SameFinding DEF D, E
  <2> QED  BY <2>2, <2>9
<1>5. DuplicateJobs(o) = {F(f) : f \in K}
  BY DEF DuplicateJobs
<1>6. DuplicateJobs(l) = {G(f) : f \in L}
  BY DEF DuplicateJobs
<1>7. K = L
  <2> HIDE DEF S, T, F, G, D, E
  <2> QED  BY <1>2, <1>4
<1> HIDE DEF F, G, K, L
<1> QED  BY <1>4, <1>5, <1>6, <1>7

\* The runs of a job stand in one order, whatever the order of their lines.
OrderedRuns(l) ==
    /\ HistoriesTold(l) /\ DOMAIN l \in SUBSET Int
    /\ \A i \in DOMAIN l : l[i].start \in Nat /\ l[i].run_id \in Int

LEMMA SameOrder ==
    ASSUME NEW o, NEW l, NEW p, Retold(o, l, p), OrderedRuns(l), DOMAIN o \in SUBSET Int,
           NEW i \in DOMAIN o, NEW j \in DOMAIN o, JobKey(o[i]) = JobKey(o[j])
    PROVE  Precedes(o, i, j) <=> Precedes(l, p[i], p[j])
<1> DEFINE a == l[p[i]]
           b == l[p[j]]
<1>1. /\ p[i] \in DOMAIN l /\ p[j] \in DOMAIN l /\ p[i] \in Int /\ p[j] \in Int /\ i \in Int /\ j \in Int
      /\ a.start \in Nat /\ a.run_id \in Int /\ b.start \in Nat /\ b.run_id \in Int
      /\ p[i] = p[j] => i = j
  BY DEF Retold, Carries, OrderedRuns
<1>2. /\ o[i].start = a.start /\ o[i].run_id = a.run_id /\ o[j].start = b.start /\ o[j].run_id = b.run_id
      /\ JobKey(a) = JobKey(b)
  BY DEF Retold, SameRun, JobKey
<1>3. a.start = b.start /\ a.run_id = b.run_id => p[i] = p[j]
  BY <1>1, <1>2 DEF OrderedRuns, HistoriesTold
<1> HIDE DEF a, b
<1>4. /\ Earlier(o[i], o[j]) <=> Earlier(a, b)
      /\ Earlier(o[j], o[i]) <=> Earlier(b, a)
  BY <1>2 DEF Earlier
<1>5. CASE i = j
  BY <1>1, <1>4, <1>5 DEF Precedes, a, b
<1>6. CASE i # j
  <2>1. Earlier(a, b) <=> ~Earlier(b, a)
    BY <1>1, <1>3, <1>6 DEF Earlier
  <2> QED  BY <1>4, <2>1 DEF Precedes, a, b
<1> QED  BY <1>5, <1>6

LEMMA SameJob ==
    ASSUME NEW o, NEW l, NEW p, Retold(o, l, p), NEW key
    PROVE  SameGroup(p, DOMAIN o, DOMAIN l, Job(o, key), Job(l, key))
<1>1. \A i \in DOMAIN o : p[i] \in DOMAIN l /\ JobKey(o[i]) = JobKey(l[p[i]])
  BY DEF Retold, Carries, SameRun, JobKey
<1> QED  BY <1>1 DEF SameGroup, Job

LEMMA SameLatest ==
    ASSUME NEW o, NEW l, NEW p, Retold(o, l, p), OrderedRuns(l), DOMAIN o \in SUBSET Int,
           NEW i \in DOMAIN o
    PROVE  IsLatest(o, i) <=> IsLatest(l, p[i])
<1> DEFINE S == Job(o, JobKey(o[i]))
           T == Job(l, JobKey(l[p[i]]))
<1>1. JobKey(o[i]) = JobKey(l[p[i]])
  BY DEF Retold, SameRun, JobKey
<1>2. SameGroup(p, DOMAIN o, DOMAIN l, S, T)
  BY <1>1, SameJob
<1>3. /\ \A j \in S : j \in DOMAIN o /\ p[j] \in T /\ (p[j] = p[i] <=> j = i)
      /\ \A k \in T : \E j \in S : p[j] = k
  BY <1>2 DEF SameGroup, Retold, Carries
<1>4. ASSUME NEW j \in S PROVE Precedes(o, j, i) <=> Precedes(l, p[j], p[i])
  <2>1. JobKey(o[j]) = JobKey(o[i]) /\ j \in DOMAIN o
    BY DEF Job
  <2> QED  BY <2>1, SameOrder
<1>5. /\ IsLatest(o, i) <=> \A j \in S \ {i} : Precedes(o, j, i)
      /\ IsLatest(l, p[i]) <=> \A k \in T \ {p[i]} : Precedes(l, k, p[i])
  BY DEF IsLatest
<1> HIDE DEF S, T
<1>6. ASSUME \A j \in S \ {i} : Precedes(o, j, i) PROVE \A k \in T \ {p[i]} : Precedes(l, k, p[i])
  BY <1>3, <1>4, <1>6
<1>7. ASSUME \A k \in T \ {p[i]} : Precedes(l, k, p[i]) PROVE \A j \in S \ {i} : Precedes(o, j, i)
  BY <1>3, <1>4, <1>7
<1> QED  BY <1>5, <1>6, <1>7

LEMMA SameNext ==
    ASSUME NEW o, NEW l, NEW p, Retold(o, l, p), OrderedRuns(l), DOMAIN o \in SUBSET Int,
           NEW i \in DOMAIN o, NEW j \in DOMAIN o, JobKey(o[i]) = JobKey(o[j])
    PROVE  NextInHistory(o, i, j) <=> NextInHistory(l, p[i], p[j])
<1> DEFINE S == Job(o, JobKey(o[j]))
           T == Job(l, JobKey(l[p[j]]))
<1>1. JobKey(o[j]) = JobKey(l[p[j]])
  BY DEF Retold, SameRun, JobKey
<1>2. SameGroup(p, DOMAIN o, DOMAIN l, S, T)
  BY <1>1, SameJob
<1>3. /\ \A k \in S : p[k] \in T
      /\ \A n \in T : \E k \in S : p[k] = n
  BY <1>2 DEF SameGroup, Retold, Carries
<1>4. ASSUME NEW k \in S
      PROVE  /\ Precedes(o, i, k) <=> Precedes(l, p[i], p[k])
             /\ Precedes(o, k, j) <=> Precedes(l, p[k], p[j])
  <2>1. JobKey(o[k]) = JobKey(o[j]) /\ k \in DOMAIN o
    BY DEF Job
  <2> QED  BY <2>1, SameOrder
<1>5. Precedes(o, i, j) <=> Precedes(l, p[i], p[j])
  BY SameOrder
<1>6. /\ NextInHistory(o, i, j) <=> /\ Precedes(o, i, j)
                                   /\ ~ \E k \in S : Precedes(o, i, k) /\ Precedes(o, k, j)
      /\ NextInHistory(l, p[i], p[j]) <=>
            /\ Precedes(l, p[i], p[j])
            /\ ~ \E k \in T : Precedes(l, p[i], k) /\ Precedes(l, k, p[j])
  BY DEF NextInHistory
<1> HIDE DEF S, T
<1>7. (\E k \in S : Precedes(o, i, k) /\ Precedes(o, k, j))
        <=> (\E k \in T : Precedes(l, p[i], k) /\ Precedes(l, k, p[j]))
  BY <1>3, <1>4
<1> QED  BY <1>5, <1>6, <1>7

\* A median does not ask in which order the values come.
SameValues(p, D, E, f, g) ==
    SameGroup(p, D, E, DOMAIN f, DOMAIN g) /\ \A i \in DOMAIN f : f[i] = g[p[i]]

LEMMA SameStatistic ==
    ASSUME NEW D, NEW E, NEW p, Carries(p, D, E), NEW f, NEW g, SameValues(p, D, E, f, g), NEW k
    PROVE  OrderStatistic(f, k) = OrderStatistic(g, k)
<1>1. /\ SameGroup(p, D, E, DOMAIN f, DOMAIN g)
      /\ \A i \in DOMAIN f : i \in D /\ p[i] \in DOMAIN g /\ f[i] = g[p[i]]
      /\ \A n \in DOMAIN g : \E i \in DOMAIN f : p[i] = n
  BY DEF SameValues, SameGroup, Carries
<1>2. {f[i] : i \in DOMAIN f} = {g[i] : i \in DOMAIN g}
  BY <1>1
<1>3. ASSUME NEW v
      PROVE  /\ Cardinality({i \in DOMAIN f : f[i] < v}) = Cardinality({i \in DOMAIN g : g[i] < v})
             /\ Cardinality({i \in DOMAIN f : f[i] <= v}) = Cardinality({i \in DOMAIN g : g[i] <= v})
  <2> DEFINE S == {i \in DOMAIN f : f[i] < v}
             T == {i \in DOMAIN g : g[i] < v}
             U == {i \in DOMAIN f : f[i] <= v}
             W == {i \in DOMAIN g : g[i] <= v}
  <2>1. SameGroup(p, D, E, S, T) /\ SameGroup(p, D, E, U, W)
    BY <1>1 DEF SameGroup
  <2> HIDE DEF S, T, U, W
  <2>2. Cardinality(S) = Cardinality(T) /\ Cardinality(U) = Cardinality(W)
    BY <2>1, SameCount
  <2> QED  BY <2>2 DEF S, T, U, W
<1> DEFINE P(v) == /\ Cardinality({i \in DOMAIN f : f[i] < v}) < k
                  /\ Cardinality({i \in DOMAIN f : f[i] <= v}) >= k
           Q(v) == /\ Cardinality({i \in DOMAIN g : g[i] < v}) < k
                  /\ Cardinality({i \in DOMAIN g : g[i] <= v}) >= k
           F == {f[i] : i \in DOMAIN f}
           G == {g[i] : i \in DOMAIN g}
<1>4. \A v : P(v) <=> Q(v)
  BY <1>3
<1>5. OrderStatistic(f, k) = CHOOSE v \in F : P(v)
  BY DEF OrderStatistic
<1>6. OrderStatistic(g, k) = CHOOSE v \in G : Q(v)
  BY DEF OrderStatistic
<1> HIDE DEF P, Q, F, G
<1>7. (CHOOSE v \in F : P(v)) = (CHOOSE v \in F : Q(v))
  BY <1>4
<1> QED  BY <1>2, <1>5, <1>6, <1>7 DEF F, G

LEMMA SameMedian ==
    ASSUME NEW D, NEW E, NEW p, Carries(p, D, E), NEW f, NEW g, SameValues(p, D, E, f, g)
    PROVE  Cardinality(DOMAIN f) = Cardinality(DOMAIN g) /\ Median2(f) = Median2(g)
<1>1. Cardinality(DOMAIN f) = Cardinality(DOMAIN g)
  BY SameCount DEF SameValues
<1>2. ASSUME NEW k PROVE OrderStatistic(f, k) = OrderStatistic(g, k)
  BY SameStatistic
<1> QED  BY <1>1, <1>2 DEF Median2

LEMMA SameMad ==
    ASSUME NEW D, NEW E, NEW p, Carries(p, D, E), NEW f, NEW g, SameValues(p, D, E, f, g)
    PROVE  Mad4(f) = Mad4(g)
<1> DEFINE far(x, m) == LET d == 2 * x - m IN IF d < 0 THEN -d ELSE d
           u == [i \in DOMAIN f |-> far(f[i], Median2(f))]
           w == [i \in DOMAIN g |-> far(g[i], Median2(g))]
<1>1. Median2(f) = Median2(g)
  BY SameMedian
<1>2. \A i \in DOMAIN f : p[i] \in DOMAIN g /\ f[i] = g[p[i]]
  BY DEF SameValues, SameGroup
<1>3. Mad4(f) = Median2(u) /\ Mad4(g) = Median2(w)
  BY DEF Mad4
<1> HIDE DEF far
<1>4. \A i \in DOMAIN f : u[i] = w[p[i]]
  BY <1>1, <1>2
<1>5. SameValues(p, D, E, u, w)
  BY <1>4 DEF SameValues
<1> HIDE DEF u, w
<1>6. Median2(u) = Median2(w)
  BY <1>5, SameMedian
<1> QED  BY <1>3, <1>6

\* The history of a run without it, as one metric counts it.
LEMMA SameBaseline ==
    ASSUME NEW o, NEW l, NEW p, Retold(o, l, p), NEW i \in DOMAIN o, NEW metric
    PROVE  SameValues(p, DOMAIN o, DOMAIN l, Baseline(o, i, metric), Baseline(l, p[i], metric))
<1> DEFINE D == DOMAIN o
           E == DOMAIN l
           S == BasePool(o, i, metric)
           T == BasePool(l, p[i], metric)
           key == JobKey(o[i])
<1>1. Carries(p, D, E) /\ \A j \in D : SameRun(o[j], l[p[j]])
  BY DEF Retold
<1>2. \A j \in D : p[j] \in E /\ (p[j] = p[i] <=> j = i)
  BY <1>1 DEF Carries
<1>3. \A j \in D : JobKey(o[j]) = JobKey(l[p[j]]) /\ (Counts(o[j], metric) <=> Counts(l[p[j]], metric))
  BY <1>1 DEF SameRun, JobKey, Counts, RunConclusive
<1>4. SameGroup(p, D, E, Job(o, key), Job(l, key)) /\ key = JobKey(l[p[i]])
  BY <1>3, SameJob
<1>5. \A j : /\ j \in S <=> j \in Job(o, key) /\ j # i /\ Counts(o[j], metric)
             /\ j \in T <=> j \in Job(l, key) /\ j # p[i] /\ Counts(l[j], metric)
  BY <1>4 DEF BasePool
<1>6. SameGroup(p, D, E, S, T)
  <2> HIDE DEF S, T, key
  <2> QED  BY <1>2, <1>3, <1>4, <1>5 DEF SameGroup
<1>7. ASSUME NEW j \in D, Counts(o[j], metric) PROVE Metric(o[j], metric) = Metric(l[p[j]], metric)
  BY <1>1, <1>7 DEF SameRun, Counts, RunConclusive, Metric
<1>8. \A j \in S : /\ Baseline(o, i, metric)[j] = Metric(o[j], metric)
                   /\ Baseline(l, p[i], metric)[p[j]] = Metric(l[p[j]], metric)
  BY <1>6 DEF Baseline, SameGroup
<1>9. DOMAIN Baseline(o, i, metric) = S /\ DOMAIN Baseline(l, p[i], metric) = T
  BY DEF Baseline
<1>10. \A j \in S : j \in D /\ Counts(o[j], metric)
  BY <1>5, <1>6 DEF SameGroup
<1> HIDE DEF S, T, D, E
<1>11. \A j \in S : Baseline(o, i, metric)[j] = Baseline(l, p[i], metric)[p[j]]
  BY <1>7, <1>8, <1>10
<1> QED  BY <1>6, <1>9, <1>11 DEF SameValues, D, E

LEMMA SameRegressed ==
    ASSUME NEW o, NEW l, NEW p, Retold(o, l, p), OrderedRuns(l), DOMAIN o \in SUBSET Int,
           NEW i \in DOMAIN o, NEW metric
    PROVE  /\ Regressed(o, i, metric) <=> Regressed(l, p[i], metric)
           /\ Regressed(o, i, metric) => Alert(o, i, metric) = Alert(l, p[i], metric)
<1> DEFINE f == Baseline(o, i, metric)
           g == Baseline(l, p[i], metric)
           v == Metric(o[i], metric)
           w == Metric(l[p[i]], metric)
<1>1. SameValues(p, DOMAIN o, DOMAIN l, f, g)
  BY SameBaseline
<1>2. Carries(p, DOMAIN o, DOMAIN l)
  BY DEF Retold
<1>3. SameRun(o[i], l[p[i]])
  BY DEF Retold
<1>4. JobKey(o[i]) = JobKey(l[p[i]]) /\ (Counts(o[i], metric) <=> Counts(l[p[i]], metric))
  BY <1>3 DEF SameRun, JobKey, Counts, RunConclusive
<1>5. Counts(o[i], metric) => v = w
  BY <1>3 DEF SameRun, Counts, RunConclusive, Metric
<1>6. Cardinality(Job(o, JobKey(o[i]))) = Cardinality(Job(l, JobKey(l[p[i]])))
  BY <1>2, <1>4, SameJob, SameCount
<1>7. IsLatest(o, i) <=> IsLatest(l, p[i])
  BY SameLatest
<1> HIDE DEF f, g, v, w
<1>8. Mad4(f) = Mad4(g) /\ Median2(f) = Median2(g) /\ Cardinality(DOMAIN f) = Cardinality(DOMAIN g)
  BY <1>1, <1>2, SameMedian, SameMad
<1> DEFINE above(x, h) == /\ IF Mad4(h) = 0 THEN 2 * x > Median2(h)
                            ELSE 1349 * (2 * x - Median2(h)) >= 3500 * Mad4(h)
                         /\ 4 * x >= 3 * Median2(h)
<1>9. Regressed(o, i, metric) <=>
        /\ IsLatest(o, i)
        /\ Cardinality(Job(o, JobKey(o[i]))) >= MinBaselineRuns + 1
        /\ Counts(o[i], metric)
        /\ Cardinality(DOMAIN f) >= MinBaselineRuns
        /\ above(v, f)
  BY DEF Regressed, f, v
<1>10. Regressed(l, p[i], metric) <=>
        /\ IsLatest(l, p[i])
        /\ Cardinality(Job(l, JobKey(l[p[i]]))) >= MinBaselineRuns + 1
        /\ Counts(l[p[i]], metric)
        /\ Cardinality(DOMAIN g) >= MinBaselineRuns
        /\ above(w, g)
  BY DEF Regressed, g, w
<1>11. \A x : above(x, f) <=> above(x, g)
  BY <1>8
<1> HIDE DEF above
<1>12. Regressed(o, i, metric) <=> Regressed(l, p[i], metric)
  BY <1>4, <1>5, <1>6, <1>7, <1>8, <1>9, <1>10, <1>11
<1>13. ASSUME Regressed(o, i, metric) PROVE Alert(o, i, metric) = Alert(l, p[i], metric)
  <2>1. v = w
    BY <1>5, <1>9, <1>13
  <2> DEFINE severity == IF 2 * v >= 3 * Median2(f) THEN "high" ELSE "medium"
             priority == Min({RobustZ(v, f), 1000}) + Ratio(v, f)
  <2>2. RobustZ(v, f) = RobustZ(w, g) /\ Ratio(v, f) = Ratio(w, g)
    BY <1>8, <2>1 DEF RobustZ, Ratio
  <2>3. Alert(o, i, metric) = Finding(o, metric, JobKey(o[i]), severity, {i}, priority)
    BY DEF Alert, f, v
  <2>4. Alert(l, p[i], metric) = Finding(l, metric, JobKey(o[i]), severity, {p[i]}, priority)
    <3>1. Alert(l, p[i], metric) = Finding(l, metric, JobKey(l[p[i]]),
              IF 2 * w >= 3 * Median2(g) THEN "high" ELSE "medium", {p[i]},
              Min({RobustZ(w, g), 1000}) + Ratio(w, g))
      BY DEF Alert, g, w
    <3> QED  BY <1>4, <1>8, <2>1, <2>2, <3>1
  <2>5. SameGroup(p, DOMAIN o, DOMAIN l, {i}, {p[i]})
    BY <1>2 DEF SameGroup, Carries
  <2> HIDE DEF severity, priority
  <2> QED  BY <2>3, <2>4, <2>5, SameFinding
<1> QED  BY <1>12, <1>13

LEMMA SameAlerts ==
    ASSUME NEW o, NEW l, NEW p, Retold(o, l, p), OrderedRuns(l), DOMAIN o \in SUBSET Int
    PROVE  RegressionAlerts(o) = RegressionAlerts(l)
<1> DEFINE R(m) == {i \in DOMAIN o : Regressed(o, i, m)}
           Q(m) == {i \in DOMAIN l : Regressed(l, i, m)}
           F(m) == {Alert(o, i, m) : i \in R(m)}
           G(m) == {Alert(l, i, m) : i \in Q(m)}
<1>1. ASSUME NEW m PROVE F(m) = G(m)
  <2>1. \A i \in R(m) : p[i] \in Q(m) /\ Alert(o, i, m) = Alert(l, p[i], m)
    <3> SUFFICES ASSUME NEW i \in DOMAIN o, Regressed(o, i, m)
                 PROVE  p[i] \in Q(m) /\ Alert(o, i, m) = Alert(l, p[i], m)
      OBVIOUS
    <3>1. p[i] \in DOMAIN l
      BY DEF Retold, Carries
    <3> QED  BY <3>1, SameRegressed
  <2>2. \A k \in Q(m) : \E i \in R(m) : p[i] = k
    <3> SUFFICES ASSUME NEW k \in DOMAIN l, Regressed(l, k, m) PROVE \E i \in R(m) : p[i] = k
      OBVIOUS
    <3>1. PICK i \in DOMAIN o : p[i] = k
      BY DEF Retold, Carries
    <3>2. Regressed(o, i, m)
      BY <3>1, SameRegressed
    <3> QED  BY <3>1, <3>2
  <2> HIDE DEF R, Q
  <2> QED  BY <2>1, <2>2
<1>2. RegressionAlerts(o) = UNION {F(m) : m \in ResourceMetrics}
  BY DEF RegressionAlerts
<1>3. RegressionAlerts(l) = UNION {G(m) : m \in ResourceMetrics}
  BY DEF RegressionAlerts
<1> HIDE DEF F, G
<1> QED  BY <1>1, <1>2, <1>3

\* What a benchmark's runs say of its configurations.
LEMMA SameConfigurations ==
    ASSUME NEW o, NEW l, NEW p, Retold(o, l, p), NEW b
    PROVE  /\ SameGroup(p, DOMAIN o, DOMAIN l, RunsOf(o, b), RunsOf(l, b))
           /\ ConfigsOf(o, b) = ConfigsOf(l, b)
           /\ OutcomeSensitive(o, b) <=> OutcomeSensitive(l, b)
           /\ MedianTimes(o, b) = MedianTimes(l, b)
<1> DEFINE D == DOMAIN o
           E == DOMAIN l
<1>1. Carries(p, D, E) /\ \A i \in D : p[i] \in E /\ SameRun(o[i], l[p[i]])
  BY DEF Retold, Carries
<1>2. SameGroup(p, D, E, RunsOf(o, b), RunsOf(l, b))
  BY <1>1 DEF SameGroup, RunsOf, SameRun
<1>3. ConfigsOf(o, b) = ConfigsOf(l, b)
  <2>1. \A i \in RunsOf(o, b) : p[i] \in RunsOf(l, b) /\ o[i].config = l[p[i]].config
    BY <1>1, <1>2 DEF SameGroup, SameRun
  <2>2. \A k \in RunsOf(l, b) : \E i \in RunsOf(o, b) : p[i] = k
    BY <1>1, <1>2 DEF SameGroup, Carries
  <2> QED  BY <2>1, <2>2 DEF ConfigsOf
<1>4. ASSUME NEW c
      PROVE  /\ Solves(o, b, c) <=> Solves(l, b, c)
             /\ SameGroup(p, D, E, ConclusiveRuns(o, b, c), ConclusiveRuns(l, b, c))
  <2> DEFINE S == Job(o, <<b, c>>)
             T == Job(l, <<b, c>>)
  <2>1. SameGroup(p, D, E, S, T)
    BY SameJob
  <2>2. /\ \A i \in S : i \in D /\ p[i] \in T /\ o[i].status = l[p[i]].status
        /\ \A k \in T : \E i \in S : p[i] = k
    BY <1>1, <2>1 DEF SameGroup, Carries, SameRun
  <2>3. Solves(o, b, c) <=> Solves(l, b, c)
    <3> HIDE DEF S, T
    <3> QED  BY <2>2 DEF Solves, S, T
  <2>4. \A i \in D : RunConclusive(o[i]) <=> RunConclusive(l[p[i]])
    BY <1>1 DEF SameRun, RunConclusive
  <2>5. SameGroup(p, D, E, ConclusiveRuns(o, b, c), ConclusiveRuns(l, b, c))
    <3> HIDE DEF S, T
    <3> QED  BY <2>1, <2>4 DEF SameGroup, ConclusiveRuns, S, T
  <2> QED  BY <2>3, <2>5
<1>5. ASSUME NEW c
      PROVE  /\ Median2([i \in ConclusiveRuns(o, b, c) |-> o[i].wall])
                  = Median2([i \in ConclusiveRuns(l, b, c) |-> l[i].wall])
             /\ ConclusiveRuns(o, b, c) = {} <=> ConclusiveRuns(l, b, c) = {}
  <2> DEFINE S == ConclusiveRuns(o, b, c)
             T == ConclusiveRuns(l, b, c)
             f == [i \in S |-> o[i].wall]
             g == [i \in T |-> l[i].wall]
  <2>1. SameGroup(p, D, E, S, T)
    BY <1>4
  <2>2. \A i \in S : p[i] \in T /\ o[i].wall = l[p[i]].wall
    <3>1. \A k \in T : RunConclusive(l[k])
      BY DEF ConclusiveRuns
    <3> HIDE DEF S, T
    <3> QED  BY <1>1, <2>1, <3>1 DEF SameGroup, SameRun
  <2>3. SameValues(p, D, E, f, g)
    <3> HIDE DEF S, T, D, E
    <3> QED  BY <2>1, <2>2 DEF SameValues
  <2>4. S = {} <=> T = {}
    <3> HIDE DEF S, T
    <3> QED  BY <1>1, <2>1 DEF SameGroup, Carries
  <2> HIDE DEF f, g, D, E
  <2>5. Median2(f) = Median2(g)
    BY <1>1, <2>3, SameMedian
  <2> QED  BY <2>4, <2>5 DEF f, g
<1> DEFINE m(c) == Median2([i \in ConclusiveRuns(o, b, c) |-> o[i].wall])
           n(c) == Median2([i \in ConclusiveRuns(l, b, c) |-> l[i].wall])
<1>6. MedianTimes(o, b) = {m(c) : c \in {c \in ConfigsOf(o, b) : ConclusiveRuns(o, b, c) # {}}}
  BY DEF MedianTimes
<1>7. MedianTimes(l, b) = {n(c) : c \in {c \in ConfigsOf(l, b) : ConclusiveRuns(l, b, c) # {}}}
  BY DEF MedianTimes
<1>8. \A c : m(c) = n(c) /\ (ConclusiveRuns(o, b, c) = {} <=> ConclusiveRuns(l, b, c) = {})
  BY <1>5
<1>9. OutcomeSensitive(o, b) <=> OutcomeSensitive(l, b)
  BY <1>3, <1>4 DEF OutcomeSensitive
<1> HIDE DEF m, n
<1>10. MedianTimes(o, b) = MedianTimes(l, b)
  BY <1>3, <1>6, <1>7, <1>8
<1> QED  BY <1>2, <1>3, <1>9, <1>10

LEMMA SameSensitivity ==
    ASSUME NEW o, NEW l, NEW p, Retold(o, l, p)
    PROVE  ConfigSensitivity(o) = ConfigSensitivity(l)
<1> DEFINE so(b) == TimeSpread(MedianTimes(o, b))
           sl(b) == TimeSpread(MedianTimes(l, b))
           F(b) == Finding(o, "config_sensitivity", b,
                       IF OutcomeSensitive(o, b) THEN "high" ELSE "medium", RunsOf(o, b),
                       (IF OutcomeSensitive(o, b) THEN 50 ELSE 0) + (IF so(b) = 0 THEN 10 ELSE so(b)))
           G(b) == Finding(l, "config_sensitivity", b,
                       IF OutcomeSensitive(l, b) THEN "high" ELSE "medium", RunsOf(l, b),
                       (IF OutcomeSensitive(l, b) THEN 50 ELSE 0) + (IF sl(b) = 0 THEN 10 ELSE sl(b)))
           B == {o[i].benchmark : i \in DOMAIN o}
           C == {l[i].benchmark : i \in DOMAIN l}
           K == {b \in B : /\ Cardinality(ConfigsOf(o, b)) >= 2
                           /\ OutcomeSensitive(o, b) \/ so(b) >= 30}
           L == {b \in C : /\ Cardinality(ConfigsOf(l, b)) >= 2
                           /\ OutcomeSensitive(l, b) \/ sl(b) >= 30}
<1>1. B = C
  <2>1. \A i \in DOMAIN o : p[i] \in DOMAIN l /\ o[i].benchmark = l[p[i]].benchmark
    BY DEF Retold, Carries, SameRun
  <2>2. \A k \in DOMAIN l : \E i \in DOMAIN o : p[i] = k
    BY DEF Retold, Carries
  <2> QED  BY <2>1, <2>2
<1>2. ASSUME NEW b
      PROVE  /\ ConfigsOf(o, b) = ConfigsOf(l, b) /\ so(b) = sl(b)
             /\ OutcomeSensitive(o, b) <=> OutcomeSensitive(l, b)
             /\ F(b) = G(b)
  <2>1. /\ SameGroup(p, DOMAIN o, DOMAIN l, RunsOf(o, b), RunsOf(l, b))
        /\ ConfigsOf(o, b) = ConfigsOf(l, b)
        /\ OutcomeSensitive(o, b) <=> OutcomeSensitive(l, b)
        /\ MedianTimes(o, b) = MedianTimes(l, b)
    BY SameConfigurations
  <2>2. so(b) = sl(b)
    BY <2>1
  <2> HIDE DEF so, sl
  <2> DEFINE severity == IF OutcomeSensitive(o, b) THEN "high" ELSE "medium"
             priority == (IF OutcomeSensitive(o, b) THEN 50 ELSE 0) + (IF so(b) = 0 THEN 10 ELSE so(b))
  <2>3. F(b) = Finding(o, "config_sensitivity", b, severity, RunsOf(o, b), priority)
    OBVIOUS
  <2>4. G(b) = Finding(l, "config_sensitivity", b, severity, RunsOf(l, b), priority)
    BY <2>1, <2>2
  <2> HIDE DEF severity, priority, F, G
  <2>5. F(b) = G(b)
    BY <2>1, <2>3, <2>4, SameFinding
  <2> QED  BY <2>1, <2>2, <2>5
<1>3. ConfigSensitivity(o) = {F(b) : b \in K}
  BY DEF ConfigSensitivity
<1>4. ConfigSensitivity(l) = {G(b) : b \in L}
  BY DEF ConfigSensitivity
<1>5. K = L
  <2> HIDE DEF F, G, B, C, so, sl
  <2> QED  BY <1>1, <1>2
<1> HIDE DEF F, G, K, L
<1> QED  BY <1>2, <1>3, <1>4, <1>5

LEMMA SameFlips ==
    ASSUME NEW o, NEW l, NEW p, Retold(o, l, p), OrderedRuns(l), DOMAIN o \in SUBSET Int, NEW key
    PROVE  SameGroup(p, DOMAIN o, DOMAIN l, Flips(o, key), Flips(l, key))
<1> DEFINE D == DOMAIN o
           S == Job(o, key)
           T == Job(l, key)
<1>1. SameGroup(p, D, DOMAIN l, S, T)
  BY SameJob
<1>2. /\ \A i \in S : i \in D /\ p[i] \in T /\ o[i].status = l[p[i]].status
      /\ \A k \in T : \E i \in S : p[i] = k
  BY <1>1 DEF SameGroup, Retold, Carries, SameRun
<1>3. ASSUME NEW i \in S, NEW j \in S PROVE NextInHistory(o, i, j) <=> NextInHistory(l, p[i], p[j])
  <2>1. JobKey(o[i]) = JobKey(o[j]) /\ i \in D /\ j \in D
    BY DEF Job
  <2> QED  BY <2>1, SameNext
<1>4. /\ \A j : j \in Flips(o, key) <=>
               j \in S /\ \E i \in S : NextInHistory(o, i, j) /\ o[i].status # o[j].status
      /\ \A j : j \in Flips(l, key) <=>
               j \in T /\ \E i \in T : NextInHistory(l, i, j) /\ l[i].status # l[j].status
  BY DEF Flips
<1> HIDE DEF S, T
<1>5. ASSUME NEW j \in D, j \in Flips(o, key) PROVE p[j] \in Flips(l, key)
  <2>1. PICK i \in S : NextInHistory(o, i, j) /\ o[i].status # o[j].status
    BY <1>4, <1>5
  <2>2. j \in S
    BY <1>4, <1>5
  <2>3. p[i] \in T /\ p[j] \in T /\ NextInHistory(l, p[i], p[j]) /\ l[p[i]].status # l[p[j]].status
    BY <1>2, <1>3, <2>1, <2>2
  <2> QED  BY <1>4, <2>3
<1>6. ASSUME NEW j \in D, p[j] \in Flips(l, key) PROVE j \in Flips(o, key)
  <2>1. PICK k \in T : NextInHistory(l, k, p[j]) /\ l[k].status # l[p[j]].status
    BY <1>4, <1>6
  <2>2. j \in S
    BY <1>1, <1>4, <1>6 DEF SameGroup
  <2>3. PICK i \in S : p[i] = k
    BY <1>2
  <2>4. NextInHistory(o, i, j) /\ o[i].status # o[j].status
    BY <1>2, <1>3, <2>1, <2>2, <2>3
  <2> QED  BY <1>4, <2>2, <2>4
<1>7. Flips(o, key) \in SUBSET D /\ Flips(l, key) \in SUBSET (DOMAIN l)
  BY <1>1, <1>4 DEF SameGroup
<1> QED  BY <1>5, <1>6, <1>7 DEF SameGroup

LEMMA SameWarnings ==
    ASSUME NEW o, NEW l, NEW p, Retold(o, l, p), OrderedRuns(l), DOMAIN o \in SUBSET Int
    PROVE  ReproducibilityWarnings(o) = ReproducibilityWarnings(l)
<1> DEFINE D == DOMAIN o
           E == DOMAIN l
           to(key) == {o[i].status : i \in Job(o, key)}
           tl(key) == {l[i].status : i \in Job(l, key)}
           ro(key, n) == (n * Cardinality(Flips(o, key))) \div (Cardinality(Job(o, key)) - 1)
           rl(key, n) == (n * Cardinality(Flips(l, key))) \div (Cardinality(Job(l, key)) - 1)
           co(key) == {"PASS", "FAIL"} \subseteq to(key)
           cl(key) == {"PASS", "FAIL"} \subseteq tl(key)
           F(key) == Finding(o, "reproducibility_warning", key,
                         IF co(key) THEN "high" ELSE "medium", Job(o, key),
                         IF co(key) THEN 100 + ro(key, 50) ELSE 50 + ro(key, 30))
           G(key) == Finding(l, "reproducibility_warning", key,
                         IF cl(key) THEN "high" ELSE "medium", Job(l, key),
                         IF cl(key) THEN 100 + rl(key, 50) ELSE 50 + rl(key, 30))
           B == {JobKey(o[i]) : i \in D}
           C == {JobKey(l[i]) : i \in E}
           K == {key \in B : Cardinality(to(key)) >= 2}
           L == {key \in C : Cardinality(tl(key)) >= 2}
<1>1. Carries(p, D, E) /\ \A i \in D : /\ p[i] \in E /\ o[i].status = l[p[i]].status
                                       /\ JobKey(o[i]) = JobKey(l[p[i]])
  BY DEF Retold, Carries, SameRun, JobKey
<1>2. B = C
  <2>1. \A k \in E : \E i \in D : p[i] = k
    BY <1>1 DEF Carries
  <2> HIDE DEF D, E
  <2> QED  BY <1>1, <2>1
<1>3. ASSUME NEW key PROVE to(key) = tl(key) /\ F(key) = G(key)
  <2>1. SameGroup(p, D, E, Job(o, key), Job(l, key))
    BY SameJob
  <2>2. to(key) = tl(key)
    <3>1. \A i \in Job(o, key) : p[i] \in Job(l, key) /\ o[i].status = l[p[i]].status
      BY <1>1, <2>1 DEF SameGroup
    <3>2. \A k \in Job(l, key) : \E i \in Job(o, key) : p[i] = k
      BY <1>1, <2>1 DEF SameGroup, Carries
    <3> QED  BY <3>1, <3>2
  <2>3. Cardinality(Job(o, key)) = Cardinality(Job(l, key))
    <3> HIDE DEF D, E
    <3> QED  BY <1>1, <2>1, SameCount
  <2>4. Cardinality(Flips(o, key)) = Cardinality(Flips(l, key))
    <3>1. SameGroup(p, D, E, Flips(o, key), Flips(l, key))
      BY SameFlips
    <3> HIDE DEF D, E
    <3> QED  BY <1>1, <3>1, SameCount
  <2>5. \A n : ro(key, n) = rl(key, n)
    BY <2>3, <2>4
  <2>6. co(key) <=> cl(key)
    BY <2>2
  <2> HIDE DEF to, tl, ro, rl, co, cl
  <2> DEFINE severity == IF co(key) THEN "high" ELSE "medium"
             priority == IF co(key) THEN 100 + ro(key, 50) ELSE 50 + ro(key, 30)
  <2>7. F(key) = Finding(o, "reproducibility_warning", key, severity, Job(o, key), priority)
    OBVIOUS
  <2>8. G(key) = Finding(l, "reproducibility_warning", key, severity, Job(l, key), priority)
    BY <2>5, <2>6
  <2> HIDE DEF severity, priority, F, G
  <2>9. F(key) = G(key)
    BY <2>1, <2>7, <2>8, SameFinding DEF D, E
  <2> QED  BY <2>2, <2>9
<1>4. ReproducibilityWarnings(o) = {F(key) : key \in K}
  BY DEF ReproducibilityWarnings
<1>5. ReproducibilityWarnings(l) = {G(key) : key \in L}
  BY DEF ReproducibilityWarnings
<1>6. K = L
  <2> HIDE DEF F, G, B, C, to, tl
  <2> QED  BY <1>2, <1>3
<1> HIDE DEF F, G, K, L
<1> QED  BY <1>3, <1>4, <1>5, <1>6

\* Two ledgers that tell the same runs, in any order and with any times of the runs that
\* came to no conclusion, have the same findings.
THEOREM FindingsOfRuns ==
    ASSUME NEW l, OrderedRuns(l), NEW o, DOMAIN o \in SUBSET Int, NEW p, Retold(o, l, p)
    PROVE  Findings(o) = Findings(l)
<1>1. FailureClusters(o) = FailureClusters(l) /\ TimeoutClusters(o) = TimeoutClusters(l)
  BY SameFailures
<1>2. DuplicateJobs(o) = DuplicateJobs(l)
  BY SameDuplicates
<1>3. RegressionAlerts(o) = RegressionAlerts(l)
  BY SameAlerts
<1>4. ConfigSensitivity(o) = ConfigSensitivity(l)
  BY SameSensitivity
<1>5. ReproducibilityWarnings(o) = ReproducibilityWarnings(l)
  BY SameWarnings
<1> QED  BY <1>1, <1>2, <1>3, <1>4, <1>5 DEF Findings

LEMMA LedgerRuns ==
    ASSUME NEW l \in Seq(RunRecord), HistoriesTold(l)
    PROVE  /\ OrderedRuns(l) /\ DOMAIN l = 1 .. Len(l) /\ Len(l) \in Nat
           /\ \A i \in DOMAIN l : l[i] \in RunRecord
<1>1. DOMAIN l = 1 .. Len(l) /\ Len(l) \in Nat /\ \A i \in DOMAIN l : l[i] \in RunRecord
  OBVIOUS
<1>2. \A r \in RunRecord : r.start \in Nat /\ r.run_id \in Int
  BY DEF RunRecord
<1> QED  BY <1>1, <1>2 DEF OrderedRuns

\* Two lines of a ledger change places.
LEMMA SwappedRetold ==
    ASSUME NEW l \in Seq(RunRecord), HistoriesTold(l), NEW n \in 1 .. (Len(l) - 1)
    PROVE  Findings(Swapped(l, n)) = Findings(l)
<1> DEFINE o == Swapped(l, n)
           D == DOMAIN l
           p == [i \in D |-> IF i = n THEN n + 1 ELSE IF i = n + 1 THEN n ELSE i]
<1>1. OrderedRuns(l) /\ D = 1 .. Len(l) /\ Len(l) \in Nat
  BY LedgerRuns
<1>2. DOMAIN o = D /\ \A i \in D : o[i] = l[p[i]]
  BY <1>1 DEF Swapped
<1>3. Carries(p, D, D)
  <2>1. IsFiniteSet(D)
    BY <1>1, FS_Interval
  <2>2. D = 1 .. Len(l) /\ n \in D /\ n + 1 \in D
    BY <1>1
  <2> HIDE DEF D
  <2>3. \A k \in D : p[k] = (IF k = n THEN n + 1 ELSE IF k = n + 1 THEN n ELSE k) /\ p[k] \in D
    BY <2>2
  <2>4. DOMAIN p = D /\ p = [k \in D |-> p[k]]
    OBVIOUS
  <2> HIDE DEF p
  <2>5. \A k \in D : p[p[k]] = k
    BY <2>2, <2>3
  <2>6. \A i, j \in D : p[i] = p[j] => i = j
    BY <2>5
  <2>7. p \in [D -> D]
    BY <2>3, <2>4
  <2>8. \A k \in D : \E i \in D : p[i] = k
    BY <2>3, <2>5
  <2> QED  BY <2>1, <2>6, <2>7, <2>8 DEF Carries
<1> HIDE DEF o, p
<1>4. Retold(o, l, p)
  <2>1. \A a : SameRun(a, a)
    BY DEF SameRun
  <2> QED  BY <1>2, <1>3, <2>1 DEF Retold
<1>5. DOMAIN o \in SUBSET Int
  BY <1>1, <1>2
<1> HIDE DEF D
<1> QED  BY <1>1, <1>4, <1>5, FindingsOfRuns DEF o

\* Runs without a conclusion took another time.
LEMMA OtherTimesRetold ==
    ASSUME NEW l \in Seq(RunRecord), HistoriesTold(l), NEW t
    PROVE  Findings(OtherTimes(l, t)) = Findings(l)
<1> DEFINE o == OtherTimes(l, t)
           D == DOMAIN l
           p == [i \in D |-> i]
<1>1. OrderedRuns(l) /\ D = 1 .. Len(l) /\ Len(l) \in Nat /\ \A i \in D : l[i] \in RunRecord
  BY LedgerRuns
<1>2. ASSUME NEW r \in RunRecord PROVE SameRun(r, r) /\ (~RunConclusive(r) => SameRun([r EXCEPT !.wall = t], r))
  BY DEF RunRecord, SameRun
<1>3. DOMAIN o = D /\ \A i \in D : o[i] = IF RunConclusive(l[i]) THEN l[i] ELSE [l[i] EXCEPT !.wall = t]
  BY DEF OtherTimes
<1>4. \A i \in D : SameRun(o[i], l[p[i]])
  <2> TAKE i \in D
  <2>1. p[i] = i
    OBVIOUS
  <2> HIDE DEF p, o, D
  <2> QED  BY <1>1, <1>2, <1>3, <2>1
<1>5. Carries(p, D, D)
  <2>1. IsFiniteSet(D)
    BY <1>1, FS_Interval
  <2> QED  BY <2>1 DEF Carries
<1>6. DOMAIN o \in SUBSET Int
  BY <1>1, <1>3
<1> HIDE DEF o, p
<1>7. Retold(o, l, p)
  BY <1>3, <1>4, <1>5 DEF Retold
<1> HIDE DEF D
<1> QED  BY <1>1, <1>6, <1>7, FindingsOfRuns DEF o

LedgerReport(l) ==
    LET findings == IF LedgerValid(l) THEN Findings(l) ELSE {}
    IN  [valid |-> LedgerValid(l), findings |-> findings,
         queue |-> [f \in findings |-> QueueRank(findings, f)]]

\* The report, once there is one, is that of the ledger the tool was called with.
RegressionInv ==
    \E l \in Ledgers : input = l /\ reports \in {{}, {LedgerReport(l)}}

\* The analysis of a ledger answers about that ledger.
LEMMA RegressionInvariant == RegressionSpec => []RegressionInv
<1>1. RegressionInit => RegressionInv
  BY DEF RegressionInit, RegressionInv, Called
<1>2. RegressionInv /\ [AnalyzeLedger]_passVars => RegressionInv'
  <2> SUFFICES ASSUME RegressionInv, [AnalyzeLedger]_passVars PROVE RegressionInv'
    OBVIOUS
  <2>1. PICK l \in Ledgers : input = l /\ reports \in {{}, {LedgerReport(l)}}
    BY DEF RegressionInv
  <2>2. CASE AnalyzeLedger
    <3>1. reports' = {LedgerReport(l)} /\ input' = l
      BY <2>1, <2>2 DEF AnalyzeLedger, Reports, LedgerReport
    <3> QED  BY <3>1 DEF RegressionInv
  <2>3. CASE UNCHANGED passVars
    BY <2>1, <2>3 DEF RegressionInv, passVars
  <2> QED  BY <2>2, <2>3
<1> QED  BY <1>1, <1>2, PTL DEF RegressionSpec

\* The findings of a report are those of the same runs in any neighbouring order of lines,
\* and with any times of the runs that came to no conclusion.
THEOREM FindingsStableAlways == RegressionSpec => []FindingsStable
<1>1. RegressionInv => FindingsStable
  <2> SUFFICES ASSUME RegressionInv, Reported("analyze-ledger"), Report.valid, HistoriesTold(input),
                      NEW other \in {Swapped(input, i) : i \in 1..(Len(input) - 1)}
                                      \cup {OtherTimes(input, t) : t \in {0, 50}}
               PROVE  Findings(other) = Report.findings
    BY DEF FindingsStable
  <2>1. PICK l \in Ledgers : input = l /\ reports \in {{}, {LedgerReport(l)}}
    BY DEF RegressionInv
  <2>2. Report = LedgerReport(l)
    BY <2>1 DEF Reported, Report
  <2>3. LedgerValid(l) /\ Report.findings = Findings(l)
    BY <2>2 DEF LedgerReport
  <2>4. l \in Seq(RunRecord)
    BY LedgersAssumption
  <2>5. Findings(other) = Findings(l)
    BY <2>1, <2>4, SwappedRetold, OtherTimesRetold
  <2> QED  BY <2>3, <2>5
<1> QED  BY <1>1, RegressionInvariant, PTL

-----------------------------------------------------------------------------
(***************************************************************************)
(* The verdicts about the performance of a commit                          *)
(***************************************************************************)

\* The numbers of a finite function: those below a value and those up to it.
Numbers(f) == IsFiniteSet(DOMAIN f) /\ \A i \in DOMAIN f : f[i] \in Int
Below(f, v) == {i \in DOMAIN f : f[i] < v}
UpTo(f, v) == {i \in DOMAIN f : f[i] <= v}

LEMMA CountsOf ==
    ASSUME NEW f, Numbers(f), NEW v
    PROVE  /\ IsFiniteSet(Below(f, v)) /\ Cardinality(Below(f, v)) \in Nat
           /\ IsFiniteSet(UpTo(f, v)) /\ Cardinality(UpTo(f, v)) \in Nat
<1>1. Below(f, v) \in SUBSET DOMAIN f /\ UpTo(f, v) \in SUBSET DOMAIN f
  BY DEF Below, UpTo
<1> QED  BY <1>1, FS_Subset, FS_CardinalityType DEF Numbers

\* Some of the numbers have a greatest one: that which has the most of them up to it.
LEMMA HighestOf ==
    ASSUME NEW f, Numbers(f), NEW S \in SUBSET DOMAIN f, S # {}
    PROVE  \E i \in S : \A j \in S : f[j] <= f[i]
<1> DEFINE up == [i \in S |-> {j \in S : f[j] <= f[i]}]
           counts == {Cardinality(up[i]) : i \in S}
<1>1. \A i \in S : up[i] = {j \in S : f[j] <= f[i]}
  OBVIOUS
<1>n. \A i \in S : f[i] \in Int
  BY DEF Numbers
<1>f. IsFiniteSet(S)
  BY FS_Subset DEF Numbers
<1> HIDE DEF up
<1>2. \A i \in S : IsFiniteSet(up[i]) /\ Cardinality(up[i]) \in Nat /\ Cardinality(up[i]) <= Cardinality(S)
  <2> TAKE i \in S
  <2>1. up[i] \in SUBSET S
    BY <1>1
  <2> QED  BY <1>f, <2>1, FS_Subset, FS_CardinalityType
<1>3. counts \in SUBSET Nat /\ counts # {} /\ IsFiniteSet(counts)
  <2>1. counts \in SUBSET Nat /\ counts # {} /\ \A c \in counts : c <= Cardinality(S)
    BY <1>2
  <2>2. Cardinality(S) \in Nat
    BY <1>f, FS_CardinalityType
  <2> HIDE DEF counts
  <2> QED  BY <2>1, <2>2, FS_BoundedSetOfNaturals
<1>4. Max(counts) \in counts /\ \A c \in counts : c <= Max(counts)
  <2> HIDE DEF counts
  <2> QED  BY <1>3, MaxOfSome
<1>5. PICK i \in S : Cardinality(up[i]) = Max(counts)
  BY <1>4
<1>6. \A j \in S : Cardinality(up[j]) <= Cardinality(up[i])
  BY <1>4, <1>5
<1> HIDE DEF counts
<1>7. ASSUME NEW j \in S, ~ (f[j] <= f[i]) PROVE FALSE
  <2>1. up[i] \in SUBSET up[j] /\ j \in up[j] /\ j \notin up[i]
    <3>1. f[i] <= f[j] /\ f[j] <= f[j]
      BY <1>n, <1>7
    <3>2. \A k \in S : f[k] <= f[i] => f[k] <= f[j]
      BY <1>n, <3>1
    <3> QED  BY <1>1, <1>7, <3>1, <3>2
  <2>2. Cardinality(up[i]) <= Cardinality(up[j])
        /\ (Cardinality(up[j]) = Cardinality(up[i]) => up[j] = up[i])
    BY <1>2, <2>1, FS_Subset
  <2>3. Cardinality(up[j]) = Cardinality(up[i])
    BY <1>2, <1>6, <2>2
  <2> QED  BY <2>1, <2>2, <2>3
<1> QED  BY <1>7

\* v is the k-th smallest of the numbers.
IsStatistic(f, k, v) ==
    /\ \E i \in DOMAIN f : v = f[i]
    /\ Cardinality(Below(f, v)) < k /\ Cardinality(UpTo(f, v)) >= k

LEMMA StatisticOnce ==
    ASSUME NEW f, Numbers(f), NEW k \in Nat, NEW v, NEW w, IsStatistic(f, k, v), IsStatistic(f, k, w)
    PROVE  v = w
<1>1. \A a, b : a \in Int /\ b \in Int /\ IsStatistic(f, k, a) /\ IsStatistic(f, k, b) => ~ (a < b)
  <2> SUFFICES ASSUME NEW a \in Int, NEW b \in Int, IsStatistic(f, k, a), IsStatistic(f, k, b), a < b
               PROVE  FALSE
    OBVIOUS
  <2>1. UpTo(f, a) \in SUBSET Below(f, b)
    <3>1. \A i \in DOMAIN f : f[i] <= a => f[i] < b
      BY DEF Numbers
    <3> QED  BY <3>1 DEF UpTo, Below
  <2>2. Cardinality(UpTo(f, a)) <= Cardinality(Below(f, b))
    BY <2>1, CountsOf, FS_Subset
  <2>3. Cardinality(UpTo(f, a)) \in Nat /\ Cardinality(Below(f, b)) \in Nat
    BY CountsOf
  <2> QED  BY <2>2, <2>3 DEF IsStatistic
<1>2. v \in Int /\ w \in Int
  BY DEF IsStatistic, Numbers
<1> QED  BY <1>1, <1>2

LEMMA StatisticExists ==
    ASSUME NEW f, Numbers(f), NEW k \in 1 .. Cardinality(DOMAIN f)
    PROVE  \E v : IsStatistic(f, k, v)
<1> DEFINE D == DOMAIN f
           up == [i \in D |-> Cardinality(UpTo(f, f[i]))]
           counts == {up[i] : i \in {i \in D : up[i] >= k}}
<1>1. IsFiniteSet(D) /\ Cardinality(D) \in Nat /\ k \in Nat /\ k >= 1 /\ k <= Cardinality(D)
  BY FS_CardinalityType DEF Numbers
<1>n. \A i \in D : f[i] \in Int /\ up[i] = Cardinality(UpTo(f, f[i])) /\ up[i] \in Nat
  BY CountsOf DEF Numbers
<1> HIDE DEF up
<1>2. \E i \in D : up[i] >= k
  <2>1. D # {}
    BY <1>1, FS_EmptySet
  <2>2. PICK i \in D : \A j \in D : f[j] <= f[i]
    BY <2>1, HighestOf
  <2>3. UpTo(f, f[i]) = D
    BY <2>2 DEF UpTo
  <2> QED  BY <1>1, <1>n, <2>3
<1>3. PICK i \in D : up[i] >= k /\ \A j \in D : up[j] >= k => up[i] <= up[j]
  <2>1. counts \in SUBSET Nat /\ counts # {}
    BY <1>2, <1>n
  <2>2. PICK c \in counts : \A d \in counts : c <= d
    <3> HIDE DEF counts
    <3> QED  BY <2>1, LeastNatural
  <2> QED  BY <2>2
<1>4. Cardinality(Below(f, f[i])) < k
  <2> SUFFICES ASSUME ~ (Cardinality(Below(f, f[i])) < k) PROVE FALSE
    OBVIOUS
  <2>1. Cardinality(Below(f, f[i])) \in Nat /\ Cardinality(Below(f, f[i])) >= k
    BY <1>1, CountsOf
  <2>2. Below(f, f[i]) # {} /\ Below(f, f[i]) \in SUBSET D
    BY <1>1, <2>1, FS_EmptySet DEF Below
  <2>3. PICK j \in Below(f, f[i]) : \A l \in Below(f, f[i]) : f[l] <= f[j]
    BY <2>2, HighestOf
  <2>4. j \in D /\ f[j] < f[i]
    BY <2>3 DEF Below
  <2>5. UpTo(f, f[j]) = Below(f, f[i])
    <3>1. \A l \in D : f[l] <= f[j] => f[l] < f[i]
      BY <1>n, <2>4
    <3>2. \A l \in D : f[l] < f[i] => f[l] <= f[j]
      BY <2>3 DEF Below
    <3> QED  BY <3>1, <3>2 DEF UpTo, Below
  <2>6. up[j] >= k
    BY <1>n, <2>1, <2>4, <2>5
  <2>7. up[i] <= up[j]
    BY <1>3, <2>4, <2>6
  <2>8. UpTo(f, f[j]) \in SUBSET UpTo(f, f[i]) /\ i \in UpTo(f, f[i]) /\ i \notin UpTo(f, f[j])
    <3>1. \A l \in D : f[l] <= f[j] => f[l] <= f[i]
      BY <1>n, <2>4
    <3>2. f[i] <= f[i] /\ ~ (f[i] <= f[j])
      BY <1>n, <2>4
    <3> QED  BY <3>1, <3>2 DEF UpTo
  <2>9. /\ Cardinality(UpTo(f, f[j])) <= Cardinality(UpTo(f, f[i]))
        /\ Cardinality(UpTo(f, f[i])) = Cardinality(UpTo(f, f[j])) => UpTo(f, f[i]) = UpTo(f, f[j])
    BY <2>8, CountsOf, FS_Subset
  <2>10. up[i] = up[j]
    BY <1>n, <2>4, <2>7, <2>9
  <2> QED  BY <1>n, <2>4, <2>8, <2>9, <2>10
<1> QED  BY <1>3, <1>4, <1>n DEF IsStatistic

\* A statistic is what it is called, and one of the numbers.
LEMMA StatisticOf ==
    ASSUME NEW f, Numbers(f), NEW k \in 1 .. Cardinality(DOMAIN f)
    PROVE  IsStatistic(f, k, OrderStatistic(f, k)) /\ OrderStatistic(f, k) \in Int
<1> DEFINE V == {f[i] : i \in DOMAIN f}
           P(v) == Cardinality(Below(f, v)) < k /\ Cardinality(UpTo(f, v)) >= k
<1>1. \E v \in V : P(v)
  BY StatisticExists DEF IsStatistic
<1>2. OrderStatistic(f, k) = CHOOSE v \in V : P(v)
  BY DEF OrderStatistic, Below, UpTo
<1> HIDE DEF P
<1>3. OrderStatistic(f, k) \in V /\ P(OrderStatistic(f, k))
  BY <1>1, <1>2
<1> QED  BY <1>3 DEF P, IsStatistic, Numbers

LEMMA StatisticIs ==
    ASSUME NEW f, Numbers(f), NEW k \in 1 .. Cardinality(DOMAIN f), NEW v, IsStatistic(f, k, v)
    PROVE  OrderStatistic(f, k) = v
BY StatisticOf, StatisticOnce

\* Of two statistics the one of the lower rank is not above the other.
LEMMA StatisticsInOrder ==
    ASSUME NEW f, Numbers(f), NEW k \in 1 .. Cardinality(DOMAIN f),
           NEW l \in 1 .. Cardinality(DOMAIN f), k <= l
    PROVE  OrderStatistic(f, k) <= OrderStatistic(f, l)
<1> DEFINE v == OrderStatistic(f, k)
           w == OrderStatistic(f, l)
<1>1. IsStatistic(f, k, v) /\ IsStatistic(f, l, w) /\ v \in Int /\ w \in Int
  BY StatisticOf
<1> HIDE DEF v, w
<1>2. SUFFICES ASSUME w < v PROVE FALSE
  BY <1>1 DEF v, w
<1>3. UpTo(f, w) \in SUBSET Below(f, v)
  <2>1. \A i \in DOMAIN f : f[i] <= w => f[i] < v
    BY <1>1, <1>2 DEF Numbers
  <2> QED  BY <2>1 DEF UpTo, Below
<1>4. Cardinality(UpTo(f, w)) <= Cardinality(Below(f, v))
  BY <1>3, CountsOf, FS_Subset
<1>5. Cardinality(UpTo(f, w)) \in Nat /\ Cardinality(Below(f, v)) \in Nat /\ k \in Int /\ l \in Int
  BY CountsOf
<1> QED  BY <1>1, <1>4, <1>5 DEF IsStatistic

\* A number raised that is above enough of the others changes no statistic up to their count.
LEMMA RaisedAmong ==
    ASSUME NEW f, Numbers(f), NEW g, Numbers(g), DOMAIN g = DOMAIN f, NEW i \in DOMAIN f,
           \A j \in DOMAIN f : j # i => g[j] = f[j], f[i] <= g[i],
           NEW k \in 1 .. Cardinality(DOMAIN f),
           Cardinality({j \in DOMAIN f \ {i} : f[j] <= f[i]}) >= k
    PROVE  OrderStatistic(g, k) = OrderStatistic(f, k)
<1> DEFINE D == DOMAIN f
           v == OrderStatistic(f, k)
           others(x) == {j \in D \ {i} : f[j] <= x}
<1>1. IsStatistic(f, k, v) /\ v \in Int
  BY StatisticOf
<1>2. /\ \A j \in D : f[j] \in Int /\ g[j] \in Int
      /\ IsFiniteSet(D) /\ k \in Nat
  BY DEF Numbers
<1>3. \A x : IsFiniteSet(others(x)) /\ Cardinality(others(x)) \in Nat
  <2> TAKE x
  <2>1. others(x) \in SUBSET D
    OBVIOUS
  <2> QED  BY <1>2, <2>1, FS_Subset, FS_CardinalityType
<1>4. Cardinality(others(f[i])) >= k
  OBVIOUS
<1> HIDE DEF v
<1>5. v <= f[i]
  <2> SUFFICES ASSUME ~ (v <= f[i]) PROVE FALSE
    OBVIOUS
  <2>1. others(f[i]) \in SUBSET Below(f, v)
    <3>1. \A j \in D : f[j] <= f[i] => f[j] < v
      BY <1>1, <1>2
    <3> QED  BY <3>1 DEF Below
  <2>2. Cardinality(others(f[i])) <= Cardinality(Below(f, v)) /\ Cardinality(Below(f, v)) \in Nat
    BY <2>1, CountsOf, FS_Subset
  <2> HIDE DEF others
  <2> QED  BY <1>1, <1>2, <1>3, <1>4, <2>2 DEF IsStatistic
<1>6. Cardinality(others(v)) >= k
  <2>1. CASE v = f[i]
    BY <1>4, <2>1
  <2>2. CASE v # f[i]
    <3>1. UpTo(f, v) = others(v)
      <4>1. ~ (f[i] <= v)
        BY <1>1, <1>2, <1>5, <2>2
      <4> QED  BY <4>1 DEF UpTo
    <3> QED  BY <1>1, <3>1 DEF IsStatistic
  <2> QED  BY <2>1, <2>2
<1>7. Below(g, v) = Below(f, v)
  <2>1. ~ (f[i] < v) /\ ~ (g[i] < v)
    BY <1>1, <1>2, <1>5
  <2>2. \A j \in D : g[j] < v <=> f[j] < v
    BY <2>1
  <2> QED  BY <2>2 DEF Below
<1>8. \E j \in DOMAIN g : v = g[j]
  <2> SUFFICES ASSUME \A j \in D : j # i => f[j] # v PROVE FALSE
    OBVIOUS
  <2>1. others(v) \in SUBSET Below(f, v)
    <3>1. \A j \in D : j # i /\ f[j] <= v => f[j] < v
      BY <1>1, <1>2
    <3> QED  BY <3>1 DEF Below
  <2>2. Cardinality(others(v)) <= Cardinality(Below(f, v)) /\ Cardinality(Below(f, v)) \in Nat
    BY <2>1, CountsOf, FS_Subset
  <2> HIDE DEF others
  <2> QED  BY <1>1, <1>2, <1>3, <1>6, <2>2 DEF IsStatistic
<1>9. Cardinality(UpTo(g, v)) >= k
  <2>1. others(v) \in SUBSET UpTo(g, v)
    BY DEF UpTo
  <2>2. Cardinality(others(v)) <= Cardinality(UpTo(g, v)) /\ Cardinality(UpTo(g, v)) \in Nat
    BY <2>1, CountsOf, FS_Subset
  <2> HIDE DEF others
  <2> QED  BY <1>2, <1>3, <1>6, <2>2
<1>10. IsStatistic(g, k, v)
  BY <1>1, <1>7, <1>8, <1>9 DEF IsStatistic
<1> QED  BY <1>10, StatisticIs DEF v

\* What is added to every number is added to their statistics.
LEMMA ShiftedStatistic ==
    ASSUME NEW f, Numbers(f), NEW g, DOMAIN g = DOMAIN f, NEW c \in Int,
           \A i \in DOMAIN f : g[i] = f[i] + c,
           NEW k \in 1 .. Cardinality(DOMAIN f)
    PROVE  OrderStatistic(g, k) = OrderStatistic(f, k) + c
<1> DEFINE v == OrderStatistic(f, k)
<1>1. IsStatistic(f, k, v) /\ v \in Int
  BY StatisticOf
<1>2. Numbers(g) /\ \A i \in DOMAIN f : f[i] \in Int
  BY DEF Numbers
<1> HIDE DEF v
<1>3. Below(g, v + c) = Below(f, v)
  <2>1. \A i \in DOMAIN f : g[i] < v + c <=> f[i] < v
    BY <1>1, <1>2
  <2> QED  BY <2>1 DEF Below
<1>4. UpTo(g, v + c) = UpTo(f, v)
  <2>1. \A i \in DOMAIN f : g[i] <= v + c <=> f[i] <= v
    BY <1>1, <1>2
  <2> QED  BY <2>1 DEF UpTo
<1>5. IsStatistic(g, k, v + c)
  BY <1>1, <1>3, <1>4 DEF IsStatistic
<1> QED  BY <1>2, <1>5, StatisticIs DEF v

\* Some samples of a metric.
Sampled(s) == s \in Seq(Int) /\ s # <<>>

LEMMA SamplesAre ==
    ASSUME NEW s, Sampled(s)
    PROVE  /\ Numbers(s) /\ Len(s) \in Nat /\ Len(s) >= 1 /\ DOMAIN s = 1 .. Len(s)
           /\ Cardinality(DOMAIN s) = Len(s) /\ \A i \in 1 .. Len(s) : s[i] \in Int
           /\ (Len(s) + 1) \div 2 \in 1 .. Len(s) /\ (Len(s) + 2) \div 2 \in 1 .. Len(s)
<1>1. Len(s) \in Nat /\ DOMAIN s = 1 .. Len(s) /\ \A i \in 1 .. Len(s) : s[i] \in Int
  BY DEF Sampled
<1>2. Len(s) # 0
  BY EmptySeq DEF Sampled
<1>3. IsFiniteSet(DOMAIN s) /\ Cardinality(DOMAIN s) = Len(s)
  BY <1>1, FS_Interval
<1>4. Numbers(s)
  BY <1>1, <1>3 DEF Numbers
<1> QED  BY <1>1, <1>2, <1>3, <1>4

LEMMA SamplesFrom ==
    ASSUME NEW s, Sampled(s), NEW t, DOMAIN t = DOMAIN s, t = [i \in DOMAIN s |-> t[i]],
           \A i \in DOMAIN s : t[i] \in Int
    PROVE  Sampled(t) /\ Len(t) = Len(s)
<1>1. Len(s) \in Nat /\ Len(s) >= 1 /\ DOMAIN s = 1 .. Len(s)
  BY SamplesAre
<1>2. t \in [1 .. Len(s) -> Int]
  BY <1>1
<1>3. t \in Seq(Int) /\ Len(t) = Len(s)
  BY <1>1, <1>2
<1>4. t # <<>>
  BY <1>1, <1>3
<1> QED  BY <1>3, <1>4 DEF Sampled

LEMMA MedianOf ==
    ASSUME NEW s, Sampled(s)
    PROVE  /\ TwiceMedian(s) = OrderStatistic(s, (Len(s) + 1) \div 2) + OrderStatistic(s, (Len(s) + 2) \div 2)
           /\ OrderStatistic(s, (Len(s) + 1) \div 2) \in Int
           /\ OrderStatistic(s, (Len(s) + 2) \div 2) \in Int
           /\ OrderStatistic(s, (Len(s) + 1) \div 2) <= OrderStatistic(s, (Len(s) + 2) \div 2)
           /\ TwiceMedian(s) \in Int
<1>1. /\ Numbers(s) /\ Cardinality(DOMAIN s) = Len(s) /\ Len(s) \in Nat
      /\ (Len(s) + 1) \div 2 \in 1 .. Len(s) /\ (Len(s) + 2) \div 2 \in 1 .. Len(s)
  BY SamplesAre
<1>2. (Len(s) + 1) \div 2 <= (Len(s) + 2) \div 2
  BY <1>1
<1>3. /\ OrderStatistic(s, (Len(s) + 1) \div 2) \in Int
      /\ OrderStatistic(s, (Len(s) + 2) \div 2) \in Int
      /\ OrderStatistic(s, (Len(s) + 1) \div 2) <= OrderStatistic(s, (Len(s) + 2) \div 2)
  BY <1>1, <1>2, StatisticOf, StatisticsInOrder
<1> QED  BY <1>3 DEF TwiceMedian

LEMMA DeviationsOf ==
    ASSUME NEW s, Sampled(s)
    PROVE  /\ Sampled(Deviations(s)) /\ Len(Deviations(s)) = Len(s)
           /\ DOMAIN Deviations(s) = DOMAIN s
           /\ \A i \in DOMAIN s : /\ Deviations(s)[i] = AbsValue(2 * s[i] - TwiceMedian(s))
                                  /\ Deviations(s)[i] \in Nat
<1> DEFINE e == Deviations(s)
<1>1. DOMAIN e = DOMAIN s /\ \A i \in DOMAIN s : e[i] = AbsValue(2 * s[i] - TwiceMedian(s))
  BY DEF Deviations
<1>2. e = [i \in DOMAIN s |-> e[i]]
  BY DEF Deviations
<1> HIDE DEF e
<1>3. \A i \in DOMAIN s : e[i] \in Nat
  <2> TAKE i \in DOMAIN s
  <2>1. s[i] \in Int /\ TwiceMedian(s) \in Int
    BY MedianOf, SamplesAre
  <2> QED  BY <1>1, <2>1 DEF AbsValue
<1>4. Sampled(e) /\ Len(e) = Len(s)
  BY <1>1, <1>2, <1>3, SamplesFrom
<1> QED  BY <1>1, <1>3, <1>4 DEF e

LEMMA MadOf ==
    ASSUME NEW s, Sampled(s)
    PROVE  FourTimesMad(s) \in Int
BY DeviationsOf, MedianOf DEF FourTimesMad

\* The ranks that a quartile of n samples lies between.
RankLow(n, q) == (q * (n - 1)) \div 4 + 1
RankPart(n, q) == (q * (n - 1)) % 4

LEMMA QuartileOf ==
    ASSUME NEW s, Sampled(s), NEW q \in {1, 3}
    PROVE  LET n == Len(s) IN
           /\ RankLow(n, q) \in 1 .. n /\ RankPart(n, q) \in 0 .. 3
           /\ RankPart(n, q) # 0 => RankLow(n, q) + 1 \in 1 .. n
           /\ Quartile4(s, q) =
                IF RankPart(n, q) = 0 THEN 4 * OrderStatistic(s, RankLow(n, q))
                ELSE OrderStatistic(s, RankLow(n, q)) * (4 - RankPart(n, q))
                     + OrderStatistic(s, RankLow(n, q) + 1) * RankPart(n, q)
           /\ Quartile4(s, q) \in Int
<1> DEFINE n == Len(s)
<1>1. n \in Nat /\ n >= 1 /\ Numbers(s) /\ Cardinality(DOMAIN s) = n
  BY SamplesAre
<1>2. /\ RankLow(n, q) \in 1 .. n /\ RankPart(n, q) \in 0 .. 3
      /\ RankPart(n, q) # 0 => RankLow(n, q) + 1 \in 1 .. n
  <2> HIDE DEF n
  <2>1. CASE q = 1
    BY <1>1, <2>1 DEF RankLow, RankPart
  <2>2. CASE q = 3
    BY <1>1, <2>2 DEF RankLow, RankPart
  <2> QED  BY <2>1, <2>2
<1>3. Quartile4(s, q) =
          IF RankPart(n, q) = 0 THEN 4 * OrderStatistic(s, RankLow(n, q))
          ELSE OrderStatistic(s, RankLow(n, q)) * (4 - RankPart(n, q))
               + OrderStatistic(s, RankLow(n, q) + 1) * RankPart(n, q)
  BY DEF Quartile4, RankLow, RankPart
<1> HIDE DEF n
<1>4. OrderStatistic(s, RankLow(n, q)) \in Int
  BY <1>1, <1>2, StatisticOf
<1>5. RankPart(n, q) # 0 => OrderStatistic(s, RankLow(n, q) + 1) \in Int
  BY <1>1, <1>2, StatisticOf
<1>6. Quartile4(s, q) \in Int
  <2>1. CASE RankPart(n, q) = 0
    BY <1>3, <1>4, <2>1
  <2>2. CASE RankPart(n, q) # 0
    BY <1>2, <1>3, <1>4, <1>5, <2>2
  <2> QED  BY <2>1, <2>2
<1> QED  BY <1>2, <1>3, <1>6 DEF n

\* What is added to every sample moves the fences with it.
LEMMA ShiftedOutlier ==
    ASSUME NEW s, Sampled(s), NEW t, Sampled(t), DOMAIN t = DOMAIN s, NEW c \in Int,
           \A i \in DOMAIN s : t[i] = s[i] + c, NEW v \in Int
    PROVE  IsOutlier(t, v + c) <=> IsOutlier(s, v)
<1> DEFINE n == Len(s)
<1>1. /\ n \in Nat /\ n >= 1 /\ DOMAIN s = 1 .. n /\ Len(t) = n
      /\ Numbers(s) /\ Cardinality(DOMAIN s) = n
      /\ \A i \in 1 .. n : s[i] \in Int
      /\ (n + 1) \div 2 \in 1 .. n /\ (n + 2) \div 2 \in 1 .. n
  <2>1. Len(s) \in Nat /\ Len(t) \in Nat /\ DOMAIN s = 1 .. Len(s) /\ DOMAIN t = 1 .. Len(t)
    BY SamplesAre
  <2>2. Len(t) = Len(s)
    BY <2>1
  <2> QED  BY <2>2, SamplesAre
<1>2. \A k \in 1 .. n : OrderStatistic(t, k) = OrderStatistic(s, k) + c /\ OrderStatistic(s, k) \in Int
  <2> TAKE k \in 1 .. n
  <2>1. k \in 1 .. Cardinality(DOMAIN s) /\ Numbers(s) /\ DOMAIN t = DOMAIN s
    BY <1>1
  <2>2. OrderStatistic(s, k) \in Int
    BY <2>1, StatisticOf
  <2>3. OrderStatistic(t, k) = OrderStatistic(s, k) + c
    BY <2>1, ShiftedStatistic
  <2> QED  BY <2>2, <2>3
<1>3. TwiceMedian(t) = TwiceMedian(s) + 2 * c /\ TwiceMedian(s) \in Int
  BY <1>1, <1>2 DEF TwiceMedian
<1>4. FourTimesMad(t) = FourTimesMad(s)
  <2>1. \A i \in DOMAIN s : AbsValue(2 * t[i] - TwiceMedian(t)) = AbsValue(2 * s[i] - TwiceMedian(s))
    <3> TAKE i \in DOMAIN s
    <3>1. 2 * t[i] - TwiceMedian(t) = 2 * s[i] - TwiceMedian(s)
      BY <1>1, <1>3
    <3> QED  BY <3>1
  <2>2. Deviations(t) = Deviations(s)
    BY <2>1 DEF Deviations
  <2> QED  BY <2>2 DEF FourTimesMad
<1>5. \A q \in {1, 3} : Quartile4(t, q) = Quartile4(s, q) + 4 * c /\ Quartile4(s, q) \in Int
  <2> TAKE q \in {1, 3}
  <2> DEFINE low == RankLow(n, q)
             r == RankPart(n, q)
  <2>1. /\ low \in 1 .. n /\ r \in 0 .. 3 /\ (r # 0 => low + 1 \in 1 .. n)
        /\ Quartile4(s, q) = IF r = 0 THEN 4 * OrderStatistic(s, low)
                             ELSE OrderStatistic(s, low) * (4 - r) + OrderStatistic(s, low + 1) * r
        /\ Quartile4(s, q) \in Int
    BY QuartileOf
  <2>2. Quartile4(t, q) = IF r = 0 THEN 4 * OrderStatistic(t, low)
                          ELSE OrderStatistic(t, low) * (4 - r) + OrderStatistic(t, low + 1) * r
    BY <1>1, QuartileOf
  <2> HIDE DEF low, r, n
  <2>3. CASE r = 0
    BY <1>2, <2>1, <2>2, <2>3
  <2>4. CASE r # 0
    <3>1. /\ OrderStatistic(t, low) = OrderStatistic(s, low) + c
          /\ OrderStatistic(t, low + 1) = OrderStatistic(s, low + 1) + c
          /\ OrderStatistic(s, low) \in Int /\ OrderStatistic(s, low + 1) \in Int
      BY <1>2, <2>1, <2>4
    <3>2. r \in {1, 2, 3}
      BY <2>1, <2>4
    <3> QED  BY <2>1, <2>2, <2>4, <3>1, <3>2
  <2> QED  BY <2>1, <2>3, <2>4
<1> DEFINE a == Quartile4(s, 1)
           b == Quartile4(s, 3)
           m == TwiceMedian(s)
           d == FourTimesMad(s)
<1>6. /\ Quartile4(t, 1) = a + 4 * c /\ Quartile4(t, 3) = b + 4 * c /\ a \in Int /\ b \in Int
      /\ TwiceMedian(t) = m + 2 * c /\ m \in Int /\ FourTimesMad(t) = d
  BY <1>3, <1>4, <1>5
<1>7. IsOutlier(s, v) <=> \/ 8 * v < 2 * a - 3 * (b - a)
                          \/ 8 * v > 2 * b + 3 * (b - a)
                          \/ d > 0 /\ AbsValue(2 * v - m) * 2 * 6745 > 35000 * d
  BY DEF IsOutlier
<1>8. IsOutlier(t, v + c) <=>
          \/ 8 * (v + c) < 2 * (a + 4 * c) - 3 * ((b + 4 * c) - (a + 4 * c))
          \/ 8 * (v + c) > 2 * (b + 4 * c) + 3 * ((b + 4 * c) - (a + 4 * c))
          \/ d > 0 /\ AbsValue(2 * (v + c) - (m + 2 * c)) * 2 * 6745 > 35000 * d
  BY <1>6 DEF IsOutlier
<1> HIDE DEF a, b, m, d
<1>9. 2 * (v + c) - (m + 2 * c) = 2 * v - m
  BY <1>6
<1>10. /\ 8 * (v + c) < 2 * (a + 4 * c) - 3 * ((b + 4 * c) - (a + 4 * c)) <=> 8 * v < 2 * a - 3 * (b - a)
       /\ 8 * (v + c) > 2 * (b + 4 * c) + 3 * ((b + 4 * c) - (a + 4 * c)) <=> 8 * v > 2 * b + 3 * (b - a)
  BY <1>6
<1> QED  BY <1>7, <1>8, <1>9, <1>10

\* Of some samples some are kept.
LEMMA KeptSamples ==
    ASSUME NEW s, Sampled(s)
    PROVE  Sampled(Kept(s))
<1> DEFINE kept == {i \in DOMAIN s : ~IsOutlier(s, s[i])}
<1>1. Len(s) \in Nat /\ DOMAIN s = 1 .. Len(s) /\ \A i \in DOMAIN s : s[i] \in Int
  BY SamplesAre
<1>2. kept \in SUBSET (1 .. Len(s)) /\ kept \in SUBSET DOMAIN s
  BY <1>1
<1>3. Kept(s) = IF Len(s) < 4 \/ kept = {} THEN s ELSE Picked(s, kept)
  BY DEF Kept
<1> HIDE DEF kept
<1>4. SUFFICES ASSUME kept # {} PROVE Sampled(Picked(s, kept))
  BY <1>3
<1>5. IsFiniteSet(kept) /\ Cardinality(kept) \in Nat /\ \E at : InTheirOrder(kept, at)
  BY <1>1, <1>2, PositionsInOrder
<1>6. PICK at : PickedAt(s, kept, at)
  BY <1>5, PickedInOrder
<1>7. Cardinality(kept) # 0
  BY <1>4, <1>5, FS_EmptySet
<1>8. at \in [1 .. Cardinality(kept) -> kept] /\ Picked(s, kept) = [m \in DOMAIN at |-> s[at[m]]]
  BY <1>6 DEF PickedAt
<1>9. Picked(s, kept) \in [1 .. Cardinality(kept) -> Int]
  BY <1>1, <1>2, <1>8
<1>10. Picked(s, kept) \in Seq(Int) /\ Len(Picked(s, kept)) = Cardinality(kept)
  BY <1>5, <1>9
<1>11. Picked(s, kept) # <<>>
  BY <1>7, <1>10
<1> QED  BY <1>10, <1>11 DEF Sampled

\* What is added to every sample is added to those that are kept.
Shifted(s, t, c) ==
    Len(t) = Len(s) /\ DOMAIN t = DOMAIN s /\ \A i \in DOMAIN s : t[i] = s[i] + c

LEMMA ShiftedKept ==
    ASSUME NEW s, Sampled(s), NEW t, Sampled(t), NEW c \in Int, Shifted(s, t, c)
    PROVE  Shifted(Kept(s), Kept(t), c)
<1> DEFINE kept == {i \in DOMAIN s : ~IsOutlier(s, s[i])}
<1>1. /\ Len(s) \in Nat /\ DOMAIN s = 1 .. Len(s) /\ \A i \in DOMAIN s : s[i] \in Int
      /\ Len(t) = Len(s) /\ DOMAIN t = DOMAIN s
  BY SamplesAre DEF Shifted
<1>2. kept \in SUBSET (1 .. Len(s)) /\ kept \in SUBSET DOMAIN s
  BY <1>1
<1>3. {i \in DOMAIN t : ~IsOutlier(t, t[i])} = kept
  <2>1. ASSUME NEW i \in DOMAIN s PROVE IsOutlier(t, t[i]) <=> IsOutlier(s, s[i])
    <3>1. IsOutlier(t, s[i] + c) <=> IsOutlier(s, s[i])
      <4>1. s[i] \in Int /\ DOMAIN t = DOMAIN s /\ \A j \in DOMAIN s : t[j] = s[j] + c
        BY <1>1 DEF Shifted
      <4> QED  BY <4>1, ShiftedOutlier
    <3>2. t[i] = s[i] + c
      BY DEF Shifted
    <3> QED  BY <3>1, <3>2
  <2> QED  BY <1>1, <2>1
<1>4. Kept(s) = IF Len(s) < 4 \/ kept = {} THEN s ELSE Picked(s, kept)
  BY DEF Kept
<1>5. Kept(t) = IF Len(s) < 4 \/ kept = {} THEN t ELSE Picked(t, kept)
  BY <1>1, <1>3 DEF Kept
<1> HIDE DEF kept
<1>6. CASE Len(s) < 4 \/ kept = {}
  BY <1>4, <1>5, <1>6
<1>7. CASE ~ (Len(s) < 4 \/ kept = {})
  <2>1. IsFiniteSet(kept) /\ Cardinality(kept) \in Nat /\ \E at : InTheirOrder(kept, at)
    BY <1>1, <1>2, PositionsInOrder
  <2>2. PICK at : InTheirOrder(kept, at)
    BY <2>1
  <2>3. /\ at \in [1 .. Cardinality(kept) -> kept]
        /\ Picked(s, kept) = [m \in DOMAIN at |-> s[at[m]]]
        /\ Picked(t, kept) = [m \in DOMAIN at |-> t[at[m]]]
    <3>1. PickedAt(s, kept, at) /\ PickedAt(t, kept, at)
      BY <2>2, PickedInOrder
    <3> QED  BY <3>1 DEF PickedAt
  <2>4. Kept(s) = [m \in 1 .. Cardinality(kept) |-> s[at[m]]]
        /\ Kept(t) = [m \in 1 .. Cardinality(kept) |-> t[at[m]]]
    BY <1>4, <1>5, <1>7, <2>3
  <2>5. \A m \in 1 .. Cardinality(kept) : t[at[m]] = s[at[m]] + c
    BY <1>2, <2>3 DEF Shifted
  <2>6. Len(Kept(s)) = Len(Kept(t))
    BY <2>1, <2>4
  <2> QED  BY <2>4, <2>5, <2>6 DEF Shifted
<1> QED  BY <1>6, <1>7

\* The sums of the first samples, one after another.
SumsOf(s, g) ==
    /\ g \in [0 .. Len(s) -> Int]
    /\ g[0] = 0
    /\ \A k \in 1 .. Len(s) : g[k] = g[k - 1] + s[k]

LEMMA SumOf ==
    ASSUME NEW s, Sampled(s)
    PROVE  \E g : SumsOf(s, g) /\ SumSeq(s) = g[Len(s)]
<1> DEFINE n == Len(s)
           Result == [k \in 1 .. n |-> [e \in Int |-> e + s[k]]]
           f == CHOOSE g : g = [k \in 0 .. Len(s) |-> IF k = 0 THEN 0 ELSE g[k - 1] + s[k]]
<1>1. n \in Nat /\ \A i \in 1 .. n : s[i] \in Int
  BY SamplesAre
<1>2. \E g : Iterates(g, n, Int, 0, Result)
  <2>1. Result \in [1 .. n -> [Int -> Int]]
    <3> HIDE DEF n
    <3> QED  BY <1>1
  <2> HIDE DEF Result, n
  <2>2. StepsWithin(n, Int, 0, Result)
    BY <1>1, <2>1 DEF StepsWithin
  <2> QED  BY <2>2, IteratedSteps
<1>3. PICK g \in [0 .. n -> Int] : g[0] = 0 /\ \A k \in 1 .. n : g[k] = g[k - 1] + s[k]
  <2>1. PICK g : Iterates(g, n, Int, 0, Result)
    BY <1>2
  <2>2. g \in [0 .. n -> Int] /\ g[0] = 0 /\ \A k \in 1 .. n : g[k] = Result[k][g[k - 1]]
    <3> HIDE DEF Result, n
    <3> QED  BY <2>1 DEF Iterates
  <2>3. ASSUME NEW k \in 1 .. n PROVE g[k] = g[k - 1] + s[k]
    <3>1. g[k - 1] \in Int
      <4> HIDE DEF Result, n
      <4> QED  BY <1>1, <2>2
    <3>2. g[k] = Result[k][g[k - 1]]
      BY <2>2
    <3> HIDE DEF n
    <3> QED  BY <3>1, <3>2
  <2> QED  BY <2>2, <2>3
<1>4. g = [k \in 0 .. Len(s) |-> IF k = 0 THEN 0 ELSE g[k - 1] + s[k]]
  <2>1. \A k \in 0 .. n : k # 0 => k \in 1 .. n
    BY <1>1
  <2> HIDE DEF n
  <2>2. \A k \in 0 .. n : g[k] = IF k = 0 THEN 0 ELSE g[k - 1] + s[k]
    BY <1>3, <2>1
  <2> QED  BY <1>3, <2>2 DEF n
<1>5. f = [k \in 0 .. Len(s) |-> IF k = 0 THEN 0 ELSE f[k - 1] + s[k]]
  <2> HIDE DEF Result
  <2> QED  BY <1>4
<1>6. SumSeq(s) = f[n]
  BY DEF SumSeq
<1> HIDE DEF f, Result
<1>7. f[0] = 0 /\ \A k \in 1 .. n : f[k] = f[k - 1] + s[k]
  <2>1. \A k \in 1 .. n : k # 0 /\ k \in 0 .. n
    BY <1>1
  <2> HIDE DEF n
  <2>2. \A k \in 0 .. n : f[k] = IF k = 0 THEN 0 ELSE f[k - 1] + s[k]
    BY <1>5 DEF n
  <2>3. 0 \in 0 .. n
    BY <1>1
  <2> QED  BY <2>1, <2>2, <2>3
<1> DEFINE S == {k \in 0 .. n : f[k] = g[k]}
<1>8. 0 .. n \subseteq S
  <2>1. 0 \in S
    BY <1>1, <1>3, <1>7
  <2>2. \A k \in 1 .. n : k - 1 \in S => k \in S
    BY <1>1, <1>3, <1>7
  <2> HIDE DEF S, n
  <2> QED  BY <1>1, <2>1, <2>2, StepByStep
<1>9. f[n] = g[n]
  BY <1>1, <1>8
<1>10. SumsOf(s, g)
  BY <1>3 DEF SumsOf
<1> QED  BY <1>6, <1>9, <1>10

LEMMA SumIsInt ==
    ASSUME NEW s, Sampled(s)
    PROVE  SumSeq(s) \in Int
<1>1. PICK g : SumsOf(s, g) /\ SumSeq(s) = g[Len(s)]
  BY SumOf
<1>2. Len(s) \in Nat
  BY SamplesAre
<1> QED  BY <1>1, <1>2 DEF SumsOf

LEMMA ShiftedSum ==
    ASSUME NEW s, Sampled(s), NEW t, Sampled(t), NEW c \in Int, Shifted(s, t, c)
    PROVE  SumSeq(t) = SumSeq(s) + Len(s) * c
<1> DEFINE n == Len(s)
<1>1. n \in Nat /\ Len(t) = n /\ \A i \in 1 .. n : s[i] \in Int /\ t[i] = s[i] + c
  BY SamplesAre DEF Shifted
<1>2. PICK g : SumsOf(s, g) /\ SumSeq(s) = g[n]
  BY SumOf
<1>3. PICK h : SumsOf(t, h) /\ SumSeq(t) = h[Len(t)]
  BY SumOf
<1>4. /\ g \in [0 .. n -> Int] /\ g[0] = 0 /\ \A k \in 1 .. n : g[k] = g[k - 1] + s[k]
      /\ h \in [0 .. n -> Int] /\ h[0] = 0 /\ \A k \in 1 .. n : h[k] = h[k - 1] + t[k]
      /\ SumSeq(t) = h[n]
  BY <1>1, <1>2, <1>3 DEF SumsOf
<1> HIDE DEF n
<1> DEFINE S == {k \in 0 .. n : h[k] = g[k] + k * c}
<1>5. 0 \in S
  BY <1>1, <1>4
<1>6. ASSUME NEW k \in 1 .. n, k - 1 \in S PROVE k \in S
  <2>1. k \in Int /\ k - 1 \in 0 .. n /\ g[k - 1] \in Int /\ h[k - 1] = g[k - 1] + (k - 1) * c
    BY <1>1, <1>4, <1>6
  <2>2. h[k] = h[k - 1] + (s[k] + c) /\ g[k] = g[k - 1] + s[k] /\ s[k] \in Int
    BY <1>1, <1>4
  <2>3. (k - 1) * c + c = k * c
    BY <2>1
  <2>4. (k - 1) * c \in Int /\ k * c \in Int
    BY <2>1
  <2>5. h[k] = g[k] + k * c
    BY <2>1, <2>2, <2>3, <2>4
  <2> QED  BY <1>1, <2>5
<1>7. 0 .. n \subseteq S
  <2> HIDE DEF S
  <2> QED  BY <1>1, <1>5, <1>6, StepByStep
<1>8. n \in S
  BY <1>1, <1>7
<1> QED  BY <1>2, <1>4, <1>8 DEF n

LEMMA SpreadIsInt ==
    ASSUME NEW s, Sampled(s)
    PROVE  Spread(s) \in Int
<1> DEFINE q == [i \in DOMAIN s |-> s[i] * s[i]]
<1>1. DOMAIN q = DOMAIN s /\ q = [i \in DOMAIN s |-> q[i]]
  OBVIOUS
<1>2. \A i \in DOMAIN s : q[i] \in Int
  <2>1. \A i \in DOMAIN s : s[i] \in Int
    BY SamplesAre
  <2> QED  BY <2>1
<1> HIDE DEF q
<1>3. Sampled(q)
  BY <1>1, <1>2, SamplesFrom
<1>4. SumSeq(q) \in Int /\ SumSeq(s) \in Int /\ Len(s) \in Nat
  BY <1>3, SumIsInt, SamplesAre
<1> QED  BY <1>4 DEF Spread, q

LEMMA SumTimes ==
    ASSUME NEW a \in Int, NEW b \in Int, NEW k \in Int
    PROVE  (a + b) * k = a * k + b * k
OBVIOUS

LEMMA DifferenceTimes ==
    ASSUME NEW a \in Int, NEW b \in Int, NEW k \in Int
    PROVE  (a - b) * k = a * k - b * k
OBVIOUS

LEMMA ProductsInOrder ==
    ASSUME NEW a \in Int, NEW b \in Int, NEW k \in Nat, a <= b
    PROVE  a * k <= b * k
OBVIOUS

\* Whether a change is large enough, of a larger change.
LEMMA LargerChange ==
    ASSUME NEW base, Sampled(base), NEW cand, Sampled(cand), NEW next, Sampled(next),
           Len(next) = Len(cand), NEW pct \in Nat, NEW tenths \in Nat, SumSeq(base) # 0,
           AbsValue(Delta(base, cand)) <= AbsValue(Delta(base, next)),
           AbsValue(Distance(base, cand)) <= AbsValue(Distance(base, next))
    PROVE  /\ ChangedByPct(base, cand, pct) => ChangedByPct(base, next, pct)
           /\ ChangedBySigmas(base, cand, tenths) => ChangedBySigmas(base, next, tenths)
<1> DEFINE n == Len(cand)
           d == Distance(base, cand)
           e == Distance(base, next)
           a == AbsValue(Delta(base, cand))
           b == AbsValue(Delta(base, next))
<1>1. /\ n \in Nat /\ n >= 1 /\ Len(base) \in Nat /\ Len(base) >= 1 /\ Len(next) = n
      /\ SumSeq(base) \in Int /\ SumSeq(cand) \in Int /\ SumSeq(next) \in Int
      /\ TwiceMedian(base) \in Int
  BY SamplesAre, SumIsInt, MedianOf
<1>2. Delta(base, cand) \in Int /\ Delta(base, next) \in Int
  BY <1>1 DEF Delta
<1>3. d \in Int /\ e \in Int
  BY <1>1 DEF Distance
<1>4. a \in Nat /\ b \in Nat /\ a <= b
  BY <1>2 DEF AbsValue
<1>5. AbsValue(d) \in Nat /\ AbsValue(e) \in Nat /\ AbsValue(d) <= AbsValue(e)
  BY <1>3 DEF AbsValue
<1>6. ChangedByPct(base, cand, pct) => ChangedByPct(base, next, pct)
  <2> DEFINE k == pct * n * AbsValue(SumSeq(base))
  <2>1. k \in Int
    BY <1>1 DEF AbsValue
  <2>2. ChangedByPct(base, cand, pct) <=> a * 100 >= k
    BY DEF ChangedByPct
  <2>3. ChangedByPct(base, next, pct) <=> b * 100 >= k
    BY <1>1 DEF ChangedByPct
  <2> HIDE DEF k, a, b
  <2> QED  BY <1>4, <2>1, <2>2, <2>3
<1>7. d * d \in Int /\ e * e \in Int /\ d * d <= e * e
  <2>1. d * d = AbsValue(d) * AbsValue(d) /\ e * e = AbsValue(e) * AbsValue(e)
    <3> HIDE DEF d, e
    <3> QED  BY <1>3 DEF AbsValue
  <2> DEFINE p == AbsValue(d)
             q == AbsValue(e)
  <2> HIDE DEF p, q, d, e
  <2>2. p \in Nat /\ q \in Nat /\ p <= q
    BY <1>5 DEF p, q
  <2>3. p * p <= q * p /\ p * q <= q * q
    BY <2>2, ProductsInOrder
  <2>4. p * q = q * p /\ p * p \in Int /\ q * q \in Int /\ q * p \in Int
    BY <2>2
  <2> QED  BY <2>1, <2>3, <2>4 DEF p, q
<1>8. ChangedBySigmas(base, cand, tenths) => ChangedBySigmas(base, next, tenths)
  <2>1. CASE FourTimesMad(base) > 0
    <3> DEFINE k == tenths * 14826 * n * FourTimesMad(base)
    <3>1. k \in Int
      BY <1>1, MadOf
    <3>2. ChangedBySigmas(base, cand, tenths) <=> AbsValue(d) * 200000 >= k
      BY <2>1 DEF ChangedBySigmas
    <3>3. ChangedBySigmas(base, next, tenths) <=> AbsValue(e) * 200000 >= k
      BY <1>1, <2>1 DEF ChangedBySigmas
    <3> HIDE DEF k, d, e
    <3> QED  BY <1>5, <3>1, <3>2, <3>3
  <2>2. CASE ~ (FourTimesMad(base) > 0) /\ Spread(base) > 0
    <3> DEFINE m == Len(base)
               k == tenths * tenths * Spread(base) * n * n
               w == 25 * m * (m - 1)
    <3>1. ChangedBySigmas(base, cand, tenths) <=> d * d * 25 * m * (m - 1) >= k
      BY <2>2 DEF ChangedBySigmas
    <3>2. ChangedBySigmas(base, next, tenths) <=> e * e * 25 * m * (m - 1) >= k
      BY <1>1, <2>2 DEF ChangedBySigmas
    <3> DEFINE p == d * d
               q == e * e
    <3>3. d * d * 25 * m * (m - 1) = p * w /\ e * e * 25 * m * (m - 1) = q * w /\ w \in Nat
      <4> HIDE DEF p, q
      <4>1. m \in Int /\ m >= 1 /\ p \in Int /\ q \in Int
        BY <1>1, <1>7 DEF p, q
      <4>2. p * 25 * m * (m - 1) = p * (25 * m * (m - 1)) /\ q * 25 * m * (m - 1) = q * (25 * m * (m - 1))
        <5> HIDE DEF m
        <5> QED  BY <4>1
      <4>3. 25 * m * (m - 1) \in Nat
        <5> HIDE DEF m
        <5> QED  BY <4>1
      <4> QED  BY <4>2, <4>3 DEF p, q
    <3>4. p * w <= q * w
      <4> HIDE DEF p, q, w
      <4>1. p \in Int /\ q \in Int /\ p <= q
        BY <1>7 DEF p, q
      <4> QED  BY <3>3, <4>1, ProductsInOrder
    <3>5. k \in Int
      <4>1. Spread(base) \in Int
        BY <2>2, SpreadIsInt
      <4> QED  BY <1>1, <4>1
    <3>6. p * w \in Int /\ q * w \in Int
      <4> HIDE DEF p, q, w
      <4>1. p \in Int /\ q \in Int
        BY <1>7 DEF p, q
      <4> QED  BY <3>3, <4>1
    <3> HIDE DEF k, p, q, w
    <3> QED  BY <3>1, <3>2, <3>3, <3>4, <3>5, <3>6
  <2>3. CASE ~ (FourTimesMad(base) > 0) /\ ~ (Spread(base) > 0)
    BY <2>3 DEF ChangedBySigmas
  <2> QED  BY <2>1, <2>2, <2>3
<1> QED  BY <1>6, <1>8

\* What got worse by enough is still a regression when it gets worse by more.
LEMMA WorseStays ==
    ASSUME NEW metric, NEW base, Sampled(base), NEW cand, Sampled(cand), NEW next, Sampled(next),
           Shifted(cand, next, IF metric \in HigherIsBetter THEN -1 ELSE 1),
           NEW x, x.min_pct \in Nat, x.z_tenths \in Nat,
           ClassifyMetric(metric, base, cand, x) = "REGRESSION",
           SumSeq(base) > 0, OneSided(base, cand)
    PROVE  ClassifyMetric(metric, base, next, x) = "REGRESSION"
<1> DEFINE u == IF metric \in HigherIsBetter THEN -1 ELSE 1
           n == Len(cand)
           m == Len(base)
           S == SumSeq(base)
           D == Delta(base, cand)
           d == Distance(base, cand)
<1>1. /\ n \in Nat /\ n >= 1 /\ m \in Nat /\ m >= 1 /\ Len(next) = n
      /\ S \in Int /\ SumSeq(cand) \in Int /\ TwiceMedian(base) \in Int /\ S > 0
  BY SamplesAre, SumIsInt, MedianOf DEF Shifted
<1>2. SumSeq(next) = SumSeq(cand) + n * u
  <2>1. u \in Int
    OBVIOUS
  <2> HIDE DEF u
  <2> QED  BY <2>1, ShiftedSum DEF u
<1>3. u = -1 \/ u = 1
  OBVIOUS
<1>4. D \in Int /\ d \in Int
  BY <1>1 DEF Delta, Distance
<1>5. Distance(base, next) = d + 2 * (n * u)
  <2> HIDE DEF u
  <2> QED  BY <1>1, <1>2, <1>3 DEF Distance
<1>6. Delta(base, next) = D + (n * m) * u
  <2>1. CASE u = 1
    <3>1. Delta(base, next) = (SumSeq(cand) + n) * m - S * n
      BY <1>1, <1>2, <2>1 DEF Delta
    <3>2. (SumSeq(cand) + n) * m = SumSeq(cand) * m + n * m
      <4> HIDE DEF n, m
      <4> QED  BY <1>1, SumTimes
    <3>3. D = SumSeq(cand) * m - S * n
      BY DEF Delta
    <3>4. SumSeq(cand) * m \in Int /\ n * m \in Int /\ S * n \in Int
      BY <1>1
    <3> HIDE DEF D, n, m, S, u
    <3> QED  BY <2>1, <3>1, <3>2, <3>3, <3>4
  <2>2. CASE u = -1
    <3>1. Delta(base, next) = (SumSeq(cand) - n) * m - S * n
      <4>1. n * u = 0 - n
        <5> HIDE DEF n, u
        <5> QED  BY <1>1, <2>2
      <4>2. SumSeq(next) = SumSeq(cand) - n
        <5> HIDE DEF n, u
        <5> QED  BY <1>1, <1>2, <4>1
      <4> QED  BY <1>1, <4>2 DEF Delta
    <3>2. (SumSeq(cand) - n) * m = SumSeq(cand) * m - n * m
      <4> HIDE DEF n, m
      <4> QED  BY <1>1, DifferenceTimes
    <3>3. D = SumSeq(cand) * m - S * n
      BY DEF Delta
    <3>4. SumSeq(cand) * m \in Int /\ n * m \in Int /\ S * n \in Int
      BY <1>1
    <3> HIDE DEF D, n, m, S, u
    <3> QED  BY <2>2, <3>1, <3>2, <3>3, <3>4
  <2> HIDE DEF u
  <2> QED  BY <1>3, <2>1, <2>2
<1>7. n * m \in Nat /\ n * m >= 1
  <2> HIDE DEF n, m
  <2> QED  BY <1>1
<1>8. /\ ChangedByPct(base, cand, x.min_pct) /\ ChangedBySigmas(base, cand, x.z_tenths)
      /\ GotWorse(metric, base, cand)
  BY DEF ClassifyMetric
<1>9. (u = 1 /\ D > 0) \/ (u = -1 /\ D < 0)
  <2>1. CASE metric \in HigherIsBetter
    <3>1. D * S < 0
      BY <1>8, <2>1 DEF GotWorse
    <3> HIDE DEF D, S
    <3>2. S \in Nat
      BY <1>1
    <3>3. D < 0
      <4> SUFFICES ASSUME 0 <= D PROVE FALSE
        BY <1>4
      <4>1. 0 * S <= D * S
        BY <1>4, <3>2, ProductsInOrder
      <4> QED  BY <1>4, <3>1, <3>2, <4>1
    <3> QED  BY <2>1, <3>3
  <2>2. CASE metric \notin HigherIsBetter
    <3>1. D * S > 0
      BY <1>8, <2>2 DEF GotWorse
    <3> HIDE DEF D, S
    <3>2. S \in Nat
      BY <1>1
    <3>3. D > 0
      <4> SUFFICES ASSUME D <= 0 PROVE FALSE
        BY <1>4
      <4>1. D * S <= 0 * S
        BY <1>4, <3>2, ProductsInOrder
      <4> QED  BY <1>4, <3>1, <3>2, <4>1
    <3> QED  BY <2>2, <3>3
  <2> QED  BY <2>1, <2>2
<1> DEFINE E == Delta(base, next)
           e == Distance(base, next)
           p == n * m
<1>10. /\ (D >= 0 /\ d >= 0) \/ (D <= 0 /\ d <= 0)
       /\ E = D + p * u /\ e = d + 2 * (n * u) /\ p \in Nat /\ p >= 1
  BY <1>5, <1>6, <1>7 DEF OneSided
<1> HIDE DEF u, D, d, E, e, p, n
<1>11. AbsValue(D) <= AbsValue(E) /\ AbsValue(d) <= AbsValue(e)
  <2>1. CASE u = 1 /\ D > 0
    BY <1>1, <1>4, <1>10, <2>1 DEF AbsValue
  <2>2. CASE u = -1 /\ D < 0
    BY <1>1, <1>4, <1>10, <2>2 DEF AbsValue
  <2> QED  BY <1>9, <2>1, <2>2
<1>12. (u = 1 /\ E > 0) \/ (u = -1 /\ E < 0)
  BY <1>4, <1>9, <1>10
<1>13. GotWorse(metric, base, next)
  <2>1. CASE u = 1 /\ E > 0
    <3>1. metric \notin HigherIsBetter
      BY <2>1 DEF u
    <3>2. E \in Int /\ S \in Int /\ S > 0
      BY <1>1, <1>4, <1>10, <2>1
    <3> HIDE DEF S
    <3>3. E * S > 0
      BY <2>1, <3>2
    <3> QED  BY <3>1, <3>3 DEF GotWorse, E, S
  <2>2. CASE u = -1 /\ E < 0
    <3>1. metric \in HigherIsBetter
      BY <2>2 DEF u
    <3>2. E \in Int /\ S \in Int /\ S > 0
      BY <1>1, <1>4, <1>10, <2>2
    <3> HIDE DEF S
    <3>3. E * S < 0
      BY <2>2, <3>2
    <3> QED  BY <3>1, <3>3 DEF GotWorse, E, S
  <2> QED  BY <1>12, <2>1, <2>2
<1>14. ChangedByPct(base, next, x.min_pct) /\ ChangedBySigmas(base, next, x.z_tenths)
  <2>1. S # 0
    BY <1>1
  <2>2. AbsValue(Delta(base, cand)) <= AbsValue(Delta(base, next))
    BY <1>11 DEF D, E
  <2>3. AbsValue(Distance(base, cand)) <= AbsValue(Distance(base, next))
    BY <1>11 DEF d, e
  <2>4. Len(next) = Len(cand)
    BY <1>1 DEF n
  <2> QED  BY <1>8, <2>1, <2>2, <2>3, <2>4, LargerChange
<1> QED  BY <1>13, <1>14 DEF ClassifyMetric

\* Of two commits one is not a regression of the other and the other of it.
LEMMA BackIsNone ==
    ASSUME NEW metric, NEW base, Sampled(base), NEW cand, Sampled(cand), NEW x,
           ClassifyMetric(metric, base, cand, x) = "REGRESSION",
           SumSeq(base) > 0, SumSeq(cand) >= 0
    PROVE  ClassifyMetric(metric, cand, base, x) # "REGRESSION"
<1> DEFINE S == SumSeq(base)
           C == SumSeq(cand)
           D == Delta(base, cand)
           E == Delta(cand, base)
<1>1. S \in Nat /\ S > 0 /\ C \in Nat /\ Len(base) \in Nat /\ Len(cand) \in Nat
  BY SamplesAre, SumIsInt
<1>2. D \in Int /\ E \in Int /\ E = 0 - D
  BY <1>1 DEF Delta
<1> HIDE DEF S, C, D, E
<1>3. SUFFICES ASSUME GotWorse(metric, cand, base) PROVE FALSE
  BY DEF ClassifyMetric
<1>4. GotWorse(metric, base, cand)
  BY DEF ClassifyMetric
<1>5. CASE metric \in HigherIsBetter
  <2>1. D * S < 0 /\ E * C < 0
    BY <1>3, <1>4, <1>5 DEF GotWorse, D, S, E, C
  <2>2. ~ (0 <= D)
    <3> SUFFICES ASSUME 0 <= D PROVE FALSE
      OBVIOUS
    <3>1. 0 * S <= D * S
      BY <1>1, <1>2, ProductsInOrder
    <3> QED  BY <1>1, <1>2, <2>1, <3>1
  <2>3. 0 <= E
    BY <1>2, <2>2
  <2>4. 0 * C <= E * C
    BY <1>1, <1>2, <2>3, ProductsInOrder
  <2> QED  BY <1>1, <1>2, <2>1, <2>4
<1>6. CASE metric \notin HigherIsBetter
  <2>1. D * S > 0 /\ E * C > 0
    BY <1>3, <1>4, <1>6 DEF GotWorse, D, S, E, C
  <2>2. ~ (D <= 0)
    <3> SUFFICES ASSUME D <= 0 PROVE FALSE
      OBVIOUS
    <3>1. D * S <= 0 * S
      BY <1>1, <1>2, ProductsInOrder
    <3> QED  BY <1>1, <1>2, <2>1, <3>1
  <2>3. E <= 0
    BY <1>2, <2>2
  <2>4. E * C <= 0 * C
    BY <1>1, <1>2, <2>3, ProductsInOrder
  <2> QED  BY <1>1, <1>2, <2>1, <2>4
<1> QED  BY <1>5, <1>6

\* The quartiles of more than four samples and those in their middle.
LEMMA RanksOfQuartiles ==
    ASSUME NEW n \in Nat, n > 4
    PROVE  /\ (n - 1) \div 2 \in 1 .. n /\ (n - 1) \div 2 <= (n + 1) \div 2
           /\ (n + 1) \div 2 \in 1 .. n - 1 /\ (n + 2) \div 2 \in 1 .. n - 1
           /\ (n + 1) \div 2 <= (n + 2) \div 2
           /\ RankLow(n, 1) \in 1 .. n - 1 /\ RankLow(n, 1) <= (n - 1) \div 2
           /\ RankLow(n, 1) + 1 <= (n + 1) \div 2 /\ RankLow(n, 1) + 1 \in 1 .. n - 1
           /\ RankPart(n, 1) \in {2, 3} => RankLow(n, 1) + 1 <= (n - 1) \div 2
           /\ RankLow(n, 3) \in 1 .. n - 1 /\ (n + 2) \div 2 <= RankLow(n, 3)
           /\ RankPart(n, 3) # 0 => RankLow(n, 3) + 1 \in 1 .. n - 1
           /\ n - ((n - 1) \div 2) >= (n + 2) \div 2
<1>1. PICK m \in Nat, r \in 0 .. 3 : n - 1 = 4 * m + r
  <2>1. n - 1 = 4 * ((n - 1) \div 4) + ((n - 1) % 4) /\ (n - 1) \div 4 \in Nat /\ (n - 1) % 4 \in 0 .. 3
    OBVIOUS
  <2> QED  BY <2>1
<1>2. m >= 1
  BY <1>1
<1>3. r = 0 \/ r = 1 \/ r = 2 \/ r = 3
  BY <1>1
<1>4. /\ RankLow(n, 1) = (n - 1) \div 4 + 1 /\ RankPart(n, 1) = (n - 1) % 4
      /\ RankLow(n, 3) = (3 * (n - 1)) \div 4 + 1 /\ RankPart(n, 3) = (3 * (n - 1)) % 4
  BY DEF RankLow, RankPart
<1>5. CASE r = 0
  <2>1. n = 4 * m + 1
    BY <1>1, <1>5
  <2>2. /\ (n - 1) \div 2 = 2 * m /\ (n + 1) \div 2 = 2 * m + 1 /\ (n + 2) \div 2 = 2 * m + 1
        /\ RankLow(n, 1) = m + 1 /\ RankPart(n, 1) = 0 /\ RankLow(n, 3) = 3 * m + 1 /\ RankPart(n, 3) = 0
    BY <1>1, <1>4, <2>1
  <2> QED  BY <1>1, <1>2, <2>1, <2>2
<1>6. CASE r = 1
  <2>1. n = 4 * m + 2
    BY <1>1, <1>6
  <2>2. /\ (n - 1) \div 2 = 2 * m /\ (n + 1) \div 2 = 2 * m + 1 /\ (n + 2) \div 2 = 2 * m + 2
        /\ RankLow(n, 1) = m + 1 /\ RankPart(n, 1) = 1 /\ RankLow(n, 3) = 3 * m + 1 /\ RankPart(n, 3) = 3
    BY <1>1, <1>4, <2>1
  <2> QED  BY <1>1, <1>2, <2>1, <2>2
<1>7. CASE r = 2
  <2>1. n = 4 * m + 3
    BY <1>1, <1>7
  <2>2. /\ (n - 1) \div 2 = 2 * m + 1 /\ (n + 1) \div 2 = 2 * m + 2 /\ (n + 2) \div 2 = 2 * m + 2
        /\ RankLow(n, 1) = m + 1 /\ RankPart(n, 1) = 2 /\ RankLow(n, 3) = 3 * m + 2 /\ RankPart(n, 3) = 2
    BY <1>1, <1>4, <2>1
  <2> QED  BY <1>1, <1>2, <2>1, <2>2
<1>8. CASE r = 3
  <2>1. n = 4 * m + 4
    BY <1>1, <1>8
  <2>2. /\ (n - 1) \div 2 = 2 * m + 1 /\ (n + 1) \div 2 = 2 * m + 2 /\ (n + 2) \div 2 = 2 * m + 3
        /\ RankLow(n, 1) = m + 1 /\ RankPart(n, 1) = 3 /\ RankLow(n, 3) = 3 * m + 3 /\ RankPart(n, 3) = 1
    BY <1>1, <1>4, <2>1
  <2> QED  BY <1>1, <1>2, <2>1, <2>2
<1> QED  BY <1>3, <1>5, <1>6, <1>7, <1>8

LEMMA QuartersAround ==
    ASSUME NEW s, Sampled(s), Len(s) > 4
    PROVE  LET x == OrderStatistic(s, (Len(s) - 1) \div 2)
               l == OrderStatistic(s, (Len(s) + 1) \div 2)
               h == OrderStatistic(s, (Len(s) + 2) \div 2)
           IN  /\ x \in Int /\ l \in Int /\ h \in Int /\ x <= l /\ l <= h
               /\ Quartile4(s, 1) <= 3 * x + l /\ 4 * h <= Quartile4(s, 3)
<1> DEFINE n == Len(s)
           O(k) == OrderStatistic(s, k)
           x == O((n - 1) \div 2)
           l == O((n + 1) \div 2)
           h == O((n + 2) \div 2)
           low == RankLow(n, 1)
           r == RankPart(n, 1)
           top == RankLow(n, 3)
           p == RankPart(n, 3)
<1>1. /\ n \in Nat /\ n > 4 /\ Numbers(s) /\ Cardinality(DOMAIN s) = n
  BY SamplesAre
<1>2. /\ \A k \in 1 .. n : O(k) \in Int
      /\ \A j, k \in 1 .. n : j <= k => O(j) <= O(k)
  <2>1. \A k \in 1 .. n : O(k) \in Int
    BY <1>1, StatisticOf
  <2>2. \A j, k \in 1 .. n : j <= k => O(j) <= O(k)
    BY <1>1, StatisticsInOrder
  <2> QED  BY <2>1, <2>2
<1>3. /\ (n - 1) \div 2 \in 1 .. n /\ (n - 1) \div 2 <= (n + 1) \div 2
      /\ (n + 1) \div 2 \in 1 .. n /\ (n + 2) \div 2 \in 1 .. n /\ (n + 1) \div 2 <= (n + 2) \div 2
      /\ low \in 1 .. n /\ low <= (n - 1) \div 2 /\ low + 1 <= (n + 1) \div 2 /\ low + 1 \in 1 .. n
      /\ r \in {2, 3} => low + 1 <= (n - 1) \div 2
      /\ top \in 1 .. n /\ (n + 2) \div 2 <= top
      /\ p # 0 => top + 1 \in 1 .. n
  <2> HIDE DEF n
  <2>1. \A k \in 1 .. n - 1 : k \in 1 .. n
    BY <1>1
  <2> QED  BY <1>1, <2>1, RanksOfQuartiles
<1>4. /\ Quartile4(s, 1) = IF r = 0 THEN 4 * O(low) ELSE O(low) * (4 - r) + O(low + 1) * r
      /\ Quartile4(s, 3) = IF p = 0 THEN 4 * O(top) ELSE O(top) * (4 - p) + O(top + 1) * p
      /\ r \in 0 .. 3 /\ p \in 0 .. 3
  BY QuartileOf
<1> HIDE DEF n, O
<1>5. /\ x \in Int /\ l \in Int /\ h \in Int /\ x <= l /\ l <= h
      /\ O(low) \in Int /\ O(low) <= x /\ O(low + 1) \in Int /\ O(low + 1) <= l
      /\ r \in {2, 3} => O(low + 1) <= x
      /\ O(top) \in Int /\ h <= O(top)
      /\ p # 0 => O(top + 1) \in Int /\ h <= O(top + 1)
  <2>1. p # 0 => (n + 2) \div 2 <= top + 1
    BY <1>1, <1>3
  <2> QED  BY <1>2, <1>3, <2>1
<1> HIDE DEF x, l, h, low, r, top, p
<1>6. Quartile4(s, 1) <= 3 * x + l
  <2>1. r = 0 \/ r = 1 \/ r = 2 \/ r = 3
    BY <1>4
  <2>2. CASE r = 0
    BY <1>4, <1>5, <2>2
  <2>3. CASE r = 1
    BY <1>4, <1>5, <2>3
  <2>4. CASE r = 2
    BY <1>4, <1>5, <2>4
  <2>5. CASE r = 3
    BY <1>4, <1>5, <2>5
  <2> QED  BY <2>1, <2>2, <2>3, <2>4, <2>5
<1>7. 4 * h <= Quartile4(s, 3)
  <2>1. p = 0 \/ p = 1 \/ p = 2 \/ p = 3
    BY <1>4
  <2>2. CASE p = 0
    BY <1>4, <1>5, <2>2
  <2>3. CASE p = 1
    BY <1>4, <1>5, <2>3
  <2>4. CASE p = 2
    BY <1>4, <1>5, <2>4
  <2>5. CASE p = 3
    BY <1>4, <1>5, <2>5
  <2> QED  BY <2>1, <2>2, <2>3, <2>4, <2>5
<1> QED  BY <1>5, <1>6, <1>7 DEF x, l, h, O, n

\* A sample that is an outlier and above all others.
WildSample(s, i) ==
    /\ Sampled(s) /\ Len(s) > 4 /\ i \in DOMAIN s
    /\ \A j \in DOMAIN s : s[j] <= s[i]
    /\ IsOutlier(s, s[i])

\* How many of the samples are not further from the median than it.
Nearer(e, i) == {j \in DOMAIN e \ {i} : e[j] <= e[i]}

LEMMA StatisticsUnder ==
    ASSUME NEW s, Sampled(s), NEW i \in DOMAIN s, \A j \in DOMAIN s : s[j] <= s[i],
           NEW k \in 1 .. Len(s)
    PROVE  OrderStatistic(s, k) <= s[i]
<1>1. Numbers(s) /\ k \in 1 .. Cardinality(DOMAIN s)
  BY SamplesAre
<1>2. IsStatistic(s, k, OrderStatistic(s, k))
  BY <1>1, StatisticOf
<1> QED  BY <1>2 DEF IsStatistic

\* Not below the lower fence, and above the upper one or many median deviations away.
LEMMA WildIsHigh ==
    ASSUME NEW s, NEW i, WildSample(s, i)
    PROVE  /\ s[i] \in Int /\ TwiceMedian(s) \in Int /\ TwiceMedian(s) <= 2 * s[i]
           /\ \/ 8 * s[i] > 2 * Quartile4(s, 3) + 3 * (Quartile4(s, 3) - Quartile4(s, 1))
              \/ /\ FourTimesMad(s) > 0
                 /\ (2 * s[i] - TwiceMedian(s)) * 2 * 6745 > 35000 * FourTimesMad(s)
<1> DEFINE n == Len(s)
           x == OrderStatistic(s, (n - 1) \div 2)
           l == OrderStatistic(s, (n + 1) \div 2)
           h == OrderStatistic(s, (n + 2) \div 2)
           a == Quartile4(s, 1)
           b == Quartile4(s, 3)
           m == TwiceMedian(s)
           v == s[i]
<1>1. /\ Sampled(s) /\ n > 4 /\ i \in DOMAIN s /\ \A j \in DOMAIN s : s[j] <= s[i]
      /\ IsOutlier(s, v)
  BY DEF WildSample
<1>2. v \in Int /\ n \in Nat /\ (n + 2) \div 2 \in 1 .. n
  BY <1>1, SamplesAre
<1>3. /\ x \in Int /\ l \in Int /\ h \in Int /\ x <= l /\ l <= h /\ a <= 3 * x + l /\ 4 * h <= b
  BY <1>1, QuartersAround
<1>4. h <= v
  BY <1>1, <1>2, StatisticsUnder
<1>5. a \in Int /\ b \in Int
  BY <1>1, QuartileOf
<1>6. m = l + h /\ m \in Int
  BY <1>1, MedianOf
<1>7. \/ 8 * v < 2 * a - 3 * (b - a)
      \/ 8 * v > 2 * b + 3 * (b - a)
      \/ FourTimesMad(s) > 0 /\ AbsValue(2 * v - m) * 2 * 6745 > 35000 * FourTimesMad(s)
  BY <1>1 DEF IsOutlier
<1> HIDE DEF n, x, l, h, a, b, m, v
<1>8. m <= 2 * v
  BY <1>2, <1>3, <1>4, <1>6
<1>9. AbsValue(2 * v - m) = 2 * v - m
  BY <1>2, <1>6, <1>8 DEF AbsValue
<1>10. ~ (8 * v < 2 * a - 3 * (b - a))
  BY <1>2, <1>3, <1>4, <1>5
<1> QED  BY <1>2, <1>6, <1>7, <1>8, <1>9, <1>10 DEF v, m, a, b

LEMMA MostAreNearer ==
    ASSUME NEW s, NEW i, WildSample(s, i)
    PROVE  Cardinality(Nearer(Deviations(s), i)) >= (Len(s) + 2) \div 2
<1> DEFINE n == Len(s)
           e == Deviations(s)
           k == (n + 2) \div 2
           m == TwiceMedian(s)
           v == s[i]
           D == DOMAIN s
           N == Nearer(e, i)
<1>1. Sampled(s) /\ n > 4 /\ i \in D /\ \A j \in D : s[j] <= s[i]
  BY DEF WildSample
<1>2. /\ v \in Int /\ m \in Int /\ m <= 2 * v
      /\ \/ 8 * v > 2 * Quartile4(s, 3) + 3 * (Quartile4(s, 3) - Quartile4(s, 1))
         \/ FourTimesMad(s) > 0 /\ (2 * v - m) * 2 * 6745 > 35000 * FourTimesMad(s)
  BY WildIsHigh
<1>3. /\ Sampled(e) /\ Len(e) = n /\ DOMAIN e = D
      /\ \A j \in D : e[j] = AbsValue(2 * s[j] - m) /\ e[j] \in Nat
  BY <1>1, DeviationsOf
<1>4. /\ n \in Nat /\ IsFiniteSet(D) /\ Cardinality(D) = n /\ k \in 1 .. n /\ Numbers(e)
      /\ Numbers(s) /\ \A j \in D : s[j] \in Int
  <2>1. /\ n \in Nat /\ Cardinality(D) = n /\ k \in 1 .. n /\ Numbers(s) /\ D = 1 .. n
        /\ \A j \in 1 .. n : s[j] \in Int
    BY <1>1, SamplesAre
  <2>2. Numbers(e)
    BY <1>3, SamplesAre
  <2> QED  BY <2>1, <2>2 DEF Numbers
<1> HIDE DEF e
<1>5. N \in SUBSET D /\ IsFiniteSet(N) /\ Cardinality(N) \in Nat
  <2>1. N \in SUBSET D
    BY <1>3 DEF Nearer
  <2> QED  BY <1>4, <2>1, FS_Subset, FS_CardinalityType
<1>6. e[i] = 2 * v - m
  BY <1>1, <1>2, <1>3 DEF AbsValue
<1>7. CASE FourTimesMad(s) > 0 /\ (2 * v - m) * 2 * 6745 > 35000 * FourTimesMad(s)
  <2> DEFINE lo == OrderStatistic(e, (n + 1) \div 2)
             hi == OrderStatistic(e, k)
  <2>1. FourTimesMad(s) = lo + hi /\ lo \in Int /\ hi \in Int
    BY <1>3, MedianOf DEF FourTimesMad, e
  <2>2. k \in 1 .. Cardinality(DOMAIN e) /\ (n + 1) \div 2 \in 1 .. Cardinality(DOMAIN e)
    <3> HIDE DEF n, D
    <3>1. (n + 1) \div 2 \in 1 .. n
      <4>1. Len(s) > 4 /\ Len(s) \in Nat
        BY <1>1, <1>4 DEF n
      <4> QED  BY <4>1 DEF n
    <3> QED  BY <1>3, <1>4, <3>1
  <2>3. IsStatistic(e, k, hi) /\ IsStatistic(e, (n + 1) \div 2, lo)
    BY <1>4, <2>2, StatisticOf
  <2>4. lo >= 0
    BY <1>3, <2>3 DEF IsStatistic
  <2> HIDE DEF lo, hi, m, v
  <2>5. hi < e[i]
    BY <1>2, <1>6, <1>7, <2>1, <2>4
  <2>6. UpTo(e, hi) \in SUBSET N
    <3>1. \A j \in D : e[j] <= hi => e[j] <= e[i] /\ j # i
      BY <1>1, <1>3, <2>1, <2>5
    <3> QED  BY <1>3, <3>1 DEF UpTo, Nearer
  <2>7. Cardinality(UpTo(e, hi)) <= Cardinality(N) /\ Cardinality(UpTo(e, hi)) \in Nat
    <3> HIDE DEF N
    <3> QED  BY <1>4, <1>5, <2>6, CountsOf, FS_Subset
  <2>8. Cardinality(UpTo(e, hi)) >= k
    BY <2>3 DEF IsStatistic
  <2> HIDE DEF N, k
  <2> QED  BY <1>4, <1>5, <2>7, <2>8 DEF k, N, e
<1>8. CASE 8 * v > 2 * Quartile4(s, 3) + 3 * (Quartile4(s, 3) - Quartile4(s, 1))
  <2> DEFINE x == OrderStatistic(s, (n - 1) \div 2)
             l == OrderStatistic(s, (n + 1) \div 2)
             h == OrderStatistic(s, k)
             a == Quartile4(s, 1)
             b == Quartile4(s, 3)
             B == Below(s, x)
  <2>1. x \in Int /\ l \in Int /\ h \in Int /\ x <= l /\ l <= h /\ a <= 3 * x + l /\ 4 * h <= b
    BY <1>1, QuartersAround
  <2>2. a \in Int /\ b \in Int /\ m = l + h
    BY <1>1, QuartileOf, MedianOf
  <2>3. (n - 1) \div 2 \in 1 .. Cardinality(D) /\ n - ((n - 1) \div 2) >= k
    <3>1. n \in Nat /\ n > 4
      BY <1>1, <1>4
    <3> HIDE DEF n, D
    <3> QED  BY <1>4, <3>1, RanksOfQuartiles
  <2>4. IsStatistic(s, (n - 1) \div 2, x)
    BY <1>4, <2>3, StatisticOf
  <2>5. m - v < x
    <3> HIDE DEF x, l, h, a, b, m, v
    <3> QED  BY <1>2, <1>8, <2>1, <2>2 DEF a, b
  <2>6. IsFiniteSet(B) /\ Cardinality(B) \in Nat /\ Cardinality(B) < (n - 1) \div 2 /\ B \in SUBSET D
    <3>1. IsFiniteSet(B) /\ Cardinality(B) \in Nat
      BY <1>4, CountsOf
    <3>2. Cardinality(B) < (n - 1) \div 2
      BY <2>4 DEF IsStatistic
    <3>3. B \in SUBSET D
      BY DEF Below
    <3> QED  BY <3>1, <3>2, <3>3
  <2> HIDE DEF x, l, h, a, b
  <2>7. D = N \cup (B \cup {i})
    <3>1. ASSUME NEW j \in D, j # i, ~ (e[j] <= e[i]) PROVE s[j] < x
      <4>1. s[j] \in Int /\ s[j] <= v /\ e[j] = AbsValue(2 * s[j] - m)
        BY <1>1, <1>3, <1>4
      <4> HIDE DEF m, v
      <4>2. e[j] = m - 2 * s[j]
        BY <1>2, <1>6, <3>1, <4>1 DEF AbsValue
      <4> QED  BY <1>2, <1>6, <2>1, <2>5, <3>1, <4>1, <4>2
    <3>2. N \in SUBSET D /\ B \in SUBSET D /\ i \in D
      BY <1>1, <1>5, <2>6
    <3>3. \A j \in D : j # i /\ e[j] <= e[i] => j \in N
      BY <1>3 DEF Nearer
    <3>4. \A j \in D : s[j] < x => j \in B
      BY DEF Below
    <3> HIDE DEF N, B, D
    <3> QED  BY <3>1, <3>2, <3>3, <3>4
  <2> HIDE DEF B, N, D
  <2>8. IsFiniteSet({i}) /\ Cardinality({i}) = 1
    BY FS_Singleton
  <2>9. IsFiniteSet(B \cup {i}) /\ Cardinality(B \cup {i}) <= Cardinality(B) + 1 /\ Cardinality(B \cup {i}) \in Nat
    <3>1. IsFiniteSet(B \cup {i}) /\ Cardinality(B \cup {i}) = Cardinality(B) + 1 - Cardinality(B \cap {i})
      BY <2>6, <2>8, FS_Union
    <3>2. IsFiniteSet(B \cap {i}) /\ Cardinality(B \cap {i}) \in Nat
      <4>1. B \cap {i} \in SUBSET {i}
        OBVIOUS
      <4> QED  BY <2>8, <4>1, FS_Subset, FS_CardinalityType
    <3>3. Cardinality(B \cup {i}) \in Nat
      BY <3>1, FS_CardinalityType
    <3> QED  BY <2>6, <3>1, <3>2, <3>3
  <2>10. Cardinality(D) <= Cardinality(N) + Cardinality(B \cup {i})
    <3> DEFINE W == B \cup {i}
    <3>1. IsFiniteSet(W) /\ IsFiniteSet(N)
      BY <1>5, <2>9
    <3> HIDE DEF W
    <3>2. Cardinality(N \cup W) = Cardinality(N) + Cardinality(W) - Cardinality(N \cap W)
      BY <3>1, FS_Union
    <3>3. IsFiniteSet(N \cap W) /\ Cardinality(N \cap W) \in Nat /\ Cardinality(W) \in Nat
      <4>1. N \cap W \in SUBSET N
        OBVIOUS
      <4> QED  BY <3>1, <4>1, FS_Subset, FS_CardinalityType
    <3>4. D = N \cup W
      BY <2>7 DEF W
    <3> QED  BY <1>5, <3>2, <3>3, <3>4 DEF W
  <2>11. (n - 1) \div 2 \in Int /\ k \in Int
    BY <1>4
  <2> DEFINE z == (n - 1) \div 2
  <2> HIDE DEF z, k, n
  <2>12. Cardinality(N) >= k
    <3>1. z \in Int /\ n - z >= k /\ Cardinality(B) < z
      BY <2>3, <2>6, <2>11 DEF z
    <3> QED  BY <1>4, <1>5, <2>6, <2>9, <2>10, <2>11, <3>1
  <2> QED  BY <2>12 DEF N, k, n, e
<1> QED  BY <1>2, <1>7, <1>8

\* However far away a wild sample is, the samples that are kept are the same.
Wilder(s, t, i) ==
    /\ Sampled(t) /\ Len(t) = Len(s) /\ DOMAIN t = DOMAIN s
    /\ \A j \in DOMAIN s : j # i => t[j] = s[j]
    /\ s[i] <= t[i]

LEMMA WilderStatistics ==
    ASSUME NEW s, NEW i, WildSample(s, i), NEW t, Wilder(s, t, i), NEW k \in 1 .. Len(s) - 1
    PROVE  OrderStatistic(t, k) = OrderStatistic(s, k)
<1>1. /\ Sampled(s) /\ Len(s) > 4 /\ i \in DOMAIN s /\ \A j \in DOMAIN s : s[j] <= s[i]
      /\ Sampled(t) /\ DOMAIN t = DOMAIN s
      /\ \A j \in DOMAIN s : j # i => t[j] = s[j]
      /\ s[i] <= t[i]
  BY DEF WildSample, Wilder
<1>2. /\ Numbers(s) /\ Numbers(t) /\ Len(s) \in Nat /\ Cardinality(DOMAIN s) = Len(s)
      /\ IsFiniteSet(DOMAIN s)
  BY <1>1, SamplesAre DEF Numbers
<1>3. k \in 1 .. Cardinality(DOMAIN s)
  BY <1>2
<1>4. {j \in DOMAIN s \ {i} : s[j] <= s[i]} = DOMAIN s \ {i}
  BY <1>1
<1>5. Cardinality(DOMAIN s \ {i}) = Len(s) - 1
  BY <1>1, <1>2, FS_RemoveElement
<1>6. Cardinality({j \in DOMAIN s \ {i} : s[j] <= s[i]}) >= k
  <2> DEFINE n == Len(s)
             c == Cardinality(DOMAIN s \ {i})
  <2>1. n \in Nat /\ n > 4 /\ c = n - 1 /\ k \in 1 .. n - 1
    BY <1>1, <1>2, <1>5
  <2> HIDE DEF n, c
  <2>2. c >= k
    BY <2>1
  <2> QED  BY <1>4, <2>2 DEF c
<1> QED  BY <1>1, <1>2, <1>3, <1>6, RaisedAmong

LEMMA WilderMedian ==
    ASSUME NEW s, NEW i, WildSample(s, i), NEW t, Wilder(s, t, i)
    PROVE  /\ TwiceMedian(t) = TwiceMedian(s)
           /\ Quartile4(t, 1) = Quartile4(s, 1) /\ Quartile4(t, 3) = Quartile4(s, 3)
           /\ FourTimesMad(t) = FourTimesMad(s)
<1> DEFINE n == Len(s)
           O(f, k) == OrderStatistic(f, k)
<1>1. Sampled(s) /\ Sampled(t) /\ Len(t) = n /\ n > 4 /\ n \in Nat /\ DOMAIN t = DOMAIN s
  BY SamplesAre DEF WildSample, Wilder
<1>2. \A k \in 1 .. n - 1 : O(t, k) = O(s, k)
  BY WilderStatistics
<1>3. /\ (n + 1) \div 2 \in 1 .. n - 1 /\ (n + 2) \div 2 \in 1 .. n - 1
      /\ (n + 1) \div 2 \in 1 .. n /\ (n + 2) \div 2 \in 1 .. n
      /\ (n + 1) \div 2 <= (n + 2) \div 2
      /\ RankLow(n, 1) \in 1 .. n - 1 /\ RankLow(n, 1) + 1 \in 1 .. n - 1
      /\ RankLow(n, 3) \in 1 .. n - 1
      /\ RankPart(n, 3) # 0 => RankLow(n, 3) + 1 \in 1 .. n - 1
  <2> HIDE DEF n
  <2>1. \A k \in 1 .. n - 1 : k \in 1 .. n
    BY <1>1
  <2> QED  BY <1>1, <2>1, RanksOfQuartiles
<1>4. TwiceMedian(t) = TwiceMedian(s)
  <2>1. TwiceMedian(s) = O(s, (n + 1) \div 2) + O(s, (n + 2) \div 2)
    BY DEF TwiceMedian
  <2>2. TwiceMedian(t) = O(t, (n + 1) \div 2) + O(t, (n + 2) \div 2)
    BY <1>1 DEF TwiceMedian
  <2> HIDE DEF O, n
  <2> QED  BY <1>2, <1>3, <2>1, <2>2
<1>5. ASSUME NEW q \in {1, 3} PROVE Quartile4(t, q) = Quartile4(s, q)
  <2>1. Quartile4(s, q) = IF RankPart(n, q) = 0 THEN 4 * O(s, RankLow(n, q))
                          ELSE O(s, RankLow(n, q)) * (4 - RankPart(n, q))
                               + O(s, RankLow(n, q) + 1) * RankPart(n, q)
    BY <1>1, QuartileOf
  <2>2. Quartile4(t, q) = IF RankPart(n, q) = 0 THEN 4 * O(t, RankLow(n, q))
                          ELSE O(t, RankLow(n, q)) * (4 - RankPart(n, q))
                               + O(t, RankLow(n, q) + 1) * RankPart(n, q)
    BY <1>1, QuartileOf
  <2>3. RankLow(n, q) \in 1 .. n - 1 /\ (RankPart(n, q) # 0 => RankLow(n, q) + 1 \in 1 .. n - 1)
    <3> HIDE DEF n
    <3>1. q = 1 \/ q = 3
      OBVIOUS
    <3> QED  BY <1>3, <3>1
  <2> DEFINE low == RankLow(n, q)
             r == RankPart(n, q)
  <2> HIDE DEF low, r, O, n
  <2>4. O(t, low) = O(s, low) /\ (r # 0 => O(t, low + 1) = O(s, low + 1))
    BY <1>2, <2>3 DEF low, r
  <2> QED  BY <2>1, <2>2, <2>4 DEF low, r
<1>6. FourTimesMad(t) = FourTimesMad(s)
  <2> DEFINE e == Deviations(s)
             f == Deviations(t)
             m == TwiceMedian(s)
  <2>1. /\ Sampled(e) /\ Len(e) = n /\ DOMAIN e = DOMAIN s
        /\ \A j \in DOMAIN s : e[j] = AbsValue(2 * s[j] - m) /\ e[j] \in Nat
    BY <1>1, DeviationsOf
  <2>2. /\ Sampled(f) /\ Len(f) = n /\ DOMAIN f = DOMAIN s
        /\ \A j \in DOMAIN s : f[j] = AbsValue(2 * t[j] - TwiceMedian(t)) /\ f[j] \in Nat
    <3>1. /\ Sampled(f) /\ Len(f) = Len(t) /\ DOMAIN f = DOMAIN t
          /\ \A j \in DOMAIN t : f[j] = AbsValue(2 * t[j] - TwiceMedian(t)) /\ f[j] \in Nat
      BY <1>1, DeviationsOf
    <3> HIDE DEF f
    <3> QED  BY <1>1, <3>1
  <2> HIDE DEF e, f
  <2>3. i \in DOMAIN s /\ s[i] <= t[i] /\ \A j \in DOMAIN s : j # i => t[j] = s[j]
    BY DEF WildSample, Wilder
  <2>4. \A j \in DOMAIN e : j # i => f[j] = e[j]
    BY <1>4, <2>1, <2>2, <2>3
  <2>5. e[i] <= f[i]
    <3>1. s[i] \in Int /\ m \in Int /\ m <= 2 * s[i]
      BY WildIsHigh
    <3>2. t[i] \in Int
      BY <1>1, <2>3, SamplesAre
    <3> HIDE DEF m
    <3>3. e[i] = AbsValue(2 * s[i] - m) /\ f[i] = AbsValue(2 * t[i] - m)
      BY <1>4, <2>1, <2>2, <2>3 DEF m
    <3> QED  BY <2>3, <3>1, <3>2, <3>3 DEF AbsValue
  <2>6. Numbers(e) /\ Numbers(f) /\ Cardinality(DOMAIN e) = n
    BY <2>1, <2>2, SamplesAre
  <2>7. Cardinality({j \in DOMAIN e \ {i} : e[j] <= e[i]}) >= (n + 2) \div 2
    BY MostAreNearer DEF Nearer, e
  <2>8. Cardinality({j \in DOMAIN e \ {i} : e[j] <= e[i]}) \in Nat
    <3>1. {j \in DOMAIN e \ {i} : e[j] <= e[i]} \in SUBSET DOMAIN e /\ IsFiniteSet(DOMAIN e)
      BY <2>6 DEF Numbers
    <3> QED  BY <3>1, FS_Subset, FS_CardinalityType
  <2>9. ASSUME NEW k \in 1 .. n, k <= (n + 2) \div 2 PROVE O(f, k) = O(e, k)
    <3>1. k \in 1 .. Cardinality(DOMAIN e) /\ i \in DOMAIN e /\ DOMAIN f = DOMAIN e
      BY <2>1, <2>2, <2>3, <2>6
    <3>2. Cardinality({j \in DOMAIN e \ {i} : e[j] <= e[i]}) >= k
      <4> DEFINE c == Cardinality({j \in DOMAIN e \ {i} : e[j] <= e[i]})
                 z == (n + 2) \div 2
      <4>1. c >= z /\ k <= z /\ c \in Nat /\ z \in Int /\ k \in Int
        BY <1>3, <2>7, <2>8, <2>9
      <4> HIDE DEF c, z
      <4>2. c >= k
        BY <4>1
      <4> QED  BY <4>2 DEF c
    <3> QED  BY <2>4, <2>5, <2>6, <3>1, <3>2, RaisedAmong
  <2>10. FourTimesMad(s) = O(e, (n + 1) \div 2) + O(e, (n + 2) \div 2)
    BY <2>1 DEF FourTimesMad, TwiceMedian, e
  <2>11. FourTimesMad(t) = O(f, (n + 1) \div 2) + O(f, (n + 2) \div 2)
    BY <2>2 DEF FourTimesMad, TwiceMedian, f
  <2>12. (n + 2) \div 2 <= (n + 2) \div 2
    BY <1>3
  <2> HIDE DEF n, O
  <2> QED  BY <1>3, <2>9, <2>10, <2>11, <2>12
<1> QED  BY <1>4, <1>5, <1>6

LEMMA WildestKept ==
    ASSUME NEW s, NEW i, WildSample(s, i), NEW t, Wilder(s, t, i),
           \A j \in DOMAIN s : IsOutlier(s, s[j]) => j = i
    PROVE  Kept(t) = Kept(s)
<1> DEFINE a == Quartile4(s, 1)
           b == Quartile4(s, 3)
           m == TwiceMedian(s)
           d == FourTimesMad(s)
           kept == {j \in DOMAIN s : ~IsOutlier(s, s[j])}
<1>1. /\ Sampled(s) /\ Sampled(t) /\ Len(t) = Len(s) /\ Len(s) > 4 /\ Len(s) \in Nat
      /\ DOMAIN t = DOMAIN s /\ DOMAIN s = 1 .. Len(s)
      /\ i \in DOMAIN s /\ s[i] <= t[i] /\ IsOutlier(s, s[i])
      /\ \A j \in DOMAIN s : j # i => t[j] = s[j]
  BY SamplesAre DEF WildSample, Wilder
<1>2. /\ Quartile4(t, 1) = a /\ Quartile4(t, 3) = b /\ TwiceMedian(t) = m /\ FourTimesMad(t) = d
  BY WilderMedian
<1>3. \A v : IsOutlier(t, v) <=> IsOutlier(s, v)
  BY <1>2 DEF IsOutlier
<1>4. IsOutlier(t, t[i])
  <2>1. /\ s[i] \in Int /\ m \in Int /\ m <= 2 * s[i]
        /\ \/ 8 * s[i] > 2 * b + 3 * (b - a)
           \/ d > 0 /\ (2 * s[i] - m) * 2 * 6745 > 35000 * d
    BY WildIsHigh
  <2>2. a \in Int /\ b \in Int /\ d \in Int /\ t[i] \in Int
    BY <1>1, QuartileOf, MadOf, SamplesAre
  <2>3. IsOutlier(s, t[i]) <=> \/ 8 * t[i] < 2 * a - 3 * (b - a)
                               \/ 8 * t[i] > 2 * b + 3 * (b - a)
                               \/ d > 0 /\ AbsValue(2 * t[i] - m) * 2 * 6745 > 35000 * d
    BY DEF IsOutlier
  <2> HIDE DEF a, b, m, d
  <2>4. AbsValue(2 * t[i] - m) = 2 * t[i] - m
    BY <1>1, <2>1, <2>2 DEF AbsValue
  <2>5. CASE 8 * s[i] > 2 * b + 3 * (b - a)
    BY <1>1, <1>3, <2>1, <2>2, <2>3, <2>5
  <2>6. CASE d > 0 /\ (2 * s[i] - m) * 2 * 6745 > 35000 * d
    <3>1. (2 * t[i] - m) * 2 * 6745 > 35000 * d
      BY <1>1, <2>1, <2>2, <2>6
    <3> QED  BY <1>3, <2>3, <2>4, <2>6, <3>1
  <2> QED  BY <2>1, <2>5, <2>6
<1>5. {j \in DOMAIN t : ~IsOutlier(t, t[j])} = kept
  <2>1. ASSUME NEW j \in DOMAIN s PROVE IsOutlier(t, t[j]) <=> IsOutlier(s, s[j])
    <3>1. CASE j = i
      BY <1>1, <1>4, <3>1
    <3>2. CASE j # i
      BY <1>1, <1>3, <3>2
    <3> QED  BY <3>1, <3>2
  <2> QED  BY <1>1, <2>1
<1>6. i \notin kept /\ kept \in SUBSET DOMAIN s
  BY <1>1
<1>7. Kept(s) = IF Len(s) < 4 \/ kept = {} THEN s ELSE Picked(s, kept)
  BY DEF Kept
<1>8. Kept(t) = IF Len(s) < 4 \/ kept = {} THEN t ELSE Picked(t, kept)
  BY <1>1, <1>5 DEF Kept
<1>9. kept # {}
  <2>1. PICK j \in DOMAIN s : j # i
    <3>1. 1 \in DOMAIN s /\ 2 \in DOMAIN s /\ 1 # 2
      <4> DEFINE n == Len(s)
      <4> HIDE DEF n
      <4>1. n \in Nat /\ n > 4 /\ DOMAIN s = 1 .. n
        BY <1>1 DEF n
      <4> QED  BY <4>1
    <3> QED  BY <3>1
  <2> QED  BY <2>1
<1> HIDE DEF kept
<1>10. Picked(t, kept) = Picked(s, kept)
  <2>1. kept \in SUBSET (1 .. Len(s))
    BY <1>1, <1>6
  <2>2. IsFiniteSet(kept) /\ Cardinality(kept) \in Nat /\ \E at : InTheirOrder(kept, at)
    BY <1>1, <2>1, PositionsInOrder
  <2>3. PICK at : InTheirOrder(kept, at)
    BY <2>2
  <2>4. PickedAt(s, kept, at) /\ PickedAt(t, kept, at)
    BY <2>3, PickedInOrder
  <2>5. /\ at \in [1 .. Cardinality(kept) -> kept]
        /\ Picked(s, kept) = [k \in DOMAIN at |-> s[at[k]]]
        /\ Picked(t, kept) = [k \in DOMAIN at |-> t[at[k]]]
    BY <2>4 DEF PickedAt
  <2>6. \A k \in DOMAIN at : t[at[k]] = s[at[k]]
    BY <1>1, <1>6, <2>5
  <2> QED  BY <2>5, <2>6
<1>11. ~ (Len(s) < 4)
  <2> DEFINE n == Len(s)
  <2>1. n \in Nat /\ n > 4
    BY <1>1
  <2> HIDE DEF n
  <2>2. ~ (n < 4)
    BY <2>1
  <2> QED  BY <2>2 DEF n
<1> QED  BY <1>7, <1>8, <1>9, <1>10, <1>11

LEMMA RunsAre ==
    ASSUME NEW x \in Datasets
    PROVE  /\ Len(x.runs) \in Nat /\ DOMAIN x.runs = 1 .. Len(x.runs)
           /\ \A i \in DOMAIN x.runs :
                 /\ x.runs[i] \in Range(x.runs) /\ x.runs[i].order \in Nat
                 /\ \A m \in DOMAIN x.runs[i].samples : Sampled(x.runs[i].samples[m])
           /\ x.min_pct \in Nat /\ x.z_tenths \in Nat
<1>1. /\ x.runs \in Seq(Range(x.runs)) /\ x.min_pct \in Nat /\ x.z_tenths \in Nat
      /\ \A r \in Range(x.runs) :
            /\ r.order \in Nat
            /\ \A m \in DOMAIN r.samples : r.samples[m] \in Seq(Int) \ {<<>>}
  BY DatasetsAssumption
<1>2. \A i \in DOMAIN x.runs : x.runs[i] \in Range(x.runs)
  BY DEF Range
<1>3. Len(x.runs) \in Nat /\ DOMAIN x.runs = 1 .. Len(x.runs)
  BY <1>1
<1>4. \A r \in Range(x.runs) : \A m \in DOMAIN r.samples : Sampled(r.samples[m])
  BY <1>1 DEF Sampled
<1> QED  BY <1>1, <1>2, <1>3, <1>4

\* The first of the oldest and the last of the newest of some runs are among them.
LEMMA EndsOfRuns ==
    ASSUME NEW n \in Nat, NEW runs, \A i \in 1 .. n : runs[i].order \in Nat,
           NEW group \in SUBSET (1 .. n), group # {}
    PROVE  /\ Oldest(runs, group) \in SUBSET group /\ Newest(runs, group) \in SUBSET group
           /\ Min(Oldest(runs, group)) \in Oldest(runs, group)
           /\ \A i \in Oldest(runs, group) : Min(Oldest(runs, group)) <= i
           /\ Max(Newest(runs, group)) \in Newest(runs, group)
           /\ \A i \in Newest(runs, group) : i <= Max(Newest(runs, group))
<1> DEFINE f == [i \in group |-> runs[i].order]
           o == Oldest(runs, group)
           w == Newest(runs, group)
<1>1. IsFiniteSet(group) /\ group \in SUBSET Nat
  <2>1. IsFiniteSet(1 .. n) /\ \A i \in 1 .. n : i \in Nat
    BY FS_Interval
  <2> QED  BY <2>1, FS_Subset
<1>2. \A i \in group : f[i] = runs[i].order /\ f[i] \in Nat
  OBVIOUS
<1>3. DOMAIN f = group
  OBVIOUS
<1> HIDE DEF f
<1>4. o \in SUBSET group /\ w \in SUBSET group
  BY DEF Oldest, Newest
<1>5. o # {}
  <2> DEFINE T == {f[i] : i \in group}
  <2>1. T \in SUBSET Nat /\ T # {}
    BY <1>2
  <2>2. PICK t \in T : \A u \in T : t <= u
    <3> HIDE DEF T
    <3> QED  BY <2>1, LeastNatural
  <2>3. PICK i \in group : t = f[i]
    BY <2>2
  <2>4. i \in o
    BY <1>2, <2>2, <2>3 DEF Oldest
  <2> QED  BY <2>4
<1>6. w # {}
  <2>1. Numbers(f)
    <3>1. ASSUME NEW i \in DOMAIN f PROVE f[i] \in Int
      <4>1. f[i] \in Nat
        BY <1>2, <1>3
      <4> QED  BY <4>1
    <3> QED  BY <1>1, <1>3, <3>1 DEF Numbers
  <2>2. PICK i \in group : \A j \in group : f[j] <= f[i]
    BY <1>3, <2>1, HighestOf
  <2>3. i \in w
    BY <1>2, <2>2 DEF Newest
  <2> QED  BY <2>3
<1> HIDE DEF o, w
<1>7. o \in SUBSET Nat /\ w \in SUBSET Nat /\ IsFiniteSet(w)
  BY <1>1, <1>4, FS_Subset
<1>8. Min(o) \in o /\ \A i \in o : Min(o) <= i
  BY <1>5, <1>7, MinOfSome
<1>9. Max(w) \in w /\ \A i \in w : i <= Max(w)
  BY <1>6, <1>7, MaxOfSome
<1> QED  BY <1>4, <1>8, <1>9 DEF o, w

\* What is compared are samples of two runs.
LEMMA ComparedSamples ==
    ASSUME NEW x \in Datasets, NEW c \in Comparisons(x)
    PROVE  /\ c = [group |-> c.group, metric |-> c.metric, base |-> c.base, cand |-> c.cand]
           /\ Sampled(c.base) /\ Sampled(c.cand)
<1> DEFINE n == Len(x.runs)
<1>1. /\ n \in Nat /\ DOMAIN x.runs = 1 .. n
      /\ \A i \in 1 .. n : /\ x.runs[i].order \in Nat
                           /\ \A m \in DOMAIN x.runs[i].samples : Sampled(x.runs[i].samples[m])
  <2>1. /\ n \in Nat /\ DOMAIN x.runs = 1 .. n
    BY RunsAre
  <2>2. \A i \in DOMAIN x.runs : /\ x.runs[i].order \in Nat
                                 /\ \A m \in DOMAIN x.runs[i].samples : Sampled(x.runs[i].samples[m])
    BY RunsAre
  <2> QED  BY <2>1, <2>2
<1>2. PICK r \in Range(x.runs) : c \in ComparisonsOf(x, r.group)
  BY DEF Comparisons
<1> DEFINE G == RunsOfGroup(x, r.group)
           i == Min(Oldest(x.runs, G))
           j == Max(Newest(x.runs, G))
<1>3. G \in SUBSET (1 .. n) /\ G # {}
  <2>1. PICK k \in DOMAIN x.runs : r = x.runs[k]
    BY <1>2 DEF Range
  <2>2. k \in G
    BY <2>1 DEF RunsOfGroup
  <2>3. G \in SUBSET DOMAIN x.runs
    BY DEF RunsOfGroup
  <2> HIDE DEF G, n
  <2> QED  BY <1>1, <2>2, <2>3
<1>4. i \in 1 .. n /\ j \in 1 .. n
  <2> HIDE DEF G, n
  <2> QED  BY <1>1, <1>3, EndsOfRuns
<1>5. PICK m \in DOMAIN x.runs[i].samples \cap DOMAIN x.runs[j].samples :
        c = [group |-> r.group, metric |-> m, base |-> x.runs[i].samples[m], cand |-> x.runs[j].samples[m]]
  BY <1>2 DEF ComparisonsOf, BaselineAndCandidate
<1> HIDE DEF i, j, n
<1>6. Sampled(x.runs[i].samples[m]) /\ Sampled(x.runs[j].samples[m])
  BY <1>1, <1>4, <1>5
<1> QED  BY <1>5, <1>6

LEMMA WorseSamples ==
    ASSUME NEW metric, NEW s, Sampled(s)
    PROVE  /\ Sampled(Worse(metric, s, 1))
           /\ Shifted(s, Worse(metric, s, 1), IF metric \in HigherIsBetter THEN -1 ELSE 1)
<1> DEFINE t == Worse(metric, s, 1)
           u == IF metric \in HigherIsBetter THEN -1 ELSE 1
<1>1. DOMAIN t = DOMAIN s /\ t = [i \in DOMAIN s |-> t[i]]
  BY DEF Worse
<1>2. \A i \in DOMAIN s : s[i] \in Int
  BY SamplesAre
<1>3. \A i \in DOMAIN s : t[i] \in Int /\ t[i] = s[i] + u
  BY <1>2 DEF Worse
<1> HIDE DEF t, u
<1>4. Sampled(t) /\ Len(t) = Len(s)
  BY <1>1, <1>3, SamplesFrom
<1> QED  BY <1>1, <1>3, <1>4 DEF Shifted, t, u

LEMMA DirectionHolds ==
    ASSUME NEW x \in Datasets, input = x
    PROVE  DirectionKept
<1> SUFFICES ASSUME NEW c \in Comparisons(x), VerdictOf(x, c) = "REGRESSION", SumSeq(Kept(c.base)) > 0
             PROVE  /\ OneSided(Kept(c.base), Kept(c.cand)) =>
                         VerdictOf(x, [c EXCEPT !.cand = Worse(c.metric, @, 1)]) = "REGRESSION"
                    /\ SumSeq(Kept(c.cand)) >= 0 =>
                         VerdictOf(x, [c EXCEPT !.base = c.cand, !.cand = c.base]) # "REGRESSION"
  BY DEF DirectionKept
<1> DEFINE base == Kept(c.base)
           cand == Kept(c.cand)
           w == Worse(c.metric, c.cand, 1)
           u == IF c.metric \in HigherIsBetter THEN -1 ELSE 1
<1>1. /\ c = [group |-> c.group, metric |-> c.metric, base |-> c.base, cand |-> c.cand]
      /\ Sampled(c.base) /\ Sampled(c.cand)
  BY ComparedSamples
<1>2. x.min_pct \in Nat /\ x.z_tenths \in Nat
  BY RunsAre
<1>3. ClassifyMetric(c.metric, base, cand, x) = "REGRESSION"
  BY DEF VerdictOf, ComparePair
<1>4. Sampled(w) /\ Shifted(c.cand, w, u)
  BY <1>1, WorseSamples
<1>5. VerdictOf(x, [c EXCEPT !.cand = Worse(c.metric, @, 1)]) = ClassifyMetric(c.metric, base, Kept(w), x)
  <2>1. [c EXCEPT !.cand = Worse(c.metric, @, 1)]
            = [group |-> c.group, metric |-> c.metric, base |-> c.base, cand |-> w]
    BY <1>1
  <2> QED  BY <2>1 DEF VerdictOf, ComparePair
<1>6. VerdictOf(x, [c EXCEPT !.base = c.cand, !.cand = c.base]) = ClassifyMetric(c.metric, cand, base, x)
  <2> DEFINE back == [c EXCEPT !.base = c.cand, !.cand = c.base]
  <2>1. back.metric = c.metric /\ back.base = c.cand /\ back.cand = c.base
    <3> DEFINE g == c.group
               m == c.metric
               b == c.base
               d == c.cand
    <3>1. c = [group |-> g, metric |-> m, base |-> b, cand |-> d]
      BY <1>1
    <3> HIDE DEF g, m, b, d
    <3>2. "base" \in DOMAIN c /\ "cand" \in DOMAIN c /\ "metric" \in DOMAIN c
      BY <3>1
    <3> QED  BY <3>2
  <2> HIDE DEF back
  <2> QED  BY <2>1 DEF VerdictOf, ComparePair, back
<1>7. Sampled(base) /\ Sampled(cand) /\ Sampled(Kept(w))
  BY <1>1, <1>4, KeptSamples
<1>8. Shifted(cand, Kept(w), u)
  <2>1. u \in Int
    OBVIOUS
  <2> HIDE DEF u, w
  <2> QED  BY <1>1, <1>4, <2>1, ShiftedKept
<1>9. SumSeq(base) > 0
  OBVIOUS
<1>10. Shifted(cand, Kept(w), IF c.metric \in HigherIsBetter THEN -1 ELSE 1)
  BY <1>8
<1> HIDE DEF base, cand, w, u
<1>11. OneSided(base, cand) => ClassifyMetric(c.metric, base, Kept(w), x) = "REGRESSION"
  BY <1>2, <1>3, <1>7, <1>9, <1>10, WorseStays
<1>12. SumSeq(cand) >= 0 => ClassifyMetric(c.metric, cand, base, x) # "REGRESSION"
  BY <1>3, <1>7, <1>9, BackIsNone
<1> QED  BY <1>5, <1>6, <1>11, <1>12 DEF base, cand

LEMMA WildHolds ==
    ASSUME NEW x \in Datasets, input = x
    PROVE  WildSampleIgnored
<1> SUFFICES ASSUME NEW c \in Comparisons(x),
                    Cardinality({i \in DOMAIN c.cand : IsOutlier(c.cand, c.cand[i])}) = 1,
                    Len(c.cand) > 4,
                    NEW i \in {i \in DOMAIN c.cand : IsOutlier(c.cand, c.cand[i])},
                    c.cand[i] = Max(Range(c.cand))
             PROVE  VerdictOf(x, [c EXCEPT !.cand[i] = @ + 9]) = VerdictOf(x, c)
  BY DEF WildSampleIgnored
<1> DEFINE s == c.cand
           wild == {j \in DOMAIN s : IsOutlier(s, s[j])}
           t == [s EXCEPT ![i] = @ + 9]
<1>1. /\ c = [group |-> c.group, metric |-> c.metric, base |-> c.base, cand |-> s]
      /\ Sampled(s)
  BY ComparedSamples
<1>2. Numbers(s) /\ Len(s) > 4 /\ i \in DOMAIN s /\ \A j \in DOMAIN s : s[j] \in Int
  BY <1>1, SamplesAre
<1>3. \A j \in DOMAIN s : s[j] <= s[i]
  <2>1. PICK k \in DOMAIN s : \A j \in DOMAIN s : s[j] <= s[k]
    BY <1>2, HighestOf
  <2>2. Range(s) = {s[j] : j \in DOMAIN s}
    BY DEF Range
  <2>3. \E m \in Range(s) : \A y \in Range(s) : m >= y
    BY <1>2, <2>1, <2>2
  <2>4. \A y \in Range(s) : Max(Range(s)) >= y
    BY <2>3 DEF Max
  <2> QED  BY <1>2, <2>2, <2>4
<1>4. ASSUME NEW j \in DOMAIN s, IsOutlier(s, s[j]) PROVE j = i
  <2>1. j \in wild /\ i \in wild /\ wild \in SUBSET DOMAIN s
    BY <1>4
  <2>2. IsFiniteSet(wild) /\ Cardinality(wild) = 1
    <3>1. IsFiniteSet(DOMAIN s)
      BY <1>2 DEF Numbers
    <3> QED  BY <2>1, <3>1, FS_Subset
  <2> HIDE DEF wild
  <2>3. {i} \in SUBSET wild /\ Cardinality({i}) = 1
    BY <2>1, FS_Singleton
  <2>4. wild = {i}
    BY <2>2, <2>3, FS_Subset
  <2> QED  BY <2>1, <2>4
<1>5. WildSample(s, i)
  BY <1>1, <1>2, <1>3 DEF WildSample
<1>6. Wilder(s, t, i)
  <2>1. DOMAIN t = DOMAIN s /\ t = [j \in DOMAIN s |-> t[j]]
    OBVIOUS
  <2>2. t[i] = s[i] + 9 /\ \A j \in DOMAIN s : j # i => t[j] = s[j]
    BY <1>2
  <2> HIDE DEF t, s
  <2>3. \A j \in DOMAIN s : t[j] \in Int
    BY <1>2, <2>2
  <2>4. Sampled(t) /\ Len(t) = Len(s)
    BY <1>1, <2>1, <2>3, SamplesFrom
  <2>5. s[i] <= t[i]
    BY <1>2, <2>2
  <2> QED  BY <2>1, <2>2, <2>4, <2>5 DEF Wilder
<1>7. Kept(t) = Kept(s)
  <2> HIDE DEF s, t
  <2> QED  BY <1>4, <1>5, <1>6, WildestKept
<1>8. [c EXCEPT !.cand[i] = @ + 9]
          = [group |-> c.group, metric |-> c.metric, base |-> c.base, cand |-> t]
  BY <1>1
<1> QED  BY <1>7, <1>8 DEF VerdictOf, ComparePair

\* The runs at the two ends of a group, alone, are compared as they are among all.
EndsAlone(x, g) ==
    LET group == RunsOfGroup(x, g)
    IN  [x EXCEPT !.runs = Picked(@, Oldest(x.runs, group) \cup Newest(x.runs, group))]

LEMMA SameEnds ==
    ASSUME NEW x \in Datasets, NEW r \in Range(x.runs)
    PROVE  /\ Comparisons(EndsAlone(x, r.group)) = ComparisonsOf(x, r.group)
           /\ EndsAlone(x, r.group).min_pct = x.min_pct
           /\ EndsAlone(x, r.group).z_tenths = x.z_tenths
           /\ EndsAlone(x, r.group).min_samples = x.min_samples
<1> DEFINE n == Len(x.runs)
           runs == x.runs
           g == r.group
           G == RunsOfGroup(x, g)
           O == Oldest(runs, G)
           W == Newest(runs, G)
           ends == O \cup W
           y == EndsAlone(x, g)
           few == Picked(runs, ends)
<1>1. /\ n \in Nat /\ DOMAIN runs = 1 .. n
      /\ \A i \in 1 .. n : runs[i].order \in Nat
  <2>1. /\ n \in Nat /\ DOMAIN runs = 1 .. n /\ \A i \in DOMAIN runs : runs[i].order \in Nat
    BY RunsAre
  <2> HIDE DEF n, runs
  <2> QED  BY <2>1
<1>2. G \in SUBSET (1 .. n) /\ G # {} /\ \A i \in 1 .. n : i \in G <=> runs[i].group = g
  <2>1. PICK k \in DOMAIN x.runs : r = x.runs[k]
    BY DEF Range
  <2>2. k \in G
    BY <2>1 DEF RunsOfGroup
  <2>3. G \in SUBSET DOMAIN runs /\ \A i \in DOMAIN runs : i \in G <=> runs[i].group = g
    BY DEF RunsOfGroup
  <2> HIDE DEF G, n, runs
  <2> QED  BY <1>1, <2>2, <2>3
<1>3. /\ y.runs = few /\ y.min_pct = x.min_pct /\ y.z_tenths = x.z_tenths
      /\ y.min_samples = x.min_samples
  <2>1. x = [runs |-> x.runs, min_pct |-> x.min_pct, z_tenths |-> x.z_tenths,
             min_samples |-> x.min_samples]
    BY DatasetsAssumption
  <2>2. y = [x EXCEPT !.runs = few]
    BY DEF EndsAlone
  <2> HIDE DEF few, y
  <2>3. "runs" \in DOMAIN x /\ "min_pct" \in DOMAIN x /\ "z_tenths" \in DOMAIN x
        /\ "min_samples" \in DOMAIN x
    BY <2>1
  <2> QED  BY <2>2, <2>3
<1> HIDE DEF y, n, runs, G
<1>4. /\ O \in SUBSET G /\ W \in SUBSET G
      /\ Min(O) \in O /\ \A i \in O : Min(O) <= i
      /\ Max(W) \in W /\ \A i \in W : i <= Max(W)
  BY <1>1, <1>2, EndsOfRuns
<1>5. \A i \in G : /\ i \in O <=> \A j \in G : runs[i].order <= runs[j].order
                   /\ i \in W <=> \A j \in G : runs[j].order <= runs[i].order
  BY DEF Oldest, Newest
<1> HIDE DEF O, W
<1>6. ends \in SUBSET (1 .. n) /\ ends \in SUBSET G
  BY <1>2, <1>4
<1>7. IsFiniteSet(ends) /\ Cardinality(ends) \in Nat /\ \E at : InTheirOrder(ends, at)
  <2> HIDE DEF ends
  <2> QED  BY <1>1, <1>6, PositionsInOrder
<1>8. PICK at : InTheirOrder(ends, at)
  BY <1>7
<1> DEFINE D == 1 .. Cardinality(ends)
<1>9. /\ at \in [D -> ends] /\ few = [m \in D |-> runs[at[m]]]
      /\ \A l, m \in D : at[l] = at[m] => l = m
      /\ \A l, m \in D : l < m <=> at[l] < at[m]
      /\ \A i \in ends : \E m \in D : at[m] = i
  <2>1. PickedAt(runs, ends, at)
    BY <1>8, PickedInOrder
  <2> HIDE DEF ends
  <2>2. /\ few = [m \in DOMAIN at |-> runs[at[m]]] /\ at \in [D -> ends]
        /\ \A l, m \in DOMAIN at : at[l] = at[m] => l = m
        /\ \A l, m \in DOMAIN at : l < m <=> at[l] < at[m]
        /\ \A i \in ends : \E m \in DOMAIN at : at[m] = i
    BY <2>1 DEF PickedAt
  <2>3. DOMAIN at = D
    BY <2>2
  <2> HIDE DEF D, few
  <2> QED  BY <2>2, <2>3
<1>10. D \in SUBSET Nat /\ IsFiniteSet(D)
  <2> HIDE DEF ends
  <2> QED  BY <1>7, FS_Interval
<1> HIDE DEF few, D
<1>11. /\ DOMAIN few = D
       /\ \A m \in D : at[m] \in ends /\ at[m] \in G /\ at[m] \in 1 .. n /\ few[m] = runs[at[m]]
  <2> HIDE DEF ends
  <2> QED  BY <1>6, <1>9
<1>12. RunsOfGroup(y, g) = D
  <2>1. \A m \in D : few[m].group = g
    BY <1>2, <1>11
  <2> QED  BY <1>3, <1>11, <2>1 DEF RunsOfGroup
<1>13. Comparisons(y) = ComparisonsOf(y, g)
  <2>1. PICK m \in D : at[m] = Min(O)
    BY <1>4, <1>9
  <2>2. Range(few) = {few[k] : k \in D}
    BY <1>11 DEF Range
  <2>3. few[m] \in Range(few) /\ \A q \in Range(few) : q.group = g
    BY <1>2, <1>11, <2>2
  <2>4. {ComparisonsOf(y, q.group) : q \in Range(y.runs)} = {ComparisonsOf(y, g)}
    BY <1>3, <2>3
  <2>5. Comparisons(y) = UNION {ComparisonsOf(y, q.group) : q \in Range(y.runs)}
    BY DEF Comparisons
  <2> QED  BY <2>4, <2>5
<1> DEFINE A == Oldest(few, D)
           B == Newest(few, D)
<1>14. /\ \A m \in D : few[m].order = runs[at[m]].order /\ few[m].order \in Nat
       /\ \A i \in G : runs[i].order \in Nat
  BY <1>1, <1>2, <1>11
<1>15. \A m \in D : m \in A <=> at[m] \in O
  <2> TAKE m \in D
  <2>1. m \in A <=> \A k \in D : few[m].order <= few[k].order
    BY DEF Oldest
  <2>2. at[m] \in O <=> \A j \in G : runs[at[m]].order <= runs[j].order
    BY <1>5, <1>11
  <2>3. at[m] \in O => m \in A
    BY <1>11, <1>14, <2>1, <2>2
  <2>4. ASSUME m \in A PROVE at[m] \in O
    <3>1. PICK k \in D : at[k] = Min(O)
      BY <1>4, <1>9
    <3>2. runs[at[m]].order <= runs[at[k]].order
      BY <1>14, <2>1, <2>4
    <3>3. ASSUME NEW j \in G PROVE runs[at[m]].order <= runs[j].order
      <4>1. runs[at[k]].order <= runs[j].order
        BY <1>4, <1>5, <3>1
      <4>2. runs[at[m]].order \in Nat /\ runs[at[k]].order \in Nat /\ runs[j].order \in Nat
        BY <1>11, <1>14
      <4> QED  BY <3>2, <4>1, <4>2
    <3> QED  BY <2>2, <3>3
  <2> QED  BY <2>3, <2>4
<1>16. \A m \in D : m \in B <=> at[m] \in W
  <2> TAKE m \in D
  <2>1. m \in B <=> \A k \in D : few[k].order <= few[m].order
    BY DEF Newest
  <2>2. at[m] \in W <=> \A j \in G : runs[j].order <= runs[at[m]].order
    BY <1>5, <1>11
  <2>3. at[m] \in W => m \in B
    BY <1>11, <1>14, <2>1, <2>2
  <2>4. ASSUME m \in B PROVE at[m] \in W
    <3>1. PICK k \in D : at[k] = Max(W)
      BY <1>4, <1>9
    <3>2. runs[at[k]].order <= runs[at[m]].order
      BY <1>14, <2>1, <2>4
    <3>3. ASSUME NEW j \in G PROVE runs[j].order <= runs[at[m]].order
      <4>1. runs[j].order <= runs[at[k]].order
        BY <1>4, <1>5, <3>1
      <4>2. runs[at[m]].order \in Nat /\ runs[at[k]].order \in Nat /\ runs[j].order \in Nat
        BY <1>11, <1>14
      <4> QED  BY <3>2, <4>1, <4>2
    <3> QED  BY <2>2, <3>3
  <2> QED  BY <2>3, <2>4
<1>17. A \in SUBSET D /\ B \in SUBSET D
  BY DEF Oldest, Newest
<1> HIDE DEF A, B, ends
<1>18. at[Min(A)] = Min(O)
  <2>1. PICK m \in D : at[m] = Min(O)
    BY <1>4, <1>9 DEF ends
  <2>2. m \in A
    BY <1>4, <1>15, <2>1
  <2>3. A \in SUBSET Nat /\ A # {}
    BY <1>10, <1>17, <2>2
  <2>4. Min(A) \in A /\ Min(A) <= m
    BY <2>2, <2>3, MinOfSome
  <2>5. Min(A) \in D /\ at[Min(A)] \in O
    BY <1>15, <1>17, <2>4
  <2>6. Min(O) <= at[Min(A)]
    BY <1>4, <2>5
  <2>7. ~ (m < Min(A))
    <3> DEFINE a == Min(A)
    <3>1. a \in Nat /\ m \in Nat /\ a <= m
      BY <1>10, <2>4, <2>5
    <3> HIDE DEF a
    <3> QED  BY <3>1 DEF a
  <2>8. Min(A) = m
    <3> DEFINE a == Min(A)
    <3>1. ~ (a < m)
      <4> SUFFICES ASSUME a < m PROVE FALSE
        OBVIOUS
      <4>1. at[a] < at[m]
        BY <1>9, <2>5
      <4>2. at[a] \in Nat /\ at[m] \in Nat
        BY <1>1, <1>11, <2>5
      <4> QED  BY <2>1, <2>6, <4>1, <4>2
    <3>2. a \in Nat /\ m \in Nat /\ a <= m
      BY <1>10, <2>4, <2>5
    <3> HIDE DEF a
    <3>3. a = m
      BY <3>1, <3>2
    <3> QED  BY <3>3 DEF a
  <2> QED  BY <2>1, <2>8
<1>19. at[Max(B)] = Max(W)
  <2>1. PICK m \in D : at[m] = Max(W)
    BY <1>4, <1>9 DEF ends
  <2>2. m \in B
    BY <1>4, <1>16, <2>1
  <2>3. B \in SUBSET Nat /\ B # {} /\ IsFiniteSet(B)
    BY <1>10, <1>17, <2>2, FS_Subset
  <2>4. Max(B) \in B /\ m <= Max(B)
    BY <2>2, <2>3, MaxOfSome
  <2>5. Max(B) \in D /\ at[Max(B)] \in W
    BY <1>16, <1>17, <2>4
  <2>6. at[Max(B)] <= Max(W)
    BY <1>4, <2>5
  <2>7. Max(B) = m
    <3> DEFINE b == Max(B)
    <3>1. ~ (m < b)
      <4> SUFFICES ASSUME m < b PROVE FALSE
        OBVIOUS
      <4>1. at[m] < at[b]
        BY <1>9, <2>5
      <4>2. at[b] \in Nat /\ at[m] \in Nat
        BY <1>1, <1>11, <2>5
      <4> QED  BY <2>1, <2>6, <4>1, <4>2
    <3>2. b \in Nat /\ m \in Nat /\ m <= b
      BY <1>10, <2>4, <2>5
    <3> HIDE DEF b
    <3>3. b = m
      BY <3>1, <3>2
    <3> QED  BY <3>3 DEF b
  <2> QED  BY <2>1, <2>7
<1>20. BaselineAndCandidate(few, D) = BaselineAndCandidate(runs, G)
  <2>1. Min(A) \in D /\ Max(B) \in D
    <3>1. PICK m \in D : at[m] = Min(O)
      BY <1>4, <1>9 DEF ends
    <3>2. PICK k \in D : at[k] = Max(W)
      BY <1>4, <1>9 DEF ends
    <3>3. m \in A /\ k \in B
      BY <1>4, <1>15, <1>16, <3>1, <3>2
    <3>4. A \in SUBSET Nat /\ A # {} /\ B \in SUBSET Nat /\ B # {} /\ IsFiniteSet(B)
      BY <1>10, <1>17, <3>3, FS_Subset
    <3>5. Min(A) \in A /\ Max(B) \in B
      BY <3>4, MinOfSome, MaxOfSome
    <3> QED  BY <1>17, <3>5
  <2>2. few[Min(A)] = runs[Min(O)] /\ few[Max(B)] = runs[Max(W)]
    BY <1>11, <1>18, <1>19, <2>1
  <2> QED  BY <2>2 DEF BaselineAndCandidate, A, B, O, W
<1>21. ComparisonsOf(y, g) = ComparisonsOf(x, g)
  <2>1. BaselineAndCandidate(y.runs, RunsOfGroup(y, g)) = BaselineAndCandidate(x.runs, RunsOfGroup(x, g))
    BY <1>3, <1>12, <1>20 DEF G, runs
  <2> QED  BY <2>1 DEF ComparisonsOf
<1> QED  BY <1>3, <1>13, <1>21 DEF y

\* The findings of a group are those of its two ends.
LEMMA FindingsOfGroup ==
    ASSUME NEW x \in Datasets, NEW r \in Range(x.runs)
    PROVE  AnalyzePerformance(EndsAlone(x, r.group)).findings
               = {f \in AnalyzePerformance(x).findings : f.group = r.group}
<1> DEFINE g == r.group
           y == EndsAlone(x, g)
<1>1. /\ Comparisons(y) = ComparisonsOf(x, g)
      /\ y.min_pct = x.min_pct /\ y.z_tenths = x.z_tenths /\ y.min_samples = x.min_samples
  BY SameEnds
<1> HIDE DEF y
<1>2. \A c : ComparePair(y, c) = ComparePair(x, c)
  BY <1>1 DEF ComparePair, ClassifyMetric
<1>3. AnalyzePerformance(y).findings = {ComparePair(x, c) : c \in ComparisonsOf(x, g)}
  BY <1>1, <1>2 DEF AnalyzePerformance
<1>4. AnalyzePerformance(x).findings = {ComparePair(x, c) : c \in Comparisons(x)}
  BY DEF AnalyzePerformance
<1>5. \A q, c : c \in ComparisonsOf(x, q) => c.group = q
  BY DEF ComparisonsOf
<1>6. \A c : ComparePair(x, c).group = c.group
  BY DEF ComparePair
<1>7. \A c : c \in Comparisons(x) <=> \E q \in Range(x.runs) : c \in ComparisonsOf(x, q.group)
  BY DEF Comparisons
<1>8. \A c : c \in ComparisonsOf(x, g) <=> c \in Comparisons(x) /\ c.group = g
  BY <1>5, <1>7
<1>9. {f \in {ComparePair(x, c) : c \in Comparisons(x)} : f.group = g}
          = {ComparePair(x, c) : c \in ComparisonsOf(x, g)}
  BY <1>6, <1>8
<1> QED  BY <1>3, <1>4, <1>9 DEF y

\* The report, once there is one, is that of the data set the tool was called with.
PerformanceInv ==
    \E x \in Datasets : input = x /\ reports \in {{}, {AnalyzePerformance(x)}}

\* The analysis of a data set answers about that data set.
LEMMA PerformanceInvariant == PerformanceSpec => []PerformanceInv
<1>1. PerformanceInit => PerformanceInv
  BY DEF PerformanceInit, PerformanceInv, Called
<1>2. PerformanceInv /\ [Analyze]_passVars => PerformanceInv'
  <2> SUFFICES ASSUME PerformanceInv, [Analyze]_passVars PROVE PerformanceInv'
    OBVIOUS
  <2>1. PICK x \in Datasets : input = x /\ reports \in {{}, {AnalyzePerformance(x)}}
    BY DEF PerformanceInv
  <2>2. CASE Analyze
    <3>1. reports' = {AnalyzePerformance(x)} /\ input' = x
      BY <2>1, <2>2 DEF Analyze, Reports
    <3> QED  BY <3>1 DEF PerformanceInv
  <2>3. CASE UNCHANGED passVars
    BY <2>1, <2>3 DEF PerformanceInv, passVars
  <2> QED  BY <2>2, <2>3
<1> QED  BY <1>1, <1>2, PTL DEF PerformanceSpec

\* What got worse stays a regression when it gets worse still, one wild sample changes no
\* verdict, a group's findings are those of its two ends, and the process fails exactly
\* when there is a regression.
THEOREM PerformanceSoundAlways == PerformanceSpec => []PerformanceSound
<1>1. PerformanceInv => PerformanceSound
  <2> SUFFICES ASSUME PerformanceInv, Reported("perf-regression") PROVE PerformanceSound
    BY DEF PerformanceSound
  <2>1. PICK x \in Datasets : input = x /\ reports \in {{}, {AnalyzePerformance(x)}}
    BY DEF PerformanceInv
  <2>2. Report = AnalyzePerformance(x)
    BY <2>1 DEF Reported, Report
  <2>3. DirectionKept /\ WildSampleIgnored
    BY <2>1, DirectionHolds, WildHolds
  <2>4. ASSUME NEW r \in Range(x.runs)
        PROVE  LET group == RunsOfGroup(x, r.group)
                   ends == Oldest(x.runs, group) \cup Newest(x.runs, group)
                   alone == [x EXCEPT !.runs = Picked(@, ends)]
               IN  AnalyzePerformance(alone).findings = {f \in Report.findings : f.group = r.group}
    BY <2>2, FindingsOfGroup DEF EndsAlone
  <2>5. Report.exit = 1 <=> \E c \in Comparisons(x) : VerdictOf(x, c) = "REGRESSION"
    <3> DEFINE findings == {ComparePair(x, c) : c \in Comparisons(x)}
               regressions == {f \in findings : f.verdict = "REGRESSION"}
    <3>1. Report.exit = IF regressions # {} THEN 1 ELSE 0
      BY <2>2 DEF AnalyzePerformance
    <3>2. regressions # {} <=> \E c \in Comparisons(x) : VerdictOf(x, c) = "REGRESSION"
      BY DEF VerdictOf
    <3> HIDE DEF regressions
    <3> QED  BY <3>1, <3>2
  <2> QED  BY <2>1, <2>3, <2>4, <2>5 DEF PerformanceSound
<1> QED  BY <1>1, PerformanceInvariant, PTL

=============================================================================
