------------------------------ MODULE CoverageHoles ------------------------------
(***************************************************************************)
(* coverage-closure-agent: measured coverage is normalized into items, the *)
(* uncovered ones are classified by what the test manifest, the RTL and    *)
(* the requirements say of them, and actions are proposed for a reviewer,  *)
(* whose labels score the classifier.                                      *)
(*                                                                         *)
(* An artifact point is one line of a .dat or .info file: the identifier   *)
(* it normalizes to, its kind, its count and what its name looks like.     *)
(***************************************************************************)
EXTENDS OnePass, Integers, FiniteSetsExt, SequencesExt

CONSTANTS
    CoverageBundles,
        \* Calls: points is a sequence of artifact points, or items a set of items;
        \* tests a sequence; links a set of [requirement, covers]; dead a set of
        \* <<module, line>>; labels a sequence
    FirstId(_)
        \* The first of some test ids in the order of strings

\* An artifact is a sequence of lines, each with a count.
CoverageAssumption ==
    \A b \in CoverageBundles : b.real =>
        /\ b.points \in Seq(Range(b.points))
        /\ \A p \in Range(b.points) : p.hits \in Nat

FirstIdAssumption ==
    \A b \in CoverageBundles :
        \A ids \in SUBSET {t.test_id : t \in Range(b.tests)} :
            ids # {} => FirstId(ids) \in ids

ASSUME CoverageAssumption
ASSUME FirstIdAssumption

Structural == {"hardwired_constant", "dead_code"}

\* Only a toggle that was never seen is matched against the names of signals that
\* cannot move.
ItemOf(p) ==
    [id |-> p.id, kind |-> p.kind, hits |-> p.hits, goal |-> 1, module |-> p.module,
     line |-> p.line,
     excluded |-> p.kind = "toggle" /\ p.hits = 0 /\ p.looks \in Structural]

\* Of the records of one point the one with more hits stays, the first of equals.
Merge(items, p) ==
    IF \E it \in items : it.id = p.id /\ it.hits >= p.hits THEN items
    ELSE {it \in items : it.id # p.id} \cup {ItemOf(p)}

IngestReal(points) ==
    LET by_id[n \in 0 .. Len(points)] == IF n = 0 THEN {} ELSE Merge(by_id[n - 1], points[n])
    IN  by_id[Len(points)]

Items(b) == IF b.real THEN IngestReal(b.points) ELSE b.items

Holes(items) == {it \in items : it.hits < it.goal}

\* The tests of the manifest by name: of two entries of one name the last.
TestNamed(tests, id) ==
    tests[Max({i \in DOMAIN tests : tests[i].test_id = id})]

LinkedTests(b, it) == {t.test_id : t \in {t \in Range(b.tests) : it.id \in t.covers}}
LinkedReqs(b, it)  == {l.requirement : l \in {l \in b.links : it.id \in l.covers}}

Status(b, id) == TestNamed(b.tests, id).status

Failed == {"fail", "timeout", "error"}

LikelyUnreachable(b, it) == <<it.module, it.line>> \in b.dead \/ it.excluded

\* Mutation: a hole is pending as long as some test of it was not run.
CategoryPending(b, it) ==
    LET statuses == {Status(b, id) : id \in LinkedTests(b, it)}
    IN  IF LikelyUnreachable(b, it) THEN "likely_unreachable"
        ELSE IF statuses = {} THEN "no_linked_test"
        ELSE IF "not_run" \in statuses THEN "test_exists_not_run"
        ELSE IF statuses \cap Failed # {} THEN "test_ran_but_failed"
        ELSE "test_ran_still_uncovered"

\* Why a point is uncovered: the first that applies.  The last case takes what
\* is left, a test of unknown outcome with the passed ones; the categories for a
\* missing requirement and for the unknown are reached by no item.
Category(b, it) ==
    LET statuses == {Status(b, id) : id \in LinkedTests(b, it)}
    IN  IF LikelyUnreachable(b, it) THEN "likely_unreachable"
        ELSE IF statuses = {} THEN "no_linked_test"
        ELSE IF statuses \cap Failed # {} THEN "test_ran_but_failed"
        ELSE IF "not_run" \in statuses /\ "pass" \notin statuses THEN "test_exists_not_run"
        ELSE "test_ran_still_uncovered"

BasePriority(action) ==
    CHOOSE n \in 1..8 :
        <<"request_spec_clarification", "request_waiver_review",
          "propose_assertion_candidate", "add_constrained_random_scenario",
          "add_cover_property", "add_directed_test", "inspect_unreachable_code",
          "run_existing_test">>[n] = action

\* The actions proposed for a hole, each with the tests it names: of the tests of a
\* hole with one that failed, the first by name.
Actions(b, it, category) ==
    LET tests == LinkedTests(b, it)
        new(actions) == {[action |-> a, tests |-> {}] : a \in actions}
    IN  IF category = "likely_unreachable"
          THEN new({"inspect_unreachable_code", "request_waiver_review"})
        ELSE IF category = "test_exists_not_run"
          THEN {[action |-> "run_existing_test", tests |-> {t}] : t \in tests}
        ELSE IF category = "test_ran_but_failed"
          THEN {[action |-> "run_existing_test", tests |-> {FirstId(tests)}]}
               \cup new({"request_spec_clarification"})
        ELSE IF category = "test_ran_still_uncovered"
          THEN new({"add_directed_test", "add_constrained_random_scenario"}
                   \cup IF it.kind = "assertion" THEN {"propose_assertion_candidate"} ELSE {})
        ELSE new({"add_directed_test", "add_cover_property"}
                 \cup IF LinkedReqs(b, it) = {} THEN {"request_spec_clarification"} ELSE {})

\* What is cited of the tests of a hole.
Cited(b, it, category) ==
    {t \in LinkedTests(b, it) :
        \/ category = "test_ran_but_failed" /\ Status(b, t) \in Failed
        \/ category = "test_exists_not_run" /\ Status(b, t) = "not_run"
        \/ category = "test_ran_still_uncovered" /\ Status(b, t) = "pass"}

ClassifyHole(b, it) ==
    LET category == Category(b, it)
    IN  [id |-> it.id, category |-> category, cited |-> Cited(b, it, category),
         actions |-> Actions(b, it, category)]

\* The labels of a reviewer by point, the last of each, against the classes: counts
\* of points, of right categories and of proposals made, accepted and rejected.
Metrics(classes, labels) ==
    LET last(id) == labels[Max({i \in DOMAIN labels : labels[i].id = id})]
        counted == {c \in classes : \E i \in DOMAIN labels : labels[i].id = c.id}
        proposed(c) == {a.action : a \in c.actions}
        total(Op(_)) == FoldSet(LAMBDA c, n : n + Cardinality(Op(c)), 0, counted)
    IN  [sample   |-> Cardinality(counted),
         right    |-> Cardinality({c \in counted : last(c.id).category = c.category}),
         proposed |-> total(proposed),
         accepted |-> total(LAMBDA c : proposed(c) \cap last(c.id).accepted),
         rejected |-> total(LAMBDA c : proposed(c) \cap last(c.id).rejected)]

CoverageReportOf(b) ==
    LET classes == {ClassifyHole(b, it) : it \in Holes(Items(b))}
    IN  [classes |-> classes, review |-> {c.id : c \in classes},
         metrics |-> Metrics(classes, b.labels)]

CoverageInit == \E b \in CoverageBundles : Called("coverage-triage", b)

TriageCoverage == Computing("coverage-triage") /\ Reports(CoverageReportOf(input))

CoverageSpec == CoverageInit /\ [][TriageCoverage]_passVars

------------------------------------------------------------------------------
(* Properties *)

\* Nothing measured as uncovered is lost on the way to the reviewer, in whatever order
\* and however often the artifacts name it, and nothing that was hit is reported: a
\* point is a hole exactly when no line of its name counts a hit.
HolesExact ==
    input.real =>
        Report.review = {p.id : p \in {p \in Range(input.points) :
                            \A q \in Range(input.points) : q.id = p.id => q.hits = 0}}

\* A test that failed, timed out or crashed keeps its hole from being called pending
\* or a gap in the stimulus, unless the point looks unreachable, and no proposal for a
\* hole with a failing test adds tests; a rerun names tests meant for the point, if
\* not always one that failed.
FailuresFirst ==
    \A c \in Report.classes :
        LET linked == {t.test_id : t \in {t \in Range(input.tests) : c.id \in t.covers}}
            failing == {t \in linked : Status(input, t) \in Failed}
            actions == {a.action : a \in c.actions}
        IN  /\ failing # {} /\ c.category # "likely_unreachable" =>
                  /\ c.cited = failing
                  /\ actions = {"run_existing_test", "request_spec_clarification"}
            /\ \A a \in c.actions : a.action = "run_existing_test" =>
                  a.tests # {} /\ a.tests \subseteq linked

CoverageHolesSound == Reported("coverage-triage") => HolesExact /\ FailuresFirst

\* A test without a known outcome is never taken for one that passed: a hole is put
\* down to weak stimulus only if one of its tests passed.
UnknownNeverPasses ==
    Reported("coverage-triage") =>
        \A c \in Report.classes : c.category = "test_ran_still_uncovered" => c.cited # {}

\* "Re-run the failing linked test": of a hole with a failing test, the rerun names
\* one that failed.
RerunsAFailingTest ==
    Reported("coverage-triage") =>
        \A c \in Report.classes : c.category = "test_ran_but_failed" =>
            \A a \in c.actions : a.action = "run_existing_test" => a.tests \subseteq c.cited

=============================================================================
