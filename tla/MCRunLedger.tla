----------------------------- MODULE MCRunLedger -------------------------------
(***************************************************************************)
(* A small ledger for TLC: two suite ids, benchmarks a and b, a design that *)
(* holds and one that does not, a fast and a slow config of which the      *)
(* second catalog version only keeps the slow one.                         *)
(***************************************************************************)
EXTENDS RunLedger, TLC

ProcSymmetry == Permutations(Procs)

Item(b, d) == [benchmark |-> b, design |-> d]
Suite(id, items) == [id |-> id, items |-> items]

\* Benchmarks come and go, each with one design.
FixedDesigns ==
    {Suite("fixed", <<Item("a", "good"), Item("b", "bad")>>),
     Suite("fixed", <<Item("b", "bad")>>)}

\* Benchmark a is redesigned, b is dropped.
ChangingDesigns ==
    {Suite("moving", <<Item("a", "good"), Item("b", "bad")>>),
     Suite("moving", <<Item("a", "bad")>>)}

BothKinds == FixedDesigns \cup ChangingDesigns

Ids      == {"fixed", "moving"}
OneId    == {"moving"}
MCBenchmarks == {"a", "b"}
MCDesigns    == {"good", "bad"}
MCConfigs    == {"fast", "slow"}

OneCatalog  == <<{"fast", "slow"}>>
TwoCatalogs == <<{"fast", "slow"}, {"slow"}>>

OnePolicy   == {"rules"}
TwoPolicies == {"rules", "fixed"}

\* rules expects a counterexample of a bad design; fixed takes slow.
MCChoose(policy, benchmark, design, v) ==
    IF policy = "rules" /\ design = "bad" /\ "fast" \in Catalogs[v]
    THEN "fast" ELSE "slow"

\* fast is too shallow for benchmark a, slow runs out of time on b.
MCOutcome(benchmark, design, config) ==
    IF config = "fast" THEN IF benchmark = "a" THEN "shallow" ELSE "concluded"
    ELSE IF benchmark = "b" /\ design = "good" THEN "timeout"
    ELSE IF benchmark = "b" THEN "error" ELSE "concluded"

NoExternals == {}

\* A backend's results for benchmark a of the rules plan: one under the
\* planned run id, one under benchmark b's.
TwoExternals ==
    LET plan == <<"moving", "rules", 1>>
        rec  == [plan |-> plan, benchmark |-> "a", design |-> "good",
                 config |-> "slow", status |-> "PASS", validation |-> "valid",
                 artifact |-> FALSE, origin |-> "file"]
    IN {[id |-> <<plan, "a">>, record |-> [rec EXCEPT !.status = "FAIL"]],
        [id |-> <<plan, "b">>, record |-> rec]}

\* One suite whose runs the mock gives the same verdicts each time: a PASS and
\* a FAIL.  A backend that says PASS of the second.
OneSuite == {Suite("moving", <<Item("a", "good"), Item("b", "bad")>>)}

PassOfTheFailed ==
    LET plan == <<"moving", "rules", 1>>
    IN {[id |-> <<plan, "b">>,
         record |-> [plan |-> plan, benchmark |-> "b", design |-> "bad",
                     config |-> "slow", status |-> "PASS",
                     validation |-> "valid", artifact |-> FALSE,
                     origin |-> "file"]]}

MCHolds(design) == design = "good"

=============================================================================
