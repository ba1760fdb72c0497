------------------------------- MODULE MCResults -------------------------------
(***************************************************************************)
(* Inputs for TLC of the tools that read the results of other tools: the   *)
(* judgement of a run, the evaluation of policies, the findings about a    *)
(* ledger, the triage of coverage holes, and the explanation of a failure  *)
(* of a property on a trace, of an equivalence check, of a performance     *)
(* target.                                                                 *)
(***************************************************************************)
EXTENDS RunJudgement, HoldoutEvaluation, RegressionFindings, CoverageHoles,
        CounterexampleTriage, EquivalenceTriage, PerformanceRegression

\* Costs below, at and above a budget of 10 seconds, memory around 80% and
\* 100% of a cap of 10.
MCTimes == {0, 9, 10, 11}
MCSizes == {8, 9, 10, 11}
MCCodes == {-9, 0, 124}

\* Four items in three groups with buckets on both sides of the threshold:
\* suites hash all, some or none of their groups to test.
MCBenchmarks == {"fifo8", "fifo16", "arbiter", "counter"}
MCGroups     == {1, 2, 3}
MCGroupOf    == [i \in MCBenchmarks |->
                    IF i = "arbiter" THEN 1 ELSE IF i = "counter" THEN 2 ELSE 3]
MCBucket     == [g \in MCGroups |-> <<39, 40, 12>>[g]]
MCFeatures   == {"size", "depth"}

JudgementSleeps == stage = "start" /\ ~inCatalog
HoldoutSleeps   == suite = {"arbiter"}

\* Five runs of one job, the last perhaps of another configuration, with short, long
\* and endless runs; the second has no start time and the others end in reverse.
MCRun(i, config, status, wall) ==
    [run_id |-> i, benchmark |-> "b", config |-> config, design |-> "b", property |-> "p",
     catalog |-> "v", seed |-> i \div 2, status |-> status, return_code |-> IF status = "PASS" THEN 0 ELSE 1,
     wall |-> wall, memory |-> wall, start |-> IF i = 2 THEN 0 ELSE 10 - i]
MCOutcomes == {<<"PASS", 1>>, <<"PASS", 2>>, <<"FAIL", 4>>, <<"TIMEOUT", 9>>}
MCLedgers ==
    {[i \in 1..5 |-> MCRun(i, IF i = 5 /\ other THEN "d" ELSE "c", o[i][1], o[i][2])] :
        o \in [1..5 -> MCOutcomes], other \in BOOLEAN}
    \cup {<<[MCRun(1, "c", "PASS", 1) EXCEPT !.return_code = 1]>>}

\* Artifacts that name two points once or more, hit and not, one of them looking
\* dead; and two items with three tests, two of them of one name.
MCPoint(id, kind, hits, looks) ==
    [id |-> id, kind |-> kind, hits |-> hits, module |-> "m", line |-> 0, looks |-> looks]
MCPoints ==
    {MCPoint("p", "toggle", 0, "unknown"), MCPoint("p", "toggle", 0, "dead_code"),
     MCPoint("p", "toggle", 2, "dead_code"), MCPoint("q", "statement", 0, "unknown"),
     MCPoint("q", "statement", 1, "unknown")}
MCItem(id, kind, hits) ==
    [id |-> id, kind |-> kind, hits |-> hits, goal |-> 2, module |-> "m", line |-> 3,
     excluded |-> FALSE]
MCFirstId(ids) == IF "t1" \in ids THEN "t1" ELSE "t2"
MCTest(id, status, covers) == [test_id |-> id, status |-> status, covers |-> covers]
MCLabels == <<[id |-> "p", category |-> "no_linked_test",
               accepted |-> {"add_directed_test"}, rejected |-> {"run_existing_test"}]>>
MCBundles ==
    {[real |-> TRUE, points |-> points, items |-> {}, tests |-> <<>>, links |-> {},
      dead |-> {}, labels |-> <<>>] : points \in UNION {[1..n -> MCPoints] : n \in 1..3}}
    \cup
    {[real |-> FALSE, points |-> <<>>,
      items |-> {MCItem("p", "assertion", 1), MCItem("q", "branch", 2)},
      tests |-> <<MCTest("t1", s1, c1), MCTest("t2", s2, {"p"}), MCTest("t1", s3, c3)>>,
      links |-> links, dead |-> dead, labels |-> MCLabels] :
        s1 \in {"pass", "not_run"}, s2 \in {"pass", "not_run", "timeout", "unknown"},
        s3 \in {"pass", "fail", "not_run"}, c1 \in SUBSET {"p", "q"}, c3 \in {{}, {"p"}},
        links \in {{}, {[requirement |-> "R", covers |-> {"p"}]}},
        dead \in {{}, {<<"m", 3>>}}}

-----------------------------------------------------------------------------
(* Failures *)

MCChange(t, v) == [time |-> t, value |-> v]

\* A clock with rising edges at 2, 4 and 6 and a glitch at 3; every other signal has a
\* value for each edge, dumped before it.
MCClock ==
    <<MCChange(0, "0"), MCChange(2, "1"), MCChange(3, "0"), MCChange(3, "1"),
      MCChange(3, "0"), MCChange(4, "1"), MCChange(5, "0"), MCChange(6, "1")>>
MCDump(v) == [i \in 1..3 |-> MCChange(2 * i - 1, v[i])]
MCTrace(ant, cons, rst) ==
    [clk |-> MCClock, ant |-> MCDump(ant), cons |-> MCDump(cons), rst |-> MCDump(rst)]
MCFailure(implication, delay) ==
    [edge |-> "posedge", reset |-> TRUE, reset_active_high |-> TRUE, antecedent |-> TRUE,
     consequent |-> TRUE, implication |-> implication, delay_min |-> delay[1],
     delay_max |-> delay[2], time |-> 6]
MCDriverless == [declared |-> {"ant", "cons"}, assigns |-> {}, procedures |-> {}]
MCNoRerun == [executor |-> "deterministic", files |-> TRUE, signals |-> TRUE]
MCPropertyCases ==
    {[trace |-> MCTrace(ant, cons, rst), failure |-> MCFailure(implication, delay),
      design |-> MCDriverless, rerun |-> MCNoRerun, reproduce |-> FALSE] :
        ant \in [1..3 -> {"0", "1"}], cons \in [1..3 -> {"0", "1", "x"}],
        rst \in {<<"1", "0", "0">>, <<"0", "1", "0">>},
        implication \in {"overlapping", "non_overlapping"},
        delay \in {<<0, 0>>, <<0, 1>>, <<1, 2>>}}

\* A cone through continuous and procedural assignments, with an external driver.
MCOneTrace == MCTrace(<<"1", "0", "0">>, <<"0", "0", "0">>, <<"1", "0", "0">>)
MCDrivers ==
    {[declared |-> {"ant", "cons", "a", "b", "in"},
      assigns |-> {[lhs |-> "cons", reads |-> x], [lhs |-> "a", reads |-> y]},
      procedures |-> {[assigns |-> p, conditions |-> {"in"}, targets |-> {"b"}]}] :
        x \in SUBSET {"a", "b", "ext"}, y \in SUBSET {"a", "b", "in"},
        p \in {{}, {[lhs |-> "b", reads |-> {"ant"}]}}}
MCConeCases ==
    {[trace |-> [s \in DOMAIN MCOneTrace \ missing |-> MCOneTrace[s]],
      failure |-> [MCFailure("overlapping", <<1, 1>>) EXCEPT !.antecedent = antecedent],
      design |-> design, rerun |-> MCNoRerun, reproduce |-> FALSE] :
        design \in MCDrivers, antecedent \in BOOLEAN, missing \in SUBSET {"rst", "ant"}}

\* Reruns that stop at each of their steps, some beside the results of a former one.
MCReruns ==
    {[executor |-> executor, files |-> files, signals |-> TRUE, tool |-> found,
      lint |-> lint, cocotb |-> found, build |-> build, run |-> ended, results |-> old,
      writes |-> new] :
        executor \in {"deterministic", "verilator", "cocotb"}, files \in BOOLEAN,
        found \in BOOLEAN, lint \in {"ok", "timeout", "error", "skipped"},
        build \in {"ok", "error"}, ended \in {"clean", "failed", "timeout"},
        old \in {"nothing", "passes"}, new \in {"nothing", "passes", "failures"}}
MCRerunCases ==
    {[trace |-> MCOneTrace, failure |-> MCFailure("overlapping", <<1, 1>>),
      design |-> MCDriverless, rerun |-> rerun, reproduce |-> TRUE] :
        rerun \in {r \in MCReruns : r.files /\ r.lint = "ok"}
                  \cup {r \in MCReruns : r.build = "ok" /\ r.run = "clean"}}

MCCounterexamples == MCPropertyCases \cup MCConeCases \cup MCRerunCases

\* Logs of two bits of a bus and a state, in different orders and partly repeated.
MCMismatch(name, kind, rev, wrev, fanin) ==
    [tag |-> "mismatch", name |-> name, kind |-> kind, ref |-> {}, rev |-> rev,
     wref |-> 8, wrev |-> wrev, fanin |-> fanin]
MCCex(name, time, signal, ref) ==
    [tag |-> "cex", name |-> name, time |-> time, signal |-> signal, ref |-> ref, rev |-> "1"]
MCBit(i)   == <<"out", i>>
MCFanin(s) == {<<s, 0>>}
MCLogLines(w, state, ref) ==
    <<MCMismatch(MCBit(0), "output", {}, 8, MCFanin("en")),
      MCMismatch(MCBit(1), "output", {<<"q", 1>>}, w, MCFanin("en")),
      MCMismatch(<<"st", 0>>, state, {}, 0, MCFanin("rst")),
      MCCex(MCBit(1), 0, MCBit(1), ref),
      MCCex(<<"st", 0>>, 3, <<"a", 0>>, ref),
      [tag |-> "config", key |-> "k", ref |-> "1", rev |-> ref]>>
MCOrders == {<<1, 2, 3, 4, 5, 6>>, <<3, 2, 1, 5, 4, 6>>, <<6, 2, 4, 1, 3, 5>>, <<2, 4, 3, 5>>,
             <<2, 1>>, <<2, 4, 1, 2>>, <<4, 2, 1>>, <<1, 3, 6>>}
MCManifest(polarity, init, encoding) ==
    [polarity |-> polarity, sync |-> "synchronous", init |-> init, encoding |-> encoding]
MCEquivalenceRuns ==
    {[lines |-> [i \in DOMAIN order |-> MCLogLines(w, kind, ref)[order[i]]],
      status |-> status, enables |-> enables, resetlike |-> {"rst"},
      ref |-> MCManifest("active_high", <<>>, [s \in {"st"} |-> "onehot"]),
      rev |-> rev] :
        order \in MCOrders, w \in {0, 4, 8}, kind \in {"state", "blackbox"},
        ref \in {"0", "1", "x"}, status \in {"NOT_EQUIVALENT", "TIMEOUT"},
        enables \in {{}, {"en"}},
        rev \in {MCManifest("active_high", <<>>, [s \in {"st"} |-> "onehot"]),
                 MCManifest("active_low", [s \in {"out"} |-> "1"], <<>>),
                 MCManifest("unknown", [s \in {"out"} |-> "1"], [s \in {"st"} |-> "binary"])}}

\* A metric of either direction measured three to five times, before and after; also with a
\* mean far from the median, and below 0.
MCRunOf(group, commit, order, runtime, throughput) ==
    [group |-> group, commit |-> commit, order |-> order,
     samples |-> [runtime |-> runtime, throughput |-> throughput]]
MCMeasured ==
    {<<a, b, c>> : a \in {10, 20}, b \in {10, 11}, c \in {10, 12}}
    \cup {<<10, 11, 10, 12, a>> : a \in {10, 12, 14, 15, 30}}
    \cup {<<20, 21, 20, 22, a>> : a \in {12, 20, 30}} \cup {<<0, 0, 0>>, <<10>>}
    \cup {<<10, 11, 40>>, <<17, 17, 17>>, <<-5, -5, -4>>, <<-6, -5, -5>>}
MCDatasets ==
    {[runs |-> <<MCRunOf("g", "new", 2, after, before), MCRunOf("g", "mid", 1, before, before),
                 MCRunOf("g", old, 0, before, after), MCRunOf("h", "new", 3, before, before)>>,
      min_pct |-> pct, z_tenths |-> z, min_samples |-> 3] :
        before \in MCMeasured, after \in MCMeasured, old \in {"old", "new"},
        pct \in {0, 5}, z \in {0, 35}}

=============================================================================
