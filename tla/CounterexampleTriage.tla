--------------------------- MODULE CounterexampleTriage ---------------------------
(***************************************************************************)
(* counterexample-triage-agent: where in a trace a failing property was    *)
(* first missed, the cone of its signals, the hypotheses about the cause,  *)
(* and what a rerun of the design adds to them.                            *)
(*                                                                         *)
(* A trace gives each signal its changes as dumped, [time, value]; values  *)
(* are "0", "1", "x" and "none" before the first.  Signals are named for   *)
(* their role: clk, rst, ant, cons.  Confidences are in hundredths.        *)
(***************************************************************************)
EXTENDS OnePass, Integers, FiniteSetsExt, SequencesExt

CONSTANT Counterexamples    \* [trace, failure, design, rerun] to triage

Changes == [time : Nat, value : {"0", "1", "x"}]

\* What parsing and the model of a failure guarantee: changes have a value, and of the two
\* delays of a window the first is not the larger.
CounterexamplesAssumption ==
    \A x \in Counterexamples :
        /\ {"trace", "failure", "design"} \subseteq DOMAIN x
        /\ \A s \in DOMAIN x.trace : x.trace[s] \in Seq(Changes)
        /\ x.failure.delay_min \in Nat /\ x.failure.delay_max \in Nat
        /\ x.failure.delay_min <= x.failure.delay_max
        /\ IsFiniteSet(x.design.declared)

ASSUME CounterexamplesAssumption

NoCycle == -1                  \* of an optional cycle

\* A second change at one time replaces the first; one to the held value is dropped.
DumpChange(samples, change) ==
    IF samples # <<>> /\ Last(samples).time = change.time
      THEN Append(Front(samples), change)
    ELSE IF samples # <<>> /\ Last(samples).value = change.value THEN samples
    ELSE Append(samples, change)

Dumped(changes) ==
    LET samples[n \in 0 .. Len(changes)] ==
            IF n = 0 THEN <<>> ELSE DumpChange(samples[n - 1], changes[n])
    IN  samples[Len(changes)]

Samples(trace, s) == IF s \in DOMAIN trace THEN Dumped(trace[s]) ELSE <<>>

\* The last sample before the first that is too late.
ValueAt(trace, s, t) ==
    LET samples == Samples(trace, s)
        held == {i \in DOMAIN samples : \A j \in 1 .. i : samples[j].time <= t}
    IN  IF held = {} THEN "none" ELSE samples[Max(held)].value

ClockEdgeTimes(trace, edge) ==
    LET s == Samples(trace, "clk")
        level == IF edge = "posedge" THEN "1" ELSE "0"
        at == {i \in 2..Len(s) : s[i - 1].value # level /\ s[i].value = level}
    IN  [k \in 1..Cardinality(at) |-> s[SetToSortSeq(at, <)[k]].time]

ResetActive(f, value) == value = IF f.reset_active_high THEN "1" ELSE "0"

ResetAt(x, t) == x.failure.reset /\ ResetActive(x.failure, ValueAt(x.trace, "rst", t))

\* Cycles count from 0; an antecedent outside reset activates the property.
Activates(x, times, c) ==
    ~ResetAt(x, times[c + 1]) /\ ValueAt(x.trace, "ant", times[c + 1]) = "1"

Cycles(times) == 0..(Len(times) - 1)

AntecedentCycle(x, times) ==
    LET S == {c \in Cycles(times) : Activates(x, times, c)}
    IN  IF x.failure.antecedent /\ S # {} THEN Min(S) ELSE NoCycle

\* |=> starts a cycle later than |->, unless the delay does so already.
Base(f) == IF f.implication = "non_overlapping" THEN 1 ELSE 0

\* Mutation: a window that ends after the trace is judged by its part inside.
HeldInside(x, times, c) ==
    \E w \in (c + Max({Base(x.failure), x.failure.delay_min}))
             ..(c + Max({Base(x.failure), x.failure.delay_max})) :
        w < Len(times) /\ ValueAt(x.trace, "cons", times[w + 1]) = "1"

\* The consequent holds in the window of an activation, or the window leaves the trace.
Held(x, times, c) ==
    \E w \in (c + Max({Base(x.failure), x.failure.delay_min}))
             ..(c + Max({Base(x.failure), x.failure.delay_max})) :
        w >= Len(times) \/ ValueAt(x.trace, "cons", times[w + 1]) = "1"

FirstDivergence(x, times) ==
    LET f == x.failure
        missed == IF f.antecedent
                    THEN {c \in Cycles(times) : Activates(x, times, c) /\ ~Held(x, times, c)}
                    ELSE {c \in Cycles(times) : /\ ~ResetAt(x, times[c + 1])
                                                /\ ValueAt(x.trace, "cons", times[c + 1]) # "1"}
        lo == Min(missed) + Max({Base(f), f.delay_min})
    IN  IF \/ ~f.consequent \/ "cons" \notin DOMAIN x.trace
           \/ f.antecedent /\ "ant" \notin DOMAIN x.trace
           \/ missed = {} THEN NoCycle
        ELSE IF f.antecedent THEN Min({lo, Len(times) - 1}) ELSE Min(missed)

\* The drivers of each symbol, from the assignments of the module: those of a
\* procedure without parsed assignments depend on its conditions only.
SymbolDrivers(d) ==
    LET edges == {<<a.lhs, r>> : a \in d.assigns, r \in d.declared}
        reads == {e \in edges : \E a \in d.assigns : a.lhs = e[1] /\ e[2] \in a.reads}
        parsed(p) == {e \in {<<a.lhs, r>> : a \in p.assigns, r \in d.declared} :
                        \/ e[2] \in p.conditions
                        \/ \E a \in p.assigns : a.lhs = e[1] /\ e[2] \in a.reads}
        coarse(p) == p.targets \X (p.conditions \cap d.declared)
    IN  {e \in reads \cup UNION {IF p.assigns # {} THEN parsed(p) ELSE coarse(p) :
                                   p \in d.procedures} : e[1] # e[2]}

\* Everything that the two signals of the property depend on: each pass over the drivers
\* reaches something new, or nothing is left to be reached.
Cone(x) ==
    LET drivers == SymbolDrivers(x.design)
        seeds == (IF x.failure.consequent THEN {"cons"} ELSE {})
                 \cup IF x.failure.antecedent THEN {"ant"} ELSE {}
        seen[n \in 0 .. Cardinality(x.design.declared)] ==
            IF n = 0 THEN seeds
            ELSE seen[n - 1] \cup {e[2] : e \in {e \in drivers : e[1] \in seen[n - 1]}}
    IN  seen[Cardinality(x.design.declared)]

Citations(x) == {"property"} \cup (Cone(x) \cap x.design.declared)

Missing(x) ==
    {s \in {"ant", "cons", "clk", "rst"} \ DOMAIN x.trace :
        /\ s = "ant" => x.failure.antecedent
        /\ s = "cons" => x.failure.consequent
        /\ s = "rst" => x.failure.reset}

\* What the trace says of the cause.
TraceEvidence(x, times, ant, div) ==
    LET f == x.failure
        ever(s, P(_)) == s \in DOMAIN x.trace /\ \E c \in Range(Samples(x.trace, s)) : P(c.value)
    IN  [reset_seen |-> f.reset /\ ever("rst", LAMBDA v : ResetActive(f, v)),
         reset_at_div |-> div # NoCycle /\ ResetAt(x, times[div + 1]),
         x_at_div |-> /\ div # NoCycle /\ f.consequent /\ "cons" \in DOMAIN x.trace
                      /\ ValueAt(x.trace, "cons", times[div + 1]) \in {"x", "none"},
         ant_ever |-> f.antecedent /\ ever("ant", LAMBDA v : v = "1")]

\* Five kinds of cause, each with the confidence its evidence gives it.
Hypotheses(x, times, ant, div) ==
    LET f == x.failure
        e == TraceEvidence(x, times, ant, div)
        hyp(category, confidence) == [category |-> category, confidence |-> confidence]
        odd == f.implication = "non_overlapping" /\ f.delay_min = 0
        design == div # NoCycle /\ ~e.reset_at_div /\ ~e.x_at_div /\ ant # NoCycle
        no_reset == f.reset /\ ~e.reset_seen
    IN  {hyp("property_issue", 30 + (IF odd THEN 10 ELSE 0)
                                  + (IF div # NoCycle /\ ant = NoCycle THEN 10 ELSE 0))}
        \cup (IF design THEN {hyp("design_bug", IF e.reset_seen THEN 60 ELSE 65)} ELSE {})
        \cup (IF e.reset_at_div THEN {hyp("reset_issue", 55)}
              ELSE IF no_reset THEN {hyp("reset_issue", 40)} ELSE {})
        \cup (IF f.antecedent /\ ~e.ant_ever THEN {hyp("environment_issue", 45)} ELSE {})
        \cup (IF e.x_at_div \/ Missing(x) # {} THEN {hyp("modeling_issue", 50)} ELSE {})

Unresolved(x, times, ant, div) ==
    {q \in {"antecedent never", "missing signals", "window beyond trace",
            "no activation", "no edges"} :
        \/ q = "antecedent never" /\ x.failure.antecedent
              /\ ~TraceEvidence(x, times, ant, div).ant_ever
        \/ q = "missing signals" /\ Missing(x) # {}
        \/ q = "window beyond trace" /\ div = NoCycle /\ ant # NoCycle
        \/ q = "no activation" /\ ant = NoCycle /\ x.failure.antecedent
              /\ "ant" \in DOMAIN x.trace
        \/ q = "no edges" /\ times = <<>>}

\* What each cycle of the timeline shows; of the plain samples only the neighbours of
\* the activation and the divergence are kept.
Timeline(x, times, ant, div) ==
    LET kind(c) == IF times[c + 1] = x.failure.time THEN "failure"
                   ELSE IF c = div THEN "divergence" ELSE IF c = ant THEN "antecedent"
                   ELSE IF ResetAt(x, times[c + 1]) THEN "reset" ELSE "sample"
        near(c) == \E e \in {ant, div} \ {NoCycle} : c \in (e - 1)..(e + 1)
    IN  {<<c, kind(c)>> : c \in {c \in Cycles(times) : kind(c) # "sample" \/ near(c)}}

\* The status of a rerun: of the captured files, of a simulator whose bench checks
\* itself, or of cocotb, which leaves a results file that a former run may have left.
Reproduce(r) ==
    LET results == IF r.writes = "nothing" THEN r.results ELSE r.writes
    IN  IF r.executor = "deterministic"
          THEN IF r.files /\ r.signals THEN "reproduced" ELSE "error"
        ELSE IF ~r.tool THEN "skipped"
        ELSE IF ~r.files THEN "error"
        ELSE IF r.lint # "ok" THEN r.lint
        ELSE IF r.executor = "cocotb"
          THEN IF ~r.cocotb THEN "skipped"
               ELSE IF r.run = "timeout" THEN "timeout"
               ELSE IF results = "nothing" THEN "error"
               ELSE IF results = "failures" THEN "reproduced" ELSE "not_reproduced"
        ELSE IF r.build # "ok" THEN r.build
        ELSE IF r.run = "timeout" THEN "timeout"
        ELSE IF r.run = "clean" THEN "not_reproduced" ELSE "reproduced"

\* A finished report gets the outcome of the rerun as a note and a question.
ComposeReport(report, r) ==
    LET status == Reproduce(r)
        question == IF status = "not_reproduced" THEN {"did not reproduce"}
                    ELSE IF status = "reproduced"
                      THEN IF r.executor # "deterministic" THEN {"reproduced"} ELSE {}
                    ELSE {"inconclusive"}
    IN  [report EXCEPT !.attempt = {status}, !.unresolved = @ \cup question]

\* The engine works on the evidence; whether there is a rerun is asked afterwards.
Engine(x) == [trace |-> x.trace, failure |-> x.failure, design |-> x.design]

TriageReportOf(x) ==
    LET engine == Engine(x)
        times == ClockEdgeTimes(x.trace, x.failure.edge)
        ant == AntecedentCycle(engine, times)
        div == FirstDivergence(engine, times)
        report == [antecedent |-> ant, divergence |-> div, cone |-> Cone(engine),
                   timeline |-> Timeline(engine, times, ant, div), citations |-> Citations(engine),
                   hypotheses |-> Hypotheses(engine, times, ant, div),
                   unresolved |-> Unresolved(engine, times, ant, div), attempt |-> {}]
    IN  IF x.reproduce THEN ComposeReport(report, x.rerun) ELSE report

CounterexampleInit == \E x \in Counterexamples : Called("cx-triage", x)

TriageCounterexample == Computing("cx-triage") /\ Reports(TriageReportOf(input))

CounterexampleSpec == CounterexampleInit /\ [][TriageCounterexample]_passVars

------------------------------------------------------------------------------
(* Properties *)

\* An attempt at the property as the language defines it: it starts in a cycle where
\* the antecedent is true outside reset and is refuted once its window has passed
\* within the trace without the consequent.
Refuted(x, times) ==
    LET from == Max({Base(x.failure), x.failure.delay_min})
        upto == Max({Base(x.failure), x.failure.delay_max})
    IN  {c \in Cycles(times) :
            /\ Activates(x, times, c) /\ c + upto < Len(times)
            /\ \A w \in from..upto : ValueAt(x.trace, "cons", times[c + w + 1]) # "1"}

\* The divergence of an implication is where the window of the first refuted attempt
\* opens, and there is one exactly when an attempt was refuted: an attempt that the
\* trace cuts off accuses nobody.  The design is accused only of a refuted attempt
\* that met a defined value outside reset, and never without an alternative.
DivergenceRefutes ==
    LET times == ClockEdgeTimes(input.trace, input.failure.edge)
        refuted == Refuted(input, times)
        accused == {h \in Report.hypotheses : h.category = "design_bug"}
    IN  /\ input.failure.antecedent /\ input.failure.consequent
             /\ {"ant", "cons"} \subseteq DOMAIN input.trace =>
              Report.divergence =
                IF refuted = {} THEN NoCycle
                ELSE Min(refuted) + Max({Base(input.failure), input.failure.delay_min})
        /\ accused # {} =>
              /\ refuted # {} \/ ~input.failure.antecedent
              /\ ValueAt(input.trace, "cons", times[Report.divergence + 1]) = "0"
              /\ Report.hypotheses # accused

\* The cone is what a change of the design can reach the property through: it has the
\* property's signals, is closed under fan-in, and everything in it drives something
\* in it.
ConeIsFanIn ==
    LET drivers == SymbolDrivers(input.design)
        seeds == {"ant", "cons"} \cap Report.cone
    IN  /\ \A e \in drivers : e[1] \in Report.cone => e[2] \in Report.cone
        /\ \A S \in SUBSET Report.cone :
              seeds \subseteq S /\ (\A e \in drivers : e[1] \in S => e[2] \in S)
                => S = Report.cone

\* A rerun comments on the ranking and does not touch it.
CounterexampleSound ==
    Reported("cx-triage") =>
        /\ DivergenceRefutes /\ ConeIsFanIn
        /\ Report.hypotheses = TriageReportOf([input EXCEPT !.reproduce = FALSE]).hypotheses

=============================================================================
