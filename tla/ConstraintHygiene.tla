----------------------------- MODULE ConstraintHygiene -----------------------------
(***************************************************************************)
(* constraint-hygiene-agent: the facts that assumptions state, the pairs   *)
(* of assumptions that contradict each other, the assumptions that no      *)
(* check uses or that constrain what the design drives, and the queue of   *)
(* what people have to review.                                             *)
(*                                                                         *)
(* The body of a directive is its literals and the operators between them  *)
(* outside parentheses.  A literal is a signal, its negation, an equality  *)
(* with a constant, or anything else; the constant -1 is one with x or z.  *)
(***************************************************************************)
EXTENDS OnePass, Integers, FiniteSetsExt, SequencesExt

CONSTANT HygieneInputs      \* [directives, manifest] to analyze

\* A body is literals with an operator between every two of them.
ASSUME HygieneAssumption ==
    \A x \in HygieneInputs :
        /\ x.directives \in Seq(Range(x.directives))
        /\ \A d \in Range(x.directives) :
              /\ d.literals \in Seq(Range(d.literals))
              /\ \A l \in Range(d.literals) : l.form \in {"is", "not", "equals", "other"}
              /\ d.operators \in Seq({"&&", "||", "|->"})
              /\ \/ Len(d.literals) = Len(d.operators) + 1
                 \/ (d.literals = <<>> /\ d.operators = <<>>)

Kind(x, kind) == {i \in DOMAIN x.directives : x.directives[i].kind = kind}

Checks(x) == Kind(x, "assert") \cup Kind(x, "cover")

SignalsIn(d) == {d.literals[i].signal : i \in DOMAIN d.literals}

\* Mutation: the last literal counts whatever joins it to the others.
ConjunctsLast(d) ==
    {i \in DOMAIN d.literals :
        i = Len(d.literals) \/ ((i = 1 \/ d.operators[i - 1] = "&&") /\ d.operators[i] = "&&")}

\* The literals that stand alone when the body is split at every &&, whatever else joins
\* the parts.
Conjuncts(d) ==
    {i \in DOMAIN d.literals :
        /\ i = 1 \/ d.operators[i - 1] = "&&"
        /\ i = Len(d.literals) \/ d.operators[i] = "&&"}

\* A bare signal is taken to be 1.
StatedValue(l) ==
    CASE l.form = "is" -> 1 [] l.form = "not" -> 0 [] l.form = "equals" -> l.value

\* The value a directive states of a signal: equalities before literals, later before earlier.
FactsOf(d) ==
    LET stating(s, forms) == {i \in Conjuncts(d) : /\ d.literals[i].signal = s
                                                   /\ d.literals[i].form \in forms}
        equal(s) == stating(s, {"equals"})
        any(s) == stating(s, {"is", "not", "equals"})
    IN  [s \in {s \in SignalsIn(d) : any(s) # {}} |->
            StatedValue(d.literals[Max(IF equal(s) # {} THEN equal(s) ELSE any(s))])]

Booleans(d) ==
    {d.literals[i].signal : i \in {i \in Conjuncts(d) : d.literals[i].form \in {"is", "not"}}}

FindingAbout(code, directives, signals) ==
    [code |-> code, directives |-> directives, signals |-> signals]

FindContradictions(x) ==
    LET fact(i) == FactsOf(x.directives[i])
        conflict(i, j, s) == /\ i < j
                             /\ s \in DOMAIN fact(i) \cap DOMAIN fact(j)
                             /\ -1 \notin {fact(i)[s], fact(j)[s]}
                             /\ fact(i)[s] # fact(j)[s]
        code(i, j, s) == IF s \in Booleans(x.directives[i]) \cap Booleans(x.directives[j])
                           THEN "CONTRADICTION" ELSE "CONSTANT_CONFLICT"
    IN  UNION {{FindingAbout(code(i, j, s), <<i, j>>, {s}) :
                  s \in {s \in SignalsIn(x.directives[i]) : conflict(i, j, s)}} :
               i \in Kind(x, "assume"), j \in Kind(x, "assume")}

FindUnused(x) ==
    LET used == UNION {SignalsIn(x.directives[i]) : i \in Checks(x)}
    IN  {FindingAbout("UNUSED_ASSUMPTION", <<i>>, SignalsIn(x.directives[i])) :
            i \in {i \in Kind(x, "assume") : SignalsIn(x.directives[i]) \cap used = {}}}

\* The module the manifest calls top, or its first.
TopModule(m) ==
    LET named == {i \in DOMAIN m.modules : m.modules[i].name = m.top}
    IN  IF named # {} THEN m.modules[Min(named)] ELSE m.modules[1]

PortsOf(module, directions) ==
    {p \in DOMAIN module.ports : module.ports[p] \in directions}

\* Registers and nets of any module but the ports of the top.
InternalSignals(m) ==
    (UNION {m.modules[i].registers \cup m.modules[i].nets : i \in DOMAIN m.modules})
        \ DOMAIN TopModule(m).ports

Classified(m, s) ==
    IF ~m.loaded THEN "unknown"
    ELSE IF m.modules # <<>> /\ s \in PortsOf(TopModule(m), {"input"}) THEN "environment_input"
    ELSE IF m.modules # <<>> /\ s \in PortsOf(TopModule(m), {"output", "inout"}) THEN "dut_output"
    ELSE IF m.modules # <<>> /\ s \in InternalSignals(m) THEN "internal_state"
    ELSE "unknown"

ConstraintCode(ownership) ==
    CASE ownership = "dut_output"     -> "OUTPUT_CONSTRAINT"
      [] ownership = "internal_state" -> "INTERNAL_STATE_CONSTRAINT"
      [] ownership = "unknown"        -> "UNKNOWN_SIGNAL"

FindOutputConstraints(x) ==
    UNION {{FindingAbout(ConstraintCode(Classified(x.manifest, s)), <<i>>, {s}) :
              s \in {s \in SignalsIn(x.directives[i]) :
                        Classified(x.manifest, s) # "environment_input"}} :
           i \in Kind(x, "assume")}

\* Which assumptions constrain a signal that a check reads.
DependencyMap(x) ==
    UNION {{[check |-> i, signal |-> s,
             assumptions |-> {a \in Kind(x, "assume") : s \in SignalsIn(x.directives[a])}] :
                s \in SignalsIn(x.directives[i])} : i \in Checks(x)}

\* An assertion without a cover that shares a signal, and the risk that everything
\* passes because the assumptions cannot hold together.
VacuityRecommendations(x, contradictions) ==
    LET covered == UNION {SignalsIn(x.directives[i]) : i \in Kind(x, "cover")}
    IN  {FindingAbout("REACHABILITY_RISK", <<i>>, SignalsIn(x.directives[i])) :
            i \in {i \in Kind(x, "assert") : SignalsIn(x.directives[i]) \cap covered = {}}}
        \cup IF contradictions # {} THEN {FindingAbout("VACUITY_RISK", <<>>, {})} ELSE {}

Priority(code) ==
    CASE code \in {"CONTRADICTION", "CONSTANT_CONFLICT", "OUTPUT_CONSTRAINT", "VACUITY_RISK"} -> 1
      [] code \in {"INTERNAL_STATE_CONSTRAINT", "UNKNOWN_SIGNAL"} -> 2
      [] code \in {"UNUSED_ASSUMPTION", "REACHABILITY_RISK"} -> 3

\* One item for each first directive of a finding, 0 being the set of all constraints,
\* with the most urgent of its priorities.
ReviewQueue(findings) ==
    LET subject(f) == IF f.directives = <<>> THEN 0 ELSE f.directives[1]
        codes(s) == {f.code : f \in {f \in findings : subject(f) = s}}
    IN  {[subject |-> s, priority |-> Min({Priority(c) : c \in codes(s)}), codes |-> codes(s)] :
            s \in {subject(f) : f \in findings}}

HygieneReport(x) ==
    LET contradictions == FindContradictions(x)
        vacuity == VacuityRecommendations(x, contradictions)
        findings == contradictions \cup FindUnused(x) \cup FindOutputConstraints(x) \cup vacuity
    IN  [contradictions |-> contradictions, findings |-> findings,
         dependencies |-> DependencyMap(x), queue |-> ReviewQueue(findings)]

HygieneInit == \E x \in HygieneInputs : Called("constraint-hygiene", x)

AnalyzeConstraints == Computing("constraint-hygiene") /\ Reports(HygieneReport(input))

HygieneSpec == HygieneInit /\ [][AnalyzeConstraints]_passVars

------------------------------------------------------------------------------
(* Properties *)

Bits == {0, 1}

LiteralHolds(l, env) == IF l.form = "other" THEN env[l.signal] = 1
                        ELSE env[l.signal] = StatedValue(l)

\* Some run of literals joined by && is true as a whole, among the literals of one side.
SomeRun(d, side, true) ==
    \E g \in side : \A i \in side :
        (\A k \in Min({g, i}) .. Max({g, i}) - 1 : d.operators[k] = "&&") => i \in true

\* && binds before ||, and both before |->.
MixedHolds(d, true) ==
    LET arrows == {k \in DOMAIN d.operators : d.operators[k] = "|->"}
    IN  IF arrows = {} THEN SomeRun(d, DOMAIN d.literals, true)
        ELSE SomeRun(d, 1 .. Min(arrows), true) => SomeRun(d, Min(arrows) + 1 .. Len(d.literals), true)

\* The meaning of a body with at most one implication.
Holds(d, env) ==
    LET true == {i \in DOMAIN d.literals : LiteralHolds(d.literals[i], env)}
        joined == Range(d.operators)
    IN  IF joined \subseteq {"&&"} THEN true = DOMAIN d.literals
        ELSE IF joined = {"||"} THEN true # {}
        ELSE IF joined = {"|->"} THEN 1 \in true => Len(d.literals) \in true
        ELSE MixedHolds(d, true)

Unmixed(d) == Cardinality(Range(d.operators)) <= 1

Together(x, i, j) ==
    \E env \in [SignalsIn(x.directives[i]) \cup SignalsIn(x.directives[j]) -> Bits] :
        Holds(x.directives[i], env) /\ Holds(x.directives[j], env)

\* A conflict between two assumptions whose bodies do not mix operators is real, no
\* values of one-bit signals satisfy both; and two conjunctions of known facts, each of
\* which can hold, that cannot hold together are reported.
ContradictionsReal ==
    LET pair(i, j) == \E f \in Report.contradictions : f.directives = <<i, j>>
        facts(i) == /\ Range(input.directives[i].operators) \subseteq {"&&"}
                    /\ \A k \in DOMAIN input.directives[i].literals :
                          /\ input.directives[i].literals[k].form # "other"
                          /\ StatedValue(input.directives[i].literals[k]) \in Bits
    IN  \A i, j \in Kind(input, "assume") : i < j =>
            /\ pair(i, j) /\ Unmixed(input.directives[i]) /\ Unmixed(input.directives[j]) =>
                  ~Together(input, i, j)
            /\ facts(i) /\ facts(j) /\ Together(input, i, i) /\ Together(input, j, j)
                  /\ ~Together(input, i, j) => pair(i, j)

\* Every conflict puts an item of the first priority before people, as does every
\* assumption about a port the design drives, once for each subject; and with a conflict
\* comes the warning about everything that passes.
QueueComplete ==
    LET urgent == {q.subject : q \in {q \in Report.queue : q.priority = 1}}
    IN  /\ \A f \in Report.contradictions : f.directives[1] \in urgent /\ 0 \in urgent
        /\ \A i \in Kind(input, "assume") : \A s \in SignalsIn(input.directives[i]) :
              /\ Classified(input.manifest, s) = "dut_output" => i \in urgent
              /\ Classified(input.manifest, s) # "environment_input" =>
                    \E q \in Report.queue : q.subject = i /\ q.priority <= 2
        /\ \A p, q \in Report.queue : p.subject = q.subject => p = q

\* constraint-hygiene-agent: conflicts of bodies that do not mix their operators are real, those
\* of plain facts are found, and what is urgent comes first in the queue.
HygieneSound == Reported("constraint-hygiene") => ContradictionsReal /\ QueueComplete

\* What the comment of extract_facts says: only top-level conjuncts produce facts, so every
\* conflict that is reported is one, whatever operators the two bodies mix.
ConflictsAreReal ==
    Reported("constraint-hygiene") =>
        \A f \in Report.contradictions : ~Together(input, f.directives[1], f.directives[2])

=============================================================================
