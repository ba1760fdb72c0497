----------------------------- MODULE AssertionReview -----------------------------
(***************************************************************************)
(* assertion-review-agent: the properties of a file are parsed, each goes  *)
(* through the registry of static checks, and the findings give a          *)
(* checklist and a score.                                                  *)
(*                                                                         *)
(* A statement is a property block or an inline directive.  Both sides of  *)
(* an implication are sequences of the terms that && joins: a signal, or   *)
(* one of the constants "true" and "false".  Optional values are sets of   *)
(* at most one element.                                                    *)
(***************************************************************************)
EXTENDS OnePass, Integers, FiniteSetsExt, SequencesExt

CONSTANTS
    ReviewInputs,       \* [statements, tags, module, requirements] to review
    GenericNames,       \* p1, check, ...: names that say nothing
    SemanticNames,      \* names with one of the words of behaviours
    ResetLike           \* signals named like a reset

\* A body has a consequent, of the same cycle or of the next; a guard, a name and a manifest
\* are optional.
ASSUME ReviewAssumption ==
    \A x \in ReviewInputs :
        /\ x.statements \in Seq(Range(x.statements))
        /\ \A s \in Range(x.statements) :
              /\ s.style \in {"none", "overlapping", "non_overlapping"} /\ s.delay \in {"none", "next"}
              /\ s.antecedent \in Seq(Range(s.antecedent)) /\ s.consequent \in Seq(Range(s.consequent))
              /\ s.consequent # <<>> /\ (s.block => s.refers = {})
              /\ IsFiniteSet(s.compares) /\ IsFiniteSet(s.clock) /\ IsFiniteSet(s.disable)
              /\ \A d, e \in s.disable : d = e /\ d.negated \in BOOLEAN
        /\ IsFiniteSet(x.module) /\ \A m, n \in x.module : m = n
        /\ \A m \in x.module :
              /\ \A s \in DOMAIN m.ports : m.ports[s].direction \in {"input", "output", "inout"}
              /\ \A s \in DOMAIN m.resets : m.resets[s] \in {"active_low", "active_high", "unknown"}

Constants == {"true", "false"}

------------------------------------------------------------------------------
(* Parsing *)

Inline(x) == {i \in DOMAIN x.statements : ~x.statements[i].block}

\* The inline directives whose body is one name, and the names they give.
References(x) == {i \in Inline(x) : x.statements[i].refers # {}}

\* A block has the kind of the last directive that names it, or it is an assertion.
UsageKind(x, name) ==
    LET uses == {i \in References(x) : x.statements[i].refers = name}
    IN  IF uses = {} THEN "assert" ELSE x.statements[Max(uses)].kind

BuildProperty(s, kind) ==
    [name |-> s.name, kind |-> kind, line |-> s.line, clock |-> s.clock, disable |-> s.disable,
     style |-> s.style, antecedent |-> s.antecedent, delay |-> s.delay, consequent |-> s.consequent,
     operators |-> s.operators, compares |-> s.compares]

\* The places of what is a property of its own: a block, or a directive with a body.
Bodies(x) == {i \in DOMAIN x.statements : x.statements[i].block \/ x.statements[i].refers = {}}

\* In the order of lines.
ParseSva(x) ==
    LET kept == Picked(x.statements, Bodies(x))
    IN  [i \in DOMAIN kept |->
            BuildProperty(kept[i], IF kept[i].block THEN UsageKind(x, kept[i].name) ELSE kept[i].kind)]

\* The signals of the body and of the reset guard.
Identifiers(p) ==
    (Range(p.antecedent) \cup Range(p.consequent) \cup {c.signal : c \in p.compares}
        \cup {d.signal : d \in p.disable}) \ Constants

\* Clock and reset candidates are not what their direction says.
RoleFor(m, s, default) ==
    IF s \in m.clocks THEN "clock" ELSE IF s \in DOMAIN m.resets THEN "reset" ELSE default

\* The view of the manifest the checks use; a width that is not a number is 1.
FromRtlIntentManifest(m) ==
    LET width(w) == IF w = {} THEN 1 ELSE CHOOSE n \in w : TRUE
        polarity(s) == IF s \in DOMAIN m.resets THEN m.resets[s] ELSE "unknown"
        signal(s, default, w) ==
            [role |-> RoleFor(m, s, default), width |-> width(w), polarity |-> polarity(s)]
    IN  [s \in DOMAIN m.ports \cup DOMAIN m.nets |->
            IF s \in DOMAIN m.ports THEN signal(s, m.ports[s].direction, m.ports[s].width)
            ELSE signal(s, "internal", m.nets[s])]

\* The line of the last tag above a property: it may be another property's tag.
Traced(x, p) ==
    LET above == {i \in DOMAIN x.tags : x.tags[i].line <= p.line}
        last == {i \in above : \A j \in above : x.tags[j].line <= x.tags[i].line}
    IN  {x.tags[i].requirement : i \in last}

\* Tags are kept by the name of the property, so the last of a name gives its tag.
TracedByKey(x, props, p) ==
    IF p.name = {} THEN Traced(x, p)
    ELSE LET same == {i \in DOMAIN props : props[i].name = p.name /\ Traced(x, props[i]) # {}}
         IN  IF same = {} THEN {} ELSE Traced(x, props[Max(same)])

------------------------------------------------------------------------------
(* Checks: the findings [check, severity, about] of a property p *)

Concern(check, severity, about) == [check |-> check, severity |-> severity, about |-> about]

When(condition, check, severity) ==
    IF condition THEN {Concern(check, severity, "property")} ELSE {}

CheckMissingClock(p) == When(p.clock = {}, "MISSING_CLOCK", "ERROR")

CheckDisableIff(p, m) ==
    CASE p.kind = "cover" -> {}
      [] p.kind # "cover" /\ p.disable = {} ->
            When(TRUE, "MISSING_DISABLE_IFF",
                 IF \E v \in m : DOMAIN v.resets # {} THEN "WARNING" ELSE "INFO")
      [] p.kind # "cover" /\ p.disable # {} ->
            When(\E v \in m, d \in p.disable :
                    d.signal \notin DOMAIN FromRtlIntentManifest(v) \cup DOMAIN v.resets,
                 "MISSING_DISABLE_IFF", "WARNING")

\* Mutation: only guards that are not negated are looked at.
CheckResetPolarityHalf(p, m) ==
    When(\E v \in m, d \in p.disable :
            /\ d.signal \in DOMAIN FromRtlIntentManifest(v)
            /\ FromRtlIntentManifest(v)[d.signal].polarity = "active_low" /\ ~d.negated,
         "RESET_POLARITY_RISK", "ERROR")

CheckResetPolarity(p, m) ==
    When(\E v \in m, d \in p.disable :
            /\ d.signal \in DOMAIN FromRtlIntentManifest(v)
            /\ \/ FromRtlIntentManifest(v)[d.signal].polarity = "active_low" /\ ~d.negated
               \/ FromRtlIntentManifest(v)[d.signal].polarity = "active_high" /\ d.negated,
         "RESET_POLARITY_RISK", "ERROR")

Implies(p) == p.style # "none"

CheckImplicationStyle(p) ==
    When(p.style = "overlapping" /\ p.delay = "next", "IMPLICATION_STYLE_RISK", "WARNING")

CheckUnboundedTemporal(p) ==
    {Concern("UNBOUNDED_TEMPORAL", IF o = "until" THEN "INFO" ELSE "WARNING", o) :
        o \in p.operators \cap {"range", "eventually", "until"}}

CheckWeakConsequent(p) ==
    IF Implies(p) /\ p.consequent = <<"true">> THEN When(TRUE, "WEAK_CONSEQUENT", "ERROR")
    ELSE When(/\ Implies(p) /\ p.delay = "none"
              /\ Len(p.consequent) = 1 /\ p.consequent[1] \notin Constants, "WEAK_CONSEQUENT", "INFO")

\* Repeated means verbatim, at the front, at the end or between two &&.
Repeats(p) ==
    \E i \in (IF p.delay = "none" THEN 0 ELSE 1) .. (Len(p.consequent) - Len(p.antecedent)) :
        SubSeq(p.consequent, i + 1, i + Len(p.antecedent)) = p.antecedent

Identical(p) == p.antecedent = p.consequent /\ p.delay = "none"

CheckAntecedentInConsequent(p) ==
    When(Implies(p) /\ Identical(p), "ANTECEDENT_IN_CONSEQUENT", "ERROR")
    \cup When(Implies(p) /\ ~Identical(p) /\ Repeats(p), "ANTECEDENT_IN_CONSEQUENT", "WARNING")

CheckTriviallyPassing(p) ==
    When(/\ p.kind # "cover"
         /\ \/ ~Implies(p) /\ p.consequent = <<"true">>
            \/ Implies(p) /\ p.antecedent = <<"false">>,
         "TRIVIALLY_PASSING", "ERROR")

CheckAssumeConstrainsOutput(p, m) ==
    UNION {{Concern("ASSUME_CONSTRAINS_OUTPUT", "ERROR", s) :
               s \in {s \in Identifiers(p) \cap DOMAIN FromRtlIntentManifest(v) :
                        /\ p.kind = "assume"
                        /\ FromRtlIntentManifest(v)[s].role \in {"output", "internal"}}} : v \in m}

CheckSignals(p, m) ==
    UNION {{Concern("UNDECLARED_SIGNAL", "ERROR", s) :
               s \in (Identifiers(p) \cup p.clock)
                        \ (DOMAIN FromRtlIntentManifest(v) \cup v.clocks \cup DOMAIN v.resets)}
           \cup {Concern("WIDTH_MISMATCH", "WARNING", c.signal) :
               c \in {c \in p.compares : /\ c.signal \in DOMAIN FromRtlIntentManifest(v)
                                         /\ c.width # FromRtlIntentManifest(v)[c.signal].width}} : v \in m}

CheckNameSemantics(p) ==
    When(p.name \subseteq GenericNames \/ p.name \cap SemanticNames = {}, "NAME_SEMANTICS", "INFO")

\* An empty set of requirements knows no requirement to be unknown.
CheckTraceability(p, traced, requirements) ==
    CASE p.kind = "cover" -> {}
      [] p.kind # "cover" /\ traced = {} -> When(TRUE, "REQ_TRACEABILITY", "INFO")
      [] p.kind # "cover" /\ traced # {} ->
            When(requirements # {} /\ ~(traced \subseteq requirements), "REQ_TRACEABILITY", "WARNING")

CheckVacuityRisk(p) ==
    When(Implies(p) /\ (\/ p.disable # {} /\ Range(p.antecedent) \cap ResetLike # {}
                        \/ Len(p.antecedent) >= 3), "VACUITY_RISK", "INFO")

Registry(p, m, traced, requirements) ==
    CheckMissingClock(p) \cup CheckDisableIff(p, m) \cup CheckResetPolarity(p, m)
    \cup CheckImplicationStyle(p) \cup CheckUnboundedTemporal(p) \cup CheckWeakConsequent(p)
    \cup CheckAntecedentInConsequent(p) \cup CheckTriviallyPassing(p)
    \cup CheckAssumeConstrainsOutput(p, m) \cup CheckSignals(p, m) \cup CheckNameSemantics(p)
    \cup CheckTraceability(p, traced, requirements) \cup CheckVacuityRisk(p)

------------------------------------------------------------------------------
(* Report *)

ChecklistItems ==
    {"MISSING_CLOCK", "MISSING_DISABLE_IFF", "RESET_POLARITY_RISK", "IMPLICATION_STYLE_RISK",
     "UNBOUNDED_TEMPORAL", "WEAK_CONSEQUENT", "ANTECEDENT_IN_CONSEQUENT", "TRIVIALLY_PASSING",
     "ASSUME_CONSTRAINS_OUTPUT", "UNDECLARED_SIGNAL", "NAME_SEMANTICS", "REQ_TRACEABILITY",
     "VACUITY_RISK"}

Count(findings, severity) == Cardinality({f \in findings : f.concern.severity = severity})

Penalty(findings) == 10 * Count(findings, "ERROR") + 4 * Count(findings, "WARNING") + Count(findings, "INFO")

\* In tenths of a percent, 20 points a property being 0.
ReviewScore(findings, count) ==
    LET budget == 20 * Max({count, 1})
        left == Max({budget - Penalty(findings), 0})
    IN  (2000 * left + budget) \div (2 * budget)

Grade(score) ==
    CASE score >= 900 -> "A"
      [] score \in 750 .. 899 -> "B"
      [] score \in 600 .. 749 -> "C"
      [] score \in 400 .. 599 -> "D"
      [] score < 400 -> "F"

Review(x) ==
    LET props == ParseSva(x)
        of(i) == Registry(props[i], x.module, TracedByKey(x, props, props[i]), x.requirements)
        findings == UNION {{[property |-> i, concern |-> c] : c \in of(i)} : i \in DOMAIN props}
    IN  [properties |-> props, findings |-> findings,
         ticked |-> ChecklistItems \ {f.concern.check : f \in findings},
         score |-> ReviewScore(findings, Len(props)), grade |-> Grade(ReviewScore(findings, Len(props)))]

ReviewInit == \E x \in ReviewInputs : Called("assertion-review", x)

ReviewText == Computing("assertion-review") /\ Reports(Review(input))

ReviewSpec == ReviewInit /\ [][ReviewText]_passVars

------------------------------------------------------------------------------
(* Properties *)

HasConcern(i, check, severity) ==
    \E f \in Report.findings : f.property = i /\ f.concern.check = check /\ f.concern.severity = severity

\* What a body says of the cycle its antecedent holds in.
Value(term, env) == IF term \in Constants THEN term = "true" ELSE env[term]

AllTrue(terms, env) == \A t \in Range(terms) : Value(t, env)

CanFail(p) ==
    LET signals == (Range(p.antecedent) \cup Range(p.consequent)) \ Constants
    IN  \E now, later \in [signals -> BOOLEAN] :
            /\ Implies(p) => AllTrue(p.antecedent, now)
            /\ ~AllTrue(p.consequent,
                        IF p.style = "non_overlapping" \/ p.delay = "next" THEN later ELSE now)

\* A property that the checks call constant or vacuous cannot fail, nor can one of the same
\* cycle whose sides are identical; and one that cannot fail is given away, unless a side of
\* several terms hides that what is promised is assumed, or that a constant decides.
HollowCaught ==
    \A i \in DOMAIN Report.properties :
        LET p == Report.properties[i]
            warned == \E check \in {"TRIVIALLY_PASSING", "WEAK_CONSEQUENT", "ANTECEDENT_IN_CONSEQUENT"} :
                         \E severity \in {"ERROR", "WARNING"} : HasConcern(i, check, severity)
        IN  /\ \/ HasConcern(i, "TRIVIALLY_PASSING", "ERROR")
               \/ HasConcern(i, "WEAK_CONSEQUENT", "ERROR")
               \/ p.style = "overlapping" /\ HasConcern(i, "ANTECEDENT_IN_CONSEQUENT", "ERROR")
               => ~CanFail(p)
            /\ p.kind # "cover" /\ ~CanFail(p) =>
                  \/ warned
                  \/ /\ Len(p.antecedent) > 1 \/ Len(p.consequent) > 1
                     /\ \/ Implies(p) /\ Range(p.consequent) \ {"true"} \subseteq Range(p.antecedent)
                        \/ "false" \in Range(p.antecedent) \/ Range(p.consequent) = {"true"}

\* Of a guard that is a single reset of known polarity, the error is reported exactly when
\* the property is switched off while the design runs.
PolarityExact ==
    \A i \in DOMAIN Report.properties : \A m \in input.module : \A d \in Report.properties[i].disable :
        LET low == m.resets[d.signal] = "active_low"
            active == IF low THEN FALSE ELSE TRUE
            off(level) == IF d.negated THEN ~level ELSE level
        IN  d.signal \in DOMAIN m.resets \cap (DOMAIN m.ports \cup DOMAIN m.nets) =>
                (m.resets[d.signal] # "unknown" /\ off(~active) <=>
                    HasConcern(i, "RESET_POLARITY_RISK", "ERROR"))

\* Every block and every directive with a body of its own is reviewed once: on a line there
\* are as many properties as of these.  A block has the kind of a directive that uses it.
EachReviewedOnce ==
    /\ \A k \in DOMAIN input.statements :
          LET line == input.statements[k].line
          IN  Cardinality({i \in DOMAIN Report.properties : Report.properties[i].line = line})
                = Cardinality({j \in Bodies(input) : input.statements[j].line = line})
    /\ \A k \in DOMAIN input.statements :
          LET s == input.statements[k]
              uses == {i \in References(input) : input.statements[i].refers = s.name}
          IN  s.block /\ uses # {} =>
                  \E i \in DOMAIN Report.properties, u \in uses :
                      /\ Report.properties[i].line = s.line /\ Report.properties[i].name = s.name
                      /\ Report.properties[i].kind = input.statements[u].kind

\* An assumption that limits what the design drives is an error, unless its signal is also
\* a candidate for a clock or a reset.
AssumesInputsOnly ==
    \A i \in DOMAIN Report.properties : \A m \in input.module :
        Report.properties[i].kind = "assume" =>
            \A s \in Identifiers(Report.properties[i]) \ (m.clocks \cup DOMAIN m.resets) :
                (s \in DOMAIN m.ports /\ m.ports[s].direction = "output")
                    \/ s \in DOMAIN m.nets \ DOMAIN m.ports <=>
                HasConcern(i, "ASSUME_CONSTRAINS_OUTPUT", "ERROR")
                    /\ \E f \in Report.findings : f.property = i /\ f.concern.about = s
                                                   /\ f.concern.check = "ASSUME_CONSTRAINS_OUTPUT"

\* A file is only given the best grade when its errors cost it no more than a tenth of what
\* its properties are worth: with up to four properties, when it has none.
BestGradeClean ==
    Report.grade = "A" /\ Len(Report.properties) <= 4 =>
        \A f \in Report.findings : f.concern.severity # "ERROR"

ReviewSound ==
    Reported("assertion-review") =>
        /\ HollowCaught
        /\ PolarityExact
        /\ EachReviewedOnce
        /\ AssumesInputsOnly
        /\ BestGradeClean

=============================================================================
