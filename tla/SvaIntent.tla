-------------------------------- MODULE SvaIntent --------------------------------
(***************************************************************************)
(* sva-intent-engine: the sentences of a requirement become clauses, the   *)
(* terms of a clause are grounded in the symbols of a module, and a clause *)
(* whose structure gives a form becomes a temporal intent, which is        *)
(* checked and rendered.                                                   *)
(*                                                                         *)
(* A sentence is the words in it that the engine looks for, its phrases    *)
(* (trigger, consequent, the whole text), the timing phrases written in it *)
(* and its identifiers in the order of the text, those of the "unless"     *)
(* part included.  Optional values are sets of at most one element.        *)
(***************************************************************************)
EXTENDS OnePass, Integers, FiniteSetsExt, SequencesExt

CONSTANTS
    IntentInputs,       \* [sentences, modules, top, glossary] to run on
    NamesById,          \* the names of signals in the order of their symbol ids
    SameButForCase,     \* pairs of a term and a name that differ in case only
    LowNames,           \* names that read as an active-low reset
    StopNames           \* identifiers that are not looked up: on the stop list, or one letter

\* A sentence has at most one condition and one consequence, made of its identifiers; one
\* with a condition that nothing follows has no shape as a whole.
WellRead(s) ==
    /\ s.names \in Seq(Range(s.names))
    /\ \A p, q \in s.trigger : p = q
    /\ \A p, q \in s.consequent : p = q
    /\ \A p \in s.trigger \cup s.consequent \cup {s.whole} :
          p.shape # "other" => Range(p.names) \subseteq Range(s.names)
    /\ s.trigger # {} /\ s.consequent = {} => s.whole.shape = "other"
    /\ \A t \in s.timing : t.lo \in Nat /\ t.hi \in Nat

\* A manifest without modules is refused before a sentence is looked at.
ASSUME IntentAssumption ==
    /\ NamesById \in Seq(Range(NamesById))
    /\ \A x \in IntentInputs :
          /\ x.sentences \in Seq(Range(x.sentences))
          /\ \A s \in Range(x.sentences) : WellRead(s)
          /\ x.modules \in Seq(Range(x.modules)) /\ x.modules # <<>>
          /\ \A m \in Range(x.modules) :
                /\ m.ports \cup m.nets \cup m.registers \subseteq Range(NamesById)
                /\ m.clocks \in Seq(Range(m.clocks)) /\ m.resets \in Seq(Range(m.resets))

------------------------------------------------------------------------------
(* Decomposition *)

VagueTerms == {"eventually", "safely"}
UnsupportedMarkers == {"throughput"}
CoverMarkers == {"cover", "must be reachable"}
AssumeMarkers == {"assume", "the input"}
GuaranteeMarkers == {"must", "always", "must be reachable"}

\* What a word leaves among the terms to ground: the stop list has no entry for these.
LeftByWord(w) ==
    IF w = "the input" THEN {"input"}
    ELSE {w} \cap {"cover", "assume", "overflow", "onehot", "stable", "stalled", "throughput"}

ClassifyWords(s) ==
    CASE s.words \cap UnsupportedMarkers # {} -> "unsupported"
      [] s.words \cap UnsupportedMarkers = {} /\ s.words \cap VagueTerms # {} -> "ambiguity"
      [] s.words \cap (UnsupportedMarkers \cup VagueTerms) = {} ->
            IF s.words \cap CoverMarkers # {} THEN "cover"
            ELSE IF s.words \cap AssumeMarkers # {} THEN "assume"
            ELSE IF s.words \cap GuaranteeMarkers # {} THEN "assert" ELSE "ambiguity"

\* The first of the four timing phrases, in the order they are searched for.
ExtractBounds(s) ==
    LET found(p) == {t \in s.timing : t.phrase = p}
        delays(ts, relation) == {[relation |-> relation, lo |-> t.lo, hi |-> t.hi] : t \in ts}
    IN  IF found("range") # {} THEN delays(found("range"), "bounded_response")
        ELSE IF found("within") # {} THEN delays(found("within"), "bounded_response")
        ELSE IF found("after") # {} THEN delays(found("after"), "fixed_delay")
        ELSE delays(found("next"), "next_cycle")

\* The record of a clause refuses these bounds, and with it the whole requirement.
Inverted(s) == \E b \in ExtractBounds(s) : b.hi < b.lo

ReferencedTerms(s) == (Range(s.names) \ StopNames) \cup UNION {LeftByWord(w) : w \in s.words}

------------------------------------------------------------------------------
(* Grounding *)

\* The module asked for, or the first one when there is none of that name.
Projected(x) ==
    LET named == {i \in DOMAIN x.modules : x.top = {x.modules[i].name}}
    IN  x.modules[IF named = {} THEN 1 ELSE Min(named)]

\* Ports, then nets, then registers: a name counts once, as what it was first.
Symbols(x) == Projected(x).ports \cup Projected(x).nets \cup Projected(x).registers

\* How well a symbol answers a term, in hundredths; 0 is no match.
MatchScore(x, term, name) ==
    LET glossed == IF term \in DOMAIN x.glossary THEN {x.glossary[term]} ELSE {}
        aliases == IF name \in DOMAIN Projected(x).aliases THEN Projected(x).aliases[name] ELSE {}
    IN  IF name \in {term} \cup glossed THEN 100
        ELSE IF <<term, name>> \in SameButForCase THEN 85
        ELSE IF ({term} \cup glossed) \cap aliases # {} THEN 70 ELSE 0

\* The matches with the top score.
MatchTerm(x, term) ==
    {n \in Symbols(x) : MatchScore(x, term, n) > 0
        /\ \A m \in Symbols(x) : MatchScore(x, term, m) <= MatchScore(x, term, n)}

\* Equal scores go by the id of the symbol.
BestMatch(x, term) ==
    CHOOSE n \in MatchTerm(x, term) :
        \A m \in MatchTerm(x, term) :
            \E i, j \in DOMAIN NamesById : NamesById[i] = n /\ NamesById[j] = m /\ i <= j

NotGrounded(x, s) == {t \in ReferencedTerms(s) : MatchTerm(x, t) = {}}

AmbiguousTerms(x, s) == {t \in ReferencedTerms(s) : Cardinality(MatchTerm(x, t)) > 1}

ResolvedNames(x, s) == {BestMatch(x, t) : t \in ReferencedTerms(s) \ NotGrounded(x, s)}

SoleOf(candidates) == IF Len(candidates) = 1 THEN {candidates[1]} ELSE {}

\* By the name, then by what the manifest says of the only candidate.
ResetPolarity(x, reset) ==
    IF reset.signal \notin Symbols(x) THEN "unknown"
    ELSE IF reset.signal \in LowNames THEN "active_low" ELSE reset.polarity

------------------------------------------------------------------------------
(* Intents *)

Implied(s) == s.trigger # {} /\ s.consequent # {}

FormByTiming(b) ==
    CASE b = {} -> {"implication"}
      [] b # {} -> {IF r.relation = "next_cycle" THEN "next_cycle" ELSE "bounded_response" : r \in b}

\* Words decide before the shape of the sentence does.
ChooseForm(s) ==
    IF ClassifyWords(s) = "cover"
    THEN IF ExtractBounds(s) # {} THEN {"eventually_within_bound"} ELSE {}
    ELSE IF "overflow" \in s.words THEN {"no_overflow"}
    ELSE IF "onehot" \in s.words THEN {"one_hot"}
    ELSE IF "reset" \in s.words /\ s.consequent = {} /\ s.trigger = {} THEN {"reset_state"}
    ELSE IF {"stable", "stalled"} \subseteq s.words THEN {"stable_while_stalled"}
    ELSE IF Implied(s) THEN FormByTiming(ExtractBounds(s))
    ELSE IF s.consequent # {} \/ "always" \in s.words THEN {"invariant"} ELSE {}

\* A phrase of a known shape over grounded signals; {} for any other.
Normalize(phrase, resolved) ==
    {p \in phrase : p.shape # "other" /\ Range(p.names) \subseteq resolved}

FirstResolved(s, resolved) ==
    LET at == {i \in DOMAIN s.names : s.names[i] \in resolved \ StopNames}
    IN  IF at = {} THEN {} ELSE {s.names[Min(at)]}

\* The two sides; the reset form always compares with zero.
BuildExpressions(s, form, resolved) ==
    LET single(shape) == {[shape |-> shape, names |-> <<n>>] : n \in FirstResolved(s, resolved)}
    IN  CASE form = "reset_state" -> [antecedent |-> {}, consequent |-> single("zero")]
          [] form = "one_hot" -> [antecedent |-> {}, consequent |-> single("bare")]
          [] form = "invariant" ->
                [antecedent |-> {},
                 consequent |-> Normalize(IF s.consequent # {} THEN s.consequent ELSE {s.whole}, resolved)]
          [] form \notin {"reset_state", "one_hot", "invariant"} ->
                [antecedent |-> Normalize(s.trigger, resolved),
                 consequent |-> Normalize(s.consequent, resolved)]

\* A phrase that is there and could not be normalized, or no signal to state.
Unread(x, s, form) ==
    LET sides == BuildExpressions(s, form, ResolvedNames(x, s))
    IN  IF form \in {"reset_state", "one_hot", "invariant"} THEN sides.consequent = {}
        ELSE \/ s.trigger # {} /\ sides.antecedent = {}
             \/ s.consequent # {} /\ sides.consequent = {}

TemporalIntent(x, s, form) ==
    LET reset == SoleOf(Projected(x).resets)
    IN  [kind |-> ClassifyWords(s), form |-> form, bounds |-> ExtractBounds(s),
         clock |-> SoleOf(Projected(x).clocks),
         reset |-> {r.signal : r \in reset},
         polarity |-> IF reset = {} THEN "unknown" ELSE ResetPolarity(x, Projected(x).resets[1]),
         sides |-> BuildExpressions(s, form, ResolvedNames(x, s)),
         ambiguous |-> AmbiguousTerms(x, s), unread |-> Unread(x, s, form)]

\* Mutation: a clause goes on without the terms that were not found.
BuildIntentAnyway(x, s) ==
    IF ClassifyWords(s) \in {"ambiguity", "unsupported"} THEN {}
    ELSE {TemporalIntent(x, s, form) : form \in ChooseForm(s)}

BuildIntent(x, s) ==
    IF NotGrounded(x, s) # {} \/ ClassifyWords(s) \in {"ambiguity", "unsupported"} THEN {}
    ELSE {TemporalIntent(x, s, form) : form \in ChooseForm(s)}

------------------------------------------------------------------------------
(* Rendering *)

NeedsAntecedent(form) ==
    form \notin {"invariant", "one_hot", "reset_state", "eventually_within_bound"}

\* Bounds are in order here: the clause was refused otherwise.
Renders(i) ==
    /\ i.clock # {} /\ i.sides.consequent # {}
    /\ NeedsAntecedent(i.form) => i.sides.antecedent # {}
    /\ i.form = "reset_state" => i.reset # {} /\ i.polarity # "unknown"
    /\ i.form \in {"bounded_response", "eventually_within_bound"} => i.bounds # {}

\* No clause when the polarity is not known, and none in a property about reset.
DisableIff(i) ==
    IF i.form = "reset_state" \/ i.polarity = "unknown" THEN {}
    ELSE {[signal |-> r, negated |-> i.polarity = "active_low"] : r \in i.reset}

ValidateAndRender(i) ==
    [intent |-> i, emitted |-> Renders(i), disable |-> DisableIff(i),
     warned |-> i.ambiguous # {} \/ i.unread]

RunFull(x) ==
    IF \E k \in DOMAIN x.sentences : Inverted(x.sentences[k]) THEN [refused |-> TRUE]
    ELSE [refused |-> FALSE,
          clauses |-> [k \in DOMAIN x.sentences |->
              [kind |-> ClassifyWords(x.sentences[k]),
               unresolved |-> NotGrounded(x, x.sentences[k]),
               validation |-> {ValidateAndRender(i) : i \in BuildIntent(x, x.sentences[k])}]],
          allClear |-> \A k \in DOMAIN x.sentences : ClassifyWords(x.sentences[k]) # "ambiguity",
          allGrounded |-> \A k \in DOMAIN x.sentences : NotGrounded(x, x.sentences[k]) = {}]

IntentInit == \E x \in IntentInputs : Called("intent", x)

GenerateIntents == Computing("intent") /\ Reports(RunFull(input))

IntentSpec == IntentInit /\ [][GenerateIntents]_passVars

------------------------------------------------------------------------------
(* Properties *)

EmittedFrom(k) ==
    IF Report.refused THEN {} ELSE {v \in Report.clauses[k].validation : v.emitted}

Mentioned(v) == UNION {Range(e.names) : e \in v.intent.sides.antecedent \cup v.intent.sides.consequent}

\* Nothing is emitted from a sentence that is vague or out of scope, whatever else it says,
\* or whose terms are not all symbols.
OnlyClearSentences ==
    \A k \in DOMAIN input.sentences : EmittedFrom(k) # {} =>
        /\ input.sentences[k].words \cap (VagueTerms \cup UnsupportedMarkers) = {}
        /\ \A t \in ReferencedTerms(input.sentences[k]) :
              \E n \in Symbols(input) : MatchScore(input, t, n) > 0

\* The names in a property are symbols of one module and stand in the sentence as they are:
\* an alias or a glossary entry may resolve a term and is never put in its place.
NamesFromTheSentence ==
    \A k \in DOMAIN input.sentences : \A v \in EmittedFrom(k) :
        Mentioned(v) \subseteq Range(input.sentences[k].names) \cap Symbols(input)

\* Clock, reset and delays are never guessed: the clock is the only candidate, a reset
\* guards with its known polarity, and the delays are written in the sentence.
NeverGuessed ==
    \A k \in DOMAIN input.sentences : \A v \in EmittedFrom(k) :
        /\ \A c \in v.intent.clock : Projected(input).clocks = <<c>>
        /\ v.intent.clock # {}
        /\ \A d \in v.disable : Len(Projected(input).resets) = 1 /\ Projected(input).resets[1].signal = d.signal
        /\ \A b \in v.intent.bounds :
              \E t \in input.sentences[k].timing : t.lo = b.lo /\ t.hi = b.hi

\* The condition of a sentence is lost by a one-hot property, which has no place for it and says
\* nothing of it, and by a cover that could not read it, which warns; a property with a term
\* that two symbols answer equally well warns.
ConditionKept ==
    \A k \in DOMAIN input.sentences : \A v \in EmittedFrom(k) :
        /\ \/ v.intent.sides.antecedent = input.sentences[k].trigger
           \/ v.intent.form = "one_hot"
           \/ v.intent.kind = "cover" /\ v.warned
        /\ \A t \in ReferencedTerms(input.sentences[k]) :
              (\E i, j \in MatchTerm(input, t) : i # j) => v.warned

\* sva-intent-engine: candidates come from clear, grounded sentences, use the names, the
\* clock and the delays that are given, and, but for the one-hot ones, keep the condition or
\* warn; a checklist entry that is ticked is true, and one sentence with inverted bounds
\* refuses the whole requirement.
IntentSound ==
    Reported("intent") =>
        /\ OnlyClearSentences /\ NamesFromTheSentence /\ NeverGuessed /\ ConditionKept
        /\ Report.refused <=>
              \E k \in DOMAIN input.sentences : \E b \in ExtractBounds(input.sentences[k]) : b.lo > b.hi
        /\ ~Report.refused /\ Report.allGrounded =>
              \A k \in DOMAIN Report.clauses : Report.clauses[k].unresolved = {}

\* What supported_forms.md says: a condition that is outside the accepted shapes is recorded as
\* an ambiguity of the property.
OddConditionRecorded ==
    Reported("intent") =>
        \A k \in DOMAIN input.sentences : \A v \in EmittedFrom(k) :
            (\E t \in input.sentences[k].trigger : t.shape = "other") => v.warned

=============================================================================
