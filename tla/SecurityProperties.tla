--------------------------- MODULE SecurityProperties ---------------------------
(***************************************************************************)
(* security-property-agent: the clauses of a requirement are classified,   *)
(* its terms are looked up in the manifest, and the category of the        *)
(* requirement picks, by keywords in their names, the signals of one       *)
(* candidate property; broken variants of it are added as witnesses.       *)
(*                                                                         *)
(* Names are written in lower case: the lookups ignore case.  A clause is  *)
(* the set of the kinds of markers in its text.  Optional values are sets  *)
(* of at most one element.                                                 *)
(***************************************************************************)
EXTENDS OnePass, Integers, FiniteSetsExt, SequencesExt

CONSTANTS
    SecurityInputs,     \* [requirements, modules] to run on
    KeywordsIn,         \* the keywords a term or a name contains
    AliasPairs,         \* a term and a name that agree on a part between underscores
    Unrenderable        \* names with a word the renderer refuses, such as "cover"

SecurityCategory ==
    {"access_control", "privilege_gating", "debug_lockout", "fault_response", "error_containment",
     "lockstep_mismatch", "information_flow_adjacent"}

ASSUME SecurityAssumption ==
    \A x \in SecurityInputs :
        /\ x.requirements \in Seq(Range(x.requirements))
        /\ \A r \in Range(x.requirements) :
              /\ r.category \in SecurityCategory
              /\ r.clauses \in Seq(SUBSET {"assumption", "objective", "safety"})
              /\ r.signals \in Seq(Range(r.signals)) /\ r.prose \in Seq(Range(r.prose))
        /\ x.modules \in Seq(Range(x.modules))
        /\ \A m \in Range(x.modules) :
              /\ m.ports \in Seq(Range(m.ports)) /\ m.nets \in Seq(Range(m.nets))
              /\ m.registers \in Seq(Range(m.registers)) /\ m.parameters \in Seq(Range(m.parameters))

------------------------------------------------------------------------------
(* Decomposition *)

\* An assumption marker wins over all: asserting an assumption is the dangerous mistake.
ClauseKind(c) ==
    CASE "assumption" \in c -> "assumption"
      [] "assumption" \notin c /\ "objective" \in c -> "objective"
      [] c = {"safety"} -> "safety"
      [] c = {} -> "ambiguity"

FlaggedClauses(r) ==
    {k \in DOMAIN r.clauses : r.clauses[k] = {} \/ {"assumption", "safety"} \subseteq r.clauses[k]}

------------------------------------------------------------------------------
(* Grounding *)

\* The symbols of all modules one after the other, ports, nets, registers, parameters.
FlatSymbols(modules) ==
    LET kindOf(m, names, kind) == [i \in DOMAIN names |-> [module |-> m.name, name |-> names[i], kind |-> kind]]
    IN  FlattenSeq([j \in DOMAIN modules |->
            LET m == modules[j]
            IN  kindOf(m, m.ports, "port") \o kindOf(m, m.nets, "net")
                \o kindOf(m, m.registers, "register") \o kindOf(m, m.parameters, "parameter")])

\* The first candidate of any module is the clock.
HasClock(x) == \E m \in Range(x.modules) : m.clocks # {}

\* The places of the symbols of a name, and of those that agree with a term on a part of it.
FindTerm(x, term) ==
    {i \in DOMAIN FlatSymbols(x.modules) : FlatSymbols(x.modules)[i].name = term}

FindAlias(x, term) ==
    {i \in DOMAIN FlatSymbols(x.modules) : <<term, FlatSymbols(x.modules)[i].name>> \in AliasPairs}

\* The terms the author names, then those of the text.
TermsOf(r) ==
    r.signals \o Picked(r.prose, {i \in DOMAIN r.prose : r.prose[i] \notin Range(r.signals)})

\* The first exact match, else the first alias.
GroundTerm(x, term) ==
    LET exact == FindTerm(x, term)
        alias == FindAlias(x, term)
        ref(i, match) == {[term |-> term, symbol |-> FlatSymbols(x.modules)[i].name,
                           kind |-> FlatSymbols(x.modules)[i].kind, match |-> match]}
    IN  IF exact # {} THEN ref(Min(exact), "exact")
        ELSE IF alias # {} THEN ref(Min(alias), "alias") ELSE {}

\* In the order of the terms.
ResolvedRefs(x, r) ==
    LET terms == TermsOf(r)
        found == Picked(terms, {i \in DOMAIN terms : GroundTerm(x, terms[i]) # {}})
    IN  [i \in DOMAIN found |-> CHOOSE ref \in GroundTerm(x, found[i]) : TRUE]

\* What a reviewer is told: several matches, an alias, no trust boundary.
AmbiguityNotes(x, r) ==
    {<<"several", t>> : t \in {t \in Range(TermsOf(r)) : Cardinality(FindTerm(x, t)) > 1}}
    \cup {<<"alias", t>> : t \in {t \in Range(TermsOf(r)) :
                                    \E ref \in GroundTerm(x, t) : ref.match = "alias"}}
    \cup (IF r.boundary THEN {} ELSE {<<"boundary", "none">>})

------------------------------------------------------------------------------
(* Candidates *)

HasKeyword(ref, keyword) == keyword \in KeywordsIn[ref.symbol] \cup KeywordsIn[ref.term]

\* Keywords in order, and for each the terms in order.
Pick(refs, keywords) ==
    LET hits(k) == {i \in DOMAIN refs : HasKeyword(refs[i], keywords[k])}
        useful == {k \in DOMAIN keywords : hits(k) # {}}
    IN  IF useful = {} THEN {} ELSE {refs[Min(hits(Min(useful)))]}

\* Mutation: the signal that was chosen already can be chosen again.
PickAgain(refs, chosen, keywords) == Pick(refs, keywords)

PickExcluding(refs, chosen, keywords) ==
    Pick(Picked(refs, {i \in DOMAIN refs : \A c \in chosen : refs[i].symbol # c.symbol}), keywords)

\* A side of a property: a signal, negated or not, or a comparison of two.
Sig(ref) == [signal |-> ref.symbol, negated |-> FALSE, other |-> {}]
NotSig(ref) == [Sig(ref) EXCEPT !.negated = TRUE]
Same(a, b) == [Sig(a) EXCEPT !.other = {b.symbol}]
NotSame(a, b) == [Same(a, b) EXCEPT !.negated = TRUE]

Sva(form, antecedent, window, consequent, used) ==
    {[directive |-> "assert", form |-> form, antecedent |-> antecedent, window |-> window,
      consequent |-> consequent, used |-> used]}

\* guard |-> consequent in the same cycle.
Gated(guard, consequent, used) == Sva("implication", {guard}, <<0, 0>>, consequent, used)

BothFound(a, b, sva(_, _)) == UNION {UNION {sva(p, q) : q \in b} : p \in a}

BuildAccess(refs) ==
    LET guard == Pick(refs, <<"grant", "allow", "unlock", "authorized", "permit">>)
        action == PickExcluding(refs, guard, <<"commit", "access", "wr_en", "rd_en", "write", "read", "en">>)
    IN  BothFound(action, guard, LAMBDA a, g : Gated(Sig(a), Sig(g), {a, g}))

\* Without a lock the enable must never be set.
BuildDebug(refs) ==
    LET lock == Pick(refs, <<"lock", "locked", "lockout">>)
        dbg == PickExcluding(refs, lock, <<"dbg_en", "debug_en", "dbg_enable", "enable", "dbg", "debug", "jtag", "scan">>)
    IN  IF lock = {} THEN UNION {Sva("never", {}, <<0, 0>>, NotSig(d), {d}) : d \in dbg}
        ELSE BothFound(lock, dbg, LAMBDA l, d : Gated(Sig(l), NotSig(d), {l, d}))

\* The first two signals that are named; a mismatch flag alone must never be set.
BuildLockstep(refs) ==
    LET pair == Picked(refs, {i \in DOMAIN refs : refs[i].kind # "parameter"})
        flag == Pick(refs, <<"mismatch", "error", "fault", "err">>)
    IN  IF Len(pair) >= 2
        THEN Sva("lockstep", {}, <<0, 0>>, Same(pair[1], pair[2]), {pair[1], pair[2]})
        ELSE UNION {Sva("never", {}, <<0, 0>>, NotSig(m), {m}) : m \in flag}

BuildForCategory(category, refs) ==
    CASE category = "access_control" -> BuildAccess(refs)
      [] category = "privilege_gating" ->
            BothFound(Pick(refs, <<"op", "wr_en", "write", "exec", "secure", "access">>),
                      Pick(refs, <<"priv", "mode", "level", "ring", "supervisor">>),
                      LAMBDA o, p : Gated(Sig(o), Sig(p), {o, p}))
      [] category = "debug_lockout" -> BuildDebug(refs)
      [] category = "fault_response" ->
            BothFound(Pick(refs, <<"fault", "error", "err", "alarm", "detect">>),
                      Pick(refs, <<"resp", "halt", "safe", "shutdown", "clear", "recover">>),
                      LAMBDA f, a : Sva("bounded_response", {Sig(f)}, <<1, 3>>, Sig(a), {f, a}))
      [] category = "error_containment" ->
            BothFound(Pick(refs, <<"error", "err", "corrupt", "poison">>),
                      Pick(refs, <<"out", "valid", "commit", "propagate", "downstream">>),
                      LAMBDA e, o : Gated(Sig(e), NotSig(o), {e, o}))
      [] category = "lockstep_mismatch" -> BuildLockstep(refs)
      [] category = "information_flow_adjacent" ->
            BothFound(Pick(refs, <<"secret", "key", "priv", "sensitive">>),
                      Pick(refs, <<"out", "observe", "leak", "public", "debug", "readable">>),
                      LAMBDA s, o : Sva("never", {}, <<0, 0>>, NotSame(o, s), {s, o}))

Covering(refs, built) ==
    [directive |-> "cover", form |-> "reachable", antecedent |-> {}, window |-> <<0, 0>>,
     consequent |-> Sig(refs[1]), used |-> built.used]

\* A clause gives a candidate or the reason why there is none.
AnswerOf(x, kind, refs, built, earlier) ==
    LET sva == IF kind = "objective" THEN {Covering(refs, b) : b \in built} ELSE built
        skip(why) == [candidate |-> {}, skipped |-> {why}]
        body(b) == <<b.directive, b.form, b.antecedent, b.consequent>>
    IN  IF kind = "ambiguity" THEN [candidate |-> {}, skipped |-> {}]
        ELSE IF ~HasClock(x) THEN skip("no clock")
        ELSE IF built = {} THEN skip("not grounded")
        ELSE IF kind = "assumption" THEN skip("never an assert")
        ELSE IF \E b \in sva, e \in earlier : body(b) = body(e) THEN skip("duplicate")
        ELSE [candidate |-> sva, skipped |-> {}]

ForClause(x, r, k, earlier) ==
    LET refs == ResolvedRefs(x, r)
    IN  AnswerOf(x, ClauseKind(r.clauses[k]), refs, BuildForCategory(r.category, refs), earlier)

\* The results clause by clause.  A clause that is skipped as a duplicate repeats what one
\* before it gives, so the candidates of those before are what each gives on its own.
GenerateCandidates(x, r) ==
    [k \in DOMAIN r.clauses |->
        ForClause(x, r, k, UNION {ForClause(x, r, j, {}).candidate : j \in 1 .. (k - 1)})]

------------------------------------------------------------------------------
(* Witnesses *)

Negated(side) == [side EXCEPT !.negated = ~@]

GenerateMutations(c) ==
    CASE c.form = "implication" ->
            {[kind |-> "negate_consequent", sva |-> [c EXCEPT !.consequent = Negated(@)]],
             [kind |-> "drop_guard", sva |-> [c EXCEPT !.antecedent = {}]]}
      [] c.form = "never" ->
            {[kind |-> "negate_antecedent", sva |-> [c EXCEPT !.consequent = Negated(@)]]}
      [] c.form = "bounded_response" ->
            {[kind |-> "weaken_bound", sva |-> [c EXCEPT !.window = <<0, 0>>]],
             [kind |-> "negate_consequent", sva |-> [c EXCEPT !.consequent = Negated(@)]]}
      [] c.form = "lockstep" ->
            {[kind |-> "break_lockstep", sva |-> [c EXCEPT !.consequent = Negated(@)]]}
      [] c.form = "reachable" -> {}

NamesIn(c) ==
    UNION {{side.signal} \cup side.other : side \in c.antecedent \cup {c.consequent}}

\* What the builders made for the requirements of which some clause is not ambiguous.
BuiltFor(x) ==
    LET tried == {r \in Range(x.requirements) : HasClock(x) /\ Range(r.clauses) # {{}}}
    IN  UNION {BuildForCategory(r.category, ResolvedRefs(x, r)) : r \in tried}

\* A name the renderer refuses raises out of the pipeline, and nothing is reported.
ReviewOf(x, results) ==
    LET all == UNION {UNION {results[k][j].candidate : j \in DOMAIN results[k]} : k \in DOMAIN results}
    IN  IF \E c \in all \cup BuiltFor(x) : NamesIn(c) \cap Unrenderable # {} THEN [raised |-> TRUE]
        ELSE [raised |-> FALSE, results |-> results,
              notes |-> [k \in DOMAIN results |-> AmbiguityNotes(x, x.requirements[k])],
              flagged |-> [k \in DOMAIN results |-> FlaggedClauses(x.requirements[k])],
              mutations |-> [c \in all |-> GenerateMutations(c)]]

RunSecurity(x) ==
    ReviewOf(x, [k \in DOMAIN x.requirements |-> GenerateCandidates(x, x.requirements[k])])

SecurityInit == \E x \in SecurityInputs : Called("security", x)

ReviewSecurity == Computing("security") /\ Reports(RunSecurity(input))

SecuritySpec == SecurityInit /\ [][ReviewSecurity]_passVars

------------------------------------------------------------------------------
(* Properties *)

CandidatesOf(k) == UNION {Report.results[k][j].candidate : j \in DOMAIN Report.results[k]}

\* No clause is lost: it has a candidate, the reason there is none, or a flag for a person;
\* an assumption never becomes a candidate.
EveryClauseAnswered ==
    \A k \in DOMAIN Report.results : \A j \in DOMAIN Report.results[k] :
        LET answer == Report.results[k][j]
        IN  /\ (answer.candidate = {}) <=> (answer.skipped # {} \/ input.requirements[k].clauses[j] = {})
            /\ answer.candidate = {} /\ answer.skipped = {} => j \in Report.flagged[k]
            /\ "assumption" \in input.requirements[k].clauses[j] => answer.candidate = {}

\* The signals belong to the requirement, not to the clause: however many clauses there are,
\* a requirement has at most one assertion and one cover.
OneOfEachDirective ==
    \A k \in DOMAIN Report.results : \A c, d \in CandidatesOf(k) : c.directive = d.directive => c = d

\* Every signal of a candidate is in the manifest; one that stands for a term of another
\* name, or for a name of several modules, is noted.
SignalsInManifest ==
    \A k \in DOMAIN Report.results : \A c \in CandidatesOf(k) : \A u \in c.used :
        LET names == {FlatSymbols(input.modules)[i].name : i \in DOMAIN FlatSymbols(input.modules)}
            same == {i \in DOMAIN FlatSymbols(input.modules) : FlatSymbols(input.modules)[i].name = u.symbol}
        IN  /\ same # {} /\ NamesIn(c) \subseteq names
            /\ u.symbol # u.term => <<"alias", u.term>> \in Report.notes[k]
            /\ Cardinality(same) > 1 /\ u.symbol = u.term => <<"several", u.term>> \in Report.notes[k]

\* Where a guard and what it guards are picked apart, they are two signals.
SidesApart ==
    \A k \in DOMAIN Report.results : \A c \in CandidatesOf(k) :
        input.requirements[k].category \in {"access_control", "debug_lockout"} =>
            \A a \in c.antecedent : a.signal # c.consequent.signal

\* What a candidate says of one cycle, the values of the signals given.
SideHolds(side, v) ==
    (IF side.other = {} THEN v[side.signal] ELSE \A o \in side.other : v[side.signal] = v[o]) # side.negated

HoldsIn(c, v) == (\A a \in c.antecedent : SideHolds(a, v)) => SideHolds(c.consequent, v)

\* A witness of a property of one cycle fails wherever the property is exercised and holds,
\* or, with the guard dropped, holds only where the property does.
WitnessesDistinguish ==
    \A c \in DOMAIN Report.mutations : \A m \in Report.mutations[c] :
        c.window = <<0, 0>> =>
            \A v \in [NamesIn(c) -> BOOLEAN] :
                IF m.kind = "drop_guard" THEN HoldsIn(m.sva, v) => HoldsIn(c, v)
                ELSE (\A a \in c.antecedent : SideHolds(a, v)) => HoldsIn(m.sva, v) # HoldsIn(c, v)

\* security-property-agent: no clause is lost or asserted against its kind, signals come from
\* the manifest with their doubts noted, a guard never guards itself, and a witness of a
\* candidate tells a design that meets it from one that does not.
SecuritySound ==
    Reported("security") /\ ~Report.raised =>
        /\ EveryClauseAnswered /\ OneOfEachDirective /\ SignalsInManifest
        /\ SidesApart /\ WitnessesDistinguish

=============================================================================
