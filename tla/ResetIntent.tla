------------------------------- MODULE ResetIntent -------------------------------
(***************************************************************************)
(* reset-intent-agent: the resets of a module, the votes on their          *)
(* polarity, the registers they reset, the reset domains and the crossings *)
(* between them, and the candidate properties.                             *)
(*                                                                         *)
(* A module comes from RTL text or from an RTL Intent Manifest.  A block   *)
(* is a record: sequential (always_ff, or an edge in the list), edges (in  *)
(* order), conditions (signals of its conditions in order), guard (form of *)
(* the first if), branch and rest (the nonblocking assignments of the      *)
(* branch of the first if, and the others).  What a name looks like is     *)
(* given by sets of signals.                                               *)
(***************************************************************************)
EXTENDS OnePass, Integers, FiniteSetsExt, SequencesExt

CONSTANTS
    ResetModules,       \* the modules to analyze
    ClockNames,         \* the signals named like a clock
    ResetNames,         \* the signals named like a reset
    ActiveLowNames      \* the signals named like an active-low reset

\* A block is what the lines above say; the order is that of the names of the resets.
ASSUME ResetModulesAssumption ==
    \A x \in ResetModules :
        LET m == x.module
            blocks == {m.blocks[i] : i \in DOMAIN m.blocks}
        IN  /\ m.blocks \in Seq(blocks)
            /\ \A b \in blocks :
                  /\ b.guard \in {"", "negated", "eq0", "bare", "eq1", "other"}
                  /\ b.conditions \in Seq(DOMAIN x.order)
                  /\ b.branch \in Seq(Range(b.branch)) /\ b.rest \in Seq(Range(b.rest))
            /\ IsFiniteSet(m.declared)
            /\ \A d \in m.declared : d.signal \in DOMAIN x.order
            /\ \A s \in DOMAIN x.order : x.order[s] \in Nat

NoReset == "none"

Assign(a, reset, guard) ==
    [lhs |-> a.lhs, value |-> a.value, reads |-> a.reads, reset |-> reset, guard |-> guard]

AssignEach(list, reset, guard) == [i \in DOMAIN list |-> Assign(list[i], reset, guard)]

\* The reset a condition names: a signal that looks like one, else the first.
PrimaryReset(conditions) ==
    LET named == {i \in DOMAIN conditions : conditions[i] \in ResetNames}
    IN  IF named # {} THEN conditions[Min(named)]
        ELSE IF conditions # <<>> THEN conditions[1] ELSE NoReset

IsConstant(a) == a.reads = {}

\* The assignments of a block of RTL text: the constants of the first branch are
\* reset values; of the rest, one that repeats a reset value is dropped.
TextAssigns(b) ==
    LET reset == IF b.sequential /\ b.guard # "" THEN PrimaryReset(b.conditions) ELSE NoReset
        written(a) == <<a.lhs, a.value, a.reads>>
        all == b.branch \o b.rest
        values == {i \in DOMAIN b.branch : b.sequential /\ b.guard # "" /\ IsConstant(b.branch[i])}
        captured == {written(b.branch[i]) : i \in values}
        others == {i \in DOMAIN all : written(all[i]) \notin captured}
    IN  AssignEach(Picked(b.branch, values), reset, b.guard)
        \o AssignEach(Picked(all, others), NoReset, "")

\* A manifest does not keep the nesting: every constant of a procedure with a
\* condition that looks like a reset is a reset value, and the form of the guard is
\* made up from the reset's name.
ManifestAssigns(b) ==
    LET reset == PrimaryReset(b.conditions)
        form == IF reset \in ActiveLowNames THEN "negated" ELSE "bare"
        all == b.branch \o b.rest
    IN  [i \in DOMAIN all |-> IF reset \in ResetNames /\ IsConstant(all[i])
                                THEN Assign(all[i], reset, form)
                                ELSE Assign(all[i], NoReset, "")]

Sequential(blocks) == {i \in DOMAIN blocks : blocks[i].sequential}

\* A declared reset that no assignment names becomes the guard of a made-up register
\* of the first sequential block; a polarity the manifest does not know reads as high.
FoldDeclared(m, assigns) ==
    LET missing == {d \in m.declared :
                      \A i \in DOMAIN assigns : \A a \in Range(assigns[i]) : a.reset # d.signal}
        made == {[lhs |-> "manifest:" \o d.signal, value |-> "0", reads |-> {},
                  reset |-> d.signal,
                  guard |-> IF d.polarity = "active_low" THEN "negated" ELSE "bare"] :
                    d \in missing}
    IN  IF Sequential(m.blocks) = {} THEN assigns
        ELSE [assigns EXCEPT ![Min(Sequential(m.blocks))] = @ \o SetToSeq(made)]

\* block -> its assignments, as the analyzer sees them.
Assigns(m) ==
    IF m.from = "text" THEN [i \in DOMAIN m.blocks |-> TextAssigns(m.blocks[i])]
    ELSE FoldDeclared(m, [i \in DOMAIN m.blocks |-> ManifestAssigns(m.blocks[i])])

\* The clocks of a block by name; without one, its only edge that is no reset.
ClockSignals(b) ==
    LET signals == {e.signal : e \in Range(b.edges)}
        others == {i \in DOMAIN b.edges : b.edges[i].signal \notin ResetNames}
    IN  IF signals \cap ClockNames # {} THEN signals \cap ClockNames
        ELSE IF Cardinality(others) = 1 THEN {b.edges[i].signal : i \in others} ELSE {}

AsyncEdges(m, sig) ==
    {e \in UNION {Range(m.blocks[i].edges) : i \in Sequential(m.blocks)} :
        /\ e.signal = sig
        /\ \E i \in Sequential(m.blocks) :
              e \in Range(m.blocks[i].edges) /\ sig \notin ClockSignals(m.blocks[i])}

Guarded(m, assigns, sig) ==
    {a \in UNION {Range(assigns[i]) : i \in Sequential(m.blocks)} : a.reset = sig}

PolarityFromGuard(form) ==
    IF form \in {"negated", "eq0"} THEN "active_low"
    ELSE IF form \in {"bare", "eq1"} THEN "active_high" ELSE "unknown"

PolarityFromEdge(edge) == IF edge = "negedge" THEN "active_low" ELSE "active_high"

PolarityFromName(sig) == IF sig \in ActiveLowNames THEN "active_low" ELSE "unknown"

Votes(m, assigns, sig) ==
    ({PolarityFromEdge(e.edge) : e \in AsyncEdges(m, sig)}
     \cup {PolarityFromGuard(a.guard) : a \in Guarded(m, assigns, sig)}
     \cup {PolarityFromName(sig)}) \ {"unknown"}

\* Mutation: a name decides.
VotePolarityByName(votes) ==
    IF "active_low" \in votes THEN "active_low"
    ELSE IF votes # {} THEN "active_high" ELSE "unknown"

VotePolarity(votes) ==
    IF Cardinality(votes) = 1 THEN CHOOSE v \in votes : TRUE ELSE "unknown"

\* Hundredths.
Confidence(sig, async, guarded) ==
    40 + (IF sig \in ResetNames THEN 30 ELSE 0) + (IF async THEN 15 ELSE 0)
       + (IF guarded THEN 15 ELSE 0)

Candidates(m, assigns) ==
    LET edges == {e.signal : e \in UNION {Range(m.blocks[i].edges) : i \in Sequential(m.blocks)}}
        guards == {a.reset : a \in UNION {Range(assigns[i]) : i \in Sequential(m.blocks)}}
        signals == {s \in edges : AsyncEdges(m, s) # {}} \cup (guards \ {NoReset})
    IN  {[signal     |-> s,
          polarity   |-> VotePolarity(Votes(m, assigns, s)),
          sync       |-> IF AsyncEdges(m, s) # {} THEN "asynchronous" ELSE "synchronous",
          confidence |-> Confidence(s, AsyncEdges(m, s) # {}, Guarded(m, assigns, s) # {}),
          registers  |-> {a.lhs : a \in Guarded(m, assigns, s)}] : s \in signals}

\* The first value a register is given under a reset, of any block.
Targets(assigns) ==
    LET all == FlattenSeq(assigns)
        first == {i \in DOMAIN all :
                    /\ all[i].reset # NoReset
                    /\ \A j \in 1 .. i - 1 : <<all[j].lhs, all[j].reset>>
                                               # <<all[i].lhs, all[i].reset>>}
    IN  {[register |-> all[i].lhs, reset |-> all[i].reset, value |-> all[i].value] : i \in first}

\* Domains are the resets in the order of their names; a register of two domains is
\* looked up in the later one.
DomainOf(targets, register, order) ==
    LET resets == {t.reset : t \in {t \in targets : t.register = register}}
    IN  IF resets = {} THEN NoReset
        ELSE CHOOSE s \in resets : \A o \in resets : order[o] <= order[s]

ResetCrossings(assigns, targets, order) ==
    LET domain(r) == DomainOf(targets, r, order)
        free == {a \in UNION {Range(assigns[i]) : i \in DOMAIN assigns} : a.reset = NoReset}
    IN  {[from |-> p[1], to |-> p[2].lhs] :
            p \in {p \in (UNION {a.reads : a \in free}) \X free :
                     /\ p[1] \in p[2].reads
                     /\ NoReset \notin {domain(p[1]), domain(p[2].lhs)}
                     /\ domain(p[1]) # domain(p[2].lhs)}}

Unreset(m, assigns, targets) ==
    {a.lhs : a \in UNION {Range(assigns[i]) : i \in Sequential(m.blocks)}}
        \ {t.register : t \in targets}

Risks(m, assigns, candidates, targets, crossings) ==
    (IF Sequential(m.blocks) # {} /\ candidates = {}
       THEN {[category |-> "no_reset", about |-> {}]} ELSE {})
    \cup (IF {"synchronous", "asynchronous"} \subseteq {c.sync : c \in candidates}
            THEN {[category |-> "mixed_sync", about |-> {}]} ELSE {})
    \cup {[category |-> "polarity", about |-> {c.signal}] :
             c \in {c \in candidates : c.polarity = "unknown"}}
    \cup {[category |-> "rdc", about |-> {c.from, c.to}] : c \in crossings}
    \cup {[category |-> "quiescence", about |-> {r}] : r \in Unreset(m, assigns, targets)}

\* One property per target; a reset of unknown polarity, or one that is no candidate,
\* gets a placeholder.
CandidateSva(candidates, targets) ==
    {[target |-> t,
      active |-> LET c == {c \in candidates : c.signal = t.reset}
                 IN  IF c = {} THEN "unknown" ELSE (CHOOSE x \in c : TRUE).polarity] :
        t \in targets}

Analysis(m, order) ==
    LET assigns == Assigns(m)
        candidates == Candidates(m, assigns)
        targets == Targets(assigns)
        crossings == ResetCrossings(assigns, targets, order)
    IN  [candidates  |-> candidates, targets |-> targets, crossings |-> crossings,
         risks       |-> Risks(m, assigns, candidates, targets, crossings),
         ambiguities |-> {c.signal : c \in {c \in candidates : c.polarity = "unknown"}},
         sva         |-> CandidateSva(candidates, targets)]

ResetIntentInit == \E m \in ResetModules : Called("reset-intent", m)

AnalyzeResets == Computing("reset-intent") /\ Reports(Analysis(input.module, input.order))

ResetIntentSpec == ResetIntentInit /\ [][AnalyzeResets]_passVars

------------------------------------------------------------------------------
(* Properties *)

\* What the source says of a reset's polarity: the edges of sequential blocks it is
\* not the clock of, the guards of the reset values of a text, and its name.
Says(m, sig) ==
    {IF e.edge = "negedge" THEN "active_low" ELSE "active_high" : e \in AsyncEdges(m, sig)}
    \cup (IF sig \in ActiveLowNames THEN {"active_low"} ELSE {})
    \cup (IF m.from # "text" THEN {}
          ELSE {IF b.guard \in {"negated", "eq0"} THEN "active_low" ELSE "active_high" :
                  b \in {b \in Range(m.blocks) :
                           /\ b.sequential /\ b.guard \notin {"", "other"}
                           /\ PrimaryReset(b.conditions) = sig
                           /\ \E a \in Range(b.branch) : IsConstant(a)}})

\* A property is generated for a polarity only if nothing in the source says the
\* other; where the source contradicts itself the reset is an ambiguity and a risk,
\* and its properties carry the placeholder.
PolarityUncontradicted ==
    \A s \in Report.sva :
        LET sig == s.target.reset
        IN  /\ s.active # "unknown" => Says(input.module, sig) \subseteq {s.active}
            /\ Cardinality(Says(input.module, sig)) = 2 =>
                  /\ s.active = "unknown"
                  /\ (\E c \in Report.candidates : c.signal = sig) => sig \in Report.ambiguities

\* A register that reads another one with which it shares no reset crosses reset
\* domains, and one that is reset by the same signals does not.  In between, when a
\* register is reset by two signals, the analyzer sees only one of them.
CrossingsOfDomains ==
    LET assigns == Assigns(input.module)
        resets(r) == {t.reset : t \in {t \in Report.targets : t.register = r}}
    IN  \A i \in DOMAIN assigns : \A a \in Range(assigns[i]) : \A r \in a.reads :
            LET crossing == [from |-> r, to |-> a.lhs]
            IN  a.reset = NoReset /\ {} \notin {resets(r), resets(a.lhs)} =>
                    /\ resets(r) \cap resets(a.lhs) = {} => crossing \in Report.crossings
                    /\ resets(r) = resets(a.lhs) => crossing \notin Report.crossings

ResetIntentSound ==
    Reported("reset-intent") => PolarityUncontradicted /\ CrossingsOfDomains

=============================================================================
