----------------------------- MODULE DomainCrossings -----------------------------
(***************************************************************************)
(* cdc-rdc-triage-agent: the clock and reset domain of every register of a *)
(* module, the registers that read across domains, the chains of flops     *)
(* that synchronize what they read, and the rank of each crossing.         *)
(*                                                                         *)
(* A module is a record: procs (index -> kind, edge-sensitive signals in   *)
(* order, signals of its conditions, assignments), registers (name -> the  *)
(* procedure that drives it), clocks and resets (the candidates of the     *)
(* manifest), width (0: the range is not numeric) and cells (net -> depth  *)
(* of the glossary cell that drives it).                                   *)
(***************************************************************************)
EXTENDS OnePass, Integers, FiniteSetsExt, SequencesExt

CONSTANT CrossingModules    \* the modules to analyze

\* A module is finite, and a cell of the glossary has a stage (glossary.py: depth, ge=1).
ASSUME CrossingAssumption ==
    \A m \in CrossingModules :
        IsFiniteSet(DOMAIN m.registers) /\ \A n \in DOMAIN m.cells : m.cells[n] \in Nat \ {0}

NoSignal == "none"

\* The first edge that is a clock candidate, else the first edge, be it a reset.
ProcedureClock(m, p) ==
    LET edges == m.procs[p].edges
        clocks == SelectSeq(edges, LAMBDA s : s \in m.clocks)
    IN  IF clocks # <<>> THEN clocks[1]
        ELSE IF edges # <<>> THEN edges[1] ELSE NoSignal

\* The resets a procedure may be given: of two in its sensitivity list the loop
\* over a set of strings takes either.
ProcedureResets(m, p) ==
    LET async == (Range(m.procs[p].edges) \cap m.resets) \ {ProcedureClock(m, p)}
        sync == SelectSeq(m.procs[p].conditions, LAMBDA s : s \in m.resets)
    IN  IF async # {} THEN {[signal |-> s, async |-> TRUE] : s \in async}
        ELSE {[signal |-> IF sync # <<>> THEN sync[1] ELSE NoSignal, async |-> FALSE]}

\* The choices of one run, a reset for each procedure.
ResetChoices(m) ==
    {f \in [DOMAIN m.procs -> UNION {ProcedureResets(m, p) : p \in DOMAIN m.procs}] :
        \A p \in DOMAIN m.procs : f[p] \in ProcedureResets(m, p)}

Registers(m) ==
    {r \in DOMAIN m.registers :
        m.registers[r] \in DOMAIN m.procs /\ m.procs[m.registers[r]].kind = "always_ff"}

Driving(m, r) ==
    {a \in m.procs[m.registers[r]].assignments : a.nonblocking /\ a.lhs = r}

Reads(m, r) == (UNION {a.reads : a \in Driving(m, r)}) \ {r}

SlicedReads(m, r) == (UNION {a.sliced : a \in Driving(m, r)}) \ {r}

Clock(m, r) == ProcedureClock(m, m.registers[r])

\* Mutation: a stage may read other signals too.
IsCleanStageMixed(m, r, source) == source \in Reads(m, r) /\ source \notin SlicedReads(m, r)

IsCleanStage(m, r, source) == Reads(m, r) = {source} /\ source \notin SlicedReads(m, r)

\* The registers that forward the last stage of a chain: on the clock of its first,
\* and none of its own.
Followers(m, chain) ==
    {s \in Registers(m) \ Range(chain) :
        Clock(m, s) = Clock(m, chain[1]) /\ IsCleanStage(m, s, chain[Len(chain)])}

\* On to the unique follower of the last stage.
Extended(m, chain) ==
    LET next == Followers(m, chain)
    IN  IF Cardinality(next) = 1 THEN Append(chain, CHOOSE s \in next : TRUE) ELSE chain

\* The walk enters a register once, and so ends within as many steps as there are registers.
SyncChain(m, sampling) ==
    LET walk[n \in 0 .. Cardinality(Registers(m))] ==
            IF n = 0 THEN <<sampling>> ELSE Extended(m, walk[n - 1])
    IN  walk[Cardinality(Registers(m))]

SyncChainDepth(m, sampling, source) ==
    IF IsCleanStage(m, sampling, source) THEN Len(SyncChain(m, sampling))
    ELSE IF source \in Reads(m, sampling) THEN 1 ELSE 0

CrossingKind(m, resets, src, dst) ==
    LET reset(r) == resets[m.registers[r]]
        clocks == {Clock(m, src), Clock(m, dst)}
        cdc == Cardinality(clocks) = 2 /\ NoSignal \notin clocks
    IN  IF cdc THEN "cdc"
        ELSE IF /\ Cardinality(clocks) = 1
                /\ reset(src).signal # reset(dst).signal
                /\ reset(src).async \/ reset(dst).async
             THEN "rdc" ELSE "same"

\* Evidence of a synchronizer: a glossary cell, or a chain of two flops or more.
Evidence(m, kind, src, dst) ==
    LET depth == SyncChainDepth(m, dst, src)
    IN  IF dst \in DOMAIN m.cells THEN [sync |-> "glossary_cell", depth |-> m.cells[dst]]
        ELSE IF kind = "cdc" /\ depth >= 2
          THEN [sync |-> IF depth = 2 THEN "two_ff_candidate" ELSE "multi_ff_candidate",
                depth |-> depth]
        ELSE [sync |-> "none_found", depth |-> 0]

CombNeighbors(m, dst) ==
    \/ Cardinality(Reads(m, dst) \cap Registers(m)) > 1
    \/ ~(Reads(m, dst) \subseteq Registers(m))

RiskScore(m, kind, sync, src, dst) ==
    LET if(b, n) == IF b THEN n ELSE 0
        score == 40 + if(kind = "rdc", 10)
                    + if(sync = "none_found", 25)
                    - if(sync \in {"two_ff_candidate", "multi_ff_candidate"}, 15)
                    - if(sync = "glossary_cell", 20)
                    + if(m.width[src] > 1, 20)
                    + if(src \in SlicedReads(m, dst) \/ CombNeighbors(m, dst), 10)
                    + if(0 \in {m.width[src], m.width[dst]}, 5)
    IN  Max({5, Min({100, score})})

Severity(score) ==
    IF score >= 70 THEN "high" ELSE IF score >= 50 THEN "medium"
    ELSE IF score >= 30 THEN "low" ELSE "info"

MakeCrossing(m, kind, src, dst) ==
    LET e == Evidence(m, kind, src, dst)
        score == RiskScore(m, kind, e.sync, src, dst)
    IN  [kind |-> kind, src |-> src, dst |-> dst, sync |-> e.sync, depth |-> e.depth,
         multi_bit |-> m.width[src] > 1, score |-> score, severity |-> Severity(score)]

Crossings(m, resets) ==
    {MakeCrossing(m, CrossingKind(m, resets, p[1], p[2]), p[1], p[2]) :
        p \in {p \in Registers(m) \X Registers(m) :
                 /\ p[1] \in Reads(m, p[2])
                 /\ CrossingKind(m, resets, p[1], p[2]) # "same"}}

TriageSummary(crossings) ==
    LET count(S) == Cardinality(S)
    IN  [total |-> count(crossings),
         cdc   |-> count({c \in crossings : c.kind = "cdc"}),
         rdc   |-> count({c \in crossings : c.kind = "rdc"}),
         unsynchronized |-> count({c \in crossings : c.sync = "none_found"}),
         high  |-> count({c \in crossings : c.severity = "high"})]

CrossingsInit == \E m \in CrossingModules : Called("cdc-rdc-triage", m)

Triage ==
    /\ Computing("cdc-rdc-triage")
    /\ \E resets \in ResetChoices(input) :
          LET crossings == Crossings(input, resets)
          IN  Reports([resets |-> resets, crossings |-> crossings,
                       summary |-> TriageSummary(crossings)])

CrossingsSpec == CrossingsInit /\ [][Triage]_passVars

------------------------------------------------------------------------------
(* Properties *)

\* A chain of flops that forward a signal from one domain into another: each stage
\* takes the whole of the stage before it and nothing else, all on the clock of
\* the first, and no stage is forwarded to two places.
Synchronizer(m, src, chain) ==
    LET takes(r, s) ==
            /\ \A a \in Driving(m, r) : a.reads \subseteq {r, s} /\ s \notin a.sliced
            /\ \E a \in Driving(m, r) : s \in a.reads
    IN  /\ IsInjective(chain)
        /\ takes(chain[1], src)
        /\ \A i \in 2..Len(chain) :
              {r \in Registers(m) \ {chain[j] : j \in 1..(i - 1)} :
                  Clock(m, r) = Clock(m, chain[1]) /\ takes(r, chain[i - 1])} = {chain[i]}

\* What a report says of synchronizers is there: a crossing of clocks has evidence
\* of depth d exactly when its longest synchronizer has d stages, two or more, and
\* no crossing without evidence is ranked below medium.
SynchronizersReal ==
    Reported("cdc-rdc-triage") =>
        \A c \in Report.crossings :
            LET chains == {s \in UNION {[1..n -> Registers(input)] :
                                           n \in 2..Cardinality(Registers(input))} :
                             s[1] = c.dst /\ Synchronizer(input, c.src, s)}
            IN  /\ c.kind = "cdc" /\ c.sync # "glossary_cell" =>
                      c.depth = Max({0} \cup {Len(s) : s \in chains})
                /\ c.depth = 0 => c.severity \in {"medium", "high"}

=============================================================================
