----------------------------- MODULE EquivalenceTriage -----------------------------
(***************************************************************************)
(* equivalence-triage-agent: the lines of an equivalence checker's log     *)
(* read into mismatches, the mismatches grouped by signature, the causes   *)
(* each group suggests and the places to look at.                          *)
(*                                                                         *)
(* A signal or compare point is <<base, bit>>; what its base looks like    *)
(* (an enable, a reset) is part of the input.  An optional signal is a set *)
(* of at most one, a width of 0 is none, scores are in halves and          *)
(* confidences in hundredths.                                              *)
(***************************************************************************)
EXTENDS OnePass, Integers, FiniteSetsExt, SequencesExt

CONSTANT EquivalenceRuns    \* [lines, status, ref, rev, enables, resetlike] to triage

ASSUME EquivalenceAssumption ==
    \A x \in EquivalenceRuns :
        /\ x = [lines |-> x.lines, status |-> x.status, ref |-> x.ref, rev |-> x.rev,
                enables |-> x.enables, resetlike |-> x.resetlike]
        /\ x.lines \in Seq(Range(x.lines))

Designs == {"reference", "revised"}

StripIndex(s) == s[1]

\* The lines that declare a compare point.
Declaring(lines) == {i \in DOMAIN lines : lines[i].tag = "mismatch"}

\* A point is what its last line declares, and the vectors that come after that.
PointOf(lines, n) ==
    LET last == Max({i \in Declaring(lines) : lines[i].name = n})
    IN  [at |-> lines[last],
         vectors |-> {lines[i] : i \in {i \in DOMAIN lines : /\ lines[i].tag = "cex"
                                                          /\ lines[i].name = n /\ i > last}}]

\* Each line that declares a point is a mismatch; a line of a counterexample goes to a point
\* declared before it, or the log is refused.
ParseLog(lines) ==
    LET mismatches == Picked(lines, Declaring(lines))
    IN  [points |-> [n \in {lines[i].name : i \in Declaring(lines)} |-> PointOf(lines, n)],
         order |-> [k \in DOMAIN mismatches |-> mismatches[k].name],
         deltas |-> {lines[i] : i \in {i \in DOMAIN lines : lines[i].tag = "config"}},
         parsed |-> \A i \in DOMAIN lines : lines[i].tag = "cex" =>
                       \E j \in Declaring(lines) : j < i /\ lines[j].name = lines[i].name]

VectorDiffers(v) == v.ref # "none" /\ v.rev # "none" /\ v.ref # v.rev

Differing(p) == {v \in p.vectors : VectorDiffers(v)}

DiffSignals(p) == {v.signal : v \in Differing(p)}

\* Mutation: the widths of a compare point are not part of its signature.
SignatureNoWidth(p) ==
    <<p.at.kind, <<>>, StripIndex(p.at.name),
      {StripIndex(s) : s \in DiffSignals(p)}, {StripIndex(s) : s \in p.at.fanin}>>

\* What two mismatches share that are taken for one bug.
Signature(p) ==
    <<p.at.kind,
      IF p.at.wref # 0 /\ p.at.wrev # 0 /\ p.at.wref # p.at.wrev
        THEN <<p.at.wref, p.at.wrev>> ELSE <<>>,
      StripIndex(p.at.name),
      {StripIndex(s) : s \in DiffSignals(p)}, {StripIndex(s) : s \in p.at.fanin}>>

\* A group takes its widths from the first mismatch of its signature.
GroupOfSignature(log, signature) ==
    LET members == Picked(log.order, {i \in DOMAIN log.order :
                                        Signature(log.points[log.order[i]]) = signature})
        of == {log.points[n] : n \in Range(members)}
        first == log.points[members[1]].at
    IN  [members |-> members, kind |-> first.kind, wref |-> first.wref, wrev |-> first.wrev,
         cone |-> UNION {p.at.fanin \cup DiffSignals(p) : p \in of}]

GroupSignatures(log) ==
    {GroupOfSignature(log, Signature(log.points[n])) : n \in Range(log.order)}

CompareReset(x) ==
    LET known(a, b) == a # "unknown" /\ b # "unknown" /\ a # b
        value(f, s) == IF s \in DOMAIN f THEN f[s] ELSE "none"
    IN  [polarity |-> known(x.ref.polarity, x.rev.polarity),
         sync |-> known(x.ref.sync, x.rev.sync),
         init |-> {s \in DOMAIN x.ref.init \cup DOMAIN x.rev.init :
                      value(x.ref.init, s) # value(x.rev.init, s)}]

\* The vectors of the compared signal, or all if none of those differs.
InvertedCex(log, g) ==
    \E n \in Range(g.members) :
        LET own == {v \in Differing(log.points[n]) :
                        log.points[n].at.rev \in {{}, {v.signal}}}
            seen == IF own # {} THEN own ELSE Differing(log.points[n])
        IN  \E v \in seen : {v.ref, v.rev} \subseteq {"0", "1"}

StateEncodingDiffers(x, g) ==
    \E s \in g.cone \cup Range(g.members) :
        LET base == StripIndex(s)
        IN  /\ base \in DOMAIN x.ref.encoding \cap DOMAIN x.rev.encoding
            /\ x.ref.encoding[base] # x.rev.encoding[base]

MismatchAtTimeZero(log, g) ==
    \E n \in Range(g.members) : \E v \in Differing(log.points[n]) : v.time = 0

Deltas(log) == {d \in log.deltas : d.ref # d.rev}

Gating(x, g) == {s \in g.cone : StripIndex(s) \in x.enables}

\* The last two are suggested only if nothing else is.
ClassifyCauses(x, log, g) ==
    LET reset == CompareReset(x)
        zero == MismatchAtTimeZero(log, g)
        resetlike == \E s \in g.cone : StripIndex(s) \in x.resetlike
        cause(c, confidence) == [category |-> c, confidence |-> confidence]
        found ==
            (IF g.wref # 0 /\ g.wrev # 0 /\ g.wref # g.wrev THEN {cause("width", 90)} ELSE {})
            \cup (IF InvertedCex(log, g) THEN {cause("polarity", 75)}
                  ELSE IF reset.polarity /\ resetlike THEN {cause("polarity", 60)} ELSE {})
            \cup (IF Gating(x, g) # {} THEN {cause("gating", 55)} ELSE {})
            \cup (IF reset.polarity \/ reset.sync \/ (reset.init # {} /\ zero)
                    THEN {cause("reset_init", IF zero THEN 60 ELSE 40)} ELSE {})
            \cup (IF StateEncodingDiffers(x, g) THEN {cause("state_encoding", 65)} ELSE {})
            \cup (IF Deltas(log) # {} THEN {cause("config_constraint", 50)} ELSE {})
    IN  IF found # {} THEN found
        ELSE IF g.kind \in {"state", "cutpoint"} THEN {cause("optimization", 35)}
        ELSE {cause("unknown", 20)}

\* The signal a compare point has in a design: its own name if the log gives none.
ComparedSignal(p, design) ==
    LET given == IF design = "reference" THEN p.at.ref ELSE p.at.rev
    IN  IF given = {} THEN p.at.name ELSE CHOOSE s \in given : TRUE

RankLocations(x, log, g) ==
    LET hits(s, d) == Cardinality({i \in DOMAIN g.members :
                                     ComparedSignal(log.points[g.members[i]], d) = s})
        score(s, d) == 6 * hits(s, d) + (IF s \in g.cone THEN 2 ELSE 0)
                         + (IF s \in Gating(x, g) THEN 1 ELSE 0)
        signals == g.cone \cup {ComparedSignal(log.points[n], d) :
                                  n \in Range(g.members), d \in Designs}
    IN  {l \in {[signal |-> s, design |-> d, score |-> score(s, d)] :
                   s \in signals, d \in Designs} : l.score > 0}

Warnings(x, log) ==
    (IF x.status \in {"TIMEOUT", "INCONCLUSIVE", "ERROR", "ABORTED"} THEN {"advisory"} ELSE {})
    \cup (IF Deltas(log) # {} THEN {"config"} ELSE {})

\* The steps of the debug packet, first things first.
NextSteps(log, groups) ==
    (IF Deltas(log) # {} THEN <<"reconcile config">> ELSE <<>>)
    \o <<"rerun", "inspect locations">>
    \o (IF \E g \in groups : \E c \in g.causes : c.category \in {"reset_init", "polarity"}
          THEN <<"compare resets">> ELSE <<>>)

EquivalenceReportOf(x) ==
    LET log == ParseLog(x.lines)
        groups == {[members |-> g.members, cone |-> g.cone,
                    causes |-> ClassifyCauses(x, log, g),
                    locations |-> RankLocations(x, log, g)] : g \in GroupSignatures(log)}
    IN  IF ~log.parsed THEN [parsed |-> FALSE]
        ELSE [parsed |-> TRUE, status |-> x.status, mismatches |-> Len(log.order),
              deltas |-> log.deltas, groups |-> groups, warnings |-> Warnings(x, log),
              steps |-> NextSteps(log, groups)]

EquivalenceInit == \E x \in EquivalenceRuns : Called("eq-triage", x)

TriageEquivalence == Computing("eq-triage") /\ Reports(EquivalenceReportOf(input))

EquivalenceSpec == EquivalenceInit /\ [][TriageEquivalence]_passVars

------------------------------------------------------------------------------
(* Properties *)

\* A log that says each thing once, and of a point before its counterexample.
WellOrdered(lines) ==
    /\ \A i, j \in DOMAIN lines : i # j /\ lines[i].tag = "mismatch" =>
          lines[j].tag # "mismatch" \/ lines[i].name # lines[j].name
    /\ \A i \in DOMAIN lines : lines[i].tag = "cex" =>
          \E j \in 1..(i - 1) : lines[j].tag = "mismatch" /\ lines[j].name = lines[i].name

\* A report without the order of members in a group.
Unordered(r) ==
    [r EXCEPT !.groups = {[g EXCEPT !.members = Range(@)] : g \in r.groups}]

SwappedLines(lines, i) == [lines EXCEPT ![i] = lines[i + 1], ![i + 1] = lines[i]]

\* "Order is not significant": of lines that may stand in two orders the report says the
\* same in both, its groups and the causes and places of each included.
LinesInAnyOrder ==
    \A i \in 1..(Len(input.lines) - 1) :
        WellOrdered(input.lines) /\ WellOrdered(SwappedLines(input.lines, i)) =>
            Unordered(EquivalenceReportOf([input EXCEPT !.lines = SwappedLines(@, i)]))
              = Unordered(Report)

\* Each mismatch of the log is in one group, and the groups add up to all of them.
MismatchesAllGrouped ==
    /\ \A g, h \in Report.groups :
          g = h \/ Range(g.members) \cap Range(h.members) = {}
    /\ Cardinality(UNION {{g} \X DOMAIN g.members : g \in Report.groups}) = Report.mismatches

\* A place the tool compared is shown before any place that is only in its cone, and
\* each group has such places in both designs.
ComparedFirst ==
    LET log == ParseLog(input.lines)
    IN  \A g \in Report.groups : \A d \in Designs :
          LET compared == {ComparedSignal(log.points[n], d) : n \in Range(g.members)}
          IN  /\ compared \subseteq {l.signal : l \in {l \in g.locations : l.design = d}}
              /\ \A k, l \in g.locations :
                    k.signal \in compared /\ k.design = d /\ l.score >= k.score =>
                        \E n \in Range(g.members) :
                            l.signal = ComparedSignal(log.points[n], l.design)

\* A difference between the two configurations is a cause of every mismatch, a warning
\* and the first thing to do; and the verdict stays the tool's.
EquivalenceSound ==
    Reported("eq-triage") /\ Report.parsed =>
        /\ LinesInAnyOrder /\ MismatchesAllGrouped /\ ComparedFirst
        /\ Report.status = input.status
        /\ (\E d \in Report.deltas : d.ref # d.rev) =>
              /\ "config" \in Report.warnings /\ Report.steps[1] = "reconcile config"
              /\ \A g \in Report.groups : \E c \in g.causes : c.category = "config_constraint"

=============================================================================
