--------------------------- MODULE PerformanceRegression ---------------------------
(***************************************************************************)
(* performance-regression-agent: the oldest and the newest commit of each  *)
(* group of comparable runs compared metric by metric, after outliers are  *)
(* rejected, by the change of the mean and by its size in the baseline's   *)
(* own spread.                                                             *)
(*                                                                         *)
(* Samples are integers and the statistics are exact: a quartile is in     *)
(* quarters, a median in halves, and every comparison is multiplied out.   *)
(* The confidence and the confidence intervals are left out.               *)
(***************************************************************************)
EXTENDS OnePass, Integers, FiniteSetsExt, SequencesExt

CONSTANTS
    Datasets,           \* [runs, min_pct, z_tenths, min_samples] to analyze
    HigherIsBetter      \* the metrics that are

\* A run has an order and, of each metric it names, samples (models.py: the values of a metric
\* are those of its samples); the thresholds are not negative (DetectionConfig: ge=0).
ASSUME DatasetsAssumption ==
    \A x \in Datasets :
        /\ x = [runs |-> x.runs, min_pct |-> x.min_pct, z_tenths |-> x.z_tenths,
                min_samples |-> x.min_samples]
        /\ x.runs \in Seq(Range(x.runs))
        /\ x.min_pct \in Nat /\ x.z_tenths \in Nat
        /\ \A r \in Range(x.runs) :
              /\ r.order \in Nat
              /\ \A m \in DOMAIN r.samples : r.samples[m] \in Seq(Int) \ {<<>>}

SumSeq(s) ==
    LET sum[n \in 0 .. Len(s)] == IF n = 0 THEN 0 ELSE sum[n - 1] + s[n]
    IN  sum[Len(s)]

AbsValue(n) == IF n < 0 THEN -n ELSE n

TwiceMedian(s) ==
    OrderStatistic(s, (Len(s) + 1) \div 2) + OrderStatistic(s, (Len(s) + 2) \div 2)

Deviations(s) == [i \in DOMAIN s |-> AbsValue(2 * s[i] - TwiceMedian(s))]

FourTimesMad(s) == TwiceMedian(Deviations(s))

\* The type-7 percentile at a quarter q of the way, in quarters.
Quartile4(s, q) ==
    LET rank4 == q * (Len(s) - 1)
        lo == rank4 \div 4 + 1
        r == rank4 % 4
    IN  IF r = 0 THEN 4 * OrderStatistic(s, lo)
        ELSE OrderStatistic(s, lo) * (4 - r) + OrderStatistic(s, lo + 1) * r

\* Outside the fences of Tukey, or far in median deviations.
IsOutlier(s, v) ==
    LET q1 == Quartile4(s, 1)
        q3 == Quartile4(s, 3)
    IN  \/ 8 * v < 2 * q1 - 3 * (q3 - q1)
        \/ 8 * v > 2 * q3 + 3 * (q3 - q1)
        \/ /\ FourTimesMad(s) > 0
           /\ AbsValue(2 * v - TwiceMedian(s)) * 2 * 6745 > 35000 * FourTimesMad(s)

\* Fewer than four samples are all kept, and so are samples all of which are outliers.
Kept(s) ==
    LET kept == {i \in DOMAIN s : ~IsOutlier(s, s[i])}
    IN  IF Len(s) < 4 \/ kept = {} THEN s ELSE Picked(s, kept)

\* n (n - 1) times the variance.
Spread(s) == Len(s) * SumSeq([i \in DOMAIN s |-> s[i] * s[i]]) - SumSeq(s) * SumSeq(s)

\* By how much the mean of the candidate is above the baseline's, times both numbers of samples.
Delta(base, cand) == SumSeq(cand) * Len(base) - SumSeq(base) * Len(cand)

\* The mean changed by the given share of the baseline's mean; of a mean of 0 every
\* change is none.
ChangedByPct(base, cand, pct) ==
    IF SumSeq(base) = 0 THEN pct = 0
    ELSE AbsValue(Delta(base, cand)) * 100 >= pct * Len(cand) * AbsValue(SumSeq(base))

\* By how much the mean of the candidate is above the median of the baseline, times twice the
\* number of its samples.
Distance(base, cand) == 2 * SumSeq(cand) - Len(cand) * TwiceMedian(base)

\* The mean is as many deviations of the baseline away from its median: median deviations
\* if there are any, else standard ones; without spread the distance is 0.
ChangedBySigmas(base, cand, tenths) ==
    LET d == Distance(base, cand)
        n == Len(base)
    IN  IF FourTimesMad(base) > 0
          THEN AbsValue(d) * 200000 >= tenths * 14826 * Len(cand) * FourTimesMad(base)
        ELSE IF Spread(base) > 0
          THEN d * d * 25 * n * (n - 1) >= tenths * tenths * Spread(base) * Len(cand) * Len(cand)
        ELSE tenths = 0

\* Mutation: the direction of every metric is that of a time.
ClassifyLower(metric, base, cand, c) ==
    IF ~(ChangedByPct(base, cand, c.min_pct) /\ ChangedBySigmas(base, cand, c.z_tenths)) THEN "STABLE"
    ELSE IF Delta(base, cand) > 0 THEN "REGRESSION" ELSE "IMPROVEMENT"

\* The change is to the worse: its share of the baseline's mean has the sign of the bad
\* direction, and so the other one where that mean is negative.
GotWorse(metric, base, cand) ==
    LET share == Delta(base, cand) * SumSeq(base)
    IN  IF metric \in HigherIsBetter THEN share < 0 ELSE share > 0

\* The verdict on the kept samples of a metric.  Where no least share is asked for, a
\* mean that did not change, or was 0, counts as better once it is far enough away.
ClassifyMetric(metric, base, cand, c) ==
    LET pct == ChangedByPct(base, cand, c.min_pct)
    IN  IF ~(pct /\ ChangedBySigmas(base, cand, c.z_tenths))
          THEN IF pct /\ Min({Len(base), Len(cand)}) < c.min_samples THEN "INCONCLUSIVE"
               ELSE "STABLE"
        ELSE IF GotWorse(metric, base, cand) THEN "REGRESSION"
        ELSE "IMPROVEMENT"

\* Of some of the runs, the first of the oldest and the last of the newest.
Oldest(runs, group) == {i \in group : \A j \in group : runs[i].order <= runs[j].order}

Newest(runs, group) == {i \in group : \A j \in group : runs[j].order <= runs[i].order}

BaselineAndCandidate(runs, group) ==
    [base |-> runs[Min(Oldest(runs, group))], cand |-> runs[Max(Newest(runs, group))]]

RunsOfGroup(x, g) == {i \in DOMAIN x.runs : x.runs[i].group = g}

\* The metrics of both runs of a group; a single run is of one commit.
ComparisonsOf(x, g) ==
    LET pair == BaselineAndCandidate(x.runs, RunsOfGroup(x, g))
    IN  {[group |-> g, metric |-> m, base |-> pair.base.samples[m], cand |-> pair.cand.samples[m]] :
            m \in {m \in DOMAIN pair.base.samples \cap DOMAIN pair.cand.samples :
                      pair.base.commit # pair.cand.commit}}

Comparisons(x) == UNION {ComparisonsOf(x, r.group) : r \in Range(x.runs)}

ComparePair(x, c) ==
    [group |-> c.group, metric |-> c.metric,
     verdict |-> ClassifyMetric(c.metric, Kept(c.base), Kept(c.cand), x)]

AnalyzePerformance(x) ==
    LET findings == {ComparePair(x, c) : c \in Comparisons(x)}
        regressions == {f \in findings : f.verdict = "REGRESSION"}
    IN  [findings |-> findings, comparisons |-> Cardinality(findings),
         exit |-> IF regressions # {} THEN 1 ELSE 0]

PerformanceInit == \E x \in Datasets : Called("perf-regression", x)

Analyze == Computing("perf-regression") /\ Reports(AnalyzePerformance(input))

PerformanceSpec == PerformanceInit /\ [][Analyze]_passVars

------------------------------------------------------------------------------
(* Properties *)

VerdictOf(x, c) == ComparePair(x, c).verdict

Worse(metric, s, k) ==
    [i \in DOMAIN s |-> IF metric \in HigherIsBetter THEN s[i] - k ELSE s[i] + k]

\* The candidate's mean lies on one side of the baseline: above, or below, both its mean and
\* its median.
OneSided(base, cand) ==
    \/ Delta(base, cand) >= 0 /\ Distance(base, cand) >= 0
    \/ Delta(base, cand) <= 0 /\ Distance(base, cand) <= 0

\* The verdict follows the metric's bad direction: what is a regression stays one when
\* every sample of the candidate gets worse, and two commits are not both a regression of
\* the other.  The change is measured from the mean of the baseline and its size from the
\* median, so the candidate is on one side of both, and the baseline's mean is positive.
DirectionKept ==
    \A c \in Comparisons(input) :
        LET worse == [c EXCEPT !.cand = Worse(c.metric, @, 1)]
            back == [c EXCEPT !.base = c.cand, !.cand = c.base]
            base == Kept(c.base)
            cand == Kept(c.cand)
        IN  VerdictOf(input, c) = "REGRESSION" /\ SumSeq(base) > 0 =>
                /\ OneSided(base, cand) => VerdictOf(input, worse) = "REGRESSION"
                /\ SumSeq(cand) >= 0 => VerdictOf(input, back) # "REGRESSION"

\* One wild sample of the candidate does not matter: a lone outlier among its samples
\* may be as far away as it likes.
WildSampleIgnored ==
    \A c \in Comparisons(input) :
        LET wild == {i \in DOMAIN c.cand : IsOutlier(c.cand, c.cand[i])}
        IN  Cardinality(wild) = 1 /\ Len(c.cand) > 4 =>
              \A i \in wild : c.cand[i] = Max(Range(c.cand)) =>
                VerdictOf(input, [c EXCEPT !.cand[i] = @ + 9]) = VerdictOf(input, c)

\* Runs are compared within their configuration, workload and environment: what other
\* groups hold changes no finding, nor do the commits in between; and the process fails
\* exactly when there is a regression.
PerformanceSound ==
    Reported("perf-regression") =>
        /\ DirectionKept /\ WildSampleIgnored
        /\ \A r \in Range(input.runs) :
              LET group == RunsOfGroup(input, r.group)
                  ends == Oldest(input.runs, group) \cup Newest(input.runs, group)
                  alone == [input EXCEPT !.runs = Picked(@, ends)]
              IN  AnalyzePerformance(alone).findings = {f \in Report.findings : f.group = r.group}
        /\ Report.exit = 1 <=> \E c \in Comparisons(input) : VerdictOf(input, c) = "REGRESSION"

\* "Never a false STABLE": a mean that moved by the share asked for, away from a baseline
\* that never varied, is not called stable.
NeverFalselyStable ==
    Reported("perf-regression") =>
        \A c \in Comparisons(input) :
            LET base == Kept(c.base)
                cand == Kept(c.cand)
            IN  /\ Spread(base) = 0 /\ input.min_pct > 0
                /\ ChangedByPct(base, cand, input.min_pct)
                => VerdictOf(input, c) # "STABLE"

=============================================================================
