---------------------------- MODULE RegressionFindings ----------------------------
(***************************************************************************)
(* formal-regression-intelligence-agent: the findings about a ledger of    *)
(* formal runs: clusters of failures and timeouts, duplicate jobs,         *)
(* regressions of time and memory against a job's own history, benchmarks  *)
(* that depend on the configuration, and jobs whose repeats disagree.      *)
(*                                                                         *)
(* A ledger is a sequence of runs, and a group of runs is the set of their *)
(* lines in it, for two lines may say the same.  Numbers are integers:     *)
(* medians are doubled, deviations from them quadrupled, and a score       *)
(* counts tenths.  The names of runs are numbered in the order of their    *)
(* text; start is 0 for a run without a start time, whose text sorts last. *)
(***************************************************************************)
EXTENDS OnePass, Integers, FiniteSetsExt, SequencesExt

CONSTANT Ledgers        \* the ledgers to analyze

RunStatuses == {"PASS", "FAIL", "TIMEOUT", "ERROR", "INCONCLUSIVE"}

RunRecord == [run_id : Int, benchmark : STRING, config : STRING, design : STRING,
              property : STRING, catalog : STRING, seed : Int, start : Nat, wall : Nat,
              memory : Nat, return_code : Int, status : RunStatuses]

\* models.py RunRecord: what its fields hold.
ASSUME LedgersAssumption == Ledgers \subseteq Seq(RunRecord)

MinBaselineRuns == 3
MinClusterSize  == 2

RunConclusive(r) == r.status \in {"PASS", "FAIL"}

\* A producer's PASS with a return code is refused, and an empty ledger.
LedgerValid(ledger) ==
    /\ ledger # <<>>
    /\ \A r \in Range(ledger) : r.status = "PASS" => r.return_code = 0

JobKey(r) == <<r.benchmark, r.config>>

SignatureFields(r) == <<r.design, r.property, r.config, r.catalog>>

Finding(ledger, kind, about, severity, members, score) ==
    [kind |-> kind, about |-> about, severity |-> severity,
     members |-> {ledger[i].run_id : i \in members}, score |-> score]

-----------------------------------------------------------------------------
(* Clusters and duplicates *)

ClusterSeverity(members) == IF Cardinality(members) >= 4 THEN "high" ELSE "medium"

Agreeing(runs, keys, k) == {i \in runs : keys[i] = k}

\* The runs of one status that agree on something, two at least.
Clusters(ledger, kind, status, keys, weight) ==
    LET runs == {i \in DOMAIN ledger : ledger[i].status = status}
        cluster(k) == Finding(ledger, kind, k, ClusterSeverity(Agreeing(runs, keys, k)),
                              Agreeing(runs, keys, k), weight * Cardinality(Agreeing(runs, keys, k)))
    IN  {cluster(k) : k \in {k \in {keys[i] : i \in runs} :
                                Cardinality(Agreeing(runs, keys, k)) >= MinClusterSize}}

FailureClusters(ledger) ==
    Clusters(ledger, "failure_cluster", "FAIL",
             [i \in DOMAIN ledger |-> <<ledger[i].property, ledger[i].return_code>>], 20)

TimeoutClusters(ledger) ==
    Clusters(ledger, "timeout_cluster", "TIMEOUT",
             [i \in DOMAIN ledger |-> <<ledger[i].config>>], 25)

SameInputs(ledger, f) == {i \in DOMAIN ledger : SignatureFields(ledger[i]) = f}

ExactDuplicates(ledger, members) ==
    {i \in members : \E j \in members \ {i} : ledger[j].seed = ledger[i].seed}

DuplicateJobs(ledger) ==
    LET duplicate(f) ==
            LET members == SameInputs(ledger, f)
                exact == ExactDuplicates(ledger, members)
                near == Cardinality(members) - Cardinality({ledger[i].seed : i \in members})
            IN  Finding(ledger, "duplicate_jobs", f, IF exact # {} THEN "medium" ELSE "low",
                        members, 10 + 15 * Cardinality(exact) + 5 * near)
    IN  {duplicate(f) : f \in {f \in {SignatureFields(ledger[i]) : i \in DOMAIN ledger} :
                                  Cardinality(SameInputs(ledger, f)) >= 2}}

-----------------------------------------------------------------------------
(* The history of a job *)

Job(ledger, key) == {i \in DOMAIN ledger : JobKey(ledger[i]) = key}

Earlier(a, b) ==
    \/ a.start # 0 /\ (b.start = 0 \/ a.start < b.start)
    \/ a.start = b.start /\ a.run_id < b.run_id

\* Mutation: the runs of a job stay in the order of the ledger.
PrecedesInFile(ledger, i, j) == i < j

\* The sort is stable: lines that compare equal stay as they are.
Precedes(ledger, i, j) ==
    \/ Earlier(ledger[i], ledger[j])
    \/ ~Earlier(ledger[j], ledger[i]) /\ i < j

IsLatest(ledger, i) ==
    \A j \in Job(ledger, JobKey(ledger[i])) \ {i} : Precedes(ledger, j, i)

\* One run follows another in the history of their job, with none between.
NextInHistory(ledger, i, j) ==
    /\ Precedes(ledger, i, j)
    /\ ~ \E k \in Job(ledger, JobKey(ledger[j])) : Precedes(ledger, i, k) /\ Precedes(ledger, k, j)

-----------------------------------------------------------------------------
(* Statistics of a finite function *)

\* Twice the median.
Median2(f) ==
    LET n == Cardinality(DOMAIN f)
        mid == n \div 2
    IN  IF n % 2 = 1 THEN 2 * OrderStatistic(f, mid + 1)
        ELSE OrderStatistic(f, mid) + OrderStatistic(f, mid + 1)

\* Four times the median distance from the median.
Mad4(f) ==
    Median2([i \in DOMAIN f |-> LET d == 2 * f[i] - Median2(f) IN IF d < 0 THEN -d ELSE d])

Huge == 1000000

\* Tenths of 0.6745 (v - median) / MAD; a value off a constant history is far off.
RobustZ(v, f) ==
    LET d == 2 * v - Median2(f)
    IN  IF Mad4(f) = 0 THEN IF d > 0 THEN Huge ELSE IF d < 0 THEN -Huge ELSE 0
        ELSE (1349 * d) \div (100 * Mad4(f))

Ratio(v, f) == IF Median2(f) = 0 THEN Huge ELSE (20 * v) \div Median2(f)

-----------------------------------------------------------------------------
(* Regressions *)

ResourceMetrics == {"wall_time_s", "peak_memory_mb"}

Metric(r, metric) == IF metric = "wall_time_s" THEN r.wall ELSE r.memory

\* Times count only of runs that came to a conclusion, memory of all.
Counts(r, metric) == metric = "wall_time_s" => RunConclusive(r)

BasePool(ledger, i, metric) ==
    {j \in Job(ledger, JobKey(ledger[i])) \ {i} : Counts(ledger[j], metric)}

Baseline(ledger, i, metric) ==
    [j \in BasePool(ledger, i, metric) |-> Metric(ledger[j], metric)]

\* The last run of a job, well above those before it.
Regressed(ledger, i, metric) ==
    LET f == Baseline(ledger, i, metric)
        v == Metric(ledger[i], metric)
    IN  /\ IsLatest(ledger, i)
        /\ Cardinality(Job(ledger, JobKey(ledger[i]))) >= MinBaselineRuns + 1
        /\ Counts(ledger[i], metric)
        /\ Cardinality(DOMAIN f) >= MinBaselineRuns
        /\ IF Mad4(f) = 0 THEN 2 * v > Median2(f)
           ELSE 1349 * (2 * v - Median2(f)) >= 3500 * Mad4(f)
        /\ 4 * v >= 3 * Median2(f)

Alert(ledger, i, metric) ==
    LET f == Baseline(ledger, i, metric)
        v == Metric(ledger[i], metric)
    IN  Finding(ledger, metric, JobKey(ledger[i]),
                IF 2 * v >= 3 * Median2(f) THEN "high" ELSE "medium", {i},
                Min({RobustZ(v, f), 1000}) + Ratio(v, f))

RegressionAlerts(ledger) ==
    UNION {{Alert(ledger, i, metric) : i \in {i \in DOMAIN ledger : Regressed(ledger, i, metric)}} :
              metric \in ResourceMetrics}

-----------------------------------------------------------------------------
(* Configurations and repeats *)

RunsOf(ledger, b) == {i \in DOMAIN ledger : ledger[i].benchmark = b}

ConfigsOf(ledger, b) == {ledger[i].config : i \in RunsOf(ledger, b)}

Solves(ledger, b, c) == \E i \in Job(ledger, <<b, c>>) : ledger[i].status = "PASS"

ConclusiveRuns(ledger, b, c) == {i \in Job(ledger, <<b, c>>) : RunConclusive(ledger[i])}

MedianTimes(ledger, b) ==
    {Median2([i \in ConclusiveRuns(ledger, b, c) |-> ledger[i].wall]) :
        c \in {c \in ConfigsOf(ledger, b) : ConclusiveRuns(ledger, b, c) # {}}}

\* Tenths; 0 where there is none.
TimeSpread(medians) ==
    IF medians = {} \/ Min(medians) = 0 THEN 0 ELSE (10 * Max(medians)) \div Min(medians)

\* Some configurations solve it, others do not.
OutcomeSensitive(ledger, b) ==
    /\ \E c \in ConfigsOf(ledger, b) : Solves(ledger, b, c)
    /\ \E c \in ConfigsOf(ledger, b) : ~Solves(ledger, b, c)

\* A benchmark that some configurations solve and others do not, or whose median
\* times differ by a factor of three.
ConfigSensitivity(ledger) ==
    LET spread(b) == TimeSpread(MedianTimes(ledger, b))
        sensitivity(b) ==
            Finding(ledger, "config_sensitivity", b,
                    IF OutcomeSensitive(ledger, b) THEN "high" ELSE "medium", RunsOf(ledger, b),
                    (IF OutcomeSensitive(ledger, b) THEN 50 ELSE 0)
                    + (IF spread(b) = 0 THEN 10 ELSE spread(b)))
    IN  {sensitivity(b) : b \in {b \in {ledger[i].benchmark : i \in DOMAIN ledger} :
                                    /\ Cardinality(ConfigsOf(ledger, b)) >= 2
                                    /\ OutcomeSensitive(ledger, b) \/ spread(b) >= 30}}

Flips(ledger, key) ==
    {j \in Job(ledger, key) :
        \E i \in Job(ledger, key) : NextInHistory(ledger, i, j) /\ ledger[i].status # ledger[j].status}

ReproducibilityWarnings(ledger) ==
    LET statuses(key) == {ledger[i].status : i \in Job(ledger, key)}
        rate(key, n) == (n * Cardinality(Flips(ledger, key))) \div (Cardinality(Job(ledger, key)) - 1)
        conflict(key) == {"PASS", "FAIL"} \subseteq statuses(key)
        warning(key) ==
            Finding(ledger, "reproducibility_warning", key,
                    IF conflict(key) THEN "high" ELSE "medium", Job(ledger, key),
                    IF conflict(key) THEN 100 + rate(key, 50) ELSE 50 + rate(key, 30))
    IN  {warning(key) : key \in {key \in {JobKey(ledger[i]) : i \in DOMAIN ledger} :
                                    Cardinality(statuses(key)) >= 2}}

-----------------------------------------------------------------------------
(* The analysis *)

Findings(ledger) ==
    UNION {FailureClusters(ledger), TimeoutClusters(ledger), DuplicateJobs(ledger),
           RegressionAlerts(ledger), ConfigSensitivity(ledger), ReproducibilityWarnings(ledger)}

SeverityRank(s) == CHOOSE i \in 1..3 : <<"low", "medium", "high">>[i] = s

\* The place of a finding in the queue, among those that differ in more than a name.
QueueRank(findings, f) ==
    1 + Cardinality({g \in findings :
            \/ SeverityRank(g.severity) > SeverityRank(f.severity)
            \/ g.severity = f.severity /\ g.score > f.score})

RegressionInit == \E l \in Ledgers : Called("analyze-ledger", l)

AnalyzeLedger ==
    /\ Computing("analyze-ledger")
    /\ LET findings == IF LedgerValid(input) THEN Findings(input) ELSE {}
       IN  Reports([valid |-> LedgerValid(input), findings |-> findings,
                    queue |-> [f \in findings |-> QueueRank(findings, f)]])

RegressionSpec == RegressionInit /\ [][AnalyzeLedger]_passVars

------------------------------------------------------------------------------
(* Properties *)

Swapped(s, i) == [s EXCEPT ![i] = s[i + 1], ![i + 1] = s[i]]

\* The time of a run that came to no conclusion, a timeout's above all, is its budget
\* and no measurement.
OtherTimes(ledger, t) ==
    [i \in DOMAIN ledger |-> IF RunConclusive(ledger[i]) THEN ledger[i]
                             ELSE [ledger[i] EXCEPT !.wall = t]]

\* No two runs of a job share both name and start: between such two, the order of the
\* history is that of their lines.
HistoriesTold(ledger) ==
    \A i, j \in DOMAIN ledger :
        /\ JobKey(ledger[i]) = JobKey(ledger[j])
        /\ ledger[i].start = ledger[j].start /\ ledger[i].run_id = ledger[j].run_id
        => i = j

\* The findings are about the bag of runs: a ledger whose lines are in another order,
\* or whose timeouts waited longer or shorter, gives the same findings, of the same
\* severity and in the same places of the queue.
FindingsStable ==
    Reported("analyze-ledger") /\ Report.valid /\ HistoriesTold(input) =>
        \A other \in {Swapped(input, i) : i \in 1..(Len(input) - 1)}
                       \cup {OtherTimes(input, t) : t \in {0, 50}} :
            Findings(other) = Report.findings

=============================================================================
