---------------------------- MODULE RunLedgerProofs ----------------------------
(***************************************************************************)
(* Proofs about the orchestrator's ledger, for any suite files, policies,  *)
(* catalogs, simulations and backend files, and any number of invocations  *)
(* that overlap and die: what a row says of its run is true, what was      *)
(* planned is what runs, what was reported as saved is there, and a rerun  *)
(* never changes the verdicts of a settled plan.                           *)
(***************************************************************************)
EXTENDS RunLedger, TLAPS

-----------------------------------------------------------------------------
(***************************************************************************)
(* The inductive invariant                                                 *)
(***************************************************************************)

\* The items are those of a suite file with that id.
SuiteRow(id, items) == \E s \in Suites : s.id = id /\ s.items = items

\* What a policy plans for those items.
PlanText(id, items) ==
    [i \in DOMAIN items |->
        [benchmark |-> items[i].benchmark,
         config |-> Choose(id[2], items[i].benchmark, items[i].design, id[3])]]

\* Of a settled plan, the one item, configuration and simulated status that a
\* run id can stand for.
ItemOf(r) ==
    CHOOSE item \in Items :
        item.benchmark = r[2] /\ \E s \in Suites : s.id = r[1][1] /\ item \in Range(s.items)
ConfigOf(r) == Choose(r[1][2], r[2], ItemOf(r).design, r[1][3])
StatusOf(r) == Classify(Simulated(ItemOf(r), ConfigOf(r)))

\* A conclusive row of the mock says what its simulation concluded.
TrueRow(row) ==
    row.origin = "mock" /\ Conclusive(row.status) =>
        /\ row.validation = "valid"
        /\ Outcome(row.benchmark, row.design, row.config) = "concluded"
        /\ Holds(row.design) <=> row.status = "PASS"

\* A row of a settled plan when catalog version v is installed, and all of it
\* while that is the plan's.
SettledRow(r, row, v) ==
    /\ r[1][3] <= v
    /\ row.plan = r[1] /\ row.benchmark = r[2]
    /\ row.design = ItemOf(r).design /\ row.config = ConfigOf(r)
    /\ row.validation = "valid" => row.status = StatusOf(r)
    /\ row.artifact => row.validation = "valid"
    /\ v = r[1][3] =>
          IF ConfigOf(r) \in Catalogs[v]
          THEN row.validation = "valid"
          ELSE row.validation = "invalid_config" /\ row.status = "ERROR"

LedgerTypeOK ==
    /\ version \in Versions
    /\ suites \in [SuiteIds -> Seq(Items)]
    /\ plans \in [PlanIds -> Seq(PlannedRuns)]
    /\ made \in [PlanIds -> Seq(Items)]
    /\ runs \in [RunIds -> Records \cup {NoRun}]
    /\ artifacts \in [RunIds -> Contents \cup {NoFile, Torn}]
    /\ died \subseteq RunIds
    /\ DOMAIN proc = Procs

SuitesInv == \A s \in SuiteIds : suites[s] # NoRow => SuiteRow(s, suites[s])

\* A plan was made from a suite, under a catalog that version v came after or is.
Planned(id, items, planned, v) ==
    /\ id \in PlanIds
    /\ SuiteRow(id[1], items)
    /\ planned = PlanText(id, items)
    /\ id[3] <= v

PlansInv ==
    \A id \in PlanIds : plans[id] # NoRow =>
        Planned(id, made[id], plans[id], version) /\ suites[id[1]] # NoRow

RunsInv ==
    \A r \in RunIds : runs[r] # NoRun =>
        /\ TrueRow(runs[r])
        /\ Settled(r[1]) => /\ SettledRow(r, runs[r], version)
                            /\ runs[r].artifact => artifacts[r] # NoFile

\* The one content of a settled plan's log.
SettledLog(r) == [status |-> StatusOf(r), config |-> ConfigOf(r)]

FilesInv ==
    \A r \in RunIds : Settled(r[1]) /\ artifacts[r] # NoFile =>
        \/ artifacts[r] = SettledLog(r)
        \/ artifacts[r] = Torn /\ (Writing(r) \/ r \in died)

\* A process that plans.
PlanningInv(p) ==
    proc[p].pc \in {"save_suite", "save_plan"} =>
        /\ proc[p] = [pc |-> proc[p].pc, suite |-> proc[p].suite,
                      id |-> proc[p].id, planned |-> proc[p].planned]
        /\ proc[p].suite \in Suites
        /\ proc[p].id[1] = proc[p].suite.id
        /\ Planned(proc[p].id, proc[p].suite.items, proc[p].planned, version)
        /\ proc[p].pc = "save_plan" => suites[proc[p].suite.id] # NoRow

\* A process that has read its plan.
GettingInv(p) ==
    proc[p].pc = "get_suite" =>
        /\ proc[p] = [pc |-> "get_suite", id |-> proc[p].id,
                      keep |-> proc[p].keep, planned |-> proc[p].planned,
                      from |-> proc[p].from]
        /\ proc[p].keep \in BOOLEAN
        /\ Planned(proc[p].id, proc[p].from, proc[p].planned, version)
        /\ suites[proc[p].id[1]] # NoRow

\* The loop over the planned runs: the rows of those before next are saved.
LoopInv(l) ==
    /\ l = [pc |-> "loop", id |-> l.id, keep |-> l.keep, from |-> l.from,
            planned |-> l.planned, items |-> l.items, next |-> l.next]
    /\ l.keep \in BOOLEAN /\ l.next \in Nat \ {0}
    /\ Planned(l.id, l.from, l.planned, version)
    /\ SuiteRow(l.id[1], l.items)
    /\ \A i \in DOMAIN l.planned :
          i < l.next => runs[<<l.id, l.planned[i].benchmark>>] # NoRun

RecordInv(l, rec) ==
    /\ rec \in Records /\ rec.origin = "mock"
    /\ rec.plan = l.id
    /\ l.next \in DOMAIN l.planned /\ rec.benchmark = l.planned[l.next].benchmark
    /\ TrueRow(rec)
    /\ rec.validation = "valid" => rec.config \in Catalogs[version]
    /\ l.from = l.items =>
          rec.config = Choose(rec.plan[2], rec.benchmark, rec.design, rec.plan[3])
    /\ Settled(l.id) =>
          LET r == <<rec.plan, rec.benchmark>> IN
          SettledRow(r, rec, version) /\ (rec.artifact => artifacts[r] # NoFile)

ProcInv(p) ==
    /\ PlanningInv(p)
    /\ GettingInv(p)
    /\ proc[p].pc = "loop" => LoopInv(proc[p])
    /\ proc[p].pc \in {"write_log", "save_run"} =>
          /\ proc[p] = [pc |-> proc[p].pc, loop |-> proc[p].loop,
                        record |-> proc[p].record]
          /\ LoopInv(proc[p].loop)
          /\ RecordInv(proc[p].loop, proc[p].record)
    /\ proc[p].pc = "write_log" => proc[p].record.artifact
    /\ proc[p].pc = "key_error" => proc[p].items # proc[p].from
    /\ proc[p].pc = "ran" =>
          /\ \E s \in Suites :
                Planned(proc[p].id, s.items, proc[p].planned, version)
          /\ \A i \in DOMAIN proc[p].planned :
                runs[<<proc[p].id, proc[p].planned[i].benchmark>>] # NoRun
    /\ proc[p].pc # "no_suite"

LedgerInv ==
    /\ SuitesInv /\ PlansInv /\ RunsInv /\ FilesInv
    /\ \A p \in Procs : ProcInv(p)

-----------------------------------------------------------------------------
(* Lemmas about suites, plans and records. *)

\* A sequence over a set, as a function.
LEMMA SequenceOver ==
    ASSUME NEW S, NEW n \in Nat, NEW f \in [1 .. n -> S]
    PROVE  f \in Seq(S) /\ Len(f) = n
OBVIOUS

\* What a suite row holds.
LEMMA RowFacts ==
    ASSUME NEW id, NEW items, SuiteRow(id, items)
    PROVE  /\ id \in SuiteIds
           /\ items \in Seq(Items) /\ items # NoRow
           /\ \A i \in DOMAIN items : items[i] \in Items
           /\ \A i, j \in DOMAIN items :
                items[i].benchmark = items[j].benchmark => i = j
BY LedgerAssumption DEF SuiteRow, NoRow

\* A plan has one planned run for every item, in order.
LEMMA PlanFacts ==
    ASSUME NEW id \in PlanIds, NEW items, SuiteRow(id[1], items)
    PROVE  /\ DOMAIN PlanText(id, items) = DOMAIN items
           /\ PlanText(id, items) \in Seq(PlannedRuns)
           /\ Len(PlanText(id, items)) = Len(items)
           /\ PlanText(id, items) # NoRow
           /\ \A i \in DOMAIN items :
                /\ PlanText(id, items)[i].benchmark = items[i].benchmark
                /\ PlanText(id, items)[i].config =
                     Choose(id[2], items[i].benchmark, items[i].design, id[3])
                /\ PlanText(id, items)[i].benchmark \in Benchmarks
                /\ PlanText(id, items)[i].config \in Configs
<1> DEFINE planned == PlanText(id, items)
<1>1. /\ items \in Seq(Items) /\ items # <<>>
      /\ \A i \in DOMAIN items : items[i] \in Items
  BY RowFacts DEF NoRow
<1>2. Len(items) \in Nat /\ DOMAIN items = 1 .. Len(items) /\ Len(items) # 0
  BY <1>1
<1>3. id[2] \in Policies /\ id[3] \in Versions
  BY DEF PlanIds
<1>4. \A i \in DOMAIN items :
        planned[i] = [benchmark |-> items[i].benchmark,
                      config |-> Choose(id[2], items[i].benchmark,
                                        items[i].design, id[3])]
  BY DEF PlanText
<1>5. \A i \in DOMAIN items : planned[i] \in PlannedRuns
  <2> SUFFICES ASSUME NEW i \in DOMAIN items
               PROVE  planned[i] \in PlannedRuns
    OBVIOUS
  <2>1. items[i].benchmark \in Benchmarks /\ items[i].design \in Designs
    BY <1>1 DEF Items
  <2>2. Choose(id[2], items[i].benchmark, items[i].design, id[3]) \in Configs
    BY <1>3, <2>1, LedgerAssumption
  <2>3. planned[i] = [benchmark |-> items[i].benchmark,
                      config |-> Choose(id[2], items[i].benchmark,
                                        items[i].design, id[3])]
    BY <1>4
  <2> QED  BY <2>1, <2>2, <2>3 DEF PlannedRuns
<1>6. DOMAIN planned = 1 .. Len(items)
  BY <1>2 DEF PlanText
<1>7. planned \in [1 .. Len(items) -> PlannedRuns]
  BY <1>2, <1>5, <1>6 DEF PlanText
<1>8. planned \in Seq(PlannedRuns) /\ Len(planned) = Len(items)
  <2> DEFINE n == Len(items)
  <2>1. n \in Nat /\ planned \in [1 .. n -> PlannedRuns]
    BY <1>2, <1>7
  <2> HIDE DEF planned, n
  <2>2. planned \in Seq(PlannedRuns) /\ Len(planned) = n
    BY <2>1, SequenceOver
  <2> QED  BY <2>2 DEF n
<1>9. planned # NoRow
  BY <1>2, <1>8 DEF NoRow
<1> QED  BY <1>2, <1>4, <1>5, <1>6, <1>8, <1>9 DEF PlannedRuns

\* The items of a settled suite are what its run ids stand for.
LEMMA SettledItem ==
    ASSUME NEW plan \in PlanIds, Settled(plan), NEW items,
           SuiteRow(plan[1], items), NEW item \in Range(items)
    PROVE  ItemOf(<<plan, item.benchmark>>) = item
<1> DEFINE Fits(x) == /\ x.benchmark = item.benchmark
                      /\ \E s \in Suites : s.id = plan[1] /\ x \in Range(s.items)
<1>1. item \in Items /\ Fits(item)
  BY RowFacts DEF SuiteRow, Range
<1>2. ASSUME NEW x \in Items, Fits(x)
      PROVE  x = item
  <2>1. PICK s \in Suites : s.id = plan[1] /\ x \in Range(s.items)
    BY <1>2
  <2>2. PICK t \in Suites : t.id = plan[1] /\ t.items = items
    BY DEF SuiteRow
  <2> QED  BY <1>2, <2>1, <2>2 DEF Settled, Range
<1>3. ItemOf(<<plan, item.benchmark>>) = CHOOSE x \in Items : Fits(x)
  BY DEF ItemOf
<1> HIDE DEF Fits
<1> QED  BY <1>1, <1>2, <1>3

\* classify answers with a status of the enumeration.
LEMMA StatusType == \A raw : Classify(raw) \in RunStatus
BY DEF Classify, RunStatus

\* The status of a simulation, and what a conclusive one says.
LEMMA SimulatedStatus ==
    ASSUME NEW item \in Items, NEW config
    PROVE  Conclusive(Classify(Simulated(item, config))) =>
              /\ Outcome(item.benchmark, item.design, config) = "concluded"
              /\ Holds(item.design) <=>
                    Classify(Simulated(item, config)) = "PASS"
<1>1. Holds(item.design) \in BOOLEAN
  BY LedgerAssumption DEF Items
<1>2. CASE Outcome(item.benchmark, item.design, config) = "concluded"
  BY <1>1, <1>2
     DEF Conclusive, Classify, Simulated, SimulatedRaw, OutOfTime, Concluded
<1>3. CASE Outcome(item.benchmark, item.design, config) # "concluded"
  BY <1>1, <1>3
     DEF Conclusive, Classify, Simulated, SimulatedRaw, OutOfTime, Concluded
<1> QED  BY <1>2, <1>3

\* What execute answers.
LEMMA ExecuteFacts ==
    ASSUME NEW plan \in PlanIds, NEW item \in Items, NEW config \in Configs,
           NEW keep \in BOOLEAN, NEW rec, rec = Execute(plan, item, config, keep)
    PROVE  /\ rec \in Records /\ rec.origin = "mock"
           /\ rec.plan = plan /\ rec.benchmark = item.benchmark
           /\ rec.design = item.design /\ rec.config = config
           /\ TrueRow(rec)
           /\ rec.validation = "valid" <=> config \in Catalogs[version]
           /\ rec.validation = "valid" =>
                rec.status = Classify(Simulated(item, config))
           /\ rec.validation # "valid" =>
                rec.validation = "invalid_config" /\ rec.status = "ERROR"
           /\ rec.artifact => rec.validation = "valid"
<1> DEFINE known  == config \in Catalogs[version]
           status == Classify(Simulated(item, config))
<1>1. item.benchmark \in Benchmarks /\ item.design \in Designs
  BY DEF Items
<1>2. status \in RunStatus
  BY StatusType
<1>3. rec = [plan |-> plan, benchmark |-> item.benchmark,
             design |-> item.design, config |-> config,
             status |-> IF known THEN status ELSE "ERROR",
             validation |-> IF known THEN "valid" ELSE "invalid_config",
             artifact |-> known /\ keep, origin |-> "mock"]
  BY DEF Execute
<1>4. Conclusive(status) =>
        /\ Outcome(item.benchmark, item.design, config) = "concluded"
        /\ Holds(item.design) <=> status = "PASS"
  BY SimulatedStatus
<1> HIDE DEF status
<1>5. /\ rec.plan = plan /\ rec.benchmark = item.benchmark
      /\ rec.design = item.design /\ rec.config = config
      /\ rec.status = IF known THEN status ELSE "ERROR"
      /\ rec.validation = IF known THEN "valid" ELSE "invalid_config"
      /\ rec.artifact = (known /\ keep) /\ rec.origin = "mock"
  BY <1>3
<1>6. rec \in Records
  BY <1>1, <1>2, <1>3 DEF Records, RunStatus, ValidationStatus
<1>7. TrueRow(rec)
  BY <1>4, <1>5 DEF TrueRow, Conclusive
<1>8. known => rec.status = Classify(Simulated(item, config))
  BY <1>5 DEF status
<1> QED  BY <1>5, <1>6, <1>7, <1>8

\* Records and contents are not what stands for their absence, or a torn log.
LEMMA RowsAreRows ==
    /\ \A rec \in Records : rec # NoRun /\ LogOf(rec) \in Contents
    /\ \A c \in Contents : c # NoFile /\ c # Torn
    /\ Torn # NoFile
<1>1. ASSUME NEW rec \in Records
      PROVE  rec # NoRun /\ LogOf(rec) \in Contents
  <2>1. rec.status \in RunStatus /\ rec.config \in Configs
    BY DEF Records
  <2>2. rec.status # "no row" /\ NoRun.status = "no row"
    BY <2>1 DEF RunStatus, NoRun
  <2> QED  BY <2>1, <2>2 DEF LogOf, Contents
<1>2. ASSUME NEW c \in Contents
      PROVE  c # NoFile /\ c # Torn
  <2>1. c.status \in RunStatus
    BY DEF Contents
  <2>2. /\ c.status # "no file" /\ NoFile.status = "no file"
        /\ c.status # "torn" /\ Torn.status = "torn"
    BY <2>1 DEF RunStatus, NoFile, Torn
  <2> QED  BY <2>2
<1>3. Torn # NoFile
  <2>1. Torn.status = "torn" /\ NoFile.status = "no file"
    BY DEF Torn, NoFile
  <2> QED  BY <2>1
<1> QED  BY <1>1, <1>2, <1>3
-----------------------------------------------------------------------------
(* What no step takes away, and what execute starts from. *)

\* Rows are replaced, never deleted.
RowsStay ==
    /\ \A s \in SuiteIds : suites[s] # NoRow => suites'[s] # NoRow
    /\ \A r \in RunIds : runs[r] # NoRun => runs'[r] # NoRun
    /\ \A r \in RunIds : artifacts[r] # NoFile => artifacts'[r] # NoFile

\* A process that saves a record holds one the table can take.
LEMMA SavedRecord ==
    ASSUME NEW p \in Procs, ProcInv(p), proc[p].pc \in {"write_log", "save_run"}
    PROVE  /\ proc[p].record \in Records
           /\ proc[p].record.plan \in PlanIds
           /\ proc[p].record.benchmark \in Benchmarks
           /\ RunId(proc[p].record.plan, proc[p].record.benchmark) \in RunIds
           /\ LogId(p) \in RunIds
           /\ LogOf(proc[p].record) \in Contents
<1>1. proc[p].record \in Records
  BY DEF ProcInv, RecordInv
<1> QED  BY <1>1, RowsAreRows DEF Records, RunId, RunIds, LogId

\* What the opening of a log leaves.
LEMMA OpenShape ==
    ASSUME NEW p \in Procs, ExecuteItem(p)
    PROVE  \E item \in Found(p, Current(p).benchmark) : \E rec, id :
              /\ rec = Execute(proc[p].id, item, Current(p).config, proc[p].keep)
              /\ id = RunId(proc[p].id, Current(p).benchmark)
              /\ artifacts' = [artifacts EXCEPT ![id] =
                                 IF rec.artifact THEN Torn ELSE @]
              /\ proc' = [proc EXCEPT ![p] =
                            [pc |-> IF rec.artifact THEN "write_log"
                                    ELSE "save_run",
                             loop |-> proc[p], record |-> rec]]
BY DEF ExecuteItem

\* What the write of a log leaves.
LEMMA FillShape ==
    ASSUME NEW p \in Procs, FillLog(p)
    PROVE  \E content \in {LogOf(proc[p].record), Torn} :
              /\ artifacts' = [artifacts EXCEPT ![LogId(p)] = content]
              /\ artifacts[LogId(p)] \in {Torn, LogOf(proc[p].record)}
                    => content = LogOf(proc[p].record)
BY DEF FillLog, Written

\* What execute starts from: an item of the suite that was read, the planned
\* configuration, and the record it answers with.
LEMMA ExecuteShape ==
    ASSUME NEW p \in Procs, ProcInv(p), proc[p].pc = "loop",
           proc[p].next <= Len(proc[p].planned),
           NEW item \in Found(p, Current(p).benchmark),
           NEW rec,
           rec = Execute(proc[p].id, item, Current(p).config, proc[p].keep)
    PROVE  /\ item \in Items /\ item \in Range(proc[p].items)
           /\ item.benchmark = Current(p).benchmark
           /\ proc[p].id \in PlanIds /\ Current(p).config \in Configs
           /\ item.benchmark \in Benchmarks
           /\ proc[p].next \in DOMAIN proc[p].planned
           /\ proc[p].next \in DOMAIN proc[p].from
           /\ Current(p).benchmark = proc[p].from[proc[p].next].benchmark
           /\ Current(p).config =
                Choose(proc[p].id[2], item.benchmark,
                       proc[p].from[proc[p].next].design, proc[p].id[3])
           /\ rec \in Records /\ rec.origin = "mock"
           /\ rec.plan = proc[p].id /\ rec.benchmark = item.benchmark
           /\ rec.design = item.design /\ rec.config = Current(p).config
           /\ TrueRow(rec)
           /\ rec.validation = "valid" <=> rec.config \in Catalogs[version]
           /\ rec.validation = "valid" =>
                rec.status = Classify(Simulated(item, rec.config))
           /\ rec.validation # "valid" =>
                rec.validation = "invalid_config" /\ rec.status = "ERROR"
           /\ rec.artifact => rec.validation = "valid"
<1> DEFINE l == proc[p]
<1>1. /\ l.keep \in BOOLEAN /\ l.next \in Nat \ {0}
      /\ l.id \in PlanIds /\ SuiteRow(l.id[1], l.from)
      /\ l.planned = PlanText(l.id, l.from)
      /\ SuiteRow(l.id[1], l.items)
  BY DEF ProcInv, LoopInv, Planned
<1>2. item \in Range(l.items) /\ item.benchmark = Current(p).benchmark
  BY DEF Found
<1>3. item \in Items
  BY <1>1, <1>2, RowFacts DEF Range
<1>4. /\ l.planned \in Seq(PlannedRuns) /\ DOMAIN l.planned = DOMAIN l.from
      /\ \A i \in DOMAIN l.from :
           /\ l.planned[i].benchmark = l.from[i].benchmark
           /\ l.planned[i].config =
                Choose(l.id[2], l.from[i].benchmark, l.from[i].design, l.id[3])
           /\ l.planned[i].config \in Configs
           /\ l.planned[i].benchmark \in Benchmarks
  BY <1>1, PlanFacts
<1>5. l.next \in DOMAIN l.planned
  BY <1>1, <1>4
<1>6. /\ Current(p) = l.planned[l.next] /\ l.next \in DOMAIN l.from
      /\ Current(p).benchmark = l.from[l.next].benchmark
      /\ Current(p).config =
           Choose(l.id[2], item.benchmark, l.from[l.next].design, l.id[3])
      /\ Current(p).config \in Configs /\ item.benchmark \in Benchmarks
  BY <1>2, <1>4, <1>5 DEF Current
<1> HIDE DEF l
<1>7. /\ rec \in Records /\ rec.origin = "mock"
      /\ rec.plan = l.id /\ rec.benchmark = item.benchmark
      /\ rec.design = item.design /\ rec.config = Current(p).config
      /\ TrueRow(rec)
      /\ rec.validation = "valid" <=> Current(p).config \in Catalogs[version]
      /\ rec.validation = "valid" =>
           rec.status = Classify(Simulated(item, Current(p).config))
      /\ rec.validation # "valid" =>
           rec.validation = "invalid_config" /\ rec.status = "ERROR"
      /\ rec.artifact => rec.validation = "valid"
  <2> DEFINE id == l.id
             config == Current(p).config
             keep == l.keep
  <2>1. id \in PlanIds /\ config \in Configs /\ keep \in BOOLEAN
    BY <1>1, <1>6
  <2>2. rec = Execute(id, item, config, keep)
    BY DEF l
  <2> HIDE DEF id, config, keep
  <2>3. /\ rec \in Records /\ rec.origin = "mock"
        /\ rec.plan = id /\ rec.benchmark = item.benchmark
        /\ rec.design = item.design /\ rec.config = config
        /\ TrueRow(rec)
        /\ rec.validation = "valid" <=> config \in Catalogs[version]
        /\ rec.validation = "valid" => rec.status = Classify(Simulated(item, config))
        /\ rec.validation # "valid" =>
             rec.validation = "invalid_config" /\ rec.status = "ERROR"
        /\ rec.artifact => rec.validation = "valid"
    BY <1>3, <2>1, <2>2, ExecuteFacts
  <2> QED  BY <2>3 DEF id, config
<1> QED  BY <1>1, <1>2, <1>3, <1>5, <1>6, <1>7 DEF l

-----------------------------------------------------------------------------
(* The types, and what stays. *)

\* Everything starts empty and idle.
LEMMA LedgerInit == Init => LedgerTypeOK /\ LedgerInv
<1> SUFFICES ASSUME Init PROVE LedgerTypeOK /\ LedgerInv
  OBVIOUS
<1>1. LedgerTypeOK
  BY LedgerAssumption DEF Init, LedgerTypeOK, NoRow
<1>2. SuitesInv /\ PlansInv /\ RunsInv /\ FilesInv
  BY DEF Init, SuitesInv, PlansInv, RunsInv, FilesInv
<1>3. ASSUME NEW p \in Procs PROVE ProcInv(p)
  BY DEF Init, ProcInv, PlanningInv, GettingInv, Idle
<1> QED  BY <1>1, <1>2, <1>3 DEF LedgerInv

\* Every step keeps the types, and no row or file disappears.
LEMMA LedgerTypeStep ==
    LedgerTypeOK /\ LedgerInv /\ [Next]_vars => LedgerTypeOK' /\ RowsStay
<1> SUFFICES ASSUME LedgerTypeOK, LedgerInv, [Next]_vars
             PROVE  LedgerTypeOK' /\ RowsStay
  OBVIOUS
<1> USE DEF LedgerTypeOK, RowsStay
<1>1. CASE UNCHANGED vars
  BY <1>1 DEF vars
<1>2. ASSUME NEW p \in Procs, NEW s \in Suites, NEW policy \in Policies,
             StartPlan(p, s, policy)
      PROVE  LedgerTypeOK' /\ RowsStay
  BY <1>2 DEF StartPlan, Goes
<1>3. ASSUME NEW p \in Procs, SaveSuite(p)
      PROVE  LedgerTypeOK' /\ RowsStay
  <2>1. proc[p].suite \in Suites
    BY <1>3 DEF SaveSuite, Goes, LedgerInv, ProcInv, PlanningInv
  <2>2. proc[p].suite.items \in Seq(Items) /\ proc[p].suite.items # NoRow
    BY <2>1, LedgerAssumption DEF NoRow
  <2> QED  BY <1>3, <2>2 DEF SaveSuite, Goes
<1>4. ASSUME NEW p \in Procs, SavePlan(p)
      PROVE  LedgerTypeOK' /\ RowsStay
  <2>1. Planned(proc[p].id, proc[p].suite.items, proc[p].planned, version)
    BY <1>4 DEF SavePlan, Goes, LedgerInv, ProcInv, PlanningInv
  <2>2. /\ proc[p].suite.items \in Seq(Items)
        /\ proc[p].planned \in Seq(PlannedRuns)
    BY <2>1, RowFacts, PlanFacts DEF Planned
  <2> QED  BY <1>4, <2>2 DEF SavePlan, Goes
<1>5. ASSUME NEW p \in Procs, NEW plan \in PlanIds, NEW keep \in KeepArtifacts,
             StartRun(p, plan, keep)
      PROVE  LedgerTypeOK' /\ RowsStay
  BY <1>5 DEF StartRun, Goes
<1>6. ASSUME NEW p \in Procs,
             GetSuite(p) \/ MissingItem(p) \/ FinishRun(p)
               \/ Return(p) \/ Crash(p)
      PROVE  LedgerTypeOK' /\ RowsStay
  <2>1. CASE Crash(p)
    <3>1. proc[p].pc = "write_log" => LogId(p) \in RunIds
      BY SavedRecord DEF LedgerInv
    <3> QED  BY <2>1, <3>1 DEF Crash
  <2> QED  BY <1>6, <2>1 DEF GetSuite, MissingItem, FinishRun, Return
<1>7. ASSUME NEW p \in Procs, ExecuteItem(p) \/ FillLog(p)
      PROVE  LedgerTypeOK' /\ RowsStay
  <2>1. CASE ExecuteItem(p)
    <3>1. PICK rec, id :
            /\ artifacts' = [artifacts EXCEPT ![id] =
                               IF rec.artifact THEN Torn ELSE @]
            /\ proc' = [proc EXCEPT ![p] =
                          [pc |-> IF rec.artifact THEN "write_log" ELSE "save_run",
                           loop |-> proc[p], record |-> rec]]
      BY <2>1, OpenShape
    <3> QED  BY <2>1, <3>1, RowsAreRows DEF ExecuteItem
  <2>2. CASE FillLog(p)
    <3>1. LogOf(proc[p].record) \in Contents
      BY <2>2, SavedRecord DEF FillLog, LedgerInv
    <3>2. PICK content \in Contents \cup {Torn} :
            artifacts' = [artifacts EXCEPT ![LogId(p)] = content]
      BY <2>2, <3>1, FillShape
    <3>3. died' \subseteq RunIds
      BY <2>2 DEF FillLog
    <3> QED  BY <2>2, <3>2, <3>3, RowsAreRows DEF FillLog
  <2> QED  BY <1>7, <2>1, <2>2
<1>8. ASSUME NEW p \in Procs, SaveRun(p)
      PROVE  LedgerTypeOK' /\ RowsStay
  <2>1. proc[p].record \in Records
    BY <1>8, SavedRecord DEF SaveRun, LedgerInv
  <2> QED  BY <1>8, <2>1, RowsAreRows DEF SaveRun
<1>9. ASSUME NEW p \in Procs, NEW file \in Externals, IngestResult(p, file)
      PROVE  LedgerTypeOK' /\ RowsStay
  BY <1>9, ExternalsAssumption, RowsAreRows DEF IngestResult
<1>10. ASSUME UpgradeCatalog
       PROVE  LedgerTypeOK' /\ RowsStay
  BY <1>10 DEF UpgradeCatalog
<1> QED
  BY <1>1, <1>2, <1>3, <1>4, <1>5, <1>6, <1>7, <1>8, <1>9, <1>10
     DEF Next, PlanStep, RunStep
\* Of a settled plan, what runs is what its run id stands for.
LEMMA SettledExecution ==
    ASSUME NEW p \in Procs, ProcInv(p), proc[p].pc = "loop",
           proc[p].next <= Len(proc[p].planned),
           NEW item \in Found(p, Current(p).benchmark),
           NEW r, r = <<proc[p].id, Current(p).benchmark>>,
           Settled(proc[p].id)
    PROVE  /\ item = ItemOf(r) /\ Current(p).config = ConfigOf(r)
           /\ Classify(Simulated(item, Current(p).config)) = StatusOf(r)
<1> DEFINE l == proc[p]
           planned == l.from[l.next]
<1>1. /\ l.id \in PlanIds /\ item \in Range(l.items)
      /\ item.benchmark = Current(p).benchmark
      /\ l.next \in DOMAIN l.from
      /\ Current(p).benchmark = planned.benchmark
      /\ Current(p).config =
           Choose(l.id[2], item.benchmark, planned.design, l.id[3])
  BY ExecuteShape
<1>2. SuiteRow(l.id[1], l.from) /\ SuiteRow(l.id[1], l.items)
  BY DEF ProcInv, LoopInv, Planned
<1>3. planned \in Range(l.from)
  BY <1>1 DEF Range
<1>4. ItemOf(<<l.id, item.benchmark>>) = item
  BY <1>1, <1>2, SettledItem
<1>5. ItemOf(<<l.id, planned.benchmark>>) = planned
  BY <1>1, <1>2, <1>3, SettledItem
<1>6. item = ItemOf(r) /\ item = planned
  BY <1>1, <1>4, <1>5
<1>7. Current(p).config = ConfigOf(r)
  BY <1>1, <1>6 DEF ConfigOf
<1> QED  BY <1>6, <1>7 DEF StatusOf

-----------------------------------------------------------------------------
(* Suites and plans. *)

\* A suite row is always some suite file's.
LEMMA SuitesStep ==
    LedgerTypeOK /\ LedgerInv /\ [Next]_vars => SuitesInv'
<1> SUFFICES ASSUME LedgerTypeOK, LedgerInv, [Next]_vars,
                    NEW s \in SuiteIds, suites'[s] # NoRow
             PROVE  SuiteRow(s, suites'[s])
  BY DEF SuitesInv
<1>1. suites[s] # NoRow => SuiteRow(s, suites[s])
  BY DEF LedgerInv, SuitesInv
<1>2. ASSUME NEW p \in Procs, SaveSuite(p)
      PROVE  SuiteRow(s, suites'[s])
  <2>1. proc[p].suite \in Suites
    BY <1>2 DEF SaveSuite, Goes, LedgerInv, ProcInv, PlanningInv
  <2>2. suites'[s] = suites[s] \/
          (s = proc[p].suite.id /\ suites'[s] = proc[p].suite.items)
    BY <1>2 DEF SaveSuite, LedgerTypeOK
  <2> QED  BY <1>1, <2>1, <2>2 DEF SuiteRow
<1>3. CASE suites' = suites
  BY <1>1, <1>3
<1>4. suites' = suites \/ \E p \in Procs : SaveSuite(p)
  BY DEF Next, PlanStep, RunStep, vars, StartPlan, SavePlan, StartRun,
     GetSuite, MissingItem, ExecuteItem, FillLog, SaveRun, FinishRun, Return, Crash,
     IngestResult, UpgradeCatalog
<1> QED  BY <1>2, <1>3, <1>4

\* A catalog is upgraded, never downgraded, and only while no command runs.
LEMMA VersionStep ==
    ASSUME LedgerTypeOK, [Next]_vars
    PROVE  /\ version \in Nat /\ version' \in Nat /\ version <= version'
           /\ version' # version => UpgradeCatalog
<1>1. version \in Nat
  BY LedgerAssumption DEF LedgerTypeOK
<1>2. version' = version \/ UpgradeCatalog
  BY DEF Next, PlanStep, RunStep, vars, StartPlan, SaveSuite, SavePlan,
     StartRun, GetSuite, MissingItem, ExecuteItem, FillLog, SaveRun, FinishRun, Return,
     Crash, IngestResult
<1> QED  BY <1>1, <1>2 DEF UpgradeCatalog

\* A plan that was made stays one that was made.
LEMMA PlannedStays ==
    ASSUME LedgerTypeOK, [Next]_vars,
           NEW id, NEW items, NEW planned, Planned(id, items, planned, version)
    PROVE  Planned(id, items, planned, version')
<1>1. id[3] \in Nat
  BY LedgerAssumption DEF Planned, PlanIds
<1>2. id[3] <= version'
  BY <1>1, VersionStep DEF Planned
<1> QED  BY <1>2 DEF Planned

\* A plan row is the text of the suite it was made from, and has its suite.
LEMMA PlansStep ==
    LedgerTypeOK /\ LedgerInv /\ [Next]_vars => PlansInv'
<1> SUFFICES ASSUME LedgerTypeOK, LedgerInv, [Next]_vars,
                    NEW id \in PlanIds, plans'[id] # NoRow
             PROVE  /\ Planned(id, made'[id], plans'[id], version')
                    /\ suites'[id[1]] # NoRow
  BY DEF PlansInv
<1>1. plans[id] # NoRow =>
        Planned(id, made[id], plans[id], version) /\ suites[id[1]] # NoRow
  BY DEF LedgerInv, PlansInv
<1>2. id[1] \in SuiteIds
  BY DEF PlanIds
<1>3. RowsStay
  BY LedgerTypeStep
<1>4. \/ plans'[id] = plans[id] /\ made'[id] = made[id]
      \/ \E p \in Procs :
           /\ SavePlan(p) /\ id = proc[p].id /\ plans'[id] = proc[p].planned
           /\ made'[id] = proc[p].suite.items
  BY DEF Next, PlanStep, RunStep, vars, StartPlan, SaveSuite, SavePlan,
     StartRun, GetSuite, MissingItem, ExecuteItem, FillLog, SaveRun, FinishRun, Return,
     Crash, IngestResult, UpgradeCatalog, LedgerTypeOK
<1>5. CASE plans'[id] = plans[id] /\ made'[id] = made[id]
  <2>1. Planned(id, made[id], plans[id], version')
    BY <1>1, <1>5, PlannedStays
  <2> QED  BY <1>1, <1>2, <1>3, <1>5, <2>1 DEF RowsStay
<1>6. ASSUME NEW p \in Procs, SavePlan(p), id = proc[p].id,
             plans'[id] = proc[p].planned, made'[id] = proc[p].suite.items
      PROVE  /\ Planned(id, made'[id], plans'[id], version')
             /\ suites'[id[1]] # NoRow
  <2>1. /\ Planned(id, proc[p].suite.items, proc[p].planned, version)
        /\ id[1] = proc[p].suite.id /\ suites[id[1]] # NoRow
    BY <1>6 DEF SavePlan, Goes, LedgerInv, ProcInv, PlanningInv
  <2>2. version' = version
    BY <1>6 DEF SavePlan
  <2> QED  BY <1>2, <1>3, <1>6, <2>1, <2>2 DEF RowsStay
<1> QED  BY <1>4, <1>5, <1>6

-----------------------------------------------------------------------------
(* Records and log files. *)

\* What is so of a row stays so, whatever is installed.
LEMMA RowStays ==
    ASSUME LedgerTypeOK, [Next]_vars, NEW r, r[1] \in PlanIds, NEW row,
           SettledRow(r, row, version)
    PROVE  SettledRow(r, row, version')
<1>1. r[1][3] \in Nat
  BY LedgerAssumption DEF PlanIds
<1>2. /\ version \in Nat /\ version' \in Nat /\ version <= version'
      /\ version' # version => version' = version + 1
  BY VersionStep DEF UpgradeCatalog
<1>3. r[1][3] <= version' /\ (version' = r[1][3] => version' = version)
  BY <1>1, <1>2 DEF SettledRow
<1> QED  BY <1>3 DEF SettledRow

\* Rows are true, and those of settled plans are what their run ids stand for.
LEMMA RunsStep ==
    LedgerTypeOK /\ LedgerInv /\ [Next]_vars => RunsInv'
<1> DEFINE Fine(r) ==
      /\ TrueRow(runs'[r])
      /\ Settled(r[1]) => /\ SettledRow(r, runs'[r], version')
                          /\ runs'[r].artifact => artifacts'[r] # NoFile
<1> SUFFICES ASSUME LedgerTypeOK, LedgerInv, [Next]_vars,
                    NEW r \in RunIds, runs'[r] # NoRun
             PROVE  Fine(r)
  BY DEF RunsInv
<1>1. runs[r] # NoRun =>
        /\ TrueRow(runs[r])
        /\ Settled(r[1]) => /\ SettledRow(r, runs[r], version)
                            /\ runs[r].artifact => artifacts[r] # NoFile
  BY DEF LedgerInv, RunsInv
<1>2. artifacts[r] # NoFile => artifacts'[r] # NoFile
  BY LedgerTypeStep DEF RowsStay
<1>3. \/ runs'[r] = runs[r]
      \/ \E p \in Procs :
           /\ SaveRun(p) /\ runs'[r] = proc[p].record
           /\ r = RunId(proc[p].record.plan, proc[p].record.benchmark)
      \/ \E p \in Procs, file \in Externals :
           IngestResult(p, file) /\ r = file.id /\ runs'[r] = file.record
  BY DEF Next, PlanStep, RunStep, vars, StartPlan, SaveSuite, SavePlan,
     StartRun, GetSuite, MissingItem, ExecuteItem, FillLog, SaveRun, FinishRun, Return,
     Crash, IngestResult, UpgradeCatalog, LedgerTypeOK
<1>4. r[1] \in PlanIds
  BY DEF RunIds
<1>5. CASE runs'[r] = runs[r]
  <2>1. Settled(r[1]) => SettledRow(r, runs[r], version')
    BY <1>1, <1>4, <1>5, RowStays
  <2> QED  BY <1>1, <1>2, <1>5, <2>1
<1>6. ASSUME NEW p \in Procs, SaveRun(p), runs'[r] = proc[p].record,
             r = RunId(proc[p].record.plan, proc[p].record.benchmark)
      PROVE  Fine(r)
  <2> DEFINE rec == proc[p].record
  <2>1. /\ r = <<rec.plan, rec.benchmark>> /\ r[1] = rec.plan
    BY <1>6 DEF RunId
  <2>2. /\ TrueRow(rec) /\ rec.plan = proc[p].loop.id
        /\ Settled(r[1]) => /\ SettledRow(r, rec, version)
                            /\ rec.artifact => artifacts[r] # NoFile
    BY <1>6, <2>1 DEF SaveRun, LedgerInv, ProcInv, RecordInv
  <2>3. Settled(r[1]) => SettledRow(r, rec, version')
    BY <1>4, <2>2, RowStays
  <2> QED  BY <1>2, <1>6, <2>2, <2>3
<1>7. ASSUME NEW p \in Procs, NEW file \in Externals, IngestResult(p, file),
             r = file.id, runs'[r] = file.record
      PROVE  Fine(r)
  <2>1. file.record.origin = "file"
    BY ExternalsAssumption
  <2> QED  BY <1>7, <2>1 DEF TrueRow, Settled
<1> QED  BY <1>3, <1>5, <1>6, <1>7

\* A process that writes a settled plan's log writes the one content it can have.
LEMMA SettledWrite ==
    ASSUME LedgerTypeOK, LedgerInv, NEW p \in Procs, FillLog(p),
           Settled(LogId(p)[1])
    PROVE  artifacts[LogId(p)] # NoFile => artifacts'[LogId(p)] = SettledLog(LogId(p))
<1> DEFINE r == LogId(p)
           rec == proc[p].record
<1>1. /\ ProcInv(p) /\ proc[p].pc = "write_log"
  BY DEF FillLog, LedgerInv
<1>2. RecordInv(proc[p].loop, rec) /\ rec.artifact
  BY <1>1 DEF ProcInv
<1>3. r = <<rec.plan, rec.benchmark>> /\ r[1] = rec.plan /\ r \in RunIds
  BY <1>1, SavedRecord DEF LogId, RunId
<1>4. SettledRow(r, rec, version)
  BY <1>2, <1>3 DEF RecordInv
<1>5. LogOf(rec) = SettledLog(r)
  BY <1>2, <1>4 DEF SettledRow, LogOf, SettledLog
<1> HIDE DEF r, rec
<1>6. artifacts[r] # NoFile => artifacts[r] \in {Torn, LogOf(rec)}
  BY <1>3, <1>5 DEF LedgerInv, FilesInv, r
<1>7. PICK content :
        /\ artifacts' = [artifacts EXCEPT ![r] = content]
        /\ artifacts[r] \in {Torn, LogOf(rec)} => content = LogOf(rec)
  BY FillShape DEF r, rec
<1> QED  BY <1>3, <1>5, <1>6, <1>7 DEF LedgerTypeOK, r

\* A log that is opened is being written.
LEMMA OpenedIsWriting ==
    ASSUME LedgerTypeOK, LedgerInv, NEW p \in Procs, ExecuteItem(p),
           NEW r \in RunIds, artifacts'[r] # artifacts[r]
    PROVE  artifacts'[r] = Torn /\ Writing(r)'
<1>1. PICK item \in Found(p, Current(p).benchmark) : \E rec, id :
         /\ rec = Execute(proc[p].id, item, Current(p).config, proc[p].keep)
         /\ id = RunId(proc[p].id, Current(p).benchmark)
         /\ artifacts' = [artifacts EXCEPT ![id] =
                            IF rec.artifact THEN Torn ELSE @]
         /\ proc' = [proc EXCEPT ![p] =
                       [pc |-> IF rec.artifact THEN "write_log" ELSE "save_run",
                        loop |-> proc[p], record |-> rec]]
  BY OpenShape
<1>2. PICK rec, id :
         /\ rec = Execute(proc[p].id, item, Current(p).config, proc[p].keep)
         /\ id = RunId(proc[p].id, Current(p).benchmark)
         /\ artifacts' = [artifacts EXCEPT ![id] =
                            IF rec.artifact THEN Torn ELSE @]
         /\ proc' = [proc EXCEPT ![p] =
                       [pc |-> IF rec.artifact THEN "write_log" ELSE "save_run",
                        loop |-> proc[p], record |-> rec]]
  BY <1>1
<1>3. r = id /\ rec.artifact /\ artifacts'[r] = Torn
  BY <1>2 DEF LedgerTypeOK
<1>4. /\ rec.plan = proc[p].id /\ rec.benchmark = item.benchmark
      /\ item.benchmark = Current(p).benchmark
  BY <1>2, ExecuteShape DEF ExecuteItem, LedgerInv
<1>5. proc'[p] = [pc |-> "write_log", loop |-> proc[p], record |-> rec]
  BY <1>2, <1>3 DEF LedgerTypeOK
<1>6. LogId(p)' = r
  BY <1>2, <1>3, <1>4, <1>5 DEF LogId, RunId
<1> QED  BY <1>3, <1>5, <1>6 DEF Writing

\* A write that has begun goes on, ends or is cut off by the end of its process.
LEMMA WritingStays ==
    ASSUME LedgerTypeOK, [Next]_vars, NEW q \in Procs,
           proc[q].pc = "write_log", ~FillLog(q)
    PROVE  \/ proc'[q].pc = "write_log" /\ LogId(q)' = LogId(q)
           \/ LogId(q) \in died'
<1>1. proc'[q] = proc[q] \/ Crash(q)
  BY DEF Next, PlanStep, RunStep, vars, StartPlan, SaveSuite, SavePlan,
     StartRun, Goes, GetSuite, MissingItem, ExecuteItem, FillLog, SaveRun,
     FinishRun, Return, Finished, Crash, IngestResult, UpgradeCatalog,
     LedgerTypeOK
<1>2. CASE proc'[q] = proc[q]
  BY <1>2 DEF LogId
<1>3. CASE Crash(q)
  BY <1>3 DEF Crash
<1> QED  BY <1>1, <1>2, <1>3

\* A log of a settled plan has one content, but for the time of a write, or for
\* good if its process dies in it and no other writes the log again.
LEMMA FilesStep ==
    LedgerTypeOK /\ LedgerInv /\ [Next]_vars => FilesInv'
<1> SUFFICES ASSUME LedgerTypeOK, LedgerInv, [Next]_vars,
                    NEW r \in RunIds, Settled(r[1]), artifacts'[r] # NoFile
             PROVE  \/ artifacts'[r] = SettledLog(r)
                    \/ artifacts'[r] = Torn /\ (Writing(r)' \/ r \in died')
  BY DEF FilesInv, SettledLog, StatusOf, ConfigOf, ItemOf
<1>1. artifacts[r] # NoFile =>
        \/ artifacts[r] = SettledLog(r)
        \/ artifacts[r] = Torn /\ (Writing(r) \/ r \in died)
  BY DEF LedgerInv, FilesInv
<1>2. \/ artifacts' = artifacts
      \/ \E p \in Procs : ExecuteItem(p) \/ FillLog(p)
  BY DEF Next, PlanStep, RunStep, vars, StartPlan, SaveSuite, SavePlan,
     StartRun, GetSuite, MissingItem, SaveRun, FinishRun, Return, Crash,
     IngestResult, UpgradeCatalog
<1>3. ASSUME NEW p \in Procs, FillLog(p), LogId(p) = r
      PROVE  artifacts'[r] = SettledLog(r)
  <2>1. proc[p].record.artifact /\ RecordInv(proc[p].loop, proc[p].record)
    BY <1>3 DEF FillLog, LedgerInv, ProcInv
  <2>2. r = <<proc[p].record.plan, proc[p].record.benchmark>>
    BY <1>3 DEF LogId, RunId
  <2>3. artifacts[r] # NoFile
    BY <2>1, <2>2 DEF RecordInv
  <2> QED  BY <1>3, <2>3, SettledWrite
<1>4. ASSUME NEW p \in Procs, ExecuteItem(p), artifacts'[r] # artifacts[r]
      PROVE  artifacts'[r] = Torn /\ Writing(r)'
  BY <1>4, OpenedIsWriting
<1>5. CASE artifacts'[r] = artifacts[r] /\ ~\E p \in Procs : FillLog(p) /\ LogId(p) = r
  <2>1. r \in died => r \in died'
    BY <1>5 DEF Next, PlanStep, RunStep, vars, StartPlan, SaveSuite, SavePlan,
       StartRun, GetSuite, MissingItem, ExecuteItem, FillLog, SaveRun,
       FinishRun, Return, Crash, IngestResult, UpgradeCatalog
  <2>2. ASSUME NEW q \in Procs, proc[q].pc = "write_log", LogId(q) = r
        PROVE  Writing(r)' \/ r \in died'
    BY <1>5, <2>2, WritingStays DEF Writing
  <2> QED  BY <1>1, <1>5, <2>1, <2>2 DEF Writing
<1>6. ASSUME NEW p \in Procs, FillLog(p), LogId(p) # r
      PROVE  artifacts'[r] = artifacts[r]
  BY <1>6 DEF FillLog, LedgerTypeOK
<1> QED  BY <1>2, <1>3, <1>4, <1>5, <1>6

-----------------------------------------------------------------------------
(* Processes. *)

\* What a process holds stays good while the others move.
LEMMA LocalStays ==
    ASSUME LedgerTypeOK, RowsStay, version' = version,
           NEW q \in Procs, ProcInv(q), proc'[q] = proc[q]
    PROVE  ProcInv(q)'
<1>1. PlanningInv(q)'
  <2>1. proc[q].pc = "save_plan" /\ proc[q].suite \in Suites
          => proc[q].suite.id \in SuiteIds
    BY LedgerAssumption
  <2> QED  BY <2>1 DEF ProcInv, PlanningInv, RowsStay
<1>2. GettingInv(q)'
  <2>1. Planned(proc[q].id, proc[q].from, proc[q].planned, version)
          => proc[q].id[1] \in SuiteIds
    BY DEF Planned, PlanIds
  <2> QED  BY <2>1 DEF ProcInv, GettingInv, RowsStay
<1>3. ASSUME NEW id, NEW from, NEW planned,
             Planned(id, from, planned, version),
             NEW i \in DOMAIN planned
      PROVE  <<id, planned[i].benchmark>> \in RunIds
  BY <1>3, PlanFacts DEF Planned, RunIds
<1>4. ASSUME NEW l, LoopInv(l) PROVE LoopInv(l)'
  BY <1>3, <1>4 DEF LoopInv, RowsStay
<1>5. ASSUME NEW l, NEW rec, RecordInv(l, rec) PROVE RecordInv(l, rec)'
  <2>1. <<rec.plan, rec.benchmark>> \in RunIds
    BY <1>5 DEF RecordInv, Records, RunIds
  <2> QED  BY <1>5, <2>1 DEF RecordInv, RowsStay
<1>6. proc[q].pc = "ran" =>
        \A i \in DOMAIN proc[q].planned :
            runs'[<<proc[q].id, proc[q].planned[i].benchmark>>] # NoRun
  BY <1>3 DEF ProcInv, RowsStay
<1> QED  BY <1>1, <1>2, <1>4, <1>5, <1>6 DEF ProcInv
\* plan: from the suite file to the plan's row.
LEMMA PlanningStep ==
    ASSUME LedgerTypeOK, LedgerInv, NEW p \in Procs, PlanStep(p)
    PROVE  ProcInv(p)'
<1>1. ASSUME NEW s \in Suites, NEW policy \in Policies, StartPlan(p, s, policy)
      PROVE  ProcInv(p)'
  <2> DEFINE id == PlanId(s, policy)
             planned == PlanExperiment(s, policy)
  <2>1. proc'[p] = [pc |-> "save_suite", suite |-> s, id |-> id,
                    planned |-> planned]
    BY <1>1 DEF StartPlan, Goes, LedgerTypeOK
  <2>2. /\ id \in PlanIds /\ id[1] = s.id /\ id[2] = policy
        /\ id[3] = version
    BY LedgerAssumption DEF PlanId, PlanIds, LedgerTypeOK
  <2>3. SuiteRow(id[1], s.items) /\ planned = PlanText(id, s.items)
    BY <2>2 DEF SuiteRow, PlanExperiment, PlanText
  <2>4. version \in Nat /\ version' = version
    BY <1>1, LedgerAssumption DEF StartPlan, LedgerTypeOK
  <2>5. Planned(id, s.items, planned, version')
    BY <2>2, <2>3, <2>4 DEF Planned
  <2> HIDE DEF id, planned
  <2> QED  BY <2>1, <2>2, <2>5 DEF ProcInv, PlanningInv, GettingInv
<1>2. CASE SaveSuite(p)
  <2>1. /\ proc[p].pc = "save_suite"
        /\ proc'[p] = [proc[p] EXCEPT !.pc = "save_plan"]
        /\ suites' = [suites EXCEPT ![proc[p].suite.id] = proc[p].suite.items]
        /\ version' = version
    BY <1>2 DEF SaveSuite, Goes, LedgerTypeOK
  <2>2. /\ proc[p] = [pc |-> "save_suite", suite |-> proc[p].suite,
                      id |-> proc[p].id, planned |-> proc[p].planned]
        /\ proc[p].suite \in Suites /\ proc[p].id[1] = proc[p].suite.id
        /\ Planned(proc[p].id, proc[p].suite.items, proc[p].planned, version)
    BY <2>1 DEF LedgerInv, ProcInv, PlanningInv
  <2>3. proc'[p] = [pc |-> "save_plan", suite |-> proc[p].suite,
                    id |-> proc[p].id, planned |-> proc[p].planned]
    BY <2>1, <2>2
  <2>4. suites'[proc[p].suite.id] # NoRow
    BY <2>1, <2>2, LedgerAssumption DEF LedgerTypeOK, NoRow
  <2> QED
    BY <2>1, <2>2, <2>3, <2>4 DEF ProcInv, PlanningInv, GettingInv
<1>3. CASE SavePlan(p)
  <2>1. proc'[p] = Idle
    BY <1>3 DEF SavePlan, Goes, LedgerTypeOK
  <2> QED  BY <2>1 DEF Idle, ProcInv, PlanningInv, GettingInv
<1> QED  BY <1>1, <1>2, <1>3 DEF PlanStep

\* run: get_plan and get_suite.
LEMMA GettingStep ==
    ASSUME LedgerTypeOK, LedgerInv, NEW p \in Procs
    PROVE  /\ \A plan \in PlanIds, keep \in KeepArtifacts :
                StartRun(p, plan, keep) => ProcInv(p)'
           /\ GetSuite(p) => ProcInv(p)'
<1>1. ASSUME NEW plan \in PlanIds, NEW keep \in KeepArtifacts,
             StartRun(p, plan, keep)
      PROVE  ProcInv(p)'
  <2>1. proc'[p] = [pc |-> "get_suite", id |-> plan, keep |-> keep,
                    planned |-> plans[plan], from |-> made[plan]]
    BY <1>1 DEF StartRun, Goes, LedgerTypeOK
  <2>2. /\ Planned(plan, made[plan], plans[plan], version)
        /\ suites[plan[1]] # NoRow
    BY <1>1 DEF StartRun, LedgerInv, PlansInv
  <2>3. keep \in BOOLEAN
    BY LedgerAssumption
  <2>4. version' = version /\ suites' = suites
    BY <1>1 DEF StartRun
  <2> QED
    BY <2>1, <2>2, <2>3, <2>4 DEF ProcInv, PlanningInv, GettingInv
<1>2. ASSUME GetSuite(p) PROVE ProcInv(p)'
  <2> DEFINE items == suites[proc[p].id[1]]
  <2>1. /\ Planned(proc[p].id, proc[p].from, proc[p].planned, version)
        /\ items # NoRow /\ proc[p].keep \in BOOLEAN
    BY <1>2 DEF GetSuite, LedgerInv, ProcInv, GettingInv
  <2>2. SuiteRow(proc[p].id[1], items)
    BY <2>1 DEF LedgerInv, SuitesInv, Planned, PlanIds
  <2>3. proc'[p] = [pc |-> "loop", id |-> proc[p].id, keep |-> proc[p].keep,
                    from |-> proc[p].from, planned |-> proc[p].planned,
                    items |-> items, next |-> 1]
    BY <1>2, <2>1 DEF GetSuite, LedgerTypeOK
  <2> HIDE DEF items
  <2>4. version' = version
    BY <1>2 DEF GetSuite
  <2>5. DOMAIN proc[p].planned \subseteq Nat \ {0}
    BY <2>1, PlanFacts, RowFacts DEF Planned
  <2>6. \A i \in DOMAIN proc[p].planned : ~(i < 1)
    BY <2>5
  <2>7. LoopInv(proc[p])' 
    BY <2>1, <2>2, <2>3, <2>4, <2>6 DEF LoopInv
  <2> QED
    BY <2>3, <2>7 DEF ProcInv, PlanningInv, GettingInv
<1> QED  BY <1>1, <1>2

\* run: the planned benchmark is not in the suite that was read, so that is not
\* the suite the plan was made from.
LEMMA MissingStep ==
    ASSUME LedgerTypeOK, LedgerInv, NEW p \in Procs, MissingItem(p)
    PROVE  ProcInv(p)'
<1> DEFINE l == proc[p]
<1>1. /\ SuiteRow(l.id[1], l.from) /\ l.id \in PlanIds
      /\ l.planned = PlanText(l.id, l.from)
      /\ l.next \in Nat \ {0} /\ l.next <= Len(l.planned)
  BY DEF MissingItem, LedgerInv, ProcInv, LoopInv, Planned
<1>2. /\ l.planned \in Seq(PlannedRuns) /\ DOMAIN l.planned = DOMAIN l.from
      /\ \A i \in DOMAIN l.from : l.planned[i].benchmark = l.from[i].benchmark
  BY <1>1, PlanFacts
<1>3. l.next \in DOMAIN l.from
  BY <1>1, <1>2
<1>4. Current(p).benchmark = l.from[l.next].benchmark
  BY <1>2, <1>3 DEF Current
<1>5. l.items # l.from
  BY <1>3, <1>4 DEF MissingItem, Found, Range
<1>6. proc'[p] = [pc |-> "key_error", from |-> l.from, items |-> l.items]
  BY DEF MissingItem, LedgerTypeOK
<1> QED  BY <1>5, <1>6 DEF ProcInv, PlanningInv, GettingInv

\* run: execute, up to the opening of the log.
LEMMA ExecuteStep ==
    ASSUME LedgerTypeOK, LedgerInv, NEW p \in Procs, ExecuteItem(p)
    PROVE  ProcInv(p)'
<1> DEFINE l == proc[p]
<1>1. PICK item \in Found(p, Current(p).benchmark) : \E rec, id :
        /\ rec = Execute(l.id, item, Current(p).config, l.keep)
        /\ id = RunId(l.id, Current(p).benchmark)
        /\ artifacts' = [artifacts EXCEPT ![id] =
                           IF rec.artifact THEN Torn ELSE @]
        /\ proc' = [proc EXCEPT ![p] =
                      [pc |-> IF rec.artifact THEN "write_log" ELSE "save_run",
                       loop |-> l, record |-> rec]]
  BY OpenShape
<1> DEFINE rec == Execute(l.id, item, Current(p).config, l.keep)
           r   == <<l.id, item.benchmark>>
           pc  == IF rec.artifact THEN "write_log" ELSE "save_run"
<1>2. /\ ProcInv(p) /\ l.pc = "loop" /\ l.next <= Len(l.planned)
      /\ LoopInv(l)
  BY DEF ExecuteItem, LedgerInv, ProcInv
<1>3. /\ item \in Range(l.items) /\ item.benchmark = Current(p).benchmark
      /\ l.id \in PlanIds /\ item.benchmark \in Benchmarks
      /\ l.next \in DOMAIN l.planned /\ l.next \in DOMAIN l.from
      /\ Current(p).benchmark = l.from[l.next].benchmark
      /\ Current(p).config = Choose(l.id[2], item.benchmark,
                                    l.from[l.next].design, l.id[3])
  BY <1>2, ExecuteShape
<1>4. /\ rec \in Records /\ rec.origin = "mock"
      /\ rec.plan = l.id /\ rec.benchmark = item.benchmark
      /\ rec.design = item.design /\ rec.config = Current(p).config
      /\ TrueRow(rec)
      /\ rec.validation = "valid" <=> rec.config \in Catalogs[version]
      /\ rec.validation = "valid" =>
           rec.status = Classify(Simulated(item, rec.config))
      /\ rec.validation # "valid" =>
           rec.validation = "invalid_config" /\ rec.status = "ERROR"
      /\ rec.artifact => rec.validation = "valid"
  BY <1>2, ExecuteShape
<1>5. Settled(l.id) =>
        /\ item = ItemOf(r) /\ Current(p).config = ConfigOf(r)
        /\ Classify(Simulated(item, Current(p).config)) = StatusOf(r)
  BY <1>2, <1>3, SettledExecution
<1>6. /\ proc'[p] = [pc |-> pc, loop |-> l, record |-> rec]
      /\ artifacts' = [artifacts EXCEPT ![r] =
                         IF rec.artifact THEN Torn ELSE @]
  BY <1>1, <1>3 DEF RunId, LedgerTypeOK
<1> HIDE DEF rec, r
<1>14. /\ pc \in {"write_log", "save_run"}
       /\ pc = "write_log" => rec.artifact
  OBVIOUS
<1> HIDE DEF pc
<1>7. version' = version /\ runs' = runs
  BY DEF ExecuteItem
<1>8. LoopInv(proc[p].loop)'
  BY <1>2, <1>6, <1>7 DEF LoopInv
<1>9. l.planned[l.next].benchmark = item.benchmark
  BY <1>3 DEF Current
<1>10. l.from = l.items =>
         rec.config = Choose(rec.plan[2], rec.benchmark, rec.design, rec.plan[3])
  <2> SUFFICES ASSUME l.from = l.items
               PROVE  item = l.from[l.next]
    BY <1>3, <1>4
  <2>1. SuiteRow(l.id[1], l.items)
    BY <1>2 DEF LoopInv
  <2> QED  BY <1>3, <2>1, RowFacts DEF Range
<1>11. Settled(l.id) =>
         SettledRow(r, rec, version) /\ (rec.artifact => artifacts'[r] # NoFile)
  <2> SUFFICES ASSUME Settled(l.id)
               PROVE  /\ SettledRow(r, rec, version)
                      /\ rec.artifact => artifacts'[r] # NoFile
    OBVIOUS
  <2>1. /\ r[1] = rec.plan /\ r[2] = rec.benchmark /\ r \in RunIds
        /\ r = <<rec.plan, rec.benchmark>>
    BY <1>3, <1>4 DEF r, RunIds
  <2>2. rec.plan[3] <= version
    BY <1>2, <1>4 DEF LoopInv, Planned
  <2>3. SettledRow(r, rec, version)
    BY <1>4, <1>5, <2>1, <2>2 DEF SettledRow
  <2>4. Torn # NoFile
    BY RowsAreRows
  <2> QED  BY <1>6, <2>1, <2>3, <2>4 DEF LedgerTypeOK
<1>12. r = <<rec.plan, rec.benchmark>>
  BY <1>4 DEF r
<1>13. RecordInv(proc[p].loop, proc[p].record)'
  BY <1>3, <1>4, <1>6, <1>7, <1>9, <1>10, <1>11, <1>12 DEF RecordInv
<1> QED
  BY <1>6, <1>8, <1>13, <1>14 DEF ProcInv, PlanningInv, GettingInv

\* run: the log is filled.
LEMMA FillStep ==
    ASSUME LedgerTypeOK, LedgerInv, NEW p \in Procs, FillLog(p)
    PROVE  ProcInv(p)'
<1>1. /\ ProcInv(p) /\ proc[p].pc = "write_log"
      /\ version' = version /\ runs' = runs
  BY DEF FillLog, LedgerInv
<1>2. PICK l, rec : l = proc[p].loop /\ rec = proc[p].record
  OBVIOUS
<1>3. /\ proc[p] = [pc |-> "write_log", loop |-> l, record |-> rec]
      /\ LoopInv(l) /\ RecordInv(l, rec)
  BY <1>1, <1>2 DEF ProcInv
<1>4. proc'[p] = [pc |-> "save_run", loop |-> l, record |-> rec]
  BY <1>3 DEF FillLog, LedgerTypeOK
<1>5. <<rec.plan, rec.benchmark>> \in RunIds
  BY <1>3 DEF RecordInv, Records, RunIds
<1>6. \A r \in RunIds : artifacts[r] # NoFile => artifacts'[r] # NoFile
  BY LedgerTypeStep DEF RowsStay, Next, RunStep
<1>7. LoopInv(l)'
  BY <1>1, <1>3 DEF LoopInv
<1>8. RecordInv(l, rec)'
  BY <1>1, <1>3, <1>5, <1>6 DEF RecordInv
<1> QED
  BY <1>4, <1>7, <1>8 DEF ProcInv, PlanningInv, GettingInv

\* run: save_run, and the end of the loop.
LEMMA SavingStep ==
    ASSUME LedgerTypeOK, LedgerInv, NEW p \in Procs
    PROVE  /\ SaveRun(p) => ProcInv(p)'
           /\ FinishRun(p) => ProcInv(p)'
<1>1. ASSUME SaveRun(p) PROVE ProcInv(p)'
  <2> DEFINE l == proc[p].loop
             rec == proc[p].record
  <2>1. ProcInv(p) /\ LoopInv(l) /\ RecordInv(l, rec)
    BY <1>1 DEF SaveRun, LedgerInv, ProcInv
  <2>2. /\ runs' = [runs EXCEPT ![RunId(rec.plan, rec.benchmark)] = rec]
        /\ proc'[p] = [l EXCEPT !.next = @ + 1] /\ version' = version
    BY <1>1 DEF SaveRun, LedgerTypeOK
  <2>3. rec # NoRun /\ RunId(rec.plan, rec.benchmark) \in RunIds
    BY <1>1, <2>1, SavedRecord, RowsAreRows DEF SaveRun
  <2> HIDE DEF l, rec
  <2>4. proc'[p] = [pc |-> "loop", id |-> l.id, keep |-> l.keep,
                    from |-> l.from, planned |-> l.planned,
                    items |-> l.items, next |-> l.next + 1]
    BY <2>1, <2>2 DEF LoopInv
  <2>5. /\ l.id \in PlanIds /\ l.next \in Nat /\ DOMAIN l.planned \subseteq Nat
        /\ \A i \in DOMAIN l.planned : l.planned[i].benchmark \in Benchmarks
    BY <2>1, PlanFacts, RowFacts DEF LoopInv, Planned
  <2>6. ASSUME NEW i \in DOMAIN l.planned, i < l.next + 1
        PROVE  runs'[<<l.id, l.planned[i].benchmark>>] # NoRun
    <3>1. <<l.id, l.planned[i].benchmark>> \in RunIds
      BY <2>5 DEF RunIds
    <3>2. CASE i = l.next
      BY <2>1, <2>2, <2>3, <3>1, <3>2 DEF RecordInv, RunId, LedgerTypeOK
    <3>3. CASE i # l.next
      <4>1. i < l.next
        BY <2>5, <2>6, <3>3
      <4>2. runs[<<l.id, l.planned[i].benchmark>>] # NoRun
        BY <2>1, <4>1 DEF LoopInv
      <4> QED  BY <2>2, <2>3, <3>1, <4>2 DEF LedgerTypeOK
    <3> QED  BY <3>2, <3>3
  <2>7. LoopInv(proc[p])'
    BY <2>1, <2>2, <2>4, <2>6 DEF LoopInv
  <2> QED  BY <2>4, <2>7 DEF ProcInv, PlanningInv, GettingInv
<1>2. ASSUME FinishRun(p) PROVE ProcInv(p)'
  <2> DEFINE l == proc[p]
  <2>1. LoopInv(l) /\ l.next > Len(l.planned)
    BY <1>2 DEF FinishRun, LedgerInv, ProcInv
  <2>2. /\ proc'[p] = [pc |-> "ran", id |-> l.id, planned |-> l.planned]
        /\ version' = version /\ runs' = runs
    BY <1>2 DEF FinishRun, LedgerTypeOK
  <2>3. l.planned \in Seq(PlannedRuns) /\ l.next \in Nat
    BY <2>1, PlanFacts DEF LoopInv, Planned
  <2>4. \A i \in DOMAIN l.planned : i < l.next
    BY <2>1, <2>3
  <2>5. /\ \E s \in Suites : Planned(l.id, s.items, l.planned, version)
        /\ \A i \in DOMAIN l.planned :
             runs[<<l.id, l.planned[i].benchmark>>] # NoRun
    BY <2>1, <2>4 DEF LoopInv, Planned, SuiteRow
  <2> HIDE DEF l
  <2> QED  BY <2>2, <2>5 DEF ProcInv, PlanningInv, GettingInv
<1> QED  BY <1>1, <1>2
\* Every step keeps what its process holds good, and that of the others.
LEMMA ProcsStep ==
    LedgerTypeOK /\ LedgerInv /\ [Next]_vars => \A p \in Procs : ProcInv(p)'
<1> SUFFICES ASSUME LedgerTypeOK, LedgerInv, [Next]_vars, NEW q \in Procs
             PROVE  ProcInv(q)'
  OBVIOUS
<1>1. RowsStay /\ ProcInv(q)
  BY LedgerTypeStep DEF LedgerInv
<1>2. CASE proc'[q] = proc[q] /\ version' = version
  BY <1>1, <1>2, LocalStays
<1>3. CASE UNCHANGED vars
  BY <1>2, <1>3 DEF vars
<1>4. ASSUME NEW p \in Procs, PlanStep(p) \/ RunStep(p) \/ Return(p) \/ Crash(p)
      PROVE  ProcInv(q)'
  <2>1. version' = version
    BY <1>4 DEF PlanStep, RunStep, StartPlan, SaveSuite, SavePlan, StartRun,
       GetSuite, MissingItem, ExecuteItem, FillLog, SaveRun, FinishRun, Return, Crash
  <2>2. CASE q # p
    <3>1. proc'[q] = proc[q]
      BY <1>4, <2>2 DEF PlanStep, RunStep, StartPlan, SaveSuite, SavePlan,
         StartRun, Goes, GetSuite, MissingItem, ExecuteItem, FillLog, SaveRun,
         FinishRun, Return, Crash, LedgerTypeOK
    <3> QED  BY <1>2, <2>1, <3>1
  <2>3. CASE q = p /\ (PlanStep(p) \/ RunStep(p))
    BY <2>3, PlanningStep, GettingStep, MissingStep, ExecuteStep,
       FillStep, SavingStep
       DEF RunStep
  <2>4. CASE q = p /\ (Return(p) \/ Crash(p))
    <3>1. proc'[q] = Idle
      BY <2>4 DEF Return, Crash, LedgerTypeOK
    <3> QED  BY <3>1 DEF Idle, ProcInv, PlanningInv, GettingInv
  <2> QED  BY <1>4, <2>2, <2>3, <2>4
<1>5. ASSUME NEW p \in Procs, NEW file \in Externals, IngestResult(p, file)
      PROVE  ProcInv(q)'
  BY <1>2, <1>5 DEF IngestResult
<1>6. CASE UpgradeCatalog
  <2>1. proc'[q] = Idle
    BY <1>6 DEF UpgradeCatalog
  <2> QED  BY <2>1 DEF Idle, ProcInv, PlanningInv, GettingInv
<1> QED  BY <1>3, <1>4, <1>5, <1>6 DEF Next

\* The invariant is inductive.
LEMMA LedgerStep ==
    LedgerTypeOK /\ LedgerInv /\ [Next]_vars => LedgerTypeOK' /\ LedgerInv'
BY LedgerTypeStep, SuitesStep, PlansStep, RunsStep, FilesStep, ProcsStep
   DEF LedgerInv

-----------------------------------------------------------------------------
(* The theorems. *)

\* Whatever commands overlap and die, the ledger's rows, files and processes
\* are those of the program: the inductive invariant the theorems below use.
THEOREM LedgerInvariant == Spec => [](LedgerTypeOK /\ LedgerInv)
BY LedgerInit, LedgerStep, PTL DEF Spec

\* The rows and the files have the types their writers give them.
THEOREM LedgerTypeCorrect == Spec => []TypeOK
<1>1. LedgerTypeOK => TypeOK
  BY DEF LedgerTypeOK, TypeOK
<1> QED  BY <1>1, LedgerInvariant, PTL

\* A conclusive row of the mock was concluded by its simulation, and says what
\* is true of its design.
THEOREM VerdictIsTrueAlways == Spec => []VerdictIsTrue
<1>1. LedgerInv => VerdictIsTrue
  BY DEF LedgerInv, RunsInv, TrueRow, VerdictIsTrue
<1> QED  BY <1>1, LedgerInvariant, PTL

\* No command meets a missing suite, a loop ends half-way only when its suite
\* was replaced, the records that were reported as saved are there, and the row
\* of a settled plan agrees with its log file, unless that is being written or
\* its writer died in the write and no run has written it whole since.
THEOREM LedgerHoldsAlways == Spec => []LedgerHolds
<1>1. ASSUME LedgerTypeOK, LedgerInv PROVE LedgerHolds
  <2>1. ForeignKeyHolds
    BY <1>1 DEF LedgerInv, ProcInv, PlanningInv, ForeignKeyHolds
  <2>2. PlanFollowed
    BY <1>1 DEF LedgerInv, ProcInv, RecordInv, PlanFollowed
  <2>3. FinishedRunRecorded
    <3> SUFFICES ASSUME NEW p \in Procs, proc[p].pc = "ran", Settled(proc[p].id),
                        NEW i \in DOMAIN proc[p].planned
                 PROVE  \E r \in RunsForPlan(proc[p].id) :
                          runs[r].benchmark = proc[p].planned[i].benchmark
      BY DEF FinishedRunRecorded
    <3> DEFINE r == <<proc[p].id, proc[p].planned[i].benchmark>>
    <3>1. /\ \E s \in Suites :
               Planned(proc[p].id, s.items, proc[p].planned, version)
          /\ runs[r] # NoRun
      BY <1>1 DEF LedgerInv, ProcInv
    <3>2. /\ r \in RunIds /\ r[1] = proc[p].id
          /\ r[2] = proc[p].planned[i].benchmark
      BY <3>1, PlanFacts DEF Planned, RunIds
    <3> HIDE DEF r
    <3>3. runs[r].plan = r[1] /\ runs[r].benchmark = r[2]
      BY <1>1, <3>1, <3>2 DEF LedgerInv, RunsInv, SettledRow
    <3> QED  BY <3>1, <3>2, <3>3 DEF RunsForPlan
  <2>4. ArtifactAgrees
    <3> SUFFICES ASSUME NEW r \in RunIds, Settled(r[1]), runs[r] # NoRun,
                        runs[r].artifact
                 PROVE  \/ artifacts[r] = LogOf(runs[r])
                        \/ artifacts[r] = Torn /\ (Writing(r) \/ r \in died)
      BY DEF ArtifactAgrees
    <3>1. SettledRow(r, runs[r], version) /\ artifacts[r] # NoFile
      BY <1>1 DEF LedgerInv, RunsInv
    <3>2. \/ artifacts[r] = SettledLog(r)
          \/ artifacts[r] = Torn /\ (Writing(r) \/ r \in died)
      BY <1>1, <3>1 DEF LedgerInv, FilesInv
    <3> QED  BY <3>1, <3>2 DEF SettledRow, LogOf, SettledLog
  <2> QED  BY <2>1, <2>2, <2>3, <2>4 DEF LedgerHolds, PlansHold
<1>2. LedgerTypeOK /\ LedgerInv => LedgerHolds
  BY <1>1
<1> QED  BY <1>2, LedgerInvariant, PTL

\* No step writes a row that the installed catalog does not cover, and none
\* changes what a settled row says while its catalog is installed: reruns,
\* after a crash or beside another run, reproduce their verdicts.
THEOREM RowsReproducibleAlways == Spec => RowsReproducible
<1>1. ASSUME LedgerTypeOK, LedgerInv, LedgerTypeOK', LedgerInv', [Next]_vars
      PROVE  OnlyCatalogConfigsRun
  <2> SUFFICES ASSUME NEW r \in RunIds, runs'[r] # runs[r],
                      runs'[r].origin = "mock", runs'[r].validation = "valid"
               PROVE  runs'[r].config \in Catalogs[version]
    BY DEF OnlyCatalogConfigsRun
  <2>1. \/ \E p \in Procs :
             SaveRun(p) /\ runs'[r] = proc[p].record
        \/ \E p \in Procs, file \in Externals :
             IngestResult(p, file) /\ runs'[r] = file.record
    BY <1>1 DEF Next, PlanStep, RunStep, vars, StartPlan, SaveSuite, SavePlan,
       StartRun, GetSuite, MissingItem, ExecuteItem, FillLog, SaveRun, FinishRun,
       Return, Crash, IngestResult, UpgradeCatalog, LedgerTypeOK
  <2>2. ASSUME NEW p \in Procs, SaveRun(p), runs'[r] = proc[p].record
        PROVE  runs'[r].config \in Catalogs[version]
    BY <1>1, <2>2, ZenonT(60) DEF SaveRun, LedgerInv, ProcInv, RecordInv
  <2>3. ASSUME NEW file \in Externals, runs'[r] = file.record
        PROVE  FALSE
    BY <2>3, ExternalsAssumption
  <2> QED  BY <2>1, <2>2, <2>3
<1>2. ASSUME LedgerTypeOK, LedgerInv, LedgerTypeOK', LedgerInv', [Next]_vars
      PROVE  RowsStable
  <2> SUFFICES ASSUME NEW r \in RunIds, Settled(r[1]), runs[r] # NoRun,
                      version = r[1][3]
               PROVE  /\ runs'[r] # NoRun
                      /\ \A f \in {"plan", "design", "config", "status",
                                   "validation"} :
                           runs'[r][f] = runs[r][f]
    BY DEF RowsStable
  <2>1. runs'[r] # NoRun
    BY <1>2, LedgerTypeStep DEF RowsStay
  <2>2. SettledRow(r, runs[r], version)
    BY <1>2 DEF LedgerInv, RunsInv
  <2>3. SettledRow(r, runs'[r], version')
    BY <1>2, <2>1 DEF LedgerInv, RunsInv
  <2>4. CASE runs'[r] = runs[r]
    BY <2>1, <2>4
  <2>5. CASE runs'[r] # runs[r]
    <3>1. version' = version
      BY <1>2, <2>5, VersionStep DEF UpgradeCatalog
    <3>2. /\ runs'[r].plan = runs[r].plan
          /\ runs'[r].design = runs[r].design
          /\ runs'[r].config = runs[r].config
          /\ runs'[r].validation = runs[r].validation
          /\ runs'[r].status = runs[r].status
      BY <2>2, <2>3, <3>1 DEF SettledRow
    <3> QED  BY <2>1, <3>2
  <2> QED  BY <2>4, <2>5
<1>3. LedgerTypeOK /\ LedgerInv /\ LedgerTypeOK' /\ LedgerInv' /\ [Next]_vars
        => OnlyCatalogConfigsRun /\ RowsStable
  BY <1>1, <1>2
<1> QED  BY <1>3, LedgerInvariant, PTL DEF Spec, RowsReproducible

=============================================================================
