---------------------------- MODULE KnowledgeGraph ----------------------------
(***************************************************************************)
(* The verification knowledge graph (vkg): commands import artifacts of    *)
(* six kinds into one SQLite database, row by row in one transaction each; *)
(* queries look for gaps in what has been committed.                       *)
(*                                                                         *)
(* A row is a node or an edge under its stable ID.  An ID hashes the type  *)
(* and the natural key of a thing, so that two importers that mean the     *)
(* same thing write the same row; here the ID is that type and key.  Names *)
(* stand for names that node_id takes for equal, which are those that      *)
(* differ in case and spacing only.  An artifact the importer cannot read  *)
(* on, or an empty key, ends the import there, as AbortImport does.        *)
(*                                                                         *)
(* SQLite lets one connection write at a time: from its first row to its   *)
(* commit an import holds the write lock, and another one waits five       *)
(* seconds for it and then fails.                                          *)
(***************************************************************************)
EXTENDS Integers, FiniteSets, Sequences, SequencesExt

CONSTANTS
    Importers,   \* import commands that may run at the same time
    Files,       \* the artifact files
    Artifact,    \* what each file holds, version by version
    MaxChanges   \* bound: how many files are written anew

VARIABLES
    db,          \* the committed rows: id -> contents
    lock,        \* the importer that holds the write lock, or Nobody
    tx,          \* its uncommitted rows over the committed ones
    version,     \* the version each file has now
    file,        \* the file each importer has read, and its version then
    todo,        \* the rows it has still to write
    imported,    \* the files and versions whose import has committed
    latest       \* the version of each file that was committed last

graphVars == <<db, lock, tx, version, file, todo, imported, latest>>

Nobody == "nobody"
NoImport == "no file"

ImportersAssumption ==
    /\ Nobody \notin Importers
    /\ \A f \in Files : \A v \in DOMAIN Artifact[f] : <<f, v>> # NoImport

ASSUME ImportersAssumption

\* What the importers rely on: lists are lists.
IsList(s) == s \in Seq(ToSet(s))

RtlContent(modules) ==
    /\ IsList(modules)
    /\ \A m \in ToSet(modules) :
          IsList(m.resets) /\ IsList(m.interfaces) /\ IsList(m.signals)

SvaContent(properties) ==
    /\ IsList(properties)
    /\ \A p \in ToSet(properties) :
          IsList(p.requirements) /\ IsList(p.resets) /\ IsList(p.interfaces)

TestPlanContent(plan) ==
    /\ IsList(plan.requirements) /\ IsList(plan.tests)
    /\ \A t \in ToSet(plan.tests) : IsList(t.requirements) /\ IsList(t.bins)

LedgerContent(runs) ==
    /\ IsList(runs)
    /\ \A run \in ToSet(runs) :
          /\ IsList(run.failures)
          /\ \A f \in ToSet(run.failures) : IsList(f.interfaces)

EvidenceContent(claims) ==
    IsList(claims) /\ \A c \in ToSet(claims) : IsList(c.benchmarks)

ArtifactsAssumption ==
    \A f \in Files :
        /\ IsList(Artifact[f]) /\ Artifact[f] # <<>>
        /\ \A a \in ToSet(Artifact[f]) :
              \/ a.kind = "rtl"       /\ RtlContent(a.content)
              \/ a.kind = "sva"       /\ SvaContent(a.content)
              \/ a.kind = "testplan"  /\ TestPlanContent(a.content)
              \/ a.kind = "coverage"  /\ IsList(a.content)
              \/ a.kind = "runledger" /\ LedgerContent(a.content)
              \/ a.kind = "evidence"  /\ EvidenceContent(a.content)

ASSUME ArtifactsAssumption

-----------------------------------------------------------------------------
(***************************************************************************)
(* Rows.                                                                   *)
(***************************************************************************)

NodeId(type, key)      == <<type, key>>
EdgeId(type, src, dst) == <<"edge", type, src, dst>>

\* The natural key of an interface, of which node_id drops an empty module.
InterfaceId(mod, name) ==
    NodeId("interface", IF mod = "" THEN <<name>> ELSE <<mod, name>>)

\* Writing a row: always, or only when the node is not there yet.
Upsert(id, attrs)    == [id |-> id, attrs |-> attrs, always |-> TRUE]
Stub(id)             == [id |-> id, attrs |-> "stub", always |-> FALSE]
Link(type, src, dst) == Upsert(EdgeId(type, src, dst), "edge")

\* The rows of each element of a list, one after the other.
ForEach(list, RowsOf(_)) == FlattenSeq([i \in DOMAIN list |-> RowsOf(list[i])])
When(condition, rows)    == IF condition THEN rows ELSE <<>>

\* import_rtl_intent_manifest: modules with reset domains, interfaces, signals.
ModuleRows(m) ==
    LET mid == NodeId("module", m.name)
        OfReset(r) == <<Upsert(NodeId("reset_domain", r), "full"),
                        Link("reset_of", NodeId("reset_domain", r), mid)>>
        OfInterface(i) == <<Upsert(InterfaceId(m.name, i), "full"),
                            Link("exposes", mid, InterfaceId(m.name, i))>>
        OfSignal(s) ==
            LET sid == NodeId("signal", <<m.name, s.name>>) IN
            <<Upsert(sid, "full"), Link("in_module", sid, mid)>>
            \o When(s.interface # "",
                    <<Link("on_interface", sid, InterfaceId(m.name, s.interface))>>)
            \o When(s.reset # "",
                    <<Link("depends_on_reset", sid, NodeId("reset_domain", s.reset))>>)
    IN <<Upsert(mid, "full")>> \o ForEach(m.resets, OfReset)
       \o ForEach(m.interfaces, OfInterface) \o ForEach(m.signals, OfSignal)

RtlRows(modules) == ForEach(modules, ModuleRows)

\* import_sva_intent: properties, with stubs of the requirements they assert.
PropertyRows(p) ==
    LET aid == NodeId("assertion", p.id)
        OfRequirement(r) == <<Stub(NodeId("requirement", r)),
                              Link("asserts", aid, NodeId("requirement", r))>>
        OfReset(r) == <<Link("depends_on_reset", aid, NodeId("reset_domain", r))>>
        OfInterface(i) == <<Link("on_interface", aid, InterfaceId(p.module, i))>>
    IN <<Upsert(aid, "full")>>
       \o When(p.module # "", <<Link("in_module", aid, NodeId("module", p.module))>>)
       \o ForEach(p.requirements, OfRequirement)
       \o ForEach(p.resets, OfReset) \o ForEach(p.interfaces, OfInterface)

SvaRows(properties) == ForEach(properties, PropertyRows)

\* import_test_plan: requirements, then tests, with stubs likewise.
PlannedRows(r) == <<Upsert(NodeId("requirement", r), "full")>>

TestRows(t) ==
    LET tid == NodeId("test", t.id)
        OfRequirement(r) == <<Stub(NodeId("requirement", r)),
                              Link("tests", tid, NodeId("requirement", r))>>
        OfBin(b) == <<Link("covers", tid, NodeId("coverage_bin", b))>>
    IN <<Upsert(tid, "full")>> \o ForEach(t.requirements, OfRequirement)
       \o ForEach(t.bins, OfBin)

TestPlanRows(plan) ==
    ForEach(plan.requirements, PlannedRows) \o ForEach(plan.tests, TestRows)

\* import_coverage_summary: a bin is a hole when its hits are below its goal.
BinRows(b) ==
    LET bid == NodeId("coverage_bin", b.id) IN
    <<Upsert(bid, IF b.hits < b.goal THEN "hole" ELSE "full")>>
    \o When(b.module # "", <<Link("coverage_of", bid, NodeId("module", b.module))>>)
    \o When(b.interface # "",
            <<Link("coverage_of", bid, InterfaceId(b.module, b.interface))>>)

CoverageRows(bins) == ForEach(bins, BinRows)

\* import_run_ledger: regressions and what failed in them, whatever its status.
RunRows(run) ==
    LET rid == NodeId("regression", run.id)
        OfFailure(f) ==
            LET fid == NodeId("failure", f.id)
                OfInterface(q) ==
                    <<Link("affects_interface", fid, InterfaceId(q[1], q[2]))>>
            IN <<Upsert(fid, f.status), Link("produced", rid, fid)>>
               \o When(f.assertion # "",
                   <<Link("failure_of", fid, NodeId("assertion", f.assertion))>>)
               \o When(f.test # "",
                   <<Link("failure_of", fid, NodeId("test", f.test))>>)
               \o ForEach(f.interfaces, OfInterface)
               \o When(f.waiver # "",
                   <<Upsert(NodeId("waiver", f.waiver), "full"),
                     Link("waives", NodeId("waiver", f.waiver), fid)>>)
               \o When(f.bug # "",
                   <<Upsert(NodeId("bug", f.bug), "full"),
                     Link("filed_as", fid, NodeId("bug", f.bug))>>)
    IN <<Upsert(rid, "full")>> \o ForEach(run.failures, OfFailure)

LedgerRows(runs) == ForEach(runs, RunRows)

\* import_evidence: claims and the benchmarks that support them.
ClaimRows(c) ==
    LET cid == NodeId("evidence_claim", c.id)
        OfBenchmark(b) == <<Upsert(NodeId("benchmark", b), "full"),
                            Link("supported_by", cid, NodeId("benchmark", b))>>
    IN <<Upsert(cid, "full")>> \o ForEach(c.benchmarks, OfBenchmark)

EvidenceRows(claims) == ForEach(claims, ClaimRows)

\* IMPORTERS: the rows of a file at a version.
Rows(fv) ==
    LET a == Artifact[fv[1]][fv[2]] IN
    CASE a.kind = "rtl"       -> RtlRows(a.content)
      [] a.kind = "sva"       -> SvaRows(a.content)
      [] a.kind = "testplan"  -> TestPlanRows(a.content)
      [] a.kind = "coverage"  -> CoverageRows(a.content)
      [] a.kind = "runledger" -> LedgerRows(a.content)
      [] a.kind = "evidence"  -> EvidenceRows(a.content)

-----------------------------------------------------------------------------
(***************************************************************************)
(* Import commands.                                                        *)
(***************************************************************************)

GraphInit ==
    /\ db = <<>> /\ lock = Nobody /\ tx = <<>>
    /\ version = [f \in Files |-> 1] /\ latest = [f \in Files |-> 0]
    /\ file = [p \in Importers |-> NoImport] /\ todo = [p \in Importers |-> <<>>]
    /\ imported = {}

\* Another tool writes its artifact anew.
ChangeArtifact(f) ==
    /\ version[f] < Len(Artifact[f])
    /\ Cardinality({g \in Files : version[g] > 1}) < MaxChanges
    /\ version' = [version EXCEPT ![f] = @ + 1]
    /\ UNCHANGED <<db, lock, tx, file, todo, imported, latest>>

\* The file is read once, before the write lock is asked for.
StartImport(p) ==
    /\ file[p] = NoImport
    /\ \E f \in Files :
          /\ file' = [file EXCEPT ![p] = <<f, version[f]>>]
          /\ todo' = [todo EXCEPT ![p] = Rows(<<f, version[f]>>)]
    /\ UNCHANGED <<db, lock, tx, version, imported, latest>>

\* The table after a row: INSERT OR REPLACE, or nothing for a stub of a node that
\* the transaction can see.
WithRow(table, row, source) ==
    IF ~row.always /\ row.id \in DOMAIN table THEN table
    ELSE [id \in DOMAIN table \cup {row.id} |->
             IF id = row.id THEN [attrs |-> row.attrs, source |-> source]
             ELSE table[id]]

\* The first row opens the transaction and takes the write lock.
WriteRow(p) ==
    /\ todo[p] # <<>> /\ lock \in {Nobody, p}
    /\ lock' = p
    /\ tx' = WithRow(IF lock = p THEN tx ELSE db, Head(todo[p]), file[p])
    /\ todo' = [todo EXCEPT ![p] = Tail(@)]
    /\ UNCHANGED <<db, version, file, imported, latest>>

\* What an importer that has ended leaves.
EndImport(p) ==
    /\ file' = [file EXCEPT ![p] = NoImport]
    /\ todo' = [todo EXCEPT ![p] = <<>>]
    /\ IF lock = p THEN lock' = Nobody /\ tx' = <<>> ELSE UNCHANGED <<lock, tx>>

\* One commit, after the last row.
CommitImport(p) ==
    /\ file[p] # NoImport /\ todo[p] = <<>>
    /\ db' = IF lock = p THEN tx ELSE db
    /\ imported' = imported \cup {file[p]}
    /\ latest' = [latest EXCEPT ![file[p][1]] = file[p][2]]
    /\ EndImport(p) /\ UNCHANGED version

\* Mutation: what was written so far is committed when an import fails.
AbortImportCommitting(p) ==
    /\ file[p] # NoImport
    /\ db' = IF lock = p THEN tx ELSE db
    /\ EndImport(p) /\ UNCHANGED <<version, imported, latest>>

\* The process dies, the artifact is malformed further on, or the lock does not
\* come free in time: SQLite rolls back what was not committed.
AbortImport(p) ==
    /\ file[p] # NoImport
    /\ EndImport(p) /\ UNCHANGED <<db, version, imported, latest>>

GraphNext ==
    \/ \E p \in Importers :
          StartImport(p) \/ WriteRow(p) \/ CommitImport(p) \/ AbortImport(p)
    \/ \E f \in Files : ChangeArtifact(f)

GraphSpec == GraphInit /\ [][GraphNext]_graphVars

-----------------------------------------------------------------------------
(***************************************************************************)
(* Queries over the committed graph.                                       *)
(***************************************************************************)

NodesOf(type) == {id \in DOMAIN db : id[1] = type}

InEdges(dst, type) ==
    {id \in DOMAIN db : id[1] = "edge" /\ id[2] = type /\ id[4] = dst}
OutEdges(src, type) ==
    {id \in DOMAIN db : id[1] = "edge" /\ id[2] = type /\ id[3] = src}

RequirementsWithoutAssertions ==
    {id \in NodesOf("requirement") : InEdges(id, "asserts") = {}}

CoverageHolesWithoutTest ==
    {id \in NodesOf("coverage_bin") :
        db[id].attrs = "hole" /\ InEdges(id, "covers") = {}}

PropertiesDependingOnReset(reset) ==
    LET target == NodeId("reset_domain", reset) IN
    IF target \notin DOMAIN db THEN {}
    ELSE {e[3] : e \in InEdges(target, "depends_on_reset")} \cap NodesOf("assertion")

\* By qualified name; the status of a failure is not looked at.
FailuresAffectingInterface(mod, name) ==
    LET target == InterfaceId(mod, name) IN
    IF target \notin DOMAIN db THEN {}
    ELSE {e[3] : e \in InEdges(target, "affects_interface")} \cap NodesOf("failure")

EvidenceClaimsWithoutBenchmark ==
    {id \in NodesOf("evidence_claim") : OutEdges(id, "supported_by") = {}}

-----------------------------------------------------------------------------
(***************************************************************************)
(* Properties                                                              *)
(***************************************************************************)

\* "Imports are idempotent": the graph is that of the versions whose import has
\* committed, each as a whole, whatever their order and repetition, whatever ran
\* at the same time and whatever failed.  A node that some file describes has
\* that description, of the version committed last if it is still there; one that
\* is only referred to is a stub.
GraphOfImports ==
    LET Written(fv, id) == {r \in ToSet(Rows(fv)) : r.id = id}
        Describes(fv, id) == \E r \in Written(fv, id) : r.always
        Newest(fv, id) == fv[2] = latest[fv[1]] \/ ~Describes(<<fv[1], latest[fv[1]]>>, id)
    IN  /\ DOMAIN db = UNION {{r.id : r \in ToSet(Rows(fv))} : fv \in imported}
        /\ \A id \in DOMAIN db : \E fv \in imported : \E r \in Written(fv, id) :
              /\ db[id] = [attrs |-> r.attrs, source |-> fv]
              /\ IF r.always THEN Newest(fv, id) ELSE \A gv \in imported : ~Describes(gv, id)

\* The elements of the imported artifacts of a kind, in every version.
ImportedOf(kind) ==
    UNION {ToSet(Artifact[fv[1]][fv[2]].content) :
              fv \in {gv \in imported : Artifact[gv[1]][gv[2]].kind = kind}}
TestPlans == {Artifact[fv[1]][fv[2]].content :
                 fv \in {gv \in imported : Artifact[gv[1]][gv[2]].kind = "testplan"}}
PlannedTests == UNION {ToSet(plan.tests) : plan \in TestPlans}

BinsOf(fv) ==
    LET a == Artifact[fv[1]][fv[2]] IN IF a.kind = "coverage" THEN ToSet(a.content) ELSE {}

\* A bin counts as the version of its file says that was committed last and has it.
ImportedBins ==
    UNION {{b \in BinsOf(fv) : \/ fv[2] = latest[fv[1]]
                               \/ \A c \in BinsOf(<<fv[1], latest[fv[1]]>>) : c.id # b.id} : fv \in imported}

\* The queries answer what the imported artifacts say, whichever came first: gaps
\* are gaps, and neither modules with interfaces of one name nor links to things
\* not yet imported confuse them.  What an older version of an artifact asserted or
\* covered still counts: nothing is ever taken out.  Of a bin that is told twice, any of
\* what is told may count.  No FAIL of an interface is missed; that nothing else is
\* returned for it is OnlyFailuresReturned, which does not hold.
QueriesAnswer ==
    LET properties == ImportedOf("sva")
        bins       == ImportedBins
        failures   == UNION {ToSet(run.failures) : run \in ImportedOf("runledger")}
        claims     == ImportedOf("evidence")
        asserted   == UNION {ToSet(p.requirements) : p \in properties}
        mentioned  == asserted \cup (UNION {ToSet(plan.requirements) : plan \in TestPlans})
                      \cup UNION {ToSet(t.requirements) : t \in PlannedTests}
        covered    == UNION {ToSet(t.bins) : t \in PlannedTests}
    IN  /\ RequirementsWithoutAssertions =
             {NodeId("requirement", r) : r \in mentioned \ asserted}
        /\ \A n \in CoverageHolesWithoutTest :
             \E b \in bins : n = NodeId("coverage_bin", b.id) /\ b.hits < b.goal /\ b.id \notin covered
        /\ \A b \in bins :
             b.id \notin covered /\ (\A c \in bins : c.id = b.id => c.hits < c.goal) =>
                NodeId("coverage_bin", b.id) \in CoverageHolesWithoutTest
        /\ EvidenceClaimsWithoutBenchmark =
             {NodeId("evidence_claim", c.id) :
                c \in {d \in claims : \A e \in claims : e.id = d.id => e.benchmarks = <<>>}}
        /\ \A m \in ImportedOf("rtl") :
             /\ \A i \in ToSet(m.interfaces) :
                  LET answer  == FailuresAffectingInterface(m.name, i)
                      hitting == {g \in failures :
                                     \E q \in ToSet(g.interfaces) : q[1] = m.name /\ q[2] = i}
                  IN  /\ {NodeId("failure", f.id) : f \in {g \in hitting : g.status = "FAIL"}} \subseteq answer
                      /\ answer \subseteq {NodeId("failure", f.id) : f \in hitting}
             /\ \A r \in ToSet(m.resets) :
                  PropertiesDependingOnReset(r) =
                    {NodeId("assertion", p.id) :
                       p \in {q \in properties : r \in ToSet(q.resets)}}

\* Both: what the graph holds, and what its queries make of it.  The committed rows change
\* only in the step that frees the lock.
GraphSound == lock = Nobody => GraphOfImports /\ QueriesAnswer

\* "Only FAIL-status failure nodes with an AFFECTS_INTERFACE edge to a matching interface
\* are returned": a TIMEOUT or an UNKNOWN of the regression is no failure of an interface.
OnlyFailuresReturned ==
    lock = Nobody =>
        \A m \in ImportedOf("rtl") : \A i \in ToSet(m.interfaces) :
            \A n \in FailuresAffectingInterface(m.name, i) : db[n].attrs = "FAIL"

=============================================================================
