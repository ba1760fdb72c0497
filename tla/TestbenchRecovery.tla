--------------------------- MODULE TestbenchRecovery ---------------------------
(***************************************************************************)
(* testbench-recovery-agent (tb-recover): a checkout is walked in the      *)
(* order of its paths, an extractor for each kind of file finds commands   *)
(* with the lines they stand on, equal commands are merged, and one of     *)
(* them is recommended as a smoke test.                                    *)
(*                                                                         *)
(* A text is the set of its words; references to variables that are not    *)
(* expanded are kept apart.  A line of a file is a record of what the      *)
(* extractor's patterns find in it, in "is".  Variables are not defined by *)
(* themselves.                                                             *)
(***************************************************************************)
EXTENDS OnePass, Integers, FiniteSetsExt, SequencesExt, TLC

CONSTANTS
    Checkouts,          \* [above, files, disk, python] to inspect
    HdlNames,           \* the words that end like an HDL source
    FilelistNames,      \* the words that end in .f
    OddTargets          \* the target names with a leading dot, a % or a $

\* recover.py routes a file by its name, its suffix and its directory.
KindOf(f) ==
    IF f.base = "makefile" \/ f.suffix = ".mk" THEN "makefile"
    ELSE IF f.suffix = ".sh" THEN "shell"
    ELSE IF f.suffix = ".f" THEN "filelist"
    ELSE IF f.dir = ".github/workflows" /\ f.suffix = ".yml" THEN "ci"
    ELSE IF f.suffix = ".md" /\ f.base \in {"readme", "building", "install", "usage"} THEN "readme"
    ELSE "none"

\* Paths tell files apart, and names are not empty; a target is not named make, since a text
\* is the set of its words.
ASSUME RecoveryAssumption ==
    \A x \in Checkouts :
        /\ x.files \in Seq(Range(x.files))
        /\ \A i, j \in DOMAIN x.files : x.files[i].path = x.files[j].path => i = j
        /\ \A f \in Range(x.files) :
              /\ f.lines \in Seq(Range(f.lines)) /\ f.run \in Seq(Range(f.run)) /\ f.path # ""
              /\ \A s \in Range(f.run) : s.job # ""
              /\ KindOf(f) = "makefile" => \A l \in Range(f.lines) : l.is = "rule" =>
                    /\ l.targets \in Seq(Range(l.targets)) /\ l.targets # <<>>
                    /\ Range(l.targets) \cap {"", "make"} = {}

------------------------------------------------------------------------------
(* What words say: extractors/base.py *)

KnownTools == [verilator |-> "verilator", iverilog |-> "icarus-verilog", vvp |-> "icarus-verilog",
               sby |-> "symbiyosys", make |-> "make", python |-> "python", pytest |-> "pytest"]
Simulators == {"verilator", "icarus-verilog"}

ToolsIn(words) == {KnownTools[w] : w \in words \cap DOMAIN KnownTools}

\* The groups of keywords in the order they are tried.
PhaseWords ==
    <<<<"clean", {"clean", "distclean"}>>,
      <<"setup", {"apt-get", "install", "setup", "venv"}>>,
      <<"analyze", {"lint", "coverage", "waveform", "trace", "report", "cover"}>>,
      <<"elaborate", {"elaborate", "elab"}>>,
      <<"run", {"run", "simulate", "sim", "test", "vvp", "sby"}>>,
      <<"build", {"build", "compile", "verilator", "iverilog"}>>>>

\* The first group that has a word of the text or the name of its target.
ClassifyPhase(words, target) ==
    LET hay == words \cup {target}
        group == {i \in DOMAIN PhaseWords : hay \cap PhaseWords[i][2] # {}}
    IN  IF {"rm", "-rf"} \subseteq hay THEN "clean"
        ELSE IF group = {} THEN "unknown" ELSE PhaseWords[Min(group)][1]

IsDestructive(words) ==
    \/ "rm" \in words /\ words \cap {"-r", "-rf", "-f", "-fr"} # {}
    \/ {"git", "clean"} \subseteq words
    \/ "make" \in words /\ words \cap {"clean", "distclean"} # {}

\* What follows "pip install" or "apt-get install", without flags.
Packages(words, manager) ==
    IF {manager, "install"} \subseteq words
    THEN words \ {"pip", "apt-get", "install", "-y", "-r", "-e"} ELSE {}
DependenciesOf(words) ==
    {[name |-> p, manager |-> "pip"] : p \in Packages(words, "pip")}
    \cup {[name |-> p, manager |-> "apt"] : p \in Packages(words, "apt-get")}

------------------------------------------------------------------------------
(* Evidence and commands *)

At(f, i) == [file |-> f.path, dir |-> f.dir, line |-> i, kind |-> KindOf(f)]

\* A text found somewhere, with the label its phase is judged by.
Command(text, label, target, evidence) ==
    [text |-> text, target |-> target, phase |-> ClassifyPhase(text.words, label),
     provenance |-> "extracted", evidence |-> evidence, destructive |-> IsDestructive(text.words)]

LinesOf(f) == [i \in DOMAIN f.lines |-> i]
Plain(words) == [words |-> words, refs |-> {}]

\* A text with the values of the variables it names, as deep as they go.
ExpandFully(text, vars) ==
    LET known == DOMAIN vars
        reach[n \in 0..10] ==
            IF n = 0 THEN text.refs
            ELSE reach[n - 1] \cup UNION {vars[v].refs : v \in reach[n - 1] \cap known}
    IN  [words |-> text.words \cup UNION {vars[v].words : v \in reach[10] \cap known},
         refs |-> reach[10] \ known]

\* One replacement of the variables that are set; their values were expanded when set.
ExpandOnce(text, vars) ==
    [words |-> text.words \cup UNION {vars[v].words : v \in text.refs \cap DOMAIN vars},
     refs |-> (text.refs \ DOMAIN vars) \cup UNION {vars[v].refs : v \in text.refs \cap DOMAIN vars}]

------------------------------------------------------------------------------
(* Makefiles *)

\* All assignments of the file, before any recipe is looked at: each but += replaces the
\* value, ?= too.
MakeVariables(f) ==
    FoldLeft(LAMBDA vars, l :
        IF l.is # "assign" THEN vars
        ELSE IF l.op = "+=" /\ l.name \in DOMAIN vars
        THEN [vars EXCEPT ![l.name] = [words |-> @.words \cup l.text.words,
                                       refs |-> @.refs \cup l.text.refs]]
        ELSE (l.name :> l.text) @@ vars, <<>>, f.lines)

\* A recipe belongs to the first target of the last rule above it.
TargetAt(f, i) ==
    LET rules == {j \in 1..(i - 1) : f.lines[j].is = "rule"}
    IN  IF rules = {} THEN "" ELSE f.lines[Max(rules)].targets[1]

IsRecipe(f, i) == f.lines[i].is = "recipe" /\ TargetAt(f, i) # ""

RecipeText(f, i) == ExpandFully(f.lines[i].text, MakeVariables(f))

RecipeCommands(f) ==
    LET lines == Picked(LinesOf(f), {i \in DOMAIN f.lines : IsRecipe(f, i)})
    IN  [k \in DOMAIN lines |->
            Command(RecipeText(f, lines[k]), TargetAt(f, lines[k]), TargetAt(f, lines[k]),
                    <<At(f, lines[k])>>)]

\* Each target of each rule with its line.
SeenTargets(f) ==
    LET rules == Picked(LinesOf(f), {i \in DOMAIN f.lines : f.lines[i].is = "rule"})
    IN  FlattenSeq([k \in DOMAIN rules |->
            LET ts == f.lines[rules[k]].targets
            IN  [n \in DOMAIN ts |-> [name |-> ts[n], line |-> rules[k]]]])

\* "make <target>", judged by the recipes of the target in this file.
MakeCommand(f, s) ==
    LET own == {c \in Range(RecipeCommands(f)) : c.target = s.name}
    IN  [Command(Plain({"make", s.name}), s.name, s.name, <<At(f, s.line)>>) EXCEPT
            !.phase = ClassifyPhase(UNION {c.text.words : c \in own}, s.name),
            !.destructive = \E c \in own : c.destructive]

MakeCommands(f) ==
    LET all == SeenTargets(f)
        seen == Picked(all, {k \in DOMAIN all : all[k].name \notin OddTargets})
    IN  [k \in DOMAIN seen |-> MakeCommand(f, seen[k])]

\* The sources a target names, in its recipes or, for the first of a rule, behind the colon.
SourcesOfTarget(f, t) ==
    LET rules == {i \in DOMAIN f.lines : f.lines[i].is = "rule" /\ f.lines[i].targets[1] = t}
        recipes == {i \in DOMAIN f.lines : IsRecipe(f, i) /\ TargetAt(f, i) = t}
    IN  ((UNION {ExpandFully(f.lines[i].prereqs, MakeVariables(f)).words : i \in rules})
         \cup UNION {RecipeText(f, i).words : i \in recipes}) \cap (HdlNames \cup FilelistNames)

MakeMap(f) ==
    LET all == SeenTargets(f)
        seen == Picked(all, {k \in DOMAIN all : SourcesOfTarget(f, all[k].name) # {}})
        First(t) == Min({s.line : s \in {u \in Range(all) : u.name = t}})
    IN  [k \in DOMAIN seen |-> [target |-> seen[k].name, sources |-> SourcesOfTarget(f, seen[k].name),
                                evidence |-> <<At(f, First(seen[k].name))>>]]

NothingFrom == [commands |-> <<>>, dependencies |-> {}, tools |-> {}, map |-> <<>>, issues |-> {}]

\* A command is a sign of the tools it names.
ToolSigns(commands) == UNION {{<<t, c.evidence[1]>> : t \in ToolsIn(c.text.words)} : c \in Range(commands)}

ExtractMakefile(f) ==
    [NothingFrom EXCEPT
        !.commands = RecipeCommands(f) \o MakeCommands(f),
        !.tools = ToolSigns(RecipeCommands(f)),
        !.map = MakeMap(f),
        !.issues = {<<"info", "include", At(f, i)>> : i \in {j \in DOMAIN f.lines : f.lines[j].is = "include"}}]

------------------------------------------------------------------------------
(* Shell scripts, file lists, READMEs *)

ShellVariables(f, i) ==
    FoldLeft(LAMBDA vars, l : IF l.is = "assign" THEN (l.name :> ExpandOnce(l.text, vars)) @@ vars ELSE vars,
             <<>>, SubSeq(f.lines, 1, i - 1))

ShellText(f, i) == ExpandOnce(f.lines[i].text, ShellVariables(f, i))

\* Only lines that name a known tool or install something are commands.
Interesting(words) == ToolsIn(words) # {} \/ DependenciesOf(words) # {}

ExtractShell(f) ==
    LET plain == {i \in DOMAIN f.lines : f.lines[i].is # "assign"}
        lines == Picked(LinesOf(f), {i \in plain : Interesting(ShellText(f, i).words)})
        commands == [k \in DOMAIN lines |-> Command(ShellText(f, lines[k]), "", f.path, <<At(f, lines[k])>>)]
    IN  [NothingFrom EXCEPT
            !.commands = commands, !.tools = ToolSigns(commands),
            !.dependencies = UNION {DependenciesOf(ShellText(f, i).words) : i \in plain}]

\* One entry for the whole list; its evidence is the last line that gave a source.
ExtractFilelist(f) ==
    LET found(i) == f.lines[i].words \cap (HdlNames \cup FilelistNames)
        giving == {i \in DOMAIN f.lines : found(i) # {}}
    IN  IF giving = {}
        THEN [NothingFrom EXCEPT !.issues = {<<"info", "empty filelist", At(f, 1)>>}]
        ELSE [NothingFrom EXCEPT
                !.map = <<[target |-> f.path, sources |-> UNION {found(i) : i \in giving},
                           evidence |-> <<At(f, Max(giving))>>]>>]

\* Fences pair up in the order they come; the odd ones open.
FencesAbove(f, i) == {j \in 1..(i - 1) : f.lines[j].is = "fence"}
InShellFence(f, i) ==
    Cardinality(FencesAbove(f, i)) % 2 = 1 /\ f.lines[Max(FencesAbove(f, i))].shell

CommandLike(l) == l.first \in DOMAIN KnownTools \cup {"git", "cd", "bash", "./run"}

ExtractReadme(f) ==
    LET Candidate(i) == /\ f.lines[i].is = "text" /\ CommandLike(f.lines[i])
                        /\ InShellFence(f, i) \/ f.lines[i].prompt
        lines == Picked(LinesOf(f), {i \in DOMAIN f.lines : Candidate(i)})
        commands == [k \in DOMAIN lines |-> Command(f.lines[lines[k]].text, "", f.path, <<At(f, lines[k])>>)]
    IN  [NothingFrom EXCEPT !.commands = commands, !.tools = ToolSigns(commands)]

------------------------------------------------------------------------------
(* CI workflows: f.lines are the raw lines, f.run the commands under their run: keys, which *)
(* are found only when all of the file is YAML: f.parses                                    *)

\* The first line at or after the one behind the cursor that has the text in it, else
\* that one.
FindLine(f, words, cursor) ==
    LET hits == {i \in (cursor + 1)..Len(f.lines) : words \subseteq f.lines[i]}
    IN  IF hits = {} THEN cursor + 1 ELSE Min(hits)

\* The line of each command: the search goes on behind the last hit.
RunLines(f) ==
    LET line[k \in 0..Len(f.run)] ==
            IF k = 0 THEN 0 ELSE FindLine(f, f.run[k].words, line[k - 1])
    IN  [k \in DOMAIN f.run |-> line[k]]

FullyTemplated(words) == words \subseteq {"${{}}"}

ReadWorkflow(f) ==
    LET lines == RunLines(f)
        templated == {k \in DOMAIN f.run : FullyTemplated(f.run[k].words)}
        kept == Picked([k \in DOMAIN f.run |-> k], DOMAIN f.run \ templated)
        commands == [n \in DOMAIN kept |->
            Command(Plain(f.run[kept[n]].words), f.run[kept[n]].job, f.path, <<At(f, lines[kept[n]])>>)]
    IN  [NothingFrom EXCEPT
            !.commands = commands,
            !.tools = ToolSigns(commands) \cup {<<"python", At(f, FindLine(f, {u}, 0))>> : u \in f.uses},
            !.dependencies = UNION {DependenciesOf(f.run[k].words) : k \in DOMAIN f.run},
            !.issues = {<<"info", "templated", At(f, lines[k])>> : k \in templated}]

ExtractCi(f) ==
    IF f.parses THEN ReadWorkflow(f)
    ELSE [NothingFrom EXCEPT !.issues = {<<"warning", "not YAML", At(f, 1)>>}]

------------------------------------------------------------------------------
(* recover.py: walking, merging, guessing *)

SkipDirs == {".git", "build", "dist", "venv"}

\* Directories above the checkout count too.
Inspected(x) ==
    LET skipped(f) == (x.above \cup {f.dir}) \cap SkipDirs # {}
    IN  Picked(x.files, {i \in DOMAIN x.files : /\ ~skipped(x.files[i])
                                               /\ KindOf(x.files[i]) # "none" /\ x.files[i].readable})

Extract(f) ==
    CASE KindOf(f) = "makefile" -> ExtractMakefile(f)
      [] KindOf(f) = "shell"    -> ExtractShell(f)
      [] KindOf(f) = "ci"       -> ExtractCi(f)
      [] KindOf(f) = "filelist" -> ExtractFilelist(f)
      [] KindOf(f) = "readme"   -> ExtractReadme(f)

Distinct(list) == Picked(list, {i \in DOMAIN list : \A j \in 1 .. (i - 1) : list[j] # list[i]})

\* Before it is merged with others, a find has one piece of evidence.
Evidences(finds) == Distinct([i \in DOMAIN finds |-> finds[i].evidence[1]])

Equal(c, d) == c.text = d.text /\ c.provenance = d.provenance

EqualTo(commands, c) == Picked(commands, {i \in DOMAIN commands : Equal(commands[i], c)})

\* Mutation: what is known of the last of equal commands stays.
DedupLatest(commands) ==
    LET Same(c) == EqualTo(commands, c)
    IN  {[Last(Same(c)) EXCEPT !.evidence = Evidences(Same(c))] : c \in Range(commands)}

\* Of equal texts the first stays, with the evidence of all.
DedupCommands(commands) ==
    LET Same(c) == EqualTo(commands, c)
    IN  {[Head(Same(c)) EXCEPT !.evidence = Evidences(Same(c))] : c \in Range(commands)}

DedupTools(signs) ==
    {[name |-> t, evidence |-> {s[2] : s \in {u \in signs : u[1] = t}}] : t \in {s[1] : s \in signs}}

MergeTargetSource(map) ==
    LET Same(m) == Picked(map, {i \in DOMAIN map : map[i].target = m.target})
    IN  {[target |-> m.target, sources |-> UNION {n.sources : n \in Range(Same(m))},
          evidence |-> Evidences(Same(m))] : m \in Range(map)}

Hypothesis(words, phase) ==
    [text |-> Plain(words), target |-> "", phase |-> phase, provenance |-> "hypothesis",
     evidence |-> <<>>, destructive |-> FALSE]

\* A text with make among several words starts with it.
IsMake(c) == "make" \in c.text.words /\ c.text.words # {"make"}

GuessedCommands(x, commands, dependencies) ==
    (IF /\ \E c \in commands : \E e \in Range(c.evidence) : e.kind = "makefile"
        /\ ~\E c \in commands : c.target # "" /\ IsMake(c)
       THEN {Hypothesis({"make"}, "build")} ELSE {})
    \cup (IF x.python /\ ~\E d \in dependencies : d.manager = "pip"
            THEN {Hypothesis({"pip", "install", "-e", "."}, "setup")} ELSE {})

\* A source is looked for under the root and beside the first file of its target.
UnresolvedSources(x, map) ==
    LET Missing(m, s) == {<<"", s>>, <<m.evidence[1].dir, s>>} \cap x.disk = {}
    IN  UNION {{<<"warning", "missing source", <<m.target, s>>>> :
                    s \in {s \in m.sources : Missing(m, s)}} : m \in map}

PhasePref == [run |-> 0, build |-> 1, elaborate |-> 2, analyze |-> 3, unknown |-> 5]

SourcePref(c) ==
    LET kinds == {e.kind : e \in Range(c.evidence)}
    IN  IF "ci" \in kinds THEN 0 ELSE IF "makefile" \in kinds THEN 1
        ELSE IF "shell" \in kinds THEN 2 ELSE 3

Viable(commands) ==
    {c \in commands : c.provenance = "extracted" /\ ~c.destructive /\ c.phase \notin {"clean", "setup"}}

\* The best by phase, by source and by whether it is a make; the text decides between these.
SelectSmokeTest(commands) ==
    LET Key(c) == 100 * PhasePref[c.phase] + 10 * SourcePref(c) + (IF IsMake(c) THEN 0 ELSE 1)
    IN  {c \in Viable(commands) : \A d \in Viable(commands) : Key(c) <= Key(d)}

\* What the files give, one after the other, put together.
Merged(x, parts) ==
    LET found == DedupCommands(FlattenSeq([i \in DOMAIN parts |-> parts[i].commands]))
        dependencies == UNION {p.dependencies : p \in Range(parts)}
        tools == DedupTools(UNION {p.tools : p \in Range(parts)})
        map == MergeTargetSource(FlattenSeq([i \in DOMAIN parts |-> parts[i].map]))
        simulators == {t.name : t \in tools} \cap Simulators
        commands == found \cup GuessedCommands(x, found, dependencies)
    IN  [inspected |-> Inspected(x), commands |-> commands, dependencies |-> dependencies, tools |-> tools,
         map |-> map, smoke |-> SelectSmokeTest(commands),
         issues |-> (UNION {p.issues : p \in Range(parts)}) \cup UnresolvedSources(x, map)
             \cup (IF simulators # {} /\ \A c \in found : c.phase # "run"
                     THEN {<<"warning", "no run command", simulators>>} ELSE {})]

RecoverReport(x) ==
    LET files == Inspected(x) IN Merged(x, [i \in DOMAIN files |-> Extract(files[i])])

RecoveryInit == \E x \in Checkouts : Called("tb-recover", x)

Recover == Computing("tb-recover") /\ Reports(RecoverReport(input))

RecoverySpec == RecoveryInit /\ [][Recover]_passVars

------------------------------------------------------------------------------
(* Properties *)

Found(r) == {c \in r.commands : c.provenance = "extracted"}

\* The commands of a workflow stand on its lines in the order YAML gives them: true of
\* blocks that are not folded.
Verbatim(f) ==
    \E line \in [DOMAIN f.run -> DOMAIN f.lines] :
        /\ \A k \in DOMAIN f.run : f.run[k].words \subseteq f.lines[line[k]]
        /\ \A k, n \in DOMAIN f.run : k < n => line[k] < line[n]

\* What is shown as extracted has lines to show for it, and in a workflow that is written
\* out the command is on each of these lines, of which there are as many as the workflow
\* runs it, also where it comes twice or within another text.  A hypothesis has none.
EvidenceShows(r) ==
    \A c \in r.commands :
        /\ c.provenance = "extracted" <=> c.evidence # <<>>
        /\ \A f \in Range(r.inspected) :
              LET shown == {e.line : e \in {e \in Range(c.evidence) : e.file = f.path}}
              IN  KindOf(f) = "ci" /\ shown # {} /\ Verbatim(f) =>
                    /\ \A i \in shown : c.text.words \subseteq f.lines[i]
                    /\ Cardinality(shown) = Cardinality({k \in DOMAIN f.run : f.run[k].words = c.text.words})

\* Every command of a workflow and every recipe of a rule is accounted for, by a command that
\* has its text or its line or by an issue, one issue for all of a workflow that is not YAML.
NothingDropped(r) ==
    \A f \in Range(r.inspected) :
        /\ KindOf(f) = "ci" /\ f.parses => \A k \in DOMAIN f.run :
              \/ \E c \in Found(r) : c.text.words = f.run[k].words
              \/ /\ FullyTemplated(f.run[k].words)
                 /\ <<"info", "templated", At(f, RunLines(f)[k])>> \in r.issues
        /\ KindOf(f) = "ci" /\ ~f.parses => <<"warning", "not YAML", At(f, 1)>> \in r.issues
        /\ KindOf(f) = "makefile" => \A i \in DOMAIN f.lines :
              IsRecipe(f, i) => \E c \in Found(r) : At(f, i) \in Range(c.evidence)

\* A recipe line of the named target, of the Makefile that has the rule a "make" command is
\* first evidenced by.
Runs(r, c, words) ==
    \E f \in Range(r.inspected) : \E i \in DOMAIN f.lines :
        /\ c.evidence[1].kind = "makefile" /\ f.path = c.evidence[1].file
        /\ f.lines[c.evidence[1].line].is = "rule"
        /\ IsRecipe(f, i) /\ c.text = Plain({"make", TargetAt(f, i)})
        /\ words \subseteq RecipeText(f, i).words

\* The smoke test is a command of the repository that does not delete by its text; a "make"
\* that is first known from a rule does not delete by the recipes of that Makefile either,
\* after expansion of all the variables.  Of a "make" that a workflow, a script or a README
\* names first no recipe is looked at.  A command that runs the design is not passed over for
\* one that builds it.
SmokeTestSafe(r) ==
    \A c \in r.smoke :
        /\ c \in Found(r)
        /\ ~IsDestructive(c.text.words)
        /\ \A words \in {{"rm", "-rf"}, {"git", "clean"}} : ~Runs(r, c, words)
        /\ c.phase # "run" => \A d \in Found(r) : d.phase = "run" => d.destructive

\* "make" is guessed only where no target can be named, and no package is guessed where
\* one was found.
GuessesNeeded(x, r) ==
    \A c \in r.commands \ Found(r) :
        IF c.text.words = {"make"}
        THEN \A f \in Range(r.inspected) :
                KindOf(f) = "makefile" => \A s \in Range(SeenTargets(f)) : s.name \in OddTargets
        ELSE x.python /\ \A d \in r.dependencies : d.manager # "pip"

\* A source that is neither under the root nor beside a file of its target is reported; one
\* that is there is not, if the target is known from one directory only.
MissingReported(x, r) ==
    \A m \in r.map : \A s \in m.sources :
        LET dirs == {e.dir : e \in Range(m.evidence)}
            there == <<"", s>> \in x.disk \/ \E d \in dirs : <<d, s>> \in x.disk
            told == <<"warning", "missing source", <<m.target, s>>>> \in r.issues
        IN  (~there => told) /\ (there /\ Cardinality(dirs) = 1 => ~told)

\* tb-recover: the commands a reader is shown are in the repository and complete, guesses are
\* kept apart, sources that are missing are named, and the smoke test is chosen as said above.
RecoverySound ==
    Reported("tb-recover") =>
        /\ EvidenceShows(Report) /\ NothingDropped(Report) /\ SmokeTestSafe(Report)
        /\ GuessesNeeded(input, Report) /\ MissingReported(input, Report)

\* What CLAIM-6 of EVIDENCE.md says: the smoke test is non-destructive.  No recipe that the
\* Makefile of the root has for it deletes.
SmokeTestDeletesNothing ==
    Reported("tb-recover") =>
        \A c \in Report.smoke : \A f \in Range(Report.inspected) :
            KindOf(f) = "makefile" /\ f.dir = "" =>
                \A i \in DOMAIN f.lines :
                    IsRecipe(f, i) /\ c.text = Plain({"make", TargetAt(f, i)}) =>
                        ~IsDestructive(RecipeText(f, i).words)

=============================================================================
