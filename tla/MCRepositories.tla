---------------------------- MODULE MCRepositories ----------------------------
(***************************************************************************)
(* Inputs for TLC of the tools that read a checkout.  For                  *)
(* testbench-recovery-agent: small Makefiles, workflows, scripts, lists    *)
(* and documents, combined.  For rtl-intent-ingestor: a pool of statements *)
(* in every order of two, under three forms of a header, and files with    *)
(* several modules.                                                        *)
(***************************************************************************)
EXTENDS TestbenchRecovery, RtlIntent, TLC

FileAt(path, dir, base, suffix, lines) ==
    [path |-> path, dir |-> dir, base |-> base, suffix |-> suffix, readable |-> TRUE,
     lines |-> lines, parses |-> TRUE, run |-> <<>>, uses |-> {}]

RuleLine(targets, prereqs) == [is |-> "rule", targets |-> targets, prereqs |-> Plain(prereqs)]
RecipeLine(words, refs)    == [is |-> "recipe", text |-> [words |-> words, refs |-> refs]]
AssignLine(name, op, words) == [is |-> "assign", name |-> name, op |-> op, text |-> Plain(words)]

MCHdlNames == {"top.sv", "tb.sv"}
MCFilelistNames == {"more.f"}
MCOddTargets == {".PHONY", "%.o"}

\* Ordinary; a variable set below its use; a rule with two targets; no ordinary target;
\* two rules for one target; a variable set three times.
Makefiles == {
    <<RuleLine(<<".PHONY">>, {"build", "run"}), RuleLine(<<"build">>, {"top.sv", "tb.sv"}),
      RecipeLine({"verilator", "top.sv"}, {}), RuleLine(<<"run">>, {}), RecipeLine({"vvp", "a.out"}, {}),
      RuleLine(<<"clean">>, {}), RecipeLine({"rm", "-rf", "obj"}, {})>>,
    <<RuleLine(<<"wipe">>, {}), RecipeLine({"obj"}, {"RM"}), AssignLine("RM", "=", {"rm", "-rf"})>>,
    <<RuleLine(<<"sim", "wipe">>, {"tb.sv"}), RecipeLine({"rm", "-rf", "obj"}, {}),
      RuleLine(<<"lint">>, {}), RecipeLine({"verilator", "lint"}, {})>>,
    <<RecipeLine({"vvp"}, {}), RuleLine(<<"%.o">>, {}), RecipeLine({"iverilog", "top.sv"}, {"FLAGS"})>>,
    <<[is |-> "include"], RuleLine(<<"run">>, {}), RecipeLine({"vvp"}, {}),
      RuleLine(<<"run">>, {}), RecipeLine({"git", "clean"}, {})>>,
    <<AssignLine("SIM", "=", {"iverilog"}), AssignLine("SIM", "?=", {"verilator"}),
      AssignLine("SIM", "+=", {"more.f"}), RuleLine(<<"build">>, {}), RecipeLine({}, {"SIM"})>>}

\* In a directory of its own: targets of the same names, one that a recipe before its rule
\* makes.
SubMakefiles == {
    <<RuleLine(<<"again">>, {}), RecipeLine({"make", "run"}, {}),
      RuleLine(<<"run">>, {"tb.sv"}), RecipeLine({"rm", "-rf", "obj"}, {})>>,
    <<RuleLine(<<"wipe">>, {}), RecipeLine({"vvp"}, {})>>}

Step(job, words) == [job |-> job, words |-> words]

\* Raw lines and the commands in them: a step named like its command, a command within
\* another, repeated lines, an install, a templated step, a folded block, a file that is not YAML.
Workflows == {
    [lines |-> <<{"name", "make", "run"}, {"make", "run"}, {"make"}, {"make", "run"}>>,
     run |-> <<Step("ci", {"make", "run"}), Step("ci", {"make"}), Step("ci", {"make", "run"})>>],
    [lines |-> <<{"make", "wipe"}, {"setup-python"}, {"pip", "install", "-r", "pytest"}, {"${{}}"}>>,
     run |-> <<Step("test", {"make", "wipe"}), Step("test", {"pip", "install", "-r", "pytest"}),
               Step("test", {"${{}}"})>>],
    [lines |-> <<{"verilator"}, {"top.sv"}, {"make", "clean"}>>,
     run |-> <<Step("lint", {"verilator", "top.sv"}), Step("lint", {"make", "clean"})>>],
    [lines |-> <<{"\t"}, {"make", "run"}>>, run |-> <<Step("ci", {"make", "run"})>>]}

TextLine(first, words, prompt) == [is |-> "text", first |-> first, text |-> Plain(words), prompt |-> prompt]
Fence(shell) == [is |-> "fence", shell |-> shell]

Readmes == {
    <<Fence(TRUE), TextLine("make", {"make", "wipe"}, FALSE), Fence(TRUE),
      TextLine("make", {"make", "sim"}, FALSE)>>,
    <<TextLine("make", {"make"}, TRUE), Fence(FALSE), TextLine("python", {"python"}, FALSE),
      TextLine("vvp", {"vvp", "run"}, TRUE)>>}

Scripts == {
    <<[is |-> "assign", name |-> "TOOL", text |-> Plain({"verilator"})],
      [is |-> "assign", name |-> "ALL", text |-> [words |-> {"top.sv"}, refs |-> {"TOOL"}]],
      [is |-> "command", text |-> [words |-> {}, refs |-> {"ALL", "HOME"}]],
      [is |-> "command", text |-> Plain({"rm", "-rf", "obj"})]>>,
    <<[is |-> "command", text |-> Plain({"apt-get", "install", "-y", "iverilog"})],
      [is |-> "command", text |-> Plain({"rm", "-rf", "verilator"})]>>}

Lists == {<<[words |-> {"tb.sv"}], [words |-> {"-f", "more.f"}]>>, <<[words |-> {"+define"}]>>}

ACi(w) == [FileAt(".github/workflows/ci.yml", ".github/workflows", "ci", ".yml", w.lines) EXCEPT
              !.run = w.run, !.parses = {"\t"} \notin Range(w.lines),
              !.uses = IF {"setup-python"} \in Range(w.lines) THEN {"setup-python"} ELSE {}]
AMakefile(l) == FileAt("Makefile", "", "makefile", "", l)
AReadme(l)   == FileAt("README.md", "", "readme", ".md", l)
AScript(l)   == FileAt("build.sh", "", "build", ".sh", l)
ASubMakefile(l) == FileAt("sim/Makefile", "sim", "makefile", "", l)
AList(l)     == FileAt("sim/all.f", "sim", "all", ".f", l)

\* None or one of them.
Maybe(files) == {<<>>} \cup {<<f>> : f \in files}

Checkout(files, disk, python) == [above |-> {"home"}, files |-> files, disk |-> disk, python |-> python]

MCDisk == {<<"", "top.sv">>, <<"sim", "tb.sv">>}

MCCheckouts ==
    {Checkout(c \o m \o r \o s, MCDisk, TRUE) :
        c \in Maybe({ACi(w) : w \in Workflows}), m \in Maybe({AMakefile(l) : l \in Makefiles}),
        r \in Maybe({AReadme(l) : l \in Readmes}), s \in Maybe({ASubMakefile(l) : l \in SubMakefiles})}
    \cup {Checkout(m \o b \o l, d, p) :
        m \in Maybe({AMakefile(l) : l \in Makefiles}), b \in Maybe({AScript(l) : l \in Scripts}),
        l \in Maybe({AList(l) : l \in Lists}), d \in {{}, MCDisk}, p \in BOOLEAN}
    \cup {[Checkout(<<AMakefile(l)>>, {}, FALSE) EXCEPT !.above = {"home", "build"}] : l \in Makefiles}
    \cup {Checkout(<<FileAt("LICENSE", "", "license", "", <<>>),
                     [AMakefile(l) EXCEPT !.readable = FALSE], [AScript(<<>>) EXCEPT !.dir = "dist"]>>, {}, TRUE) :
            l \in Makefiles}

-----------------------------------------------------------------------------
(* Verilog files *)

MCNumerals == {"0", "1", "2", "3", "4", "7"}
MCClockHints == {"clk", "clk_rst"}
MCResetHints == {"rst", "rst_n", "clk_rst"}
MCLowHints == {"rst_n"}

\* A statement that means nothing unless said.
Statement(text) ==
    [text |-> text,
     means |-> [ports |-> {}, nets |-> {}, parameters |-> {}, assigns |-> {}, procedures |-> {},
                instances |-> {}, registers |-> {}]]
Net(name, kind, range, dimension) == [name |-> name, kind |-> kind, range |-> range, dimension |-> dimension]
Edge(signal, edge) == [signal |-> signal, edge |-> {edge}]
Set(lhs, nonblocking, rhs) == [lhs |-> <<lhs>>, nonblocking |-> nonblocking, rhs |-> rhs]
Procedure(kind, sensitivity, assigns, conditions) ==
    [kind |-> kind, sensitivity |-> sensitivity, assigns |-> assigns, conditions |-> conditions]
Of(formal, actual) == [formal |-> formal, actual |-> actual]

\* Clocked procedures: a block with a reset it waits for; an if and else without a block; a
\* reset it does not wait for, and part of a register; a clock named like a reset.
Clocked == {
    [Statement(<<"always", "@", "(", "posedge", "clk", "or", "negedge", "rst_n", ")", "begin",
                 "if", "(", "!", "rst_n", ")", "q", "<=", "0", ";",
                 "else", "begin", "q", "<=", "f", "(", "d", ",", "1", ")", ";", "end", "end">>) EXCEPT
        !.means.registers = {<<"q">>},
        !.means.procedures = {Procedure("always_ff", <<Edge("clk", "posedge"), Edge("rst_n", "negedge")>>,
            <<Set("q", TRUE, <<"0">>), Set("q", TRUE, <<"f", "(", "d", ",", "1", ")">>)>>, {"rst_n"})}],
    [Statement(<<"always_ff", "@", "(", "posedge", "clk", ")",
                 "if", "(", "rst", "&", "(", "d", ")", ")", "r", "<=", "0", ";", "else", "r", "<=", "d", ";">>) EXCEPT
        !.means.registers = {<<"r">>},
        !.means.procedures = {Procedure("always_ff", <<Edge("clk", "posedge")>>,
            <<Set("r", TRUE, <<"0">>), Set("r", TRUE, <<"d">>)>>, {"rst", "d"})}],
    [Statement(<<"always", "@", "(", "posedge", "clk_rst", ")", "begin", "v", "[", "1", "]", "<=", "d", ";",
                 "t", "=", "d", "<=", "1", ";", "end">>) EXCEPT
        !.means.registers = {<<"v">>},
        !.means.procedures = {Procedure("always_ff", <<Edge("clk_rst", "posedge")>>,
            <<[lhs |-> <<"v", "[", "1", "]">>, nonblocking |-> TRUE, rhs |-> <<"d">>],
              Set("t", FALSE, <<"d", "<=", "1">>)>>, {})}]}

\* Without a clock, and one whose branches are blocks that no block is around: it ends too
\* early.
Unclocked == {
    [Statement(<<"always", "@", "*", "y", "=", "d", ";">>) EXCEPT
        !.means.procedures = {Procedure("always_comb", <<>>, <<Set("y", FALSE, <<"d">>)>>, {})}],
    [Statement(<<"always", "@", "(", "a", "or", "d", ")", "for", "(", "i", "=", "0", ";", "i", "<=", "3", ";", ")",
                 "y", "=", "a", "&", "d", ";">>) EXCEPT
        !.means.procedures = {Procedure("always_comb",
            <<[signal |-> "a", edge |-> {}], [signal |-> "d", edge |-> {}]>>,
            <<Set("y", FALSE, <<"a", "&", "d">>)>>, {"i"})}],
    [Statement(<<"always", "@", "(", "posedge", "clk", ")", "if", "(", "rst", ")", "begin", "s", "<=", "0", ";",
                 "end", "else", "begin", "s", "<=", "d", ";", "end">>) EXCEPT
        !.means.registers = {<<"s">>}]}

Declarations == {
    [Statement(<<"reg", "[", "7", ":", "0", "]", "mem", "[", "0", ":", "3", "]", ",", "w", ";">>) EXCEPT
        !.means.nets = {Net("mem", "reg", {<<<<"7">>, <<"0">>>>}, {<<<<"0">>, <<"3">>>>}),
                        Net("w", "reg", {<<<<"7">>, <<"0">>>>}, {})}],
    [Statement(<<"wire", "x", "=", "{", "a", ",", "d", "}", ",", "z", ";">>) EXCEPT
        !.means.nets = {Net("x", "wire", {}, {}), Net("z", "wire", {}, {})}],
    [Statement(<<"assign", "y", "=", "f", "(", "a", ",", "d", ")", ",", "{", "c", ",", "e", "}", "=", "d", ";">>) EXCEPT
        !.means.assigns = {<<<<"y">>, <<"f", "(", "a", ",", "d", ")">>>>,
                           <<<<"{", "c", ",", "e", "}">>, <<"d">>>>}],
    [Statement(<<"localparam", "[", "1", ":", "0", "]", "A", "=", "1", ",", "B", "=", "(", "A", "+", "2", ")", ";">>) EXCEPT
        !.means.parameters = {Parameter("A", <<"1">>, TRUE), Parameter("B", <<"(", "A", "+", "2", ")">>, TRUE)}]}

InstanceOf(module, name, connections) == [module |-> module, name |-> name, connections |-> connections]
UseOf(module, name) ==
    [Statement(<<module, name, "(", "d", ",", "{", "a", ",", "x", "}", ")", ";">>) EXCEPT
        !.means.instances = {InstanceOf(module, name, <<Of({}, <<"d">>), Of({}, <<"{", "a", ",", "x", "}">>)>>)}]
Instances == {
    UseOf("foo", "u1"),
    [Statement(<<"foo", "#", "(", ".", "W", "(", "4", ")", ")", "u0", "[", "1", ":", "0", "]", "(",
                 ".", "a", "(", "f", "(", "d", ",", "1", ")", ")", ",", ".", "b", "(", ")", ")", ";">>) EXCEPT
        !.means.instances = {InstanceOf("foo", "u0",
            <<Of({"a"}, <<"f", "(", "d", ",", "1", ")">>), Of({"b"}, <<>>)>>)}]}

\* Not of the subset: the second ends too early and takes the beginning of what follows.
Opaque == {
    Statement(<<"generate", "if", "(", "W", ")", "assign", "k", "=", "d", ";", "endgenerate">>),
    Statement(<<"initial", "begin", "k", "=", "0", ";", "l", "=", "1", ";", "end">>),
    Statement(<<"function", "f", ";", "input", "a", ";", "f", "=", "a", ";", "endfunction">>),
    Statement(<<"integer", "i", ";">>), Statement(<<"end", ";">>)}

Pool == Clocked \cup Unclocked \cup Declarations \cup Instances \cup Opaque

\* The same ports in the header, in the body, and with parameters before them.
HeadPorts == {[name |-> "clk", dir |-> "input"], [name |-> "d", dir |-> "input"], [name |-> "q", dir |-> "output"]}
PortsInBody == [Statement(<<"input", "clk", ",", "d", ";", "output", "reg", "[", "3", ":", "0", "]", "q", ";">>) EXCEPT
    !.means.ports = {[name |-> "q", dir |-> "output", kind |-> {"reg"}, range |-> {<<<<"3">>, <<"0">>>>}]}]

Module(name, head, body) ==
    [name |-> name, head |-> <<"module", name>> \o head, ports |-> HeadPorts, body |-> body]
InHeader(name, body) ==
    Module(name, <<"(", "input", "wire", "clk", ",", "d", ",", "output", "reg", "[", "3", ":", "0", "]", "q", ")", ";">>, body)
InBody(name, body) ==
    Module(name, <<"(", "clk", ",", "d", ",", "q", ")", ";">>, <<PortsInBody>> \o body)
WithParameters(name, body) ==
    Module(name, <<"#", "(", "parameter", "W", "=", "(", "4", ")", ",", "parameter", "V", "=", "2", ")",
                   "(", "input", "clk", ",", "input", "d", ",", "output", "q", ")", ";">>, body)

File(name, modules) == [name |-> name, modules |-> modules]
Design(files, top) == [files |-> files, top |-> top]

OneModule == {Design(<<File("m.v", <<m>>)>>, {}) :
    m \in {InHeader("m", <<s, u>>) : s, u \in Pool} \cup {InBody("m", <<s, u>>) : s, u \in Pool}
          \cup {WithParameters("m", <<s, u, v>>) : s \in Opaque \cup Unclocked, u \in Pool, v \in Clocked \cup Instances}}

\* Two roots, a root and its child in either order, an instance of a module that is not
\* there, a cycle, a top that is asked for, two files of one name.
Child == InHeader("foo", <<>>)
Hierarchies ==
    {Design(<<File("a.v", <<InHeader("m", <<s>>), Child>>)>>, {}) : s \in Instances \cup Opaque}
    \cup {Design(<<File("a.v", <<Child>>), File("b.v", <<InHeader("m", <<s>>)>>)>>, {}) : s \in Instances \cup Declarations}
    \cup {Design(<<File("a.v", <<InHeader("foo", <<UseOf("m", "u2")>>)>>), File("b.v", <<InHeader("m", <<s>>)>>)>>, top) :
            s \in Instances, top \in {{}, {"m"}}}
    \cup {Design(<<File("a.v", <<InHeader("m", <<s>>)>>), File("b.v", <<Child>>), File("a.v", <<InHeader("n", <<u>>)>>)>>, {}) :
            s, u \in Instances}

MCRtlFiles == OneModule \cup Hierarchies

=============================================================================
