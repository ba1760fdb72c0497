---------------------------- MODULE DependencyGraph ----------------------------
(***************************************************************************)
(* formal-flow-scout: from the text of a design, or from its manifest, to  *)
(* the graph in which ConeOfInfluence looks for cones.                     *)
(*                                                                         *)
(* A statement is what lies between two semicolons: the heads in front of  *)
(* it (a condition, a case, the label of an arm), its targets and the      *)
(* names it reads; "under" are the names that decide whether it runs.  A   *)
(* name that is no identifier, such as a concatenation taken for one       *)
(* signal, is a sequence of several names.  Optional values are sets of at *)
(* most one element.  No module is within itself.                          *)
(***************************************************************************)
EXTENDS OnePass, FiniteSets, SequencesExt

CONSTANTS
    ScoutDesigns,       \* [path, modules]: read as text or as manifest; the first is the top
    ScoutResets         \* the names that look like a reset

------------------------------------------------------------------------------
(* The parser *)

\* A condition goes up to the first closing bracket: one with brackets in it is read up to
\* there, and what is behind hides the statement.
Stripped(head) == head.is = "if" /\ ~head.inner

\* The heads that are not taken off the statement.
LeftOver(heads) ==
    LET stuck == {i \in DOMAIN heads : ~Stripped(heads[i])}
    IN  IF stuck = {} THEN <<>>
        ELSE SubSeq(heads, CHOOSE i \in stuck : \A j \in stuck : i <= j, Len(heads))

\* The conditions and cases of a block.
Conditions(body) == UNION {{h \in ToSet(s.heads) : h.is # "label"} : s \in ToSet(body)}

\* What is read of any of them guards all assignments of the block.
GuardSignals(body) == UNION {h.read : h \in Conditions(body)}

\* An assignment of one target; the name of a label is taken for the target.
ReadStatement(s, guards) ==
    LET left == LeftOver(s.heads)
        Assign(lhs) == {[lhs |-> <<lhs>>, rhs |-> s.rhs \cup guards]}
    IN  IF Len(s.targets) > 1 THEN {}
        ELSE IF left = <<>> THEN Assign(s.targets[1])
        ELSE IF Len(left) = 1 /\ left[1].is = "label" THEN Assign(left[1].name) ELSE {}

\* Of conditions with brackets in them, what stands behind the first that closes.
BehindBrackets(body) == UNION {h.behind : h \in Conditions(body)}

\* The first name right behind the bracket of an "if" that looks like a reset.
SyncReset(body) ==
    LET firsts == FlattenSeq([i \in DOMAIN body |->
                      FlattenSeq([k \in DOMAIN body[i].heads |->
                          IF body[i].heads[k].is = "if" THEN SetToSeq(body[i].heads[k].first) ELSE <<>>])])
        resets == SelectSeq(firsts, LAMBDA n : n \in ScoutResets)
    IN  IF resets = <<>> THEN {} ELSE {resets[1]}

\* Of the edges the first is the clock and the second the reset.
EdgeReset(p) == IF Len(p.edges) > 1 THEN {p.edges[2]} ELSE {}

ParseAlways(p) ==
    [sequential |-> p.edges # <<>>,
     clock |-> IF p.edges = <<>> THEN {} ELSE {p.edges[1]},
     reset |-> IF EdgeReset(p) # {} THEN EdgeReset(p) ELSE SyncReset(p.body),
     assigns |-> UNION {ReadStatement(s, GuardSignals(p.body)) : s \in ToSet(p.body)}]

\* The manifest has targets as they are written and no conditions with them.
FromManifest(p) ==
    LET Target(s) == IF s.heads # <<>> /\ Last(s.heads).is = "label" THEN <<Last(s.heads).name>> ELSE s.targets
    IN  [sequential |-> p.edges # <<>>,
         clock |-> IF p.edges = <<>> THEN {} ELSE {p.edges[1]},
         reset |-> EdgeReset(p),
         assigns |-> {[lhs |-> Target(s), rhs |-> s.rhs] : s \in ToSet(p.body)}]

\* A statement that goes over several lines, or a body that begins on a line of its own, is
\* said not to be understood; so is nothing that ReadStatement leaves out.
OverLines(x, item) == x.path = "rtl" /\ item.split

\* The beginning of the expression at a pin; what does not begin with a name stays a text.
BaseName(c) == IF c.plain THEN <<c.names[1]>> ELSE <<"{">> \o c.names

DefinedOnce(named) == \A a, b \in named : a.name = b.name => a = b

\* What decides whether a statement of a procedure runs is named in conditions of the procedure.
WellFormed(p) ==
    /\ p.edges \in Seq(ToSet(p.edges)) /\ p.body \in Seq(ToSet(p.body))
    /\ \A s \in ToSet(p.body) :
          /\ s.heads \in Seq(ToSet(s.heads)) /\ s.targets \in Seq(ToSet(s.targets))
          /\ s.under \subseteq GuardSignals(p.body) \cup BehindBrackets(p.body)

\* What the language guarantees: in its scope a name is given once, and a connection names
\* one port at most.
ScoutAssumption ==
    \A x \in ScoutDesigns :
        /\ x.modules \in Seq(ToSet(x.modules)) /\ x.modules # <<>> /\ DefinedOnce(ToSet(x.modules))
        /\ \A m \in ToSet(x.modules) :
              /\ m.items \in Seq(ToSet(m.items)) /\ DefinedOnce(m.ports)
              /\ DefinedOnce({i \in ToSet(m.items) : i.is = "instance"})
              /\ \A i \in ToSet(m.items) :
                    /\ i.is \in {"assign", "always", "instance"}
                    /\ i.is = "assign" => i.targets \in Seq(ToSet(i.targets))
                    /\ i.is = "always" => WellFormed(i)
                    /\ i.is = "instance" =>
                          \A c \in ToSet(i.connections) : \A f, g \in c.formal : f = g

ASSUME ScoutAssumption

------------------------------------------------------------------------------
(* The builder: a node is a name in a scope, an edge goes to what drives it. *)

Node(path, name) == [path |-> path, name |-> name]
EdgeTo(u, v, kind) == [src |-> u, dst |-> v, kind |-> kind]

Defined(x, name) == {m \in ToSet(x.modules) : m.name = name}

InstancesOf(x, m) == {i \in ToSet(m.items) : i.is = "instance" /\ ~OverLines(x, i)}

\* The instances of defined modules in some scopes.
ScopesWithin(x, scopes) ==
    UNION {UNION {{[path |-> Append(s.path, i.name), module |-> m] : m \in Defined(x, i.module)} :
                     i \in InstancesOf(x, s.module)} : s \in scopes}

\* Every instance of every defined module below the top is flattened.
Scopes(x) ==
    LET level[n \in 0 .. Len(x.modules)] ==
            IF n = 0 THEN {[path |-> <<>>, module |-> x.modules[1]]} ELSE ScopesWithin(x, level[n - 1])
    IN  UNION {level[n] : n \in 0 .. Len(x.modules)}

AssignEdges(path, item) ==
    {EdgeTo(Node(path, item.targets), Node(path, <<r>>), "comb") : r \in item.rhs}

\* Mutation: only a reset that is waited for is a dependency.
ProcedureEdgesAsync(path, p, edges) ==
    LET Targets == {Node(path, a.lhs) : a \in p.assigns}
        data == UNION {{EdgeTo(Node(path, a.lhs), Node(path, <<r>>), IF p.sequential THEN "seq" ELSE "comb") :
                            r \in a.rhs \ (p.clock \cup p.reset)} : a \in p.assigns}
        control == {EdgeTo(t, Node(path, <<c>>), "clock") : t \in Targets, c \in p.clock}
                   \cup {EdgeTo(t, Node(path, <<c>>), "reset") : t \in Targets, c \in p.reset \cap edges}
    IN  data \cup (IF p.sequential THEN {e \in control : e.src # e.dst} ELSE {})

\* Clock and reset have edges of their own, and only in a clocked procedure.
ProcedureEdges(path, p, edges) ==
    LET Targets == {Node(path, a.lhs) : a \in p.assigns}
        data == UNION {{EdgeTo(Node(path, a.lhs), Node(path, <<r>>), IF p.sequential THEN "seq" ELSE "comb") :
                            r \in a.rhs \ (p.clock \cup p.reset)} : a \in p.assigns}
        control == {EdgeTo(t, Node(path, <<c>>), "clock") : t \in Targets, c \in p.clock}
                   \cup {EdgeTo(t, Node(path, <<c>>), "reset") : t \in Targets, c \in p.reset}
    IN  data \cup (IF p.sequential THEN {e \in control : e.src # e.dst} ELSE {})

Direction(m, formal) ==
    LET dirs == {port.dir : port \in {port \in m.ports : port.name = formal}}
    IN  IF dirs = {} THEN "input" ELSE CHOOSE d \in dirs : TRUE

\* The outer signal depends on each pin of a module that is not there.
BlackboxEdges(path, i) ==
    {EdgeTo(Node(path, BaseName(c)), Node(Append(path, i.name), IF c.formal = {} THEN <<"pos">> ELSE SetToSeq(c.formal)), "hier") :
        c \in ToSet(i.connections)}

\* A connection without the name of its port is passed over.
WireInstance(path, i, child) ==
    UNION {{LET outer == Node(path, BaseName(c))
                inner == Node(Append(path, i.name), <<f>>)
            IN  IF Direction(child, f) = "output" THEN EdgeTo(outer, inner, "hier") ELSE EdgeTo(inner, outer, "hier") :
              f \in c.formal} : c \in ToSet(i.connections)}

InstanceEdges(x, path, i) ==
    IF Defined(x, i.module) = {} THEN BlackboxEdges(path, i)
    ELSE UNION {WireInstance(path, i, child) : child \in Defined(x, i.module)}

\* A body that begins on a line of its own leaves a procedure without assignments.
ItemEdges(x, path, item) ==
    IF OverLines(x, item) THEN {}
    ELSE IF item.is = "assign" THEN AssignEdges(path, item)
    ELSE IF item.is = "instance" THEN InstanceEdges(x, path, item)
    ELSE ProcedureEdges(path, IF x.path = "rtl" THEN ParseAlways(item) ELSE FromManifest(item), ToSet(item.edges))

BuildGraph(x) ==
    [edges |-> UNION {UNION {ItemEdges(x, s.path, i) : i \in ToSet(s.module.items)} : s \in Scopes(x)},
     unresolved |-> UNION {{<<m.name, k>> : k \in {k \in DOMAIN m.items : OverLines(x, m.items[k])}} :
                              m \in ToSet(x.modules)}]

ScoutInit == \E x \in ScoutDesigns : Called("flow-scout", x)

Scout == Computing("flow-scout") /\ Reports(BuildGraph(input))

ScoutSpec == ScoutInit /\ [][Scout]_passVars

------------------------------------------------------------------------------
(* Properties *)

\* What a reader of Verilog takes from a statement: each target depends on what is read, on
\* what decides whether the statement runs, and on the edges the procedure waits for.
Influences(p, s) == ToSet(s.targets) \X (s.rhs \cup s.under \cup ToSet(p.edges))

\* The statements the parser follows: one target, no case in front, no brackets in a condition.
Followed(x, s) ==
    /\ Len(s.targets) = 1
    /\ IF x.path = "rtl" THEN \A h \in ToSet(s.heads) : Stripped(h)
       ELSE s.heads = <<>> \/ Last(s.heads).is # "label"

\* What is missing even from these: what stands behind a bracket in the condition of a block
\* of several statements, an edge behind the second, and in a manifest the conditions; in a
\* block without a clock the name that looks like a reset, and in one with a clock that a
\* target is its own clock or reset.
Overlooked(x, p, s) ==
    LET read == s.rhs \cup (IF x.path = "rtl" THEN s.under \ BehindBrackets(p.body) ELSE {})
        sync == IF x.path = "rtl" THEN SyncReset(p.body) ELSE {}
    IN  (s.under \ (read \cup ToSet(p.edges)))
        \cup (ToSet(SubSeq(p.edges, 3, Len(p.edges))) \ read)
        \cup (IF p.edges = <<>> THEN sync ELSE ToSet(s.targets) \cap (ToSet(p.edges) \cup sync))

StatementsFollowed(x, path, p, edges) ==
    \A s \in ToSet(p.body) : Followed(x, s) =>
        \A dep \in Influences(p, s) :
            \/ dep[2] \in Overlooked(x, p, s)
            \/ \E e \in edges : e.src = Node(path, <<dep[1]>>) /\ e.dst = Node(path, <<dep[2]>>)

\* A port that is connected by name to one signal passes its value on, in its direction.
ConnectionsFollowed(x, path, i, edges) ==
    \A c \in ToSet(i.connections) : c.plain /\ Len(c.names) = 1 /\ c.formal # {} =>
        LET outer == Node(path, <<c.names[1]>>)
            inner == Node(Append(path, i.name), SetToSeq(c.formal))
            Joined(u, v) == \E e \in edges : e.src = u /\ e.dst = v
            dirs == {port.dir : port \in {port \in UNION {m.ports : m \in Defined(x, i.module)} :
                                              {port.name} = c.formal}}
        IN  /\ "input" \in dirs => Joined(inner, outer)
            /\ "output" \in dirs \/ Defined(x, i.module) = {} => Joined(outer, inner)
            /\ "inout" \in dirs => Joined(inner, outer) \/ Joined(outer, inner)

\* "The COI includes every signal that can structurally affect a property seed": of each
\* construct the parser follows no dependency is dropped, at any depth of the hierarchy, and
\* the pins of a module that is not there are free.
DependenciesKept ==
    Reported("flow-scout") =>
        /\ \A scope \in Scopes(input) : \A k \in DOMAIN scope.module.items :
              LET item == scope.module.items[k]
              IN  <<scope.module.name, k>> \notin Report.unresolved =>
                      CASE item.is = "assign" ->
                               \A t \in ToSet(item.targets), r \in item.rhs : Len(item.targets) = 1 =>
                                   \E e \in Report.edges : /\ e.src = Node(scope.path, <<t>>)
                                                           /\ e.dst = Node(scope.path, <<r>>)
                        [] item.is = "always" -> StatementsFollowed(input, scope.path, item, Report.edges)
                        [] item.is = "instance" -> ConnectionsFollowed(input, scope.path, item, Report.edges)
        /\ \A scope \in Scopes(input) : \A i \in InstancesOf(input, scope.module) :
              Defined(input, i.module) = {} =>
                  \A e \in Report.edges : e.src.path # Append(scope.path, i.name)

=============================================================================
