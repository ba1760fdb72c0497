---------------------------- MODULE ConeOfInfluence ----------------------------
(***************************************************************************)
(* The graph core and analyzer of formal-flow-scout: from the signals of a *)
(* property the cone of influence, its strongly connected components and   *)
(* the cuts of the candidate partitions.  An edge leads from a signal to   *)
(* one of its drivers.  The graph is what the builder made of some design, *)
(* here any graph at all.                                                  *)
(***************************************************************************)
EXTENDS Integers, FiniteSets, Sequences, SequencesExt

CONSTANTS
    N,           \* the number of nodes, whose ids are 0 .. N - 1
    Designs,     \* the graphs: [node id pairs -> set of edge kinds]
    NodeKinds,   \* the assignments of kinds to nodes
    Modules,     \* the assignments of modules to nodes
    PropertySpecs  \* the properties: sets of signals

Nodes == 0 .. N - 1

\* The analyzer treats COMB, SEQ and HIER edges alike, and CLOCK and RESET; of
\* the kinds of nodes it asks in a cut only for CLOCK and RESET.
EdgeKind  == {"data", "control"}
DataKinds == {"data"}
NodeKind  == {"data", "control"}

\* A property names a signal: the node of exactly that name, if there is one,
\* and the nodes whose hierarchical name ends with it.
PropertySignal == [exact : {S \in SUBSET Nodes : Cardinality(S) <= 1},
                   suffix : SUBSET Nodes]

ASSUME ConeAssumption ==
    /\ N \in Nat
    /\ Designs \subseteq [Nodes \X Nodes -> SUBSET EdgeKind]
    /\ NodeKinds \subseteq [Nodes -> NodeKind]
    /\ PropertySpecs \subseteq SUBSET PropertySignal

VARIABLES
    kinds,       \* per pair of nodes the kinds of its edges
    nodeKind, moduleOf,
    seeds,       \* seed_node_ids
    cone,        \* visited: the cone so far
    frontier,    \* the stack of the traversal
    phase,       \* "cone", "components" or "done"
    index, low,  \* indices and lowlink, NotSeen for a node that has none
    counter,     \* index_counter
    work,        \* the explicit search stack: [node, next neighbour]
    sccStack,    \* scc_stack; on_stack is the set of its elements
    components   \* the result of tarjan_scc

designVars == <<kinds, nodeKind, moduleOf, seeds>>
tarjanVars == <<index, low, counter, work, sccStack, components>>
coneVars   == <<designVars, cone, frontier, phase, tarjanVars>>

NotSeen == -1

\* The drivers of a node over edges of the given kinds.
Drivers(v, via) == {w \in Nodes : kinds[<<v, w>>] \cap via # {}}

\* A name that ends the names of two nodes stays unresolved.
Resolve(sig) ==
    IF sig.exact # {} THEN sig.exact
    ELSE IF Cardinality(sig.suffix) = 1 THEN sig.suffix ELSE {}

ConeInit ==
    /\ kinds \in Designs /\ nodeKind \in NodeKinds /\ moduleOf \in Modules
    /\ \E signals \in PropertySpecs : seeds = UNION {Resolve(s) : s \in signals}
    /\ cone = seeds /\ frontier = seeds
    /\ phase = "cone"
    /\ index = [v \in Nodes |-> NotSeen] /\ low = [v \in Nodes |-> NotSeen]
    /\ counter = 0 /\ work = <<>> /\ sccStack = <<>> /\ components = {}

-----------------------------------------------------------------------------
(***************************************************************************)
(* backward_coi, as the analyzer calls it: every kind of edge is followed. *)
(***************************************************************************)

\* Mutation: control edges are left out of the cone.
ExpandData ==
    /\ phase = "cone"
    /\ \E v \in frontier :
          LET new == Drivers(v, DataKinds) \ cone IN
          /\ cone' = cone \cup new
          /\ frontier' = (frontier \ {v}) \cup new
    /\ UNCHANGED <<designVars, phase, tarjanVars>>

\* One node comes off the stack and its unvisited drivers go on it.  The code
\* takes the last one pushed; here it is any.
Expand ==
    /\ phase = "cone"
    /\ \E v \in frontier :
          LET new == Drivers(v, EdgeKind) \ cone IN
          /\ cone' = cone \cup new
          /\ frontier' = (frontier \ {v}) \cup new
    /\ UNCHANGED <<designVars, phase, tarjanVars>>

ConeDone ==
    /\ phase = "cone" /\ frontier = {}
    /\ phase' = "components"
    /\ UNCHANGED <<designVars, cone, frontier, tarjanVars>>

-----------------------------------------------------------------------------
(***************************************************************************)
(* tarjan_scc on the cone, over data edges, with its explicit stack.       *)
(***************************************************************************)

OnStack == ToSet(sccStack)

Ascending(S) ==
    [n \in 1 .. Cardinality(S) |->
        CHOOSE w \in S : Cardinality({u \in S : u < w}) = n - 1]

\* neigh_cache: the drivers of a node inside the cone, in the order of ids.
Neighbours(v) == Ascending(Drivers(v, DataKinds) \cap cone)

Top == Last(work)

Searching == phase = "components" /\ work # <<>>

\* The first look at a node gives it its index and puts it on both stacks.
Visit(v, below) ==
    /\ index' = [index EXCEPT ![v] = counter]
    /\ low' = [low EXCEPT ![v] = counter]
    /\ counter' = counter + 1
    /\ sccStack' = Append(sccStack, v)
    /\ work' = Append(below, [node |-> v, next |-> 1])
    /\ UNCHANGED <<designVars, cone, frontier, phase, components>>

\* The outer loop takes up the least node of the cone that has no index.
NextRoot ==
    /\ phase = "components" /\ work = <<>>
    /\ \E v \in cone :
          /\ index[v] = NotSeen
          /\ \A u \in cone : index[u] = NotSeen => v <= u
          /\ Visit(v, <<>>)

\* The top node has another neighbour to look at.
Looking == Searching /\ Top.next <= Len(Neighbours(Top.node))
Looked  == [work EXCEPT ![Len(work)].next = @ + 1]
Seen    == Neighbours(Top.node)[Top.next]

Descend == Looking /\ index[Seen] = NotSeen /\ Visit(Seen, Looked)

\* Mutation: a node whose component is complete is still looked at.
LookAtIndexedOffStack ==
    /\ Looking /\ index[Seen] # NotSeen
    /\ work' = Looked
    /\ low' = IF index[Seen] < low[Top.node]
              THEN [low EXCEPT ![Top.node] = index[Seen]] ELSE low
    /\ UNCHANGED <<designVars, cone, frontier, phase, index, counter, sccStack,
                   components>>

LookAtIndexed ==
    /\ Looking /\ index[Seen] # NotSeen
    /\ work' = Looked
    /\ low' = IF Seen \in OnStack /\ index[Seen] < low[Top.node]
              THEN [low EXCEPT ![Top.node] = index[Seen]] ELSE low
    /\ UNCHANGED <<designVars, cone, frontier, phase, index, counter, sccStack,
                   components>>

\* What is left of scc_stack when it has been popped down to v, and what came off.
PositionOf(v) == CHOOSE i \in DOMAIN sccStack : sccStack[i] = v
Below(v) == SubSeq(sccStack, 1, PositionOf(v) - 1)
Popped(v) == ToSet(sccStack) \ ToSet(Below(v))

\* All neighbours seen: the parent takes over the lowlink, and a node that is its
\* own lowlink closes a component.
FinishNode ==
    /\ Searching /\ Top.next > Len(Neighbours(Top.node))
    /\ work' = Front(work)
    /\ LET v == Top.node IN
       /\ low' = IF Front(work) # <<>> /\ low[v] < low[Last(Front(work)).node]
                 THEN [low EXCEPT ![Last(Front(work)).node] = low[v]] ELSE low
       /\ IF low[v] = index[v]
          THEN /\ components' = components \cup {Popped(v)}
               /\ sccStack' = Below(v)
          ELSE UNCHANGED <<components, sccStack>>
    /\ UNCHANGED <<designVars, cone, frontier, phase, index, counter>>

ComponentsDone ==
    /\ phase = "components" /\ work = <<>>
    /\ \A v \in cone : index[v] # NotSeen
    /\ phase' = "done"
    /\ UNCHANGED <<designVars, cone, frontier, tarjanVars>>

ConeNext ==
    \/ Expand \/ ConeDone
    \/ NextRoot \/ Descend \/ LookAtIndexed \/ FinishNode \/ ComponentsDone

ConeSpec == ConeInit /\ [][ConeNext]_coneVars

-----------------------------------------------------------------------------
(***************************************************************************)
(* Candidate partitions.                                                   *)
(***************************************************************************)

\* The cone grouped by the module that owns a node, if there are two or more.
HierarchyPartitions ==
    LET Owned(m) == {v \in cone : moduleOf[v] = m}
        owners == {moduleOf[v] : v \in cone}
    IN  IF Cardinality(owners) < 2 THEN {} ELSE {Owned(m) : m \in owners}

\* A feedback cluster is kept in one piece.
ComponentPartitions == {c \in components : Cardinality(c) > 1}

\* The drivers that a partition severs, each with an UNPROVEN assumption: those of
\* its members that are outside of it, clocks and resets left aside.
CutSignals(members) ==
    {w \in cone \ members :
        nodeKind[w] # "control" /\ \E v \in members : kinds[<<v, w>>] # {}}

-----------------------------------------------------------------------------
(***************************************************************************)
(* Properties                                                              *)
(***************************************************************************)

\* A set of nodes that has all drivers of its members.
Closed(S, via) == \A v \in S : Drivers(v, via) \subseteq S

\* "It never drops a real dependency": the cone is the least set that has the
\* seeds and every driver of its members, so that it misses no signal that can
\* affect a seed and excludes every other.
ConeExact ==
    phase # "cone" =>
        /\ seeds \subseteq cone /\ Closed(cone, EdgeKind)
        /\ \A S \in SUBSET Nodes :
              seeds \subseteq S /\ Closed(S, EdgeKind) => cone \subseteq S

\* v depends on w: w is in every closed set that v is in.
DependsOn(v, w) ==
    \A S \in SUBSET Nodes : v \in S /\ Closed(S, DataKinds) => w \in S

\* The components are the classes of mutual dependency in the cone.
ComponentsExact ==
    phase = "done" =>
        components = {{w \in cone : DependsOn(v, w) /\ DependsOn(w, v)} : v \in cone}

\* A partition around a feedback cluster splits no loop: no driver it severs depends on it.
ClustersWhole ==
    phase = "done" =>
        \A members \in ComponentPartitions :
            \A v \in members : \A w \in Drivers(v, DataKinds) \ members :
                \A u \in members : ~DependsOn(w, u)

\* A partition by module may split a loop.  Of every loop it splits, a signal on the other
\* side is among those it names with an UNPROVEN assumption, or is a clock or reset.
SplitLoopsNamed ==
    phase = "done" =>
        \A members \in HierarchyPartitions : \A c \in components :
            c \cap members # {} /\ c \ members # {} =>
                \E w \in c \ members : w \in CutSignals(members) \/ nodeKind[w] = "control"

\* The feedback loops are found whole, a partition around one keeps it whole, and a partition
\* by module names what it cuts of those it splits.
PartitionsSound == ComponentsExact /\ ClustersWhole /\ SplitLoopsNamed

=============================================================================
