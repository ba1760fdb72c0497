---------------------------- MODULE DesignProofs ----------------------------
(***************************************************************************)
(* Proofs about the tools that read a design: the dependency graph of      *)
(* formal-flow-scout for any design and its cone of influence for any      *)
(* graph and any seeds, the resets of reset-intent-agent for any module,   *)
(* the synchronizers of cdc-rdc-triage-agent for any module,               *)
(* the review of security-property-agent for any requirements and any      *)
(* manifest, and the review of assertions for any file of them.            *)
(***************************************************************************)
EXTENDS ConeOfInfluence, ResetIntent, DomainCrossings, DependencyGraph, SecurityProperties,
        AssertionReview, DataLemmas

-----------------------------------------------------------------------------
(***************************************************************************)
(* The cone of influence                                                   *)
(***************************************************************************)

\* What holds while the traversal runs: it is within every closed set that has the
\* seeds, and a node whose drivers are not all in the cone is still on the stack.
ConeWithin ==
    \A S \in SUBSET Nodes :
        seeds \subseteq S /\ Closed(S, EdgeKind) => cone \subseteq S
PendingOnStack ==
    \A v \in cone \ frontier : Drivers(v, EdgeKind) \subseteq cone
StackDrained == phase # "cone" => frontier = {}

ConeInv ==
    /\ seeds \subseteq cone
    /\ frontier \subseteq cone
    /\ ConeWithin
    /\ PendingOnStack
    /\ StackDrained

\* The seeds alone satisfy it: none of them has left the stack.
LEMMA ConeInvInit == ConeInit => ConeInv
BY DEF ConeInit, ConeInv, ConeWithin, PendingOnStack, StackDrained

\* A step of backward_coi takes one node from the stack and adds its new drivers
\* to both the cone and the stack.
LEMMA ExpandKeepsConeInv == ConeInv /\ Expand => ConeInv'
<1> SUFFICES ASSUME ConeInv, Expand PROVE ConeInv'
  OBVIOUS
<1>1. PICK v \in frontier :
        LET new == Drivers(v, EdgeKind) \ cone IN
        /\ cone' = cone \cup new
        /\ frontier' = (frontier \ {v}) \cup new
  BY DEF Expand
<1> DEFINE new == Drivers(v, EdgeKind) \ cone
<1>2. cone' = cone \cup new /\ frontier' = (frontier \ {v}) \cup new
  BY <1>1
<1>3. kinds' = kinds /\ seeds' = seeds /\ phase' = phase /\ phase = "cone"
  BY DEF Expand, designVars
<1>4. \A u, via : Drivers(u, via)' = Drivers(u, via)
  BY <1>3 DEF Drivers
<1>5. v \in cone
  BY DEF ConeInv
<1> HIDE DEF new
<1>6. seeds' \subseteq cone' /\ frontier' \subseteq cone'
  BY <1>2, <1>3 DEF ConeInv
<1>7. ConeWithin'
  <2> SUFFICES ASSUME NEW S \in SUBSET Nodes, seeds \subseteq S,
                        \A u \in S : Drivers(u, EdgeKind) \subseteq S
                 PROVE  cone' \subseteq S
        BY <1>3, <1>4 DEF ConeWithin, Closed
  <2>1. cone \subseteq S
        BY DEF ConeInv, ConeWithin, Closed
  <2>2. Drivers(v, EdgeKind) \subseteq S
        BY <1>5, <2>1
  <2> QED BY <1>2, <2>1, <2>2 DEF new
<1>8. PendingOnStack'
  <2> SUFFICES ASSUME NEW u \in cone' \ frontier'
                 PROVE  Drivers(u, EdgeKind) \subseteq cone'
        BY <1>4 DEF PendingOnStack
  <2>1. CASE u = v
        BY <1>2, <2>1 DEF new
  <2>2. CASE u # v
        <3>1. u \in cone \ frontier
            BY <1>2, <2>2
        <3> QED BY <1>2, <3>1 DEF ConeInv, PendingOnStack
  <2> QED BY <2>1, <2>2
<1>9. StackDrained'
  BY <1>3 DEF StackDrained
<1> QED BY <1>6, <1>7, <1>8, <1>9 DEF ConeInv

\* The traversal is over when the stack is empty, and tarjan_scc only reads the
\* cone: no other step disturbs what holds.
LEMMA ConeInvStep == ConeInv /\ [ConeNext]_coneVars => ConeInv'
<1> SUFFICES ASSUME ConeInv, [ConeNext]_coneVars PROVE ConeInv'
  OBVIOUS
<1> USE DEF ConeInv, ConeWithin, PendingOnStack, StackDrained, Closed, Drivers
<1>1. CASE Expand
  BY <1>1, ExpandKeepsConeInv
<1>2. CASE ConeDone
  BY <1>2 DEF ConeDone, designVars
<1>3. CASE NextRoot
  BY <1>3 DEF NextRoot, Visit, designVars
<1>4. CASE Descend
  BY <1>4 DEF Descend, Visit, designVars
<1>5. CASE LookAtIndexed
  BY <1>5 DEF LookAtIndexed, designVars
<1>6. CASE FinishNode
  BY <1>6 DEF FinishNode, designVars
<1>7. CASE ComponentsDone
  BY <1>7 DEF ComponentsDone, designVars
<1>8. CASE UNCHANGED coneVars
  BY <1>8 DEF coneVars, designVars
<1> QED BY <1>1, <1>2, <1>3, <1>4, <1>5, <1>6, <1>7, <1>8 DEF ConeNext

\* The invariant of the traversal holds throughout.
THEOREM ConeInvariant == ConeSpec => []ConeInv
<1>1. ConeInit => ConeInv
  BY ConeInvInit
<1>2. ConeInv /\ [ConeNext]_coneVars => ConeInv'
  BY ConeInvStep
<1> QED BY <1>1, <1>2, PTL DEF ConeSpec

\* "It never drops a real dependency": for every graph and every property the cone
\* that backward_coi returns has the seeds and all that can affect them, and
\* nothing else.
THEOREM ConeExactAlways == ConeSpec => []ConeExact
<1>1. ConeInv => ConeExact
  BY DEF ConeInv, ConeWithin, PendingOnStack, StackDrained, ConeExact, Closed
<1> QED BY <1>1, ConeInvariant, PTL

-----------------------------------------------------------------------------
(***************************************************************************)
(* The components of the cone.  Some node of the path depends on each node *)
(* on the stack, and each node of the stack on some node of the path no    *)
(* further up: the stack is cut where no lowlink leads below, and what is  *)
(* cut off is a class of mutual dependency.                                *)
(***************************************************************************)

\* The nodes of the components made so far, the path of the search with the next
\* neighbour of each of its nodes, and the nodes that depend on v and v on them.
Members == UNION components
NodeAt(i) == work[i].node
NextAt(i) == work[i].next
Path == {NodeAt(i) : i \in DOMAIN work}
Class(v) == {w \in cone : DependsOn(v, w) /\ DependsOn(w, v)}

SearchTypes ==
    /\ kinds \in [Nodes \X Nodes -> SUBSET EdgeKind] /\ cone \subseteq Nodes
    /\ counter \in Nat
    /\ index \in [Nodes -> {NotSeen} \cup (0 .. counter - 1)]
    /\ low \in [Nodes -> Int]
    /\ work \in Seq([node : Nodes, next : Nat])
    /\ sccStack \in Seq(Nodes)

\* A node of the cone that has an index is on the stack or in a component.
StackApart ==
    /\ \A v \in Nodes : index[v] # NotSeen <=> v \in OnStack \cup Members
    /\ OnStack \cap Members = {} /\ OnStack \cup Members \subseteq cone
StackByIndex ==
    \A i, j \in DOMAIN sccStack : i < j => index[sccStack[i]] < index[sccStack[j]]

\* The path leads through neighbours, upwards in the stack.
PathHeld ==
    /\ \A i \in DOMAIN work :
          NodeAt(i) \in OnStack /\ NextAt(i) \in 1 .. Len(Neighbours(NodeAt(i))) + 1
    /\ \A i, j \in DOMAIN work : i < j => index[NodeAt(i)] < index[NodeAt(j)]
    /\ \A i \in DOMAIN work : i < Len(work) =>
          NextAt(i) > 1 /\ NodeAt(i + 1) = Neighbours(NodeAt(i))[NextAt(i) - 1]

\* What has been looked at has an index, all neighbours of a node off the path.
LookedAt ==
    /\ \A i \in DOMAIN work : \A j \in 1 .. NextAt(i) - 1 :
          index[Neighbours(NodeAt(i))[j]] # NotSeen
    /\ \A x \in OnStack \ Path : \A w \in Drivers(x, DataKinds) : index[w] # NotSeen

\* A node of the path depends on all above it, and each on one of the path below it.
PathReaches ==
    \A i \in DOMAIN work : \A x \in OnStack :
        index[NodeAt(i)] <= index[x] => DependsOn(NodeAt(i), x)
ReachesPath ==
    \A x \in OnStack : \E i \in DOMAIN work :
        index[NodeAt(i)] <= index[x] /\ DependsOn(x, NodeAt(i))

\* The lowlink of a node of the path is the index of a node that it depends on, and no
\* greater than that of a node on the stack that it, or a finished node above it and
\* below the next of the path, has among its neighbours.
LowReached ==
    \A i \in DOMAIN work :
        /\ low[NodeAt(i)] <= index[NodeAt(i)]
        /\ \E w \in OnStack : index[w] = low[NodeAt(i)] /\ DependsOn(NodeAt(i), w)
LowOfFinished ==
    \A i \in DOMAIN work : \A x \in OnStack \ Path :
        /\ index[NodeAt(i)] < index[x]
        /\ i < Len(work) => index[x] < index[NodeAt(i + 1)]
        => \A w \in Drivers(x, DataKinds) \cap OnStack : low[NodeAt(i)] <= index[w]
LowOfLookedAt ==
    \A i \in DOMAIN work : \A j \in 1 .. NextAt(i) - 1 :
        /\ i < Len(work) => j < NextAt(i) - 1
        /\ Neighbours(NodeAt(i))[j] \in OnStack
        => low[NodeAt(i)] <= index[Neighbours(NodeAt(i))[j]]

\* A component is a class of mutual dependency, and the drivers of one are in one.
MembersClassed ==
    /\ Closed(Members, DataKinds)
    /\ \A c \in components : c # {} /\ \A v \in c : c = Class(v)

NotBegun ==
    phase = "cone" =>
        /\ work = <<>> /\ sccStack = <<>> /\ components = {}
        /\ \A v \in Nodes : index[v] = NotSeen
AllSeen ==
    phase = "done" => work = <<>> /\ \A v \in cone : index[v] # NotSeen

SearchInv ==
    /\ SearchTypes /\ StackApart /\ StackByIndex /\ PathHeld /\ LookedAt
    /\ PathReaches /\ ReachesPath /\ LowReached /\ LowOfFinished /\ LowOfLookedAt
    /\ MembersClassed /\ NotBegun /\ AllSeen

\* The ranks of a set of numbers are all taken: it is listed, each of its elements once.
LEMMA AscendingElements ==
    ASSUME NEW S \in SUBSET Nat, IsFiniteSet(S)
    PROVE  Ascending(S) \in Seq(S) /\ Range(Ascending(S)) = S
<1> DEFINE R == {p \in S \X S : p[1] < p[2]}
<1>2. \A i, j \in S : <<i, j>> \in R <=> i < j
  OBVIOUS
<1> HIDE DEF R
<1>3. Orders(R, S)
  <2>1. \A i, j, k \in S : /\ i \in Nat /\ j \in Nat /\ k \in Nat
                           /\ ~ (i < i) /\ (i = j \/ i < j \/ j < i)
                           /\ (i < j /\ j < k => i < k)
    OBVIOUS
  <2>2. \A i \in S : <<i, i>> \notin R
    BY <1>2, <2>1
  <2>3. \A i, j \in S : i = j \/ <<i, j>> \in R \/ <<j, i>> \in R
    BY <1>2, <2>1
  <2>4. \A i, j, k \in S : <<i, j>> \in R /\ <<j, k>> \in R => <<i, k>> \in R
    BY <1>2, <2>1
  <2> QED  BY <2>2, <2>3, <2>4 DEF Orders
<1>4. Cardinality(S) \in Nat /\ \E at : Ranked(at, R, S)
  BY <1>3, RanksTaken
<1>5. PICK at : Ranked(at, R, S)
  BY <1>4
<1>6. \A i \in S : Predecessors(R, S, i) = {j \in S : j < i}
  BY <1>2 DEF Predecessors
<1>7. at \in [1 .. Cardinality(S) -> S]
  BY <1>5 DEF Ranked
<1>8. ASSUME NEW m \in 1 .. Cardinality(S)
      PROVE  at[m] = CHOOSE i \in S : Cardinality({j \in S : j < i}) = m - 1
  <2>1. at[m] = CHOOSE i \in S : Cardinality(Predecessors(R, S, i)) = m - 1
    BY <1>5, <1>7 DEF Ranked
  <2>2. \A i : (i \in S /\ Cardinality(Predecessors(R, S, i)) = m - 1)
               <=> (i \in S /\ Cardinality({j \in S : j < i}) = m - 1)
    BY <1>6
  <2> QED  BY <2>1, <2>2
<1>9. Ascending(S) = at
  <2>1. DOMAIN Ascending(S) = 1 .. Cardinality(S)
    BY DEF Ascending
  <2>2. \A m \in 1 .. Cardinality(S) : Ascending(S)[m] = at[m]
    BY <1>8 DEF Ascending
  <2>3. Ascending(S) = [m \in 1 .. Cardinality(S) |-> Ascending(S)[m]]
    BY DEF Ascending
  <2> QED  BY <1>7, <2>1, <2>2, <2>3
<1>10. at \in Seq(S)
  BY <1>4, <1>7
<1>11. Range(at) = S
  <2>1. DOMAIN at = 1 .. Cardinality(S) /\ \A m \in DOMAIN at : at[m] \in S
    BY <1>7
  <2>2. \A i \in S : \E m \in DOMAIN at : at[m] = i
    BY <1>5 DEF Ranked
  <2> QED  BY <2>1, <2>2 DEF Range
<1> QED  BY <1>9, <1>10, <1>11

\* A node depends on itself, on its drivers, and on all that these depend on; a set
\* that has all drivers of its members has all that these depend on.
LEMMA Dependence ==
    /\ \A v : DependsOn(v, v)
    /\ \A v, w : w \in Drivers(v, DataKinds) => DependsOn(v, w)
    /\ \A u, v, w : DependsOn(u, v) /\ DependsOn(v, w) => DependsOn(u, w)
    /\ \A S \in SUBSET Nodes : Closed(S, DataKinds) =>
          \A v, w : v \in S /\ DependsOn(v, w) => w \in S
BY DEF DependsOn, Closed

\* The neighbours of a node of the cone are its drivers.
LEMMA NeighboursAreDrivers ==
    ASSUME ConeAssumption, cone \subseteq Nodes, NEW v
    PROVE  /\ Neighbours(v) \in Seq(Nodes)
           /\ \A j \in 1 .. Len(Neighbours(v)) : Neighbours(v)[j] \in Drivers(v, DataKinds) \cap cone
           /\ \A w \in Drivers(v, DataKinds) \cap cone :
                 \E j \in 1 .. Len(Neighbours(v)) : Neighbours(v)[j] = w
<1> DEFINE S == Drivers(v, DataKinds) \cap cone
<1>1. S \in SUBSET Nat /\ S \in SUBSET Nodes /\ IsFiniteSet(S)
  <2>1. Nodes \subseteq Nat /\ IsFiniteSet(Nodes)
    <3>1. N - 1 \in Int
      BY DEF ConeAssumption
    <3> QED BY <3>1, FS_Interval DEF Nodes
  <2>2. S \in SUBSET Nodes
    BY DEF Drivers
  <2> QED  BY <2>1, <2>2, FS_Subset
<1> HIDE DEF S
<1>2. Neighbours(v) = Ascending(S)
  BY DEF Neighbours, S
<1>3. Ascending(S) \in Seq(S) /\ Range(Ascending(S)) = S
  BY <1>1, AscendingElements
<1>4. DOMAIN Ascending(S) = 1 .. Len(Ascending(S))
  BY <1>3
<1>5. \A j \in 1 .. Len(Ascending(S)) : Ascending(S)[j] \in S
  BY <1>3
<1>6. \A w \in S : \E j \in 1 .. Len(Ascending(S)) : Ascending(S)[j] = w
  BY <1>3, <1>4 DEF Range
<1>7. Ascending(S) \in Seq(Nodes)
  <2>1. Len(Ascending(S)) \in Nat /\ Ascending(S) \in [1 .. Len(Ascending(S)) -> S]
    BY <1>3
  <2>2. Ascending(S) \in [1 .. Len(Ascending(S)) -> Nodes]
    BY <1>1, <2>1
  <2> QED  BY <2>1, <2>2, SeqDef
<1> QED  BY <1>2, <1>5, <1>6, <1>7 DEF S

\* No step of the search changes the graph or the cone.
LEMMA GraphKept ==
    kinds' = kinds /\ cone' = cone =>
        /\ \A v, via : Drivers(v, via)' = Drivers(v, via)
        /\ \A v : Neighbours(v)' = Neighbours(v)
        /\ \A v, w : DependsOn(v, w)' = DependsOn(v, w)
        /\ \A v : Class(v)' = Class(v)
<1> SUFFICES ASSUME kinds' = kinds, cone' = cone
             PROVE  /\ \A v, via : Drivers(v, via)' = Drivers(v, via)
                    /\ \A v : Neighbours(v)' = Neighbours(v)
                    /\ \A v, w : DependsOn(v, w)' = DependsOn(v, w)
                    /\ \A v : Class(v)' = Class(v)
  OBVIOUS
<1>1. \A v, via : Drivers(v, via)' = Drivers(v, via)
  BY DEF Drivers
<1>2. \A v : Neighbours(v)' = Neighbours(v)
  BY <1>1 DEF Neighbours
<1>3. \A v, w : DependsOn(v, w)' = DependsOn(v, w)
  BY <1>1 DEF DependsOn, Closed
<1>4. \A v : Class(v)' = Class(v)
  BY <1>3 DEF Class
<1> QED  BY <1>1, <1>2, <1>3, <1>4

\* What the types of the two stacks say of their elements.
LEMMA StackElements ==
    ASSUME SearchTypes
    PROVE  /\ \A i \in 1 .. Len(sccStack) : sccStack[i] \in OnStack
           /\ \A x \in OnStack : \E i \in 1 .. Len(sccStack) : sccStack[i] = x
           /\ DOMAIN sccStack = 1 .. Len(sccStack) /\ Len(sccStack) \in Nat
           /\ DOMAIN work = 1 .. Len(work) /\ Len(work) \in Nat
           /\ OnStack \subseteq Nodes
           /\ \A i \in 1 .. Len(work) : NodeAt(i) \in Nodes /\ NextAt(i) \in Nat
<1>1. sccStack \in Seq(Nodes) /\ work \in Seq([node : Nodes, next : Nat])
  BY DEF SearchTypes
<1>2. DOMAIN sccStack = 1 .. Len(sccStack) /\ Len(sccStack) \in Nat
      /\ \A i \in 1 .. Len(sccStack) : sccStack[i] \in Nodes
  BY <1>1
<1>3. DOMAIN work = 1 .. Len(work) /\ Len(work) \in Nat
      /\ \A i \in 1 .. Len(work) : work[i] \in [node : Nodes, next : Nat]
  <2> DEFINE Frame == [node : Nodes, next : Nat]
  <2>1. work \in Seq(Frame)
    BY <1>1
  <2> HIDE DEF Frame
  <2>2. DOMAIN work = 1 .. Len(work) /\ Len(work) \in Nat
        /\ \A i \in 1 .. Len(work) : work[i] \in Frame
    BY <2>1
  <2> QED  BY <2>2 DEF Frame
<1>4. OnStack = {sccStack[i] : i \in DOMAIN sccStack}
  BY DEF OnStack, ToSet
<1> QED  BY <1>2, <1>3, <1>4 DEF NodeAt, NextAt

\* The first look at a node, which is a root or the next neighbour of the path's top;
\* k is the length of the path.
VisitOf(v, k) ==
    /\ v \in cone /\ index[v] = NotSeen /\ k = Len(work)
    /\ index' = [index EXCEPT ![v] = counter] /\ low' = [low EXCEPT ![v] = counter]
    /\ counter' = counter + 1
    /\ components' = components /\ kinds' = kinds /\ cone' = cone
    /\ phase' = phase /\ phase = "components"
    /\ sccStack' = Append(sccStack, v)
    /\ work' \in Seq([node : Nodes, next : Nat]) /\ Len(work') = k + 1
    /\ \A i \in 1 .. k :
          /\ NodeAt(i)' = NodeAt(i)
          /\ NextAt(i)' = IF i = k THEN NextAt(i) + 1 ELSE NextAt(i)
    /\ NodeAt(k + 1)' = v /\ NextAt(k + 1)' = 1
    /\ k > 0 => NextAt(k) <= Len(Neighbours(NodeAt(k))) /\ v = Neighbours(NodeAt(k))[NextAt(k)]
    /\ k = 0 => sccStack = <<>>

\* A root is looked at first when both stacks are empty.
LEMMA RootVisited ==
    ConeAssumption /\ SearchInv /\ NextRoot => \E v \in cone : \E k \in Nat : VisitOf(v, k)
<1> SUFFICES ASSUME ConeAssumption, SearchInv, NextRoot
             PROVE  \E v \in cone : \E k \in Nat : VisitOf(v, k)
  OBVIOUS
<1>1. PICK v \in cone : index[v] = NotSeen /\ Visit(v, <<>>)
  BY DEF NextRoot
<1>2. work = <<>> /\ phase = "components"
  BY DEF NextRoot
<1>3. SearchTypes /\ v \in Nodes
  BY DEF SearchInv, SearchTypes
<1>4. work' = <<[node |-> v, next |-> 1]>>
  BY <1>1 DEF Visit
<1>5. sccStack = <<>>
  <2>1. OnStack = {}
    BY <1>2 DEF SearchInv, ReachesPath
  <2>2. Len(sccStack) = 0 /\ sccStack \in Seq(Nodes)
    BY <1>3, <2>1, StackElements DEF SearchTypes
  <2> QED  BY <2>2
<1>6. Len(work') = 1 /\ work'[1] = [node |-> v, next |-> 1] /\ Len(work) = 0
      /\ work' \in Seq([node : Nodes, next : Nat])
  BY <1>2, <1>3, <1>4
<1>7. NodeAt(1)' = v /\ NextAt(1)' = 1
  BY <1>6 DEF NodeAt, NextAt
<1>8. NodeAt(0 + 1)' = v /\ NextAt(0 + 1)' = 1 /\ 1 = 0 + 1
  BY <1>7
<1>9. /\ index' = [index EXCEPT ![v] = counter] /\ low' = [low EXCEPT ![v] = counter]
      /\ counter' = counter + 1
      /\ components' = components /\ kinds' = kinds /\ cone' = cone
      /\ phase' = phase
      /\ sccStack' = Append(sccStack, v)
  BY <1>1 DEF Visit, designVars
<1>10. VisitOf(v, 0)
  BY <1>1, <1>2, <1>5, <1>6, <1>8, <1>9 DEF VisitOf
<1> QED  BY <1>10

\* The next neighbour of the path's top, and the path that has looked at it.
TopLooked(k) ==
    /\ k = Len(work) /\ k > 0 /\ Top.node = NodeAt(k)
    /\ NextAt(k) \in 1 .. Len(Neighbours(NodeAt(k)))
    /\ Seen = Neighbours(NodeAt(k))[NextAt(k)] /\ Seen \in cone
    /\ Looked \in Seq([node : Nodes, next : Nat]) /\ Len(Looked) = k
    /\ \A i \in 1 .. k :
          /\ Looked[i].node = NodeAt(i)
          /\ Looked[i].next = IF i = k THEN NextAt(i) + 1 ELSE NextAt(i)

\* The top of the path has a next neighbour, a node of the cone.
LEMMA TopIsLooked == ConeAssumption /\ SearchInv /\ Looking => \E k \in Nat : TopLooked(k)
<1> SUFFICES ASSUME ConeAssumption, SearchInv, Looking PROVE \E k \in Nat : TopLooked(k)
  OBVIOUS
<1> DEFINE Frame == [node : Nodes, next : Nat]
<1>1. work # <<>> /\ Top.next <= Len(Neighbours(Top.node))
  BY DEF Looking, Searching
<1>2. SearchTypes /\ work \in Seq(Frame)
  BY DEF SearchInv, SearchTypes
<1> HIDE DEF Frame
<1>3. PICK k \in Nat : k = Len(work)
  BY <1>2
<1>4. k > 0 /\ k \in DOMAIN work /\ DOMAIN work = 1 .. k /\ work[k] \in Frame
  BY <1>1, <1>2, <1>3
<1>5. Top.node = NodeAt(k) /\ Top.next = NextAt(k)
  BY <1>3 DEF Top, Last, NodeAt, NextAt
<1>6. NextAt(k) \in 1 .. Len(Neighbours(NodeAt(k))) /\ NodeAt(k) \in Nodes
  <2>1. NodeAt(k) \in Nodes /\ NextAt(k) \in Nat
    BY <1>2, <1>3, <1>4, StackElements
  <2>2. NextAt(k) \in 1 .. Len(Neighbours(NodeAt(k))) + 1
    BY <1>4 DEF SearchInv, PathHeld
  <2>3. Len(Neighbours(NodeAt(k))) \in Nat
    BY <1>2, NeighboursAreDrivers DEF SearchTypes
  <2> QED  BY <1>1, <1>5, <2>1, <2>2, <2>3
<1>7. Seen = Neighbours(NodeAt(k))[NextAt(k)] /\ Seen \in cone
  BY <1>2, <1>5, <1>6, NeighboursAreDrivers DEF Seen, SearchTypes
<1>8. PICK old : old = [work[k] EXCEPT !.next = @ + 1]
  OBVIOUS
<1>9. old \in Frame /\ old.node = work[k].node /\ old.next = work[k].next + 1
  <2>1. work[k] \in [node : Nodes, next : Nat]
    BY <1>4 DEF Frame
  <2> QED  BY <1>8, <2>1 DEF Frame
<1>10. Looked = [work EXCEPT ![k] = old]
  BY <1>3, <1>8 DEF Looked
<1>11. /\ Looked \in Seq(Frame) /\ Len(Looked) = k
       /\ \A i \in 1 .. k : Looked[i] = IF i = k THEN old ELSE work[i]
  BY <1>2, <1>3, <1>4, <1>9, <1>10
<1>12. \A i \in 1 .. k : Looked[i].node = NodeAt(i)
          /\ Looked[i].next = IF i = k THEN NextAt(i) + 1 ELSE NextAt(i)
  BY <1>9, <1>11 DEF NodeAt, NextAt
<1>13. TopLooked(k)
  BY <1>3, <1>4, <1>5, <1>6, <1>7, <1>11, <1>12 DEF TopLooked, Frame
<1> QED  BY <1>13

\* A neighbour that has no index is looked at first, above the node it was seen from.
LEMMA NeighbourVisited ==
    ConeAssumption /\ SearchInv /\ Descend => \E v \in cone : \E k \in Nat : VisitOf(v, k)
<1> SUFFICES ASSUME ConeAssumption, SearchInv, Descend
             PROVE  \E v \in cone : \E k \in Nat : VisitOf(v, k)
  OBVIOUS
<1>1. index[Seen] = NotSeen /\ Visit(Seen, Looked) /\ phase = "components" /\ Looking
  BY DEF Descend, Looking, Searching
<1>2. PICK k \in Nat : TopLooked(k)
  BY <1>1, TopIsLooked
<1>3. PICK v \in cone : v = Seen
  BY <1>2 DEF TopLooked
<1>4. PICK new : new = [node |-> v, next |-> 1]
  OBVIOUS
<1>5. v \in Nodes
  BY DEF SearchInv, SearchTypes
<1>6. work' = Append(Looked, new) /\ new \in [node : Nodes, next : Nat]
      /\ new.node = v /\ new.next = 1
  BY <1>1, <1>3, <1>4, <1>5 DEF Visit
<1>7. /\ work' \in Seq([node : Nodes, next : Nat]) /\ Len(work') = k + 1
      /\ work'[k + 1] = new /\ \A i \in 1 .. k : work'[i] = Looked[i]
  BY <1>2, <1>6 DEF TopLooked
<1>8. NodeAt(k + 1)' = v /\ NextAt(k + 1)' = 1
  BY <1>6, <1>7 DEF NodeAt, NextAt
<1>9. \A i \in 1 .. k : NodeAt(i)' = NodeAt(i)
          /\ NextAt(i)' = IF i = k THEN NextAt(i) + 1 ELSE NextAt(i)
  <2>1. \A i \in 1 .. k : work'[i].node = NodeAt(i)
            /\ work'[i].next = IF i = k THEN NextAt(i) + 1 ELSE NextAt(i)
    BY <1>2, <1>7 DEF TopLooked
  <2> QED  BY <2>1 DEF NodeAt, NextAt
<1>10. /\ index' = [index EXCEPT ![v] = counter] /\ low' = [low EXCEPT ![v] = counter]
       /\ counter' = counter + 1
       /\ components' = components /\ kinds' = kinds /\ cone' = cone
       /\ phase' = phase
       /\ sccStack' = Append(sccStack, v)
  BY <1>1, <1>3 DEF Visit, designVars
<1>11. /\ index[v] = NotSeen /\ k = Len(work) /\ k > 0
       /\ NextAt(k) <= Len(Neighbours(NodeAt(k))) /\ v = Neighbours(NodeAt(k))[NextAt(k)]
  <2>1. Len(Neighbours(NodeAt(k))) \in Nat
    BY NeighboursAreDrivers DEF SearchInv, SearchTypes
  <2> QED  BY <1>1, <1>2, <1>3, <2>1 DEF TopLooked
<1>12. VisitOf(v, k)
  BY <1>1, <1>7, <1>8, <1>9, <1>10, <1>11 DEF VisitOf
<1> QED  BY <1>12

\* In the cone that the traversal leaves nothing depends on a node outside.
ConeClosed == \A x \in cone : Drivers(x, DataKinds) \subseteq cone

\* The index of a node on the stack, and the nodes of the path, by their types.
LEMMA SearchFacts ==
    ASSUME SearchInv
    PROVE  /\ \A u \in Nodes : index[u] \in Int /\ low[u] \in Int /\ index[u] < counter
           /\ \A u \in OnStack : u \in Nodes /\ u \in cone /\ index[u] # NotSeen /\ index[u] >= 0
           /\ \A i \in 1 .. Len(work) : NodeAt(i) \in OnStack /\ NodeAt(i) \in Nodes
                 /\ NextAt(i) \in Nat /\ NextAt(i) >= 1
           /\ DOMAIN work = 1 .. Len(work) /\ Len(work) \in Nat /\ counter \in Nat
           /\ Path = {NodeAt(i) : i \in 1 .. Len(work)}
           /\ Path \subseteq OnStack
<1>1. SearchTypes /\ StackApart /\ PathHeld
  BY DEF SearchInv
<1>2. \A u \in Nodes : index[u] \in Int /\ low[u] \in Int /\ index[u] < counter
          /\ (index[u] # NotSeen => index[u] >= 0)
  BY <1>1 DEF SearchTypes, NotSeen
<1>3. \A u \in OnStack : u \in Nodes /\ u \in cone /\ index[u] # NotSeen
  BY <1>1, StackElements DEF StackApart
<1>4. \A i \in 1 .. Len(work) : NodeAt(i) \in OnStack /\ NextAt(i) \in 1 .. Len(Neighbours(NodeAt(i))) + 1
  BY <1>1, StackElements DEF PathHeld
<1>5. \A i \in 1 .. Len(work) : NextAt(i) \in Nat /\ NextAt(i) >= 1 /\ NodeAt(i) \in Nodes
  BY <1>1, <1>4, StackElements
<1>6. DOMAIN work = 1 .. Len(work) /\ Len(work) \in Nat /\ counter \in Nat
  BY <1>1, StackElements DEF SearchTypes
<1>7. Path = {NodeAt(i) : i \in 1 .. Len(work)} /\ Path \subseteq OnStack
  BY <1>4, <1>6 DEF Path
<1> QED  BY <1>2, <1>3, <1>4, <1>5, <1>6, <1>7

\* What a first look changes: one node more on both stacks.
LEMMA VisitMakes ==
    ASSUME ConeAssumption, SearchInv, NEW v, NEW k \in Nat, VisitOf(v, k)
    PROVE  /\ v \in Nodes /\ v \notin OnStack /\ v \notin Members /\ k = Len(work)
           /\ OnStack' = OnStack \cup {v} /\ Path' = Path \cup {v} /\ Members' = Members
           /\ DOMAIN work' = 1 .. k + 1 /\ Len(work') = k + 1
           /\ \A u \in Nodes : index'[u] = IF u = v THEN counter ELSE index[u]
           /\ \A u \in Nodes : low'[u] = IF u = v THEN counter ELSE low[u]
           /\ \A i \in 1 .. k : NodeAt(i)' = NodeAt(i) /\ NodeAt(i) # v
           /\ NodeAt(k + 1)' = v /\ NextAt(k + 1)' = 1
           /\ \A i \in 1 .. k : NextAt(i)' = IF i = k THEN NextAt(i) + 1 ELSE NextAt(i)
           /\ SearchTypes'
           /\ sccStack' = Append(sccStack, v)
<1>1. SearchTypes /\ StackApart
  BY DEF SearchInv
<1>2. v \in Nodes /\ v \notin OnStack /\ v \notin Members /\ k = Len(work)
  BY <1>1 DEF VisitOf, SearchTypes, StackApart
<1>3. sccStack' = Append(sccStack, v) /\ sccStack \in Seq(Nodes)
  BY <1>1 DEF VisitOf, SearchTypes
<1>4. OnStack' = OnStack \cup {v}
  <2>1. /\ Len(sccStack) \in Nat /\ DOMAIN sccStack = 1 .. Len(sccStack)
        /\ DOMAIN sccStack' = 1 .. Len(sccStack) + 1
        /\ sccStack'[Len(sccStack) + 1] = v
        /\ \A i \in 1 .. Len(sccStack) : sccStack'[i] = sccStack[i]
    BY <1>2, <1>3
  <2>2. OnStack = {sccStack[i] : i \in DOMAIN sccStack} /\ OnStack' = {sccStack'[i] : i \in DOMAIN sccStack'}
    BY DEF OnStack, ToSet
  <2> QED  BY <2>1, <2>2
<1>5. /\ \A u \in Nodes : index'[u] = IF u = v THEN counter ELSE index[u]
      /\ \A u \in Nodes : low'[u] = IF u = v THEN counter ELSE low[u]
  BY <1>1 DEF VisitOf, SearchTypes
<1>6. /\ \A i \in 1 .. k : NodeAt(i)' = NodeAt(i) /\ NodeAt(i) # v
      /\ NodeAt(k + 1)' = v /\ NextAt(k + 1)' = 1
      /\ \A i \in 1 .. k : NextAt(i)' = IF i = k THEN NextAt(i) + 1 ELSE NextAt(i)
      /\ Len(work') = k + 1
  BY <1>2, SearchFacts DEF VisitOf
<1>7. DOMAIN work' = 1 .. k + 1
  <2>1. work' \in Seq([node : Nodes, next : Nat])
    BY DEF VisitOf
  <2> QED  BY <1>6, <2>1
<1>8. Path' = Path \cup {v}
  <2>1. Path = {NodeAt(i) : i \in 1 .. k}
    BY <1>2, SearchFacts
  <2>2. \A x : x \in Path' <=> \E i \in 1 .. k + 1 : x = NodeAt(i)'
    BY <1>7 DEF Path
  <2> QED  BY <1>6, <2>1, <2>2
<1>9. Members' = Members
  BY DEF VisitOf, Members
<1>10. SearchTypes'
  <2>1. kinds' \in [Nodes \X Nodes -> SUBSET EdgeKind] /\ cone' \subseteq Nodes
    BY <1>1 DEF VisitOf, SearchTypes
  <2>2. counter \in Nat /\ counter' = counter + 1
    BY <1>1 DEF VisitOf, SearchTypes
  <2>3. index' \in [Nodes -> {NotSeen} \cup (0 .. counter' - 1)]
    <3>1. index' = [index EXCEPT ![v] = counter]
        BY DEF VisitOf
    <3>2. index \in [Nodes -> {NotSeen} \cup (0 .. counter - 1)]
        BY <1>1 DEF SearchTypes
    <3>3. {NotSeen} \cup (0 .. counter - 1) \subseteq {NotSeen} \cup (0 .. counter' - 1)
          /\ counter \in 0 .. counter' - 1
        BY <2>2
    <3> QED BY <3>1, <3>2, <3>3
  <2>4. low' \in [Nodes -> Int]
    BY <1>1, <2>2 DEF VisitOf, SearchTypes
  <2>5. work' \in Seq([node : Nodes, next : Nat]) /\ sccStack' \in Seq(Nodes)
    BY <1>2, <1>3 DEF VisitOf
  <2> QED  BY <2>1, <2>2, <2>3, <2>4, <2>5 DEF SearchTypes
<1> QED  BY <1>2, <1>3, <1>4, <1>5, <1>6, <1>7, <1>8, <1>9, <1>10

\* A first look keeps what the search holds.
LEMMA VisitKeeps ==
    ASSUME ConeAssumption, SearchInv, ConeClosed, NEW v, NEW k \in Nat, VisitOf(v, k)
    PROVE  SearchInv'
<1>m. /\ v \in Nodes /\ v \notin OnStack /\ v \notin Members /\ k = Len(work)
      /\ OnStack' = OnStack \cup {v} /\ Path' = Path \cup {v} /\ Members' = Members
      /\ DOMAIN work' = 1 .. k + 1 /\ Len(work') = k + 1
      /\ \A u \in Nodes : index'[u] = IF u = v THEN counter ELSE index[u]
      /\ \A u \in Nodes : low'[u] = IF u = v THEN counter ELSE low[u]
      /\ \A i \in 1 .. k : NodeAt(i)' = NodeAt(i) /\ NodeAt(i) # v
      /\ NodeAt(k + 1)' = v /\ NextAt(k + 1)' = 1
      /\ \A i \in 1 .. k : NextAt(i)' = IF i = k THEN NextAt(i) + 1 ELSE NextAt(i)
  <2>1. /\ v \in Nodes /\ v \notin OnStack /\ v \notin Members /\ k = Len(work)
        /\ OnStack' = OnStack \cup {v} /\ Path' = Path \cup {v} /\ Members' = Members
        /\ DOMAIN work' = 1 .. k + 1 /\ Len(work') = k + 1
    BY VisitMakes
  <2>2. /\ \A u \in Nodes : index'[u] = IF u = v THEN counter ELSE index[u]
        /\ \A u \in Nodes : low'[u] = IF u = v THEN counter ELSE low[u]
    BY VisitMakes
  <2>3. /\ \A i \in 1 .. k : NodeAt(i)' = NodeAt(i) /\ NodeAt(i) # v
        /\ NodeAt(k + 1)' = v /\ NextAt(k + 1)' = 1
    BY VisitMakes
  <2>4. \A i \in 1 .. k : NextAt(i)' = IF i = k THEN NextAt(i) + 1 ELSE NextAt(i)
    BY VisitMakes
  <2> QED  BY <2>1, <2>2, <2>3, <2>4
<1>g. /\ \A u, via : Drivers(u, via)' = Drivers(u, via)
      /\ \A u : Neighbours(u)' = Neighbours(u)
      /\ \A u, w : DependsOn(u, w)' = DependsOn(u, w)
      /\ \A u : Class(u)' = Class(u)
  BY GraphKept DEF VisitOf
<1>t. /\ \A u \in Nodes : index[u] \in Int /\ low[u] \in Int /\ index[u] < counter
      /\ \A u \in OnStack : u \in Nodes /\ u \in cone /\ index[u] # NotSeen /\ index[u] >= 0
      /\ \A i \in 1 .. k : NodeAt(i) \in OnStack /\ NodeAt(i) \in Nodes
            /\ NextAt(i) \in Nat /\ NextAt(i) >= 1
      /\ DOMAIN work = 1 .. k /\ counter \in Nat
      /\ Path = {NodeAt(i) : i \in 1 .. k} /\ Path \subseteq OnStack
  BY <1>m, SearchFacts
<1>n. /\ \A u : Len(Neighbours(u)) \in Nat
      /\ \A u : \A j \in 1 .. Len(Neighbours(u)) :
            Neighbours(u)[j] \in Drivers(u, DataKinds) /\ Neighbours(u)[j] \in Nodes
      /\ \A u : \A j \in 1 .. Len(Neighbours(u)) : Neighbours(u)[j] \in cone
  <2>1. cone \subseteq Nodes
    BY DEF SearchInv, SearchTypes
  <2>2. ASSUME NEW u
        PROVE  /\ Len(Neighbours(u)) \in Nat
               /\ \A j \in 1 .. Len(Neighbours(u)) :
                     /\ Neighbours(u)[j] \in Drivers(u, DataKinds)
                     /\ Neighbours(u)[j] \in cone /\ Neighbours(u)[j] \in Nodes
    <3>1. /\ Neighbours(u) \in Seq(Nodes)
          /\ \A j \in 1 .. Len(Neighbours(u)) : Neighbours(u)[j] \in Drivers(u, DataKinds) \cap cone
        BY <2>1, NeighboursAreDrivers
    <3> QED BY <2>1, <3>1
  <2> QED  BY <2>2
<1>v. /\ v \in cone /\ index[v] = NotSeen /\ cone' = cone
      /\ k > 0 => NextAt(k) <= Len(Neighbours(NodeAt(k))) /\ v = Neighbours(NodeAt(k))[NextAt(k)]
      /\ k = 0 => OnStack = {}
  <2>1. k = 0 => OnStack = {}
    <3>1. SUFFICES ASSUME sccStack = <<>> PROVE OnStack = {}
        BY DEF VisitOf
    <3> QED BY <3>1 DEF OnStack, ToSet
  <2> QED  BY <2>1 DEF VisitOf
<1>1. SearchTypes'
  BY VisitMakes
<1>2. StackApart'
  <2>1. \A u \in Nodes : index'[u] # NotSeen <=> u \in OnStack' \cup Members'
    <3>1. \A u \in Nodes : index[u] # NotSeen <=> u \in OnStack \cup Members
        BY DEF SearchInv, StackApart
    <3>2. counter # NotSeen
        BY <1>t DEF NotSeen
    <3> QED BY <1>m, <3>1, <3>2
  <2>2. OnStack' \cap Members' = {} /\ OnStack' \cup Members' \subseteq cone'
    BY <1>m, <1>v DEF SearchInv, StackApart
  <2> QED  BY <2>1, <2>2 DEF StackApart
<1>3. StackByIndex'
  <2>1. sccStack' = Append(sccStack, v) /\ sccStack \in Seq(Nodes)
    BY DEF VisitOf, SearchInv, SearchTypes
  <2>2. /\ Len(sccStack) \in Nat /\ DOMAIN sccStack = 1 .. Len(sccStack)
        /\ DOMAIN sccStack' = 1 .. Len(sccStack) + 1
        /\ sccStack'[Len(sccStack) + 1] = v
        /\ \A i \in 1 .. Len(sccStack) : sccStack'[i] = sccStack[i] /\ sccStack[i] \in Nodes
    BY <1>m, <2>1
  <2>3. \A i \in 1 .. Len(sccStack) : sccStack[i] \in OnStack
    BY <2>2 DEF OnStack, ToSet
  <2>4. \A i, j \in 1 .. Len(sccStack) : i < j => index[sccStack[i]] < index[sccStack[j]]
    BY <2>2 DEF SearchInv, StackByIndex
  <2>5. /\ \A i \in 1 .. Len(sccStack) : index'[sccStack'[i]] = index[sccStack[i]]
              /\ index[sccStack[i]] < counter
        /\ index'[sccStack'[Len(sccStack) + 1]] = counter
    BY <1>m, <1>t, <2>2, <2>3
  <2> SUFFICES ASSUME NEW i \in DOMAIN sccStack', NEW j \in DOMAIN sccStack', i < j
               PROVE  index'[sccStack'[i]] < index'[sccStack'[j]]
    BY DEF StackByIndex
  <2>6. i \in 1 .. Len(sccStack) /\ (j \in 1 .. Len(sccStack) \/ j = Len(sccStack) + 1)
    BY <2>2
  <2> QED  BY <2>2, <2>4, <2>5, <2>6
<1>4. PathHeld'
  <2>1. \A i \in DOMAIN work' :
           NodeAt(i)' \in OnStack' /\ NextAt(i)' \in 1 .. Len(Neighbours(NodeAt(i))') + 1
    <3> SUFFICES ASSUME NEW i \in 1 .. k + 1
                 PROVE  NodeAt(i)' \in OnStack' /\ NextAt(i)' \in 1 .. Len(Neighbours(NodeAt(i))') + 1
        BY <1>m
    <3>1. CASE i = k + 1
        <4>1. NodeAt(i)' = v /\ NextAt(i)' = 1
            BY <1>m, <3>1
        <4>2. Neighbours(NodeAt(i))' = Neighbours(v)
            BY <1>g, <4>1
        <4> QED BY <1>m, <1>n, <4>1, <4>2
    <3>2. CASE i \in 1 .. k
        <4>1. NodeAt(i)' = NodeAt(i) /\ Neighbours(NodeAt(i))' = Neighbours(NodeAt(i))
            BY <1>g, <1>m, <3>2
        <4>2. NextAt(i) \in 1 .. Len(Neighbours(NodeAt(i))) + 1
            BY <1>t, <3>2 DEF SearchInv, PathHeld
        <4> QED BY <1>m, <1>n, <1>t, <1>v, <3>2, <4>1, <4>2
    <3> QED BY <3>1, <3>2
  <2>2. \A i, j \in DOMAIN work' : i < j => index'[NodeAt(i)'] < index'[NodeAt(j)']
    <3> SUFFICES ASSUME NEW i \in 1 .. k + 1, NEW j \in 1 .. k + 1, i < j
                 PROVE  index'[NodeAt(i)'] < index'[NodeAt(j)']
        BY <1>m
    <3>1. i \in 1 .. k /\ (j = k + 1 \/ j \in 1 .. k)
        OBVIOUS
    <3>2. j \in 1 .. k => index[NodeAt(i)] < index[NodeAt(j)]
        BY <1>t, <3>1 DEF SearchInv, PathHeld
    <3> QED BY <1>m, <1>t, <3>1, <3>2
  <2>3. \A i \in DOMAIN work' : i < Len(work') =>
          NextAt(i)' > 1 /\ NodeAt(i + 1)' = (Neighbours(NodeAt(i))[NextAt(i) - 1])'
    <3> SUFFICES ASSUME NEW i \in 1 .. k
                 PROVE  NextAt(i)' > 1 /\ NodeAt(i + 1)' = (Neighbours(NodeAt(i))[NextAt(i) - 1])'
        BY <1>m
    <3>1. NodeAt(i)' = NodeAt(i) /\ Neighbours(NodeAt(i))' = Neighbours(NodeAt(i))
        BY <1>g, <1>m
    <3>2. CASE i = k
        BY <1>m, <1>t, <1>v, <3>1, <3>2
    <3>3. CASE i < k
        <4>1. NextAt(i) > 1 /\ NodeAt(i + 1) = Neighbours(NodeAt(i))[NextAt(i) - 1]
            BY <1>m, <1>t, <3>3 DEF SearchInv, PathHeld
        <4>2. NextAt(i)' = NextAt(i) /\ i + 1 \in 1 .. k
            BY <1>m, <3>3
        <4>3. NodeAt(i + 1)' = NodeAt(i + 1)
            BY <1>m, <4>2
        <4> QED BY <3>1, <4>1, <4>2, <4>3
    <3> QED BY <3>2, <3>3
  <2> QED  BY <2>1, <2>2, <2>3 DEF PathHeld
<1>s. /\ \A u \in Nodes : index[u] # NotSeen => index'[u] # NotSeen /\ index'[u] = index[u]
      /\ index'[v] # NotSeen /\ index'[v] = counter
      /\ \A u \in OnStack : index'[u] = index[u]
      /\ \A i \in 1 .. k : index'[NodeAt(i)'] = index[NodeAt(i)] /\ low'[NodeAt(i)'] = low[NodeAt(i)]
  <2>1. counter # NotSeen
    BY <1>t DEF NotSeen
  <2> QED  BY <1>m, <1>t, <1>v, <2>1
<1>d. \A x \in cone : \A w \in Drivers(x, DataKinds) : w \in Nodes /\ w \in cone
  BY DEF ConeClosed, Drivers
<1>5. LookedAt'
  <2>1. ASSUME NEW i \in 1 .. k + 1, NEW j \in 1 .. NextAt(i)' - 1
        PROVE  index'[Neighbours(NodeAt(i))'[j]] # NotSeen
    <3>1. CASE i = k + 1
        BY <1>m, <3>1
    <3>2. CASE i \in 1 .. k
        <4>1. NodeAt(i)' = NodeAt(i) /\ Neighbours(NodeAt(i))' = Neighbours(NodeAt(i))
            BY <1>g, <1>m, <3>2
        <4>2. ASSUME j \in 1 .. NextAt(i) - 1
              PROVE  index'[Neighbours(NodeAt(i))[j]] # NotSeen
            <5>1. index[Neighbours(NodeAt(i))[j]] # NotSeen
                BY <1>t, <3>2, <4>2 DEF SearchInv, LookedAt
            <5>2. NextAt(i) \in 1 .. Len(Neighbours(NodeAt(i))) + 1
                BY <1>t, <3>2 DEF SearchInv, PathHeld
            <5>3. Neighbours(NodeAt(i))[j] \in Nodes
                BY <1>n, <4>2, <5>2
            <5> QED BY <1>s, <5>1, <5>3
        <4>3. j \in 1 .. NextAt(i) - 1 \/ (i = k /\ j = NextAt(k))
            BY <1>m, <1>t, <3>2
        <4>4. ASSUME i = k, j = NextAt(k)
              PROVE  index'[Neighbours(NodeAt(i))[j]] # NotSeen
            BY <1>s, <1>v, <3>2, <4>4
        <4> QED BY <4>1, <4>2, <4>3, <4>4
    <3> QED BY <3>1, <3>2
  <2>2. ASSUME NEW x \in OnStack', x \notin Path', NEW w \in Drivers(x, DataKinds)'
        PROVE  index'[w] # NotSeen
    <3>1. x \in OnStack /\ x \notin Path /\ w \in Drivers(x, DataKinds)
        BY <1>g, <1>m, <2>2
    <3>2. index[w] # NotSeen
        BY <3>1 DEF SearchInv, LookedAt
    <3>3. w \in Nodes
        BY <1>d, <1>t, <3>1
    <3> QED BY <1>s, <3>2, <3>3
  <2> QED  BY <1>m, <2>1, <2>2 DEF LookedAt
<1>6. PathReaches'
  <2> SUFFICES ASSUME NEW i \in 1 .. k + 1, NEW x \in OnStack', index'[NodeAt(i)'] <= index'[x]
               PROVE  DependsOn(NodeAt(i)', x)
    BY <1>g, <1>m DEF PathReaches
  <2>1. CASE i \in 1 .. k /\ x \in OnStack
    <3>1. index[NodeAt(i)] <= index[x]
        BY <1>s, <2>1
    <3> QED BY <1>m, <1>t, <2>1, <3>1 DEF SearchInv, PathReaches
  <2>2. CASE i \in 1 .. k /\ x = v
    <3>1. k > 0 /\ k \in 1 .. k
        BY <2>2
    <3>2. index[NodeAt(i)] <= index[NodeAt(k)]
        <4>1. i < k => index[NodeAt(i)] < index[NodeAt(k)]
            BY <1>t, <2>2, <3>1 DEF SearchInv, PathHeld
        <4> QED BY <1>t, <2>2, <3>1, <4>1
    <3>3. DependsOn(NodeAt(i), NodeAt(k))
        BY <1>t, <2>2, <3>1, <3>2 DEF SearchInv, PathReaches
    <3>4. v \in Drivers(NodeAt(k), DataKinds)
        BY <1>n, <1>t, <1>v, <3>1
    <3> QED BY <1>m, <2>2, <3>3, <3>4, Dependence
  <2>3. CASE i = k + 1 /\ x \in OnStack
    BY <1>m, <1>s, <1>t, <2>3
  <2>4. CASE i = k + 1 /\ x = v
    BY <1>m, <2>4, Dependence
  <2> QED  BY <1>m, <2>1, <2>2, <2>3, <2>4
<1>7. ReachesPath'
  <2> SUFFICES ASSUME NEW x \in OnStack'
               PROVE  \E i \in 1 .. k + 1 : index'[NodeAt(i)'] <= index'[x] /\ DependsOn(x, NodeAt(i)')
    BY <1>g, <1>m DEF ReachesPath
  <2>1. CASE x \in OnStack
    <3>1. PICK i \in 1 .. k : index[NodeAt(i)] <= index[x] /\ DependsOn(x, NodeAt(i))
        BY <1>t, <2>1 DEF SearchInv, ReachesPath
    <3> QED BY <1>m, <1>s, <2>1, <3>1
  <2>2. CASE x = v
    <3>1. index'[NodeAt(k + 1)'] <= index'[x] /\ DependsOn(x, NodeAt(k + 1)') /\ k + 1 \in 1 .. k + 1
        BY <1>m, <1>s, <1>t, <2>2, Dependence
    <3> QED BY <3>1
  <2> QED  BY <1>m, <2>1, <2>2
<1>8. LowReached'
  <2> SUFFICES ASSUME NEW i \in 1 .. k + 1
               PROVE  /\ low'[NodeAt(i)'] <= index'[NodeAt(i)']
                      /\ \E w \in OnStack' : index'[w] = low'[NodeAt(i)'] /\ DependsOn(NodeAt(i)', w)
    BY <1>g, <1>m DEF LowReached
  <2>1. CASE i \in 1 .. k
    <3>1. low[NodeAt(i)] <= index[NodeAt(i)]
        BY <1>t, <2>1 DEF SearchInv, LowReached
    <3>2. PICK w \in OnStack : index[w] = low[NodeAt(i)] /\ DependsOn(NodeAt(i), w)
        BY <1>t, <2>1 DEF SearchInv, LowReached
    <3> QED BY <1>m, <1>s, <2>1, <3>1, <3>2
  <2>2. CASE i = k + 1
    BY <1>m, <1>s, <1>t, <2>2, Dependence
  <2> QED  BY <2>1, <2>2
<1>9. LowOfFinished'
  <2> SUFFICES ASSUME NEW i \in 1 .. k + 1, NEW x \in OnStack', x \notin Path',
                      index'[NodeAt(i)'] < index'[x],
                      i < k + 1 => index'[x] < index'[NodeAt(i + 1)'],
                      NEW w \in Drivers(x, DataKinds)', w \in OnStack'
               PROVE  low'[NodeAt(i)'] <= index'[w]
    <3> SUFFICES ASSUME NEW i \in DOMAIN work', NEW x \in OnStack' \ Path',
                        index'[NodeAt(i)'] < index'[x],
                        i < Len(work') => index'[x] < index'[NodeAt(i + 1)'],
                        NEW w \in Drivers(x, DataKinds)' \cap OnStack'
                 PROVE  low'[NodeAt(i)'] <= index'[w]
        BY DEF LowOfFinished
    <3> QED BY <1>m
  <2>1. x \in OnStack /\ x \notin Path /\ w \in Drivers(x, DataKinds)
    BY <1>g, <1>m
  <2>2. index[w] # NotSeen /\ w # v /\ w \in OnStack
    <3>1. index[w] # NotSeen
        BY <2>1 DEF SearchInv, LookedAt
    <3> QED BY <1>m, <1>v, <3>1
  <2>3. CASE i \in 1 .. k
    <3>1. index[NodeAt(i)] < index[x]
        BY <1>s, <2>1, <2>3
    <3>2. i < k => index[x] < index[NodeAt(i + 1)]
        <4> SUFFICES ASSUME i < k PROVE index[x] < index[NodeAt(i + 1)]
            OBVIOUS
        <4>1. i + 1 \in 1 .. k
            BY <2>3
        <4> QED BY <1>s, <2>1, <2>3, <4>1
    <3>3. low[NodeAt(i)] <= index[w]
        BY <1>m, <1>t, <2>1, <2>2, <2>3, <3>1, <3>2 DEF SearchInv, LowOfFinished
    <3> QED BY <1>s, <2>2, <2>3, <3>3
  <2>4. CASE i = k + 1
    BY <1>m, <1>s, <1>t, <2>1, <2>4
  <2> QED  BY <2>3, <2>4
<1>10. LowOfLookedAt'
  <2> SUFFICES ASSUME NEW i \in 1 .. k + 1, NEW j \in 1 .. NextAt(i)' - 1,
                      i < k + 1 => j < NextAt(i)' - 1,
                      Neighbours(NodeAt(i))'[j] \in OnStack'
               PROVE  low'[NodeAt(i)'] <= index'[Neighbours(NodeAt(i))'[j]]
    BY <1>m DEF LowOfLookedAt
  <2>1. CASE i \in 1 .. k
    <3>1. NodeAt(i)' = NodeAt(i) /\ Neighbours(NodeAt(i))' = Neighbours(NodeAt(i))
        BY <1>g, <1>m, <2>1
    <3>2. j \in 1 .. NextAt(i) - 1 /\ (i < k => j < NextAt(i) - 1)
        BY <1>m, <1>t, <2>1
    <3>3. index[Neighbours(NodeAt(i))[j]] # NotSeen
        BY <1>t, <2>1, <3>2 DEF SearchInv, LookedAt
    <3>4. Neighbours(NodeAt(i))[j] \in OnStack
        BY <1>m, <1>v, <3>1, <3>3
    <3>5. low[NodeAt(i)] <= index[Neighbours(NodeAt(i))[j]]
        BY <1>m, <1>t, <2>1, <3>2, <3>4 DEF SearchInv, LowOfLookedAt
    <3> QED BY <1>s, <2>1, <3>1, <3>4, <3>5
  <2>2. CASE i = k + 1
    BY <1>m, <2>2
  <2> QED  BY <2>1, <2>2
<1>11. MembersClassed'
  <2>1. components' = components
    BY DEF VisitOf
  <2>2. Closed(Members, DataKinds)'
    BY <1>g, <1>m DEF SearchInv, MembersClassed, Closed
  <2>3. \A c \in components' : c # {} /\ \A u \in c : c = Class(u)'
    BY <1>g, <2>1 DEF SearchInv, MembersClassed
  <2> QED  BY <2>2, <2>3 DEF MembersClassed
<1>12. NotBegun' /\ AllSeen'
  BY DEF VisitOf, NotBegun, AllSeen
<1> QED  BY <1>1, <1>2, <1>3, <1>4, <1>5, <1>6, <1>7, <1>8, <1>9, <1>10, <1>11, <1>12 DEF SearchInv

\* A neighbour that has an index is looked at: the lowlink of the path's top gets
\* no greater than its index if it is on the stack, or stays.
LookOf(k, v, w) ==
    /\ k = Len(work) /\ k > 0 /\ v = NodeAt(k)
    /\ NextAt(k) \in 1 .. Len(Neighbours(v)) /\ w = Neighbours(v)[NextAt(k)]
    /\ index[w] # NotSeen
    /\ index' = index /\ counter' = counter /\ sccStack' = sccStack
    /\ components' = components /\ kinds' = kinds /\ cone' = cone
    /\ phase' = phase /\ phase = "components"
    /\ work' \in Seq([node : Nodes, next : Nat]) /\ Len(work') = k
    /\ \A i \in 1 .. k :
          /\ NodeAt(i)' = NodeAt(i)
          /\ NextAt(i)' = IF i = k THEN NextAt(i) + 1 ELSE NextAt(i)
    /\ low' \in [Nodes -> Int]
    /\ \A u \in Nodes : u # v => low'[u] = low[u]
    /\ low'[v] <= low[v]
    /\ low'[v] = low[v] \/ (w \in OnStack /\ low'[v] = index[w])
    /\ w \in OnStack => low'[v] <= index[w]

\* The other look at a neighbour changes the lowlink of the top alone.
LEMMA NeighbourLookedAt ==
    ConeAssumption /\ SearchInv /\ LookAtIndexed =>
        \E k \in Nat : \E v, w \in Nodes : LookOf(k, v, w)
<1> SUFFICES ASSUME ConeAssumption, SearchInv, LookAtIndexed
             PROVE  \E k \in Nat : \E v, w \in Nodes : LookOf(k, v, w)
  OBVIOUS
<1>1. /\ Looking /\ phase = "components" /\ index[Seen] # NotSeen /\ work' = Looked
      /\ low' = IF Seen \in OnStack /\ index[Seen] < low[Top.node]
                THEN [low EXCEPT ![Top.node] = index[Seen]] ELSE low
      /\ index' = index /\ counter' = counter /\ sccStack' = sccStack
      /\ components' = components /\ kinds' = kinds /\ cone' = cone /\ phase' = phase
  BY DEF LookAtIndexed, Looking, Searching, designVars
<1>2. PICK k \in Nat : TopLooked(k)
  BY <1>1, TopIsLooked
<1>3. k \in 1 .. Len(work)
  BY <1>2 DEF TopLooked
<1>4. NodeAt(k) \in Nodes /\ Seen \in Nodes
  BY <1>2, <1>3, SearchFacts DEF TopLooked, SearchInv, SearchTypes
<1>5. PICK v \in Nodes : v = NodeAt(k)
  BY <1>4
<1>6. PICK w \in Nodes : w = Seen
  BY <1>4
<1>7. \A i \in 1 .. k : NodeAt(i)' = NodeAt(i)
          /\ NextAt(i)' = IF i = k THEN NextAt(i) + 1 ELSE NextAt(i)
  <2>1. \A i \in 1 .. k : work'[i].node = NodeAt(i)
            /\ work'[i].next = IF i = k THEN NextAt(i) + 1 ELSE NextAt(i)
    BY <1>1, <1>2 DEF TopLooked
  <2> QED  BY <2>1 DEF NodeAt, NextAt
<1>8. low' = IF w \in OnStack /\ index[w] < low[v] THEN [low EXCEPT ![v] = index[w]] ELSE low
  BY <1>1, <1>2, <1>5, <1>6 DEF TopLooked
<1>9. low \in [Nodes -> Int] /\ index[w] \in Int /\ low[v] \in Int
  BY SearchFacts DEF SearchInv, SearchTypes
<1>10. /\ low' \in [Nodes -> Int]
       /\ \A u \in Nodes : u # v => low'[u] = low[u]
       /\ low'[v] <= low[v]
       /\ low'[v] = low[v] \/ (w \in OnStack /\ low'[v] = index[w])
       /\ w \in OnStack => low'[v] <= index[w]
  <2>1. CASE w \in OnStack /\ index[w] < low[v]
    BY <1>8, <1>9, <2>1
  <2>2. CASE ~ (w \in OnStack /\ index[w] < low[v])
    BY <1>8, <1>9, <2>2
  <2> QED  BY <2>1, <2>2
<1>11. work' \in Seq([node : Nodes, next : Nat]) /\ Len(work') = k /\ k = Len(work) /\ k > 0
       /\ NextAt(k) \in 1 .. Len(Neighbours(v)) /\ w = Neighbours(v)[NextAt(k)]
  BY <1>1, <1>2, <1>5, <1>6 DEF TopLooked
<1>12. LookOf(k, v, w)
  BY <1>1, <1>5, <1>6, <1>7, <1>10, <1>11 DEF LookOf
<1> QED  BY <1>12

\* A look at a neighbour keeps what the search holds.
LEMMA LookKeeps ==
    ASSUME ConeAssumption, SearchInv, ConeClosed,
           NEW k \in Nat, NEW v \in Nodes, NEW w \in Nodes, LookOf(k, v, w)
    PROVE  SearchInv'
<1>k. k = Len(work)
  BY DEF LookOf
<1>g. /\ \A u, via : Drivers(u, via)' = Drivers(u, via)
      /\ \A u : Neighbours(u)' = Neighbours(u)
      /\ \A x, y : DependsOn(x, y)' = DependsOn(x, y)
      /\ \A u : Class(u)' = Class(u)
  BY GraphKept DEF LookOf
<1>t. /\ \A u \in Nodes : index[u] \in Int /\ low[u] \in Int
      /\ \A u \in OnStack : u \in Nodes /\ u \in cone /\ index[u] # NotSeen
      /\ \A i \in 1 .. k : NodeAt(i) \in OnStack /\ NodeAt(i) \in Nodes
            /\ NextAt(i) \in Nat /\ NextAt(i) >= 1
      /\ DOMAIN work = 1 .. k /\ k \in 1 .. k /\ v = NodeAt(k)
  <2>1. k > 0 /\ v = NodeAt(k)
    BY DEF LookOf
  <2> QED  BY <1>k, <2>1, SearchFacts
<1>o. \A i, j \in 1 .. k : i < j => index[NodeAt(i)] < index[NodeAt(j)]
  BY <1>k, <1>t DEF SearchInv, PathHeld
<1>m. /\ index' = index /\ sccStack' = sccStack /\ components' = components /\ cone' = cone
      /\ OnStack' = OnStack /\ Members' = Members
      /\ DOMAIN work' = 1 .. k /\ Len(work') = k
      /\ \A i \in 1 .. k : NodeAt(i)' = NodeAt(i)
      /\ \A i \in 1 .. k : NextAt(i)' = IF i = k THEN NextAt(i) + 1 ELSE NextAt(i)
  <2>1. index' = index /\ sccStack' = sccStack /\ components' = components /\ cone' = cone
    BY DEF LookOf
  <2>2. work' \in Seq([node : Nodes, next : Nat]) /\ Len(work') = k
    BY DEF LookOf
  <2>3. OnStack' = OnStack /\ Members' = Members
    BY <2>1 DEF OnStack, Members
  <2>4. DOMAIN work' = 1 .. k
    BY <2>2
  <2>5. /\ \A i \in 1 .. k : NodeAt(i)' = NodeAt(i)
        /\ \A i \in 1 .. k : NextAt(i)' = IF i = k THEN NextAt(i) + 1 ELSE NextAt(i)
    BY DEF LookOf
  <2> QED  BY <2>1, <2>2, <2>3, <2>4, <2>5
<1>p. Path' = Path
  <2>1. Path = {NodeAt(i) : i \in DOMAIN work} /\ Path' = {NodeAt(i)' : i \in DOMAIN work'}
    BY DEF Path
  <2> QED  BY <1>m, <1>t, <2>1
<1>l. /\ low' \in [Nodes -> Int]
      /\ \A u \in Nodes : low'[u] <= low[u]
      /\ low'[v] = low[v] \/ (w \in OnStack /\ low'[v] = index[w])
      /\ w \in OnStack => low'[v] <= index[w]
      /\ \A i \in 1 .. k : i = k \/ low'[NodeAt(i)] = low[NodeAt(i)]
      /\ w = Neighbours(v)[NextAt(k)] /\ NextAt(k) \in 1 .. Len(Neighbours(v)) /\ index[w] # NotSeen
  <2>1. /\ low' \in [Nodes -> Int]
        /\ \A u \in Nodes : u # v => low'[u] = low[u]
        /\ low'[v] <= low[v]
        /\ low'[v] = low[v] \/ (w \in OnStack /\ low'[v] = index[w])
        /\ w \in OnStack => low'[v] <= index[w]
        /\ w = Neighbours(v)[NextAt(k)] /\ NextAt(k) \in 1 .. Len(Neighbours(v)) /\ index[w] # NotSeen
    BY DEF LookOf
  <2>2. \A i \in 1 .. k : i = k \/ NodeAt(i) # v
    <3> SUFFICES ASSUME NEW i \in 1 .. k, i # k PROVE NodeAt(i) # v
        OBVIOUS
    <3>1. index[NodeAt(i)] < index[v]
        BY <1>o, <1>t
    <3> QED BY <1>t, <3>1
  <2>3. \A u \in Nodes : low'[u] <= low[u]
    BY <1>t, <2>1
  <2> QED  BY <1>t, <2>1, <2>2, <2>3
<1>n. /\ Len(Neighbours(v)) \in Nat /\ w \in Drivers(v, DataKinds)
      /\ \A u : Len(Neighbours(u)) \in Nat
  <2>1. cone \subseteq Nodes
    BY DEF SearchInv, SearchTypes
  <2>2. \A u : Neighbours(u) \in Seq(Nodes)
            /\ \A j \in 1 .. Len(Neighbours(u)) : Neighbours(u)[j] \in Drivers(u, DataKinds) \cap cone
    BY <2>1, NeighboursAreDrivers
  <2>3. \A u : Len(Neighbours(u)) \in Nat
    BY <2>2
  <2> QED  BY <1>l, <2>2, <2>3
<1>1. SearchTypes'
  <2>1. work' \in Seq([node : Nodes, next : Nat])
    BY DEF LookOf
  <2> QED  BY <1>l, <2>1 DEF LookOf, SearchInv, SearchTypes
<1>2. StackApart' /\ StackByIndex'
  BY <1>m DEF SearchInv, StackApart, StackByIndex
<1>4. PathHeld'
  <2>1. ASSUME NEW i \in 1 .. k
        PROVE  NodeAt(i)' \in OnStack' /\ NextAt(i)' \in 1 .. Len(Neighbours(NodeAt(i))') + 1
    <3>1. NodeAt(i)' = NodeAt(i) /\ Neighbours(NodeAt(i))' = Neighbours(NodeAt(i))
        BY <1>g, <1>m
    <3>2. NextAt(i) \in 1 .. Len(Neighbours(NodeAt(i))) + 1
        BY <1>k, <1>t DEF SearchInv, PathHeld
    <3>3. i = k => NextAt(i) <= Len(Neighbours(NodeAt(i)))
        BY <1>l, <1>t
    <3>4. Len(Neighbours(NodeAt(i))) \in Nat
        BY <1>n
    <3>5. NextAt(i)' = NextAt(i) \/ (i = k /\ NextAt(i)' = NextAt(i) + 1)
        BY <1>m
    <3>6. NextAt(i)' \in 1 .. Len(Neighbours(NodeAt(i))) + 1
        BY <3>2, <3>3, <3>4, <3>5
    <3> QED BY <1>m, <1>t, <3>1, <3>6
  <2>2. ASSUME NEW i \in 1 .. k, i < k
        PROVE  NextAt(i)' > 1 /\ NodeAt(i + 1)' = (Neighbours(NodeAt(i))[NextAt(i) - 1])'
    <3>1. NodeAt(i)' = NodeAt(i) /\ Neighbours(NodeAt(i))' = Neighbours(NodeAt(i))
        BY <1>g, <1>m
    <3>2. NextAt(i) > 1 /\ NodeAt(i + 1) = Neighbours(NodeAt(i))[NextAt(i) - 1]
        BY <1>k, <1>t, <2>2 DEF SearchInv, PathHeld
    <3>3. NextAt(i)' = NextAt(i) /\ i + 1 \in 1 .. k
        BY <1>m, <2>2
    <3>4. NodeAt(i + 1)' = NodeAt(i + 1)
        BY <1>m, <3>3
    <3> QED BY <3>1, <3>2, <3>3, <3>4
  <2>3. \A i, j \in 1 .. k : i < j => index'[NodeAt(i)'] < index'[NodeAt(j)']
    BY <1>m, <1>o
  <2> QED  BY <1>m, <2>1, <2>2, <2>3 DEF PathHeld
<1>5. LookedAt'
  <2>1. ASSUME NEW i \in 1 .. k, NEW j \in 1 .. NextAt(i)' - 1
        PROVE  index'[Neighbours(NodeAt(i))'[j]] # NotSeen
    <3>1. NodeAt(i)' = NodeAt(i) /\ Neighbours(NodeAt(i))' = Neighbours(NodeAt(i))
        BY <1>g, <1>m
    <3>2. j \in 1 .. NextAt(i) - 1 \/ (i = k /\ j = NextAt(k))
        BY <1>m, <1>t
    <3>3. j \in 1 .. NextAt(i) - 1 => index[Neighbours(NodeAt(i))[j]] # NotSeen
        BY <1>k, <1>t DEF SearchInv, LookedAt
    <3> QED BY <1>l, <1>m, <1>t, <3>1, <3>2, <3>3
  <2>2. \A x \in OnStack' \ Path' : \A y \in Drivers(x, DataKinds)' : index'[y] # NotSeen
    BY <1>g, <1>m, <1>p DEF SearchInv, LookedAt
  <2> QED  BY <1>m, <2>1, <2>2 DEF LookedAt
<1>6. PathReaches'
  BY <1>g, <1>k, <1>m, <1>t DEF SearchInv, PathReaches
<1>7. ReachesPath'
  BY <1>g, <1>k, <1>m, <1>t DEF SearchInv, ReachesPath
<1>8. LowReached'
  <2> SUFFICES ASSUME NEW i \in 1 .. k
               PROVE  /\ low'[NodeAt(i)] <= index[NodeAt(i)]
                      /\ \E y \in OnStack : index[y] = low'[NodeAt(i)] /\ DependsOn(NodeAt(i), y)
    BY <1>g, <1>m DEF LowReached
  <2>1. low[NodeAt(i)] <= index[NodeAt(i)]
    BY <1>k, <1>t DEF SearchInv, LowReached
  <2>2. PICK y \in OnStack : index[y] = low[NodeAt(i)] /\ DependsOn(NodeAt(i), y)
    BY <1>k, <1>t DEF SearchInv, LowReached
  <2>3. low'[NodeAt(i)] <= index[NodeAt(i)]
    <3>1. low'[NodeAt(i)] <= low[NodeAt(i)] /\ low'[NodeAt(i)] \in Int
        BY <1>l, <1>t
    <3> QED BY <1>t, <2>1, <3>1
  <2>4. low'[NodeAt(i)] = low[NodeAt(i)] \/ (i = k /\ w \in OnStack /\ low'[NodeAt(i)] = index[w])
    BY <1>l, <1>t
  <2>5. DependsOn(v, w)
    BY <1>n, Dependence
  <2> QED  BY <1>t, <2>2, <2>3, <2>4, <2>5
<1>9. LowOfFinished'
  <2> SUFFICES ASSUME NEW i \in 1 .. k, NEW x \in OnStack, x \notin Path,
                      index[NodeAt(i)] < index[x],
                      i < k => index[x] < index[NodeAt(i + 1)],
                      NEW y \in Drivers(x, DataKinds), y \in OnStack
               PROVE  low'[NodeAt(i)] <= index[y]
    <3> SUFFICES ASSUME NEW i \in DOMAIN work', NEW x \in OnStack' \ Path',
                        index'[NodeAt(i)'] < index'[x],
                        i < Len(work') => index'[x] < index'[NodeAt(i + 1)'],
                        NEW y \in Drivers(x, DataKinds)' \cap OnStack'
                 PROVE  low'[NodeAt(i)'] <= index'[y]
        BY DEF LowOfFinished
    <3>1. i \in 1 .. k /\ x \in OnStack /\ x \notin Path
          /\ y \in Drivers(x, DataKinds) /\ y \in OnStack /\ NodeAt(i)' = NodeAt(i)
        BY <1>g, <1>m, <1>p
    <3>2. i < k => NodeAt(i + 1)' = NodeAt(i + 1)
        BY <1>m, <3>1
    <3> QED BY <1>m, <3>1, <3>2
  <2>1. low[NodeAt(i)] <= index[y]
    BY <1>k, <1>t DEF SearchInv, LowOfFinished
  <2>2. low'[NodeAt(i)] <= low[NodeAt(i)] /\ low'[NodeAt(i)] \in Int
    BY <1>l, <1>t
  <2> QED  BY <1>t, <2>1, <2>2
<1>10. LowOfLookedAt'
  <2> SUFFICES ASSUME NEW i \in 1 .. k, NEW j \in 1 .. NextAt(i)' - 1,
                      i < k => j < NextAt(i)' - 1,
                      Neighbours(NodeAt(i))'[j] \in OnStack'
               PROVE  low'[NodeAt(i)'] <= index'[Neighbours(NodeAt(i))'[j]]
    BY <1>m DEF LowOfLookedAt
  <2>1. NodeAt(i)' = NodeAt(i) /\ Neighbours(NodeAt(i))' = Neighbours(NodeAt(i))
    BY <1>g, <1>m
  <2>2. PICK y \in OnStack : y = Neighbours(NodeAt(i))[j]
    BY <1>m, <2>1
  <2>3. \/ j \in 1 .. NextAt(i) - 1 /\ (i < k => j < NextAt(i) - 1)
        \/ i = k /\ j = NextAt(k)
    BY <1>m, <1>t
  <2>4. CASE j \in 1 .. NextAt(i) - 1 /\ (i < k => j < NextAt(i) - 1)
    <3>1. low[NodeAt(i)] <= index[y]
        BY <1>k, <1>t, <2>2, <2>4 DEF SearchInv, LowOfLookedAt
    <3>2. low'[NodeAt(i)] <= low[NodeAt(i)] /\ low'[NodeAt(i)] \in Int
        BY <1>l, <1>t
    <3>3. low'[NodeAt(i)] <= index[y]
        BY <1>t, <3>1, <3>2
    <3> QED BY <1>m, <2>1, <2>2, <3>3
  <2>5. CASE i = k /\ j = NextAt(k)
    BY <1>l, <1>m, <1>t, <2>1, <2>2, <2>5
  <2> QED  BY <2>3, <2>4, <2>5
<1>11. MembersClassed'
  <2>1. Closed(Members, DataKinds)'
    BY <1>g, <1>m DEF SearchInv, MembersClassed, Closed
  <2>2. \A c \in components' : c # {} /\ \A u \in c : c = Class(u)'
    BY <1>g, <1>m DEF SearchInv, MembersClassed
  <2> QED  BY <2>1, <2>2 DEF MembersClassed
<1>12. NotBegun' /\ AllSeen'
  BY DEF LookOf, NotBegun, AllSeen
<1> QED  BY <1>1, <1>2, <1>4, <1>5, <1>6, <1>7, <1>8, <1>9, <1>10, <1>11, <1>12 DEF SearchInv

\* The search of the path's top is over: v is its node, and k the length of the path.
FinishOf(k, v) ==
    /\ k = Len(work) /\ k > 0 /\ v = NodeAt(k) /\ NextAt(k) > Len(Neighbours(v))
    /\ index' = index /\ counter' = counter /\ kinds' = kinds /\ cone' = cone
    /\ phase' = phase /\ phase = "components"
    /\ work' \in Seq([node : Nodes, next : Nat]) /\ Len(work') = k - 1
    /\ \A i \in 1 .. k - 1 : NodeAt(i)' = NodeAt(i) /\ NextAt(i)' = NextAt(i)
    /\ low' = IF k > 1 /\ low[v] < low[NodeAt(k - 1)]
              THEN [low EXCEPT ![NodeAt(k - 1)] = low[v]] ELSE low

Stays(v)  == low[v] # index[v] /\ sccStack' = sccStack /\ components' = components
Closes(v) == /\ low[v] = index[v] /\ sccStack' = Below(v)
             /\ components' = components \cup {Popped(v)}

\* The end of a node's search either leaves it on the stack or closes a component.
LEMMA NodeFinished ==
    ConeAssumption /\ SearchInv /\ FinishNode =>
        \E k \in Nat : \E v \in Nodes : FinishOf(k, v) /\ (Stays(v) \/ Closes(v))
<1> SUFFICES ASSUME ConeAssumption, SearchInv, FinishNode
             PROVE  \E k \in Nat : \E v \in Nodes : FinishOf(k, v) /\ (Stays(v) \/ Closes(v))
  OBVIOUS
<1> DEFINE Frame == [node : Nodes, next : Nat]
<1>1. /\ phase = "components" /\ work # <<>> /\ Top.next > Len(Neighbours(Top.node))
      /\ work' = Front(work)
      /\ low' = IF Front(work) # <<>> /\ low[Top.node] < low[Last(Front(work)).node]
                THEN [low EXCEPT ![Last(Front(work)).node] = low[Top.node]] ELSE low
      /\ IF low[Top.node] = index[Top.node]
         THEN /\ components' = components \cup {Popped(Top.node)}
              /\ sccStack' = Below(Top.node)
         ELSE UNCHANGED <<components, sccStack>>
      /\ index' = index /\ counter' = counter /\ kinds' = kinds /\ cone' = cone /\ phase' = phase
  BY DEF FinishNode, Searching, designVars
<1>2. work \in Seq(Frame)
  BY DEF SearchInv, SearchTypes
<1> HIDE DEF Frame
<1>3. PICK k \in Nat : k = Len(work)
  BY <1>2
<1>4. k > 0 /\ k \in DOMAIN work /\ DOMAIN work = 1 .. k
  BY <1>1, <1>2, <1>3
<1>5. Top.node = NodeAt(k) /\ Top.next = NextAt(k)
  BY <1>3 DEF Top, Last, NodeAt, NextAt
<1>6. PICK v \in Nodes : v = NodeAt(k)
  BY <1>3, <1>4, SearchFacts
<1>7. /\ Front(work) \in Seq(Frame) /\ Len(Front(work)) = k - 1
      /\ \A i \in 1 .. k - 1 : Front(work)[i] = work[i]
  <2>1. Front(work) = SubSeq(work, 1, k - 1)
    BY <1>3 DEF Front
  <2> QED  BY <1>2, <1>3, <1>4, <2>1
<1>8. /\ Front(work) # <<>> <=> k > 1
      /\ k > 1 => Last(Front(work)).node = NodeAt(k - 1)
  <2>1. Front(work) # <<>> <=> k > 1
    BY <1>4, <1>7
  <2>2. k > 1 => Front(work)[k - 1] = work[k - 1]
    BY <1>7
  <2> QED  BY <1>7, <2>1, <2>2 DEF Last, NodeAt
<1>9. \A i \in 1 .. k - 1 : NodeAt(i)' = NodeAt(i) /\ NextAt(i)' = NextAt(i)
  BY <1>1, <1>7 DEF NodeAt, NextAt
<1>10. low' = IF k > 1 /\ low[v] < low[NodeAt(k - 1)]
              THEN [low EXCEPT ![NodeAt(k - 1)] = low[v]] ELSE low
  BY <1>1, <1>5, <1>6, <1>8
<1>11. FinishOf(k, v)
  BY <1>1, <1>3, <1>4, <1>5, <1>6, <1>7, <1>9, <1>10 DEF FinishOf, Frame
<1>12. Stays(v) \/ Closes(v)
  BY <1>1, <1>5, <1>6 DEF Stays, Closes
<1> QED  BY <1>11, <1>12

\* Two nodes on the stack have two indices, and what is popped down to v is what has
\* no less an index than v.
LEMMA StackCut ==
    ASSUME SearchInv
    PROVE  /\ \A x, y \in OnStack : index[x] = index[y] => x = y
           /\ \A v \in OnStack :
                 /\ Popped(v) = {x \in OnStack : index[x] >= index[v]}
                 /\ ToSet(Below(v)) = {x \in OnStack : index[x] < index[v]}
                 /\ Below(v) \in Seq(Nodes) /\ Len(Below(v)) <= Len(sccStack)
                 /\ \A i \in 1 .. Len(Below(v)) : Below(v)[i] = sccStack[i]
<1>1. /\ \A i \in 1 .. Len(sccStack) : sccStack[i] \in OnStack
      /\ \A x \in OnStack : \E i \in 1 .. Len(sccStack) : sccStack[i] = x
      /\ DOMAIN sccStack = 1 .. Len(sccStack) /\ Len(sccStack) \in Nat
      /\ sccStack \in Seq(Nodes)
  BY StackElements DEF SearchInv, SearchTypes
<1>2. \A i, j \in 1 .. Len(sccStack) : i < j => index[sccStack[i]] < index[sccStack[j]]
  BY <1>1 DEF SearchInv, StackByIndex
<1>3. \A x \in OnStack : index[x] \in Int
  BY SearchFacts
<1>4. ASSUME NEW x \in OnStack, NEW y \in OnStack, index[x] = index[y]
      PROVE  x = y
  <2>1. PICK i \in 1 .. Len(sccStack) : sccStack[i] = x
    BY <1>1
  <2>2. PICK j \in 1 .. Len(sccStack) : sccStack[j] = y
    BY <1>1
  <2>3. ~ (i < j) /\ ~ (j < i)
    BY <1>2, <1>3, <1>4, <2>1, <2>2
  <2> QED  BY <2>1, <2>2, <2>3
<1>5. ASSUME NEW v \in OnStack
      PROVE  /\ Popped(v) = {x \in OnStack : index[x] >= index[v]}
             /\ ToSet(Below(v)) = {x \in OnStack : index[x] < index[v]}
             /\ Below(v) \in Seq(Nodes) /\ Len(Below(v)) <= Len(sccStack)
             /\ \A i \in 1 .. Len(Below(v)) : Below(v)[i] = sccStack[i]
  <2>1. PICK p \in 1 .. Len(sccStack) : p = PositionOf(v) /\ sccStack[p] = v
    <3>1. \E i \in DOMAIN sccStack : sccStack[i] = v
        BY <1>1
    <3> QED BY <1>1, <3>1 DEF PositionOf
  <2>2. Below(v) = SubSeq(sccStack, 1, p - 1)
    BY <2>1 DEF Below
  <2>3. /\ Below(v) \in Seq(Nodes) /\ Len(Below(v)) = p - 1
        /\ \A i \in 1 .. p - 1 : Below(v)[i] = sccStack[i]
    BY <1>1, <2>2
  <2>4. ToSet(Below(v)) = {sccStack[i] : i \in 1 .. p - 1}
    <3>1. DOMAIN Below(v) = 1 .. p - 1
        BY <2>1, <2>3
    <3> QED BY <2>3, <3>1 DEF ToSet
  <2>5. ToSet(Below(v)) = {x \in OnStack : index[x] < index[v]}
    <3>1. ASSUME NEW i \in 1 .. p - 1
          PROVE  sccStack[i] \in OnStack /\ index[sccStack[i]] < index[v]
        BY <1>1, <1>2, <2>1
    <3>2. ASSUME NEW x \in OnStack, index[x] < index[v]
          PROVE  \E i \in 1 .. p - 1 : sccStack[i] = x
        <4>1. PICK i \in 1 .. Len(sccStack) : sccStack[i] = x
            BY <1>1
        <4>2. ~ (p < i) /\ i # p
            BY <1>2, <1>3, <2>1, <3>2, <4>1
        <4> QED BY <4>1, <4>2
    <3> QED BY <2>4, <3>1, <3>2
  <2>6. Popped(v) = {x \in OnStack : index[x] >= index[v]}
    <3>1. Popped(v) = OnStack \ ToSet(Below(v))
        BY DEF Popped, OnStack
    <3> QED BY <1>3, <2>5, <3>1
  <2> QED  BY <2>1, <2>3, <2>5, <2>6
<1> QED  BY <1>4, <1>5

\* What the search of the path's top knows when it is over.
FinishKnows(k, v) ==
    /\ \A u \in Nodes : index[u] \in Int /\ low[u] \in Int
    /\ \A u \in OnStack : u \in Nodes /\ u \in cone
    /\ v \in OnStack /\ k \in 1 .. k /\ v = NodeAt(k) /\ DOMAIN work = 1 .. k
    /\ \A i \in 1 .. k : NodeAt(i) \in OnStack /\ NextAt(i) \in Nat /\ NextAt(i) >= 1
    /\ \A i \in 1 .. k - 1 : i \in 1 .. k /\ index[NodeAt(i)] < index[v] /\ NodeAt(i) # v
    /\ \A y \in Drivers(v, DataKinds) : index[y] # NotSeen /\ (y \in OnStack => low[v] <= index[y])
    /\ DOMAIN work' = 1 .. k - 1 /\ Path = {NodeAt(i) : i \in 1 .. k} /\ Path' = Path \ {v}

\* All neighbours of a node have been looked at when its search is over.
LEMMA FinishFacts ==
    ASSUME ConeAssumption, SearchInv, ConeClosed, NEW k \in Nat, NEW v \in Nodes, FinishOf(k, v)
    PROVE  FinishKnows(k, v)
<1>k. k = Len(work) /\ k > 0 /\ v = NodeAt(k) /\ NextAt(k) > Len(Neighbours(v))
  BY DEF FinishOf
<1>1. /\ \A u \in Nodes : index[u] \in Int /\ low[u] \in Int
      /\ \A u \in OnStack : u \in Nodes /\ u \in cone
      /\ v \in OnStack /\ k \in 1 .. k /\ DOMAIN work = 1 .. k
      /\ \A i \in 1 .. k : NodeAt(i) \in OnStack /\ NextAt(i) \in Nat /\ NextAt(i) >= 1
      /\ Path = {NodeAt(i) : i \in 1 .. k}
  BY <1>k, SearchFacts
<1>2. ASSUME NEW i \in 1 .. k - 1 PROVE i \in 1 .. k /\ index[NodeAt(i)] < index[v] /\ NodeAt(i) # v
  <2>1. i \in 1 .. k /\ i < k
    OBVIOUS
  <2>2. index[NodeAt(i)] < index[v]
    BY <1>k, <1>1, <2>1 DEF SearchInv, PathHeld
  <2> QED  BY <1>1, <2>1, <2>2
<1>3. ASSUME NEW y \in Drivers(v, DataKinds)
      PROVE  index[y] # NotSeen /\ (y \in OnStack => low[v] <= index[y])
  <2>1. /\ Neighbours(v) \in Seq(Nodes)
        /\ \A w \in Drivers(v, DataKinds) \cap cone :
              \E j \in 1 .. Len(Neighbours(v)) : Neighbours(v)[j] = w
    BY NeighboursAreDrivers DEF SearchInv, SearchTypes
  <2>2. y \in cone
    BY <1>1 DEF ConeClosed
  <2>3. PICK j \in 1 .. Len(Neighbours(v)) : Neighbours(v)[j] = y
    BY <2>1, <2>2
  <2>4. j \in 1 .. NextAt(k) - 1
    <3>1. Len(Neighbours(v)) \in Nat /\ NextAt(k) \in Nat
        BY <1>1, <2>1
    <3> QED BY <1>k, <3>1
  <2>5. index[y] # NotSeen
    BY <1>k, <1>1, <2>3, <2>4 DEF SearchInv, LookedAt
  <2>6. ASSUME y \in OnStack PROVE low[v] <= index[y]
    <3>1. k \in DOMAIN work /\ ~ (k < Len(work)) /\ Neighbours(NodeAt(k))[j] = y
        BY <1>k, <1>1, <2>3
    <3>2. low[NodeAt(k)] <= index[Neighbours(NodeAt(k))[j]]
        BY <2>4, <2>6, <3>1 DEF SearchInv, LowOfLookedAt
    <3> QED BY <1>k, <3>1, <3>2
  <2> QED  BY <2>5, <2>6
<1>4. DOMAIN work' = 1 .. k - 1
  <2>1. work' \in Seq([node : Nodes, next : Nat]) /\ Len(work') = k - 1
    BY DEF FinishOf
  <2> QED  BY <2>1
<1>5. Path' = Path \ {v}
  <2>1. Path' = {NodeAt(i)' : i \in 1 .. k - 1} /\ \A i \in 1 .. k - 1 : NodeAt(i)' = NodeAt(i)
    BY <1>4 DEF Path, FinishOf
  <2>2. \A i \in 1 .. k : i \in 1 .. k - 1 \/ i = k
    OBVIOUS
  <2> QED  BY <1>k, <1>1, <1>2, <2>1, <2>2
<1> QED  BY <1>k, <1>1, <1>2, <1>3, <1>4, <1>5 DEF FinishKnows

\* The lowlink of the node below the path's top when the top's search is over.
LEMMA LowHandedDown ==
    ASSUME ConeAssumption, SearchInv, ConeClosed, NEW k \in Nat, NEW v \in Nodes, FinishOf(k, v)
    PROVE  /\ low' \in [Nodes -> Int]
           /\ \A i \in 1 .. k - 1 : i = k - 1 \/ low'[NodeAt(i)] = low[NodeAt(i)]
           /\ \A i \in 1 .. k - 1 : i = k - 1 =>
                 /\ low'[NodeAt(i)] <= low[NodeAt(i)] /\ low'[NodeAt(i)] <= low[v]
                 /\ low'[NodeAt(i)] = low[NodeAt(i)] \/ low'[NodeAt(i)] = low[v]
           /\ low[v] = index[v] => low' = low
<1>k. FinishKnows(k, v)
  BY FinishFacts
<1>1. low \in [Nodes -> Int]
  BY DEF SearchInv, SearchTypes
<1>2. \A i \in 1 .. k : NodeAt(i) \in Nodes
  BY <1>k DEF FinishKnows
<1>3. \A i, j \in 1 .. k : i = j \/ NodeAt(i) # NodeAt(j)
  <2> SUFFICES ASSUME NEW i \in 1 .. k, NEW j \in 1 .. k, i < j PROVE NodeAt(i) # NodeAt(j)
    <3> SUFFICES ASSUME NEW i \in 1 .. k, NEW j \in 1 .. k, i # j PROVE NodeAt(i) # NodeAt(j)
        OBVIOUS
    <3>1. i < j \/ j < i
        OBVIOUS
    <3> QED BY <3>1
  <2>1. index[NodeAt(i)] < index[NodeAt(j)]
    BY <1>k DEF SearchInv, PathHeld, FinishKnows
  <2>2. index[NodeAt(i)] \in Int
    BY <1>2, <1>k DEF FinishKnows
  <2> QED  BY <2>1, <2>2
<1>4. CASE k > 1 /\ low[v] < low[NodeAt(k - 1)]
  <2>1. PICK p \in Nodes : p = NodeAt(k - 1)
    BY <1>2, <1>4
  <2>2. low' = [low EXCEPT ![p] = low[v]] /\ k - 1 \in 1 .. k
    BY <1>4, <2>1 DEF FinishOf
  <2>3. low' \in [Nodes -> Int] /\ \A u \in Nodes : low'[u] = IF u = p THEN low[v] ELSE low[u]
    BY <1>1, <2>2
  <2>4. \A i \in 1 .. k - 1 : i \in 1 .. k /\ (i = k - 1 \/ NodeAt(i) # p)
    BY <1>3, <2>1, <2>2
  <2>5. \A i \in 1 .. k - 1 : i = k - 1 \/ low'[NodeAt(i)] = low[NodeAt(i)]
    BY <1>2, <2>3, <2>4
  <2>6. low'[p] = low[v] /\ low[v] < low[p] /\ low[v] \in Int /\ low[p] \in Int
    BY <1>1, <1>4, <2>1, <2>3
  <2>7. low[v] # index[v]
    <3>1. low[p] <= index[p]
        BY <1>k, <2>1, <2>2 DEF SearchInv, LowReached, FinishKnows
    <3>2. index[p] < index[v] /\ index[p] \in Int /\ index[v] \in Int
        BY <1>k, <1>4, <2>1 DEF FinishKnows
    <3> QED BY <2>6, <3>1, <3>2
  <2> QED  BY <2>1, <2>3, <2>5, <2>6, <2>7
<1>5. CASE ~ (k > 1 /\ low[v] < low[NodeAt(k - 1)])
  <2>1. low' = low
    BY <1>5 DEF FinishOf
  <2>2. ASSUME NEW i \in 1 .. k - 1, i = k - 1
        PROVE  low[NodeAt(i)] <= low[v] /\ low[NodeAt(i)] <= low[NodeAt(i)]
    <3>1. low[NodeAt(i)] \in Int /\ low[v] \in Int /\ k > 1
        BY <1>1, <1>2, <2>2
    <3>2. ~ (low[v] < low[NodeAt(i)])
        BY <1>5, <2>2, <3>1
    <3> QED BY <3>1, <3>2
  <2> QED  BY <1>1, <2>1, <2>2
<1> QED  BY <1>4, <1>5

\* A node whose lowlink is below its index stays on the stack, off the path.
LEMMA StayKeeps ==
    ASSUME ConeAssumption, SearchInv, ConeClosed,
           NEW k \in Nat, NEW v \in Nodes, FinishOf(k, v), Stays(v)
    PROVE  SearchInv'
<1>g. /\ \A u, via : Drivers(u, via)' = Drivers(u, via)
      /\ \A u : Neighbours(u)' = Neighbours(u)
      /\ \A x, y : DependsOn(x, y)' = DependsOn(x, y)
      /\ \A u : Class(u)' = Class(u)
  BY GraphKept DEF FinishOf
<1>k. k = Len(work)
  BY DEF FinishOf
<1>t. /\ \A u \in Nodes : index[u] \in Int /\ low[u] \in Int
      /\ \A u \in OnStack : u \in Nodes /\ u \in cone
      /\ v \in OnStack /\ k \in 1 .. k /\ v = NodeAt(k) /\ DOMAIN work = 1 .. k
      /\ \A i \in 1 .. k : NodeAt(i) \in OnStack /\ NextAt(i) \in Nat /\ NextAt(i) >= 1
      /\ \A i \in 1 .. k - 1 : i \in 1 .. k /\ index[NodeAt(i)] < index[v] /\ NodeAt(i) # v
      /\ \A y \in Drivers(v, DataKinds) : index[y] # NotSeen /\ (y \in OnStack => low[v] <= index[y])
      /\ DOMAIN work' = 1 .. k - 1 /\ Path' = Path \ {v}
  BY FinishFacts DEF FinishKnows
<1>m. /\ index' = index /\ sccStack' = sccStack /\ components' = components /\ cone' = cone
      /\ OnStack' = OnStack /\ Members' = Members /\ Len(work') = k - 1
      /\ \A i \in 1 .. k - 1 : NodeAt(i)' = NodeAt(i) /\ NextAt(i)' = NextAt(i)
  <2>1. sccStack' = sccStack /\ components' = components
    BY DEF Stays
  <2> QED  BY <2>1 DEF FinishOf, OnStack, Members
<1>l. /\ low' \in [Nodes -> Int]
      /\ \A i \in 1 .. k - 1 : i = k - 1 \/ low'[NodeAt(i)] = low[NodeAt(i)]
      /\ \A i \in 1 .. k - 1 : i = k - 1 =>
            /\ low'[NodeAt(i)] <= low[NodeAt(i)] /\ low'[NodeAt(i)] <= low[v]
            /\ low'[NodeAt(i)] = low[NodeAt(i)] \/ low'[NodeAt(i)] = low[v]
  BY LowHandedDown
<1>r. /\ \A i \in 1 .. k - 1 : low'[NodeAt(i)] \in Int /\ low[NodeAt(i)] \in Int
            /\ index[NodeAt(i)] \in Int /\ low'[NodeAt(i)] <= low[NodeAt(i)]
  <2> SUFFICES ASSUME NEW i \in 1 .. k - 1
               PROVE  low'[NodeAt(i)] \in Int /\ low[NodeAt(i)] \in Int
                      /\ index[NodeAt(i)] \in Int /\ low'[NodeAt(i)] <= low[NodeAt(i)]
    OBVIOUS
  <2>1. NodeAt(i) \in Nodes
    BY <1>t
  <2>2. low'[NodeAt(i)] \in Int /\ low[NodeAt(i)] \in Int /\ index[NodeAt(i)] \in Int
    BY <1>l, <1>t, <2>1
  <2>3. low'[NodeAt(i)] = low[NodeAt(i)] \/ low'[NodeAt(i)] <= low[NodeAt(i)]
    BY <1>l
  <2> QED  BY <2>2, <2>3
<1>w. PICK w \in OnStack : index[w] = low[v] /\ DependsOn(v, w) /\ index[w] < index[v]
  <2>1. low[v] <= index[v] /\ low[v] # index[v]
    BY <1>t DEF Stays, SearchInv, LowReached
  <2>2. PICK w \in OnStack : index[w] = low[v] /\ DependsOn(v, w)
    BY <1>t DEF SearchInv, LowReached
  <2> QED  BY <1>t, <2>1, <2>2
<1>b. PICK b \in 1 .. k - 1 : index[NodeAt(b)] <= index[w] /\ DependsOn(w, NodeAt(b))
  <2>1. PICK b \in 1 .. k : index[NodeAt(b)] <= index[w] /\ DependsOn(w, NodeAt(b))
    BY <1>t DEF SearchInv, ReachesPath
  <2>2. b # k
    BY <1>t, <1>w, <2>1
  <2> QED  BY <2>1, <2>2
<1>c. k - 1 \in 1 .. k - 1
  BY <1>b
<1>e. /\ NextAt(k - 1) > 1 /\ v = Neighbours(NodeAt(k - 1))[NextAt(k - 1) - 1]
      /\ v \in Drivers(NodeAt(k - 1), DataKinds)
  <2>1. NextAt(k - 1) > 1 /\ NodeAt(k) = Neighbours(NodeAt(k - 1))[NextAt(k - 1) - 1]
    <3>1. k - 1 \in DOMAIN work /\ k - 1 < Len(work) /\ (k - 1) + 1 = k
        BY <1>c, <1>k, <1>t
    <3>2. NextAt(k - 1) > 1 /\ NodeAt((k - 1) + 1) = Neighbours(NodeAt(k - 1))[NextAt(k - 1) - 1]
        BY <3>1 DEF SearchInv, PathHeld
    <3> QED BY <3>1, <3>2
  <2>2. NextAt(k - 1) \in 1 .. Len(Neighbours(NodeAt(k - 1))) + 1
    BY <1>c, <1>t DEF SearchInv, PathHeld
  <2>3. Neighbours(NodeAt(k - 1)) \in Seq(Nodes)
        /\ \A j \in 1 .. Len(Neighbours(NodeAt(k - 1))) :
              Neighbours(NodeAt(k - 1))[j] \in Drivers(NodeAt(k - 1), DataKinds) \cap cone
    BY NeighboursAreDrivers DEF SearchInv, SearchTypes
  <2>4. NextAt(k - 1) - 1 \in 1 .. Len(Neighbours(NodeAt(k - 1)))
    BY <2>1, <2>2, <2>3
  <2> QED  BY <1>t, <2>1, <2>3, <2>4
<1>1. SearchTypes'
  <2>1. work' \in Seq([node : Nodes, next : Nat])
    BY DEF FinishOf
  <2> QED  BY <1>l, <1>m, <2>1 DEF FinishOf, SearchInv, SearchTypes
<1>2. StackApart' /\ StackByIndex'
  BY <1>m DEF SearchInv, StackApart, StackByIndex
<1>4. PathHeld'
  <2>1. ASSUME NEW i \in 1 .. k - 1
        PROVE  /\ NodeAt(i)' \in OnStack' /\ NextAt(i)' \in 1 .. Len(Neighbours(NodeAt(i))') + 1
               /\ i < k - 1 => NextAt(i)' > 1 /\ NodeAt(i + 1)' = (Neighbours(NodeAt(i))[NextAt(i) - 1])'
    <3>1. NodeAt(i)' = NodeAt(i) /\ Neighbours(NodeAt(i))' = Neighbours(NodeAt(i)) /\ NextAt(i)' = NextAt(i)
        BY <1>g, <1>m
    <3>2. /\ NodeAt(i) \in OnStack /\ NextAt(i) \in 1 .. Len(Neighbours(NodeAt(i))) + 1
          /\ i < k => NextAt(i) > 1 /\ NodeAt(i + 1) = Neighbours(NodeAt(i))[NextAt(i) - 1]
        BY <1>k, <1>t DEF SearchInv, PathHeld
    <3>3. i < k - 1 => NodeAt(i + 1)' = NodeAt(i + 1)
        BY <1>m
    <3> QED BY <1>m, <3>1, <3>2, <3>3
  <2>2. \A i, j \in 1 .. k - 1 : i < j => index'[NodeAt(i)'] < index'[NodeAt(j)']
    <3>1. \A i, j \in 1 .. k : i < j => index[NodeAt(i)] < index[NodeAt(j)]
        BY <1>t DEF SearchInv, PathHeld
    <3> QED BY <1>m, <1>t, <3>1
  <2> QED  BY <1>m, <1>t, <2>1, <2>2 DEF PathHeld
<1>5. LookedAt'
  <2>1. ASSUME NEW i \in 1 .. k - 1, NEW j \in 1 .. NextAt(i)' - 1
        PROVE  index'[Neighbours(NodeAt(i))'[j]] # NotSeen
    <3>1. NodeAt(i)' = NodeAt(i) /\ Neighbours(NodeAt(i))' = Neighbours(NodeAt(i)) /\ NextAt(i)' = NextAt(i)
        BY <1>g, <1>m
    <3> QED BY <1>m, <1>t, <3>1 DEF SearchInv, LookedAt
  <2>2. \A x \in OnStack' \ Path' : \A y \in Drivers(x, DataKinds)' : index'[y] # NotSeen
    BY <1>g, <1>m, <1>t DEF SearchInv, LookedAt
  <2> QED  BY <1>t, <2>1, <2>2 DEF LookedAt
<1>6. PathReaches'
  BY <1>g, <1>m, <1>t DEF SearchInv, PathReaches
<1>7. ReachesPath'
  <2> SUFFICES ASSUME NEW x \in OnStack
               PROVE  \E i \in 1 .. k - 1 : index[NodeAt(i)] <= index[x] /\ DependsOn(x, NodeAt(i))
    <3>1. DOMAIN work' = 1 .. k - 1 /\ index' = index /\ \A i \in 1 .. k - 1 : NodeAt(i)' = NodeAt(i)
        BY <1>m, <1>t
    <3>2. \A x, y : DependsOn(x, y)' = DependsOn(x, y)
        BY <1>g
    <3> QED BY <1>m, <3>1, <3>2 DEF ReachesPath
  <2>1. PICK i \in 1 .. k : index[NodeAt(i)] <= index[x] /\ DependsOn(x, NodeAt(i))
    BY <1>t DEF SearchInv, ReachesPath
  <2>2. CASE i \in 1 .. k - 1
    BY <2>1, <2>2
  <2>3. CASE i = k
    <3>1. DependsOn(x, NodeAt(b))
        <4>1. DependsOn(x, v) /\ DependsOn(v, w) /\ DependsOn(w, NodeAt(b))
            BY <1>b, <1>t, <1>w, <2>1, <2>3
        <4> QED BY <4>1, Dependence
    <3>2. index[NodeAt(b)] <= index[x]
        BY <1>b, <1>r, <1>t, <1>w, <2>1, <2>3
    <3> QED BY <3>1, <3>2
  <2> QED  BY <2>2, <2>3
<1>8. LowReached'
  <2> SUFFICES ASSUME NEW i \in 1 .. k - 1
               PROVE  /\ low'[NodeAt(i)] <= index[NodeAt(i)]
                      /\ \E y \in OnStack : index[y] = low'[NodeAt(i)] /\ DependsOn(NodeAt(i), y)
    BY <1>g, <1>m, <1>t DEF LowReached
  <2>1. low[NodeAt(i)] <= index[NodeAt(i)]
    BY <1>t DEF SearchInv, LowReached
  <2>2. PICK y \in OnStack : index[y] = low[NodeAt(i)] /\ DependsOn(NodeAt(i), y)
    BY <1>t DEF SearchInv, LowReached
  <2>3. low'[NodeAt(i)] = low[NodeAt(i)] \/ (i = k - 1 /\ low'[NodeAt(i)] = low[v])
    BY <1>l
  <2>4. i = k - 1 => DependsOn(NodeAt(i), w)
    BY <1>e, <1>w, Dependence
  <2> QED  BY <1>r, <1>w, <2>1, <2>2, <2>3, <2>4
<1>9. LowOfFinished'
  <2> SUFFICES ASSUME NEW i \in 1 .. k - 1, NEW x \in OnStack, x \notin Path \/ x = v,
                      index[NodeAt(i)] < index[x],
                      i < k - 1 => index[x] < index[NodeAt(i + 1)],
                      NEW y \in Drivers(x, DataKinds), y \in OnStack
               PROVE  low'[NodeAt(i)] <= index[y]
    <3> SUFFICES ASSUME NEW i \in DOMAIN work', NEW x \in OnStack' \ Path',
                        index'[NodeAt(i)'] < index'[x],
                        i < Len(work') => index'[x] < index'[NodeAt(i + 1)'],
                        NEW y \in Drivers(x, DataKinds)' \cap OnStack'
                 PROVE  low'[NodeAt(i)'] <= index'[y]
        BY DEF LowOfFinished
    <3>1. i \in 1 .. k - 1 /\ x \in OnStack /\ (x \notin Path \/ x = v)
          /\ y \in Drivers(x, DataKinds) /\ y \in OnStack /\ NodeAt(i)' = NodeAt(i)
        BY <1>g, <1>m, <1>t
    <3>2. i < k - 1 => NodeAt(i + 1)' = NodeAt(i + 1)
        BY <1>m, <3>1
    <3> QED BY <1>m, <3>1, <3>2
  <2>t. index[x] \in Int /\ index[y] \in Int /\ i \in 1 .. k
    BY <1>t
  <2>1. CASE x = v
    <3>1. i = k - 1
        <4> SUFFICES ASSUME i < k - 1 PROVE FALSE
            OBVIOUS
        <4>1. i + 1 \in 1 .. k - 1 /\ index[v] < index[NodeAt(i + 1)]
            BY <2>1
        <4> QED BY <1>r, <1>t, <4>1
    <3>2. low'[NodeAt(i)] <= low[v] /\ low[v] <= index[y] /\ low[v] \in Int
        BY <1>l, <1>t, <2>1, <3>1
    <3> QED BY <1>r, <2>t, <3>2
  <2>2. CASE x # v
    <3>0. x \in OnStack \ Path
        BY <2>2
    <3>1. CASE i < k - 1 \/ index[x] < index[v]
        <4>1. i < k => index[x] < index[NodeAt(i + 1)]
            <5>1. i < k - 1 \/ i + 1 = k
                OBVIOUS
            <5>2. i + 1 = k => NodeAt(i + 1) = v
                BY <1>t
            <5> QED BY <3>1, <5>1, <5>2
        <4>2. low[NodeAt(i)] <= index[y]
            BY <1>k, <1>t, <2>t, <3>0, <4>1 DEF SearchInv, LowOfFinished
        <4> QED BY <1>r, <2>t, <4>2
    <3>2. CASE i = k - 1 /\ ~ (index[x] < index[v])
        <4>1. index[v] < index[x]
            <5>1. index[v] # index[x]
                BY <1>t, <2>2, StackCut
            <5> QED BY <1>t, <2>t, <3>2, <5>1
        <4>2. low[v] <= index[y]
            <5>1. k \in DOMAIN work /\ ~ (k < Len(work)) /\ index[NodeAt(k)] < index[x]
                BY <1>k, <1>t, <4>1
            <5>2. low[NodeAt(k)] <= index[y]
                BY <3>0, <5>1 DEF SearchInv, LowOfFinished
            <5> QED BY <1>t, <5>2
        <4>3. low'[NodeAt(i)] <= low[v] /\ low[v] \in Int
            BY <1>l, <1>t, <3>2
        <4> QED BY <1>r, <2>t, <4>2, <4>3
    <3> QED BY <3>1, <3>2
  <2> QED  BY <2>1, <2>2
<1>10. LowOfLookedAt'
  <2> SUFFICES ASSUME NEW i \in 1 .. k - 1, NEW j \in 1 .. NextAt(i)' - 1,
                      i < k - 1 => j < NextAt(i)' - 1,
                      Neighbours(NodeAt(i))'[j] \in OnStack'
               PROVE  low'[NodeAt(i)'] <= index'[Neighbours(NodeAt(i))'[j]]
    BY <1>m, <1>t DEF LowOfLookedAt
  <2>1. NodeAt(i)' = NodeAt(i) /\ Neighbours(NodeAt(i))' = Neighbours(NodeAt(i)) /\ NextAt(i)' = NextAt(i)
    BY <1>g, <1>m
  <2>2. PICK y \in OnStack : y = Neighbours(NodeAt(i))[j]
    BY <1>m, <2>1
  <2>t. index[y] \in Int /\ NextAt(i) \in Nat /\ i \in 1 .. k /\ j \in 1 .. NextAt(i) - 1
    BY <1>t, <2>1
  <2>3. CASE j < NextAt(i) - 1
    <3>1. low[NodeAt(i)] <= index[y]
        BY <1>k, <1>t, <2>t, <2>2, <2>3 DEF SearchInv, LowOfLookedAt
    <3>2. low'[NodeAt(i)] <= index[y]
        BY <1>r, <2>t, <3>1
    <3> QED BY <1>m, <2>1, <2>2, <3>2
  <2>4. CASE i = k - 1 /\ j = NextAt(i) - 1
    <3>1. y = v
        BY <1>e, <2>2, <2>4
    <3>2. low'[NodeAt(i)] <= low[v] /\ low[v] <= index[v] /\ low[v] \in Int
        BY <1>l, <1>t, <2>4 DEF SearchInv, LowReached
    <3>3. low'[NodeAt(i)] <= index[y]
        BY <1>r, <2>t, <3>1, <3>2
    <3> QED BY <1>m, <2>1, <2>2, <3>3
  <2>5. j < NextAt(i) - 1 \/ (i = k - 1 /\ j = NextAt(i) - 1)
    BY <2>1, <2>t
  <2> QED  BY <2>3, <2>4, <2>5
<1>11. MembersClassed'
  <2>1. Closed(Members, DataKinds)'
    BY <1>g, <1>m DEF SearchInv, MembersClassed, Closed
  <2>2. \A c \in components' : c # {} /\ \A u \in c : c = Class(u)'
    BY <1>g, <1>m DEF SearchInv, MembersClassed
  <2> QED  BY <2>1, <2>2 DEF MembersClassed
<1>12. NotBegun' /\ AllSeen'
  BY DEF FinishOf, NotBegun, AllSeen
<1> QED  BY <1>1, <1>2, <1>4, <1>5, <1>6, <1>7, <1>8, <1>9, <1>10, <1>11, <1>12 DEF SearchInv

\* What is popped down to a node that is its own lowlink is a class of mutual dependency,
\* and has, with the components made before it, all its drivers.
LEMMA PoppedIsClass ==
    ASSUME ConeAssumption, SearchInv, ConeClosed,
           NEW k \in Nat, NEW v \in Nodes, FinishOf(k, v), low[v] = index[v]
    PROVE  /\ Closed(Members \cup Popped(v), DataKinds)
           /\ v \in Popped(v) /\ \A u \in Popped(v) : Popped(v) = Class(u)
<1>k. k = Len(work)
  BY DEF FinishOf
<1>t. /\ \A u \in Nodes : index[u] \in Int /\ low[u] \in Int
      /\ \A u \in OnStack : u \in Nodes /\ u \in cone
      /\ v \in OnStack /\ k \in 1 .. k /\ v = NodeAt(k) /\ DOMAIN work = 1 .. k
      /\ \A i \in 1 .. k : NodeAt(i) \in OnStack
      /\ \A i \in 1 .. k - 1 : index[NodeAt(i)] < index[v]
      /\ \A y \in Drivers(v, DataKinds) : index[y] # NotSeen /\ (y \in OnStack => low[v] <= index[y])
      /\ Path = {NodeAt(i) : i \in 1 .. k}
  BY FinishFacts DEF FinishKnows
<1>p. Popped(v) = {x \in OnStack : index[x] >= index[v]}
  BY <1>t, StackCut
<1>1. Closed(Members \cup Popped(v), DataKinds)
  <2> SUFFICES ASSUME NEW x \in Members \cup Popped(v), NEW y \in Drivers(x, DataKinds)
               PROVE  y \in Members \cup Popped(v)
    BY DEF Closed
  <2>1. CASE x \in Members
    BY <2>1 DEF SearchInv, MembersClassed, Closed
  <2>2. CASE x \in Popped(v)
    <3>1. x \in OnStack /\ index[x] >= index[v] /\ y \in Nodes
        BY <1>p, <2>2 DEF Drivers
    <3>2. x = v \/ x \notin Path
        <4>1. \A i \in 1 .. k : i = k \/ i \in 1 .. k - 1
            BY <1>t
        <4>2. \A i \in 1 .. k - 1 : x # NodeAt(i)
            BY <1>t, <3>1
        <4> QED BY <1>t, <4>1, <4>2
    <3>3. index[y] # NotSeen
        <4>1. x \notin Path => index[y] # NotSeen
            BY <3>1 DEF SearchInv, LookedAt
        <4> QED BY <1>t, <3>2, <4>1
    <3>4. y \in OnStack \/ y \in Members
        BY <3>1, <3>3 DEF SearchInv, StackApart
    <3>5. ASSUME y \in OnStack PROVE index[y] >= index[v]
        <4>1. CASE x = v
            BY <1>t, <3>5, <4>1
        <4>2. CASE x # v
            <5>1. index[x] # index[v]
                BY <1>t, <3>1, <4>2, StackCut
            <5>2. index[v] < index[x]
                BY <1>t, <3>1, <5>1
            <5>3. k \in DOMAIN work /\ ~ (k < Len(work)) /\ index[NodeAt(k)] < index[x]
                  /\ x \in OnStack \ Path
                BY <1>k, <1>t, <3>1, <3>2, <4>2, <5>2
            <5>4. low[NodeAt(k)] <= index[y]
                BY <3>5, <5>3 DEF SearchInv, LowOfFinished
            <5> QED BY <1>t, <3>1, <5>4
        <4> QED BY <4>1, <4>2
    <3> QED BY <1>p, <3>4, <3>5
  <2> QED  BY <2>1, <2>2
<1>2. v \in Popped(v)
  BY <1>p, <1>t
<1>3. ASSUME NEW x \in Popped(v) PROVE DependsOn(v, x) /\ DependsOn(x, v) /\ x \in cone
  <2>1. x \in OnStack /\ index[v] <= index[x] /\ x \in cone
    BY <1>p, <1>t
  <2>2. DependsOn(v, x)
    BY <1>t, <2>1 DEF SearchInv, PathReaches
  <2>3. PICK i \in 1 .. k : DependsOn(x, NodeAt(i))
    BY <1>t, <2>1 DEF SearchInv, ReachesPath
  <2>4. DependsOn(NodeAt(i), v)
    <3>1. index[NodeAt(i)] <= index[v]
        <4>1. i = k \/ i \in 1 .. k - 1
            OBVIOUS
        <4> QED BY <1>t, <4>1
    <3> QED BY <1>t, <3>1 DEF SearchInv, PathReaches
  <2> QED  BY <2>1, <2>2, <2>3, <2>4, Dependence
<1>4. ASSUME NEW u \in Popped(v) PROVE Popped(v) = Class(u)
  <2>1. ASSUME NEW x \in Popped(v) PROVE x \in Class(u)
    <3>1. DependsOn(u, x) /\ DependsOn(x, u) /\ x \in cone
        BY <1>3, <1>4, Dependence
    <3> QED BY <3>1 DEF Class
  <2>2. ASSUME NEW x \in Class(u) PROVE x \in Popped(v)
    <3>1. x \in cone /\ DependsOn(u, x) /\ DependsOn(x, u)
        BY DEF Class
    <3>2. Members \subseteq Nodes /\ Popped(v) \subseteq Nodes /\ Members \cap OnStack = {}
          /\ cone \subseteq Nodes
        BY <1>p, <1>t DEF SearchInv, StackApart, SearchTypes
    <3>3. x \in Members \cup Popped(v)
        <4>1. u \in Members \cup Popped(v) /\ Members \cup Popped(v) \in SUBSET Nodes
            BY <1>4, <3>2
        <4> QED BY <1>1, <3>1, <4>1, Dependence
    <3>4. x \notin Members
        <4> SUFFICES ASSUME x \in Members PROVE FALSE
            OBVIOUS
        <4>1. Members \in SUBSET Nodes /\ Closed(Members, DataKinds)
            BY <3>2 DEF SearchInv, MembersClassed
        <4>2. u \in Members
            BY <3>1, <4>1, Dependence
        <4> QED BY <1>p, <1>4, <3>2, <4>2
    <3> QED BY <3>3, <3>4
  <2>3. Class(u) \subseteq Popped(v) /\ Popped(v) \subseteq Class(u)
    BY <2>1, <2>2
  <2> QED  BY <2>3
<1> QED  BY <1>1, <1>2, <1>4

\* A node that is its own lowlink takes what is above it off the stack.
LEMMA CloseKeeps ==
    ASSUME ConeAssumption, SearchInv, ConeClosed,
           NEW k \in Nat, NEW v \in Nodes, FinishOf(k, v), Closes(v)
    PROVE  SearchInv'
<1>g. /\ \A u, via : Drivers(u, via)' = Drivers(u, via)
      /\ \A u : Neighbours(u)' = Neighbours(u)
      /\ \A x, y : DependsOn(x, y)' = DependsOn(x, y)
      /\ \A u : Class(u)' = Class(u)
  BY GraphKept DEF FinishOf
<1>k. k = Len(work) /\ low[v] = index[v]
  BY DEF FinishOf, Closes
<1>t. /\ \A u \in Nodes : index[u] \in Int /\ low[u] \in Int
      /\ \A u \in OnStack : u \in Nodes /\ u \in cone
      /\ v \in OnStack /\ k \in 1 .. k /\ v = NodeAt(k) /\ DOMAIN work = 1 .. k
      /\ \A i \in 1 .. k : NodeAt(i) \in OnStack /\ NextAt(i) \in Nat /\ NextAt(i) >= 1
      /\ \A i \in 1 .. k - 1 : i \in 1 .. k /\ index[NodeAt(i)] < index[v] /\ NodeAt(i) # v
      /\ DOMAIN work' = 1 .. k - 1 /\ Path' = Path \ {v}
  BY FinishFacts DEF FinishKnows
<1>p. /\ Popped(v) = {x \in OnStack : index[x] >= index[v]}
      /\ OnStack' = {x \in OnStack : index[x] < index[v]}
      /\ sccStack' \in Seq(Nodes) /\ Len(sccStack') <= Len(sccStack)
      /\ \A i \in 1 .. Len(sccStack') : sccStack'[i] = sccStack[i]
  <2>1. sccStack' = Below(v)
    BY DEF Closes
  <2>2. OnStack' = ToSet(Below(v))
    BY <2>1 DEF OnStack
  <2> QED  BY <1>t, <2>1, <2>2, StackCut
<1>m. /\ index' = index /\ cone' = cone /\ components' = components \cup {Popped(v)}
      /\ Members' = Members \cup Popped(v) /\ Len(work') = k - 1
      /\ \A i \in 1 .. k - 1 : NodeAt(i)' = NodeAt(i) /\ NextAt(i)' = NextAt(i)
      /\ low' = low
  <2>1. components' = components \cup {Popped(v)}
    BY DEF Closes
  <2>2. Members' = Members \cup Popped(v)
    BY <2>1 DEF Members
  <2>3. low' = low
    BY <1>k, LowHandedDown
  <2> QED  BY <2>1, <2>2, <2>3 DEF FinishOf
<1>s. /\ OnStack' \subseteq OnStack /\ v \notin OnStack' /\ OnStack = OnStack' \cup Popped(v)
      /\ OnStack' \cap Popped(v) = {}
      /\ \A i \in 1 .. k - 1 : NodeAt(i) \in OnStack'
      /\ OnStack' \ Path' \subseteq OnStack \ Path
  <2>1. \A x \in OnStack : index[x] \in Int /\ index[v] \in Int
    BY <1>t
  <2>2. OnStack' \subseteq OnStack /\ v \notin OnStack' /\ OnStack = OnStack' \cup Popped(v)
        /\ OnStack' \cap Popped(v) = {}
    BY <1>p, <1>t, <2>1
  <2>3. \A i \in 1 .. k - 1 : NodeAt(i) \in OnStack'
    BY <1>p, <1>t
  <2> QED  BY <1>t, <2>2, <2>3
<1>1. SearchTypes'
  <2>1. work' \in Seq([node : Nodes, next : Nat])
    BY DEF FinishOf
  <2> QED  BY <1>m, <1>p, <2>1 DEF FinishOf, SearchInv, SearchTypes
<1>2. StackApart'
  <2>1. /\ \A u \in Nodes : index[u] # NotSeen <=> u \in OnStack \cup Members
        /\ OnStack \cap Members = {} /\ OnStack \cup Members \subseteq cone
    BY DEF SearchInv, StackApart
  <2>2. OnStack' \cup Members' = OnStack \cup Members /\ OnStack' \cap Members' = {}
    BY <1>m, <1>s, <2>1
  <2> QED  BY <1>m, <2>1, <2>2 DEF StackApart
<1>3. StackByIndex'
  <2>1. /\ DOMAIN sccStack' = 1 .. Len(sccStack') /\ Len(sccStack') \in Nat
        /\ DOMAIN sccStack = 1 .. Len(sccStack) /\ Len(sccStack) \in Nat
    BY <1>p DEF SearchInv, SearchTypes
  <2>2. \A i \in DOMAIN sccStack' : i \in DOMAIN sccStack /\ sccStack'[i] = sccStack[i]
    BY <1>p, <2>1
  <2> QED  BY <1>m, <2>2 DEF SearchInv, StackByIndex
<1>4. PathHeld'
  <2>1. ASSUME NEW i \in 1 .. k - 1
        PROVE  /\ NodeAt(i)' \in OnStack' /\ NextAt(i)' \in 1 .. Len(Neighbours(NodeAt(i))') + 1
               /\ i < k - 1 => NextAt(i)' > 1 /\ NodeAt(i + 1)' = (Neighbours(NodeAt(i))[NextAt(i) - 1])'
    <3>1. NodeAt(i)' = NodeAt(i) /\ Neighbours(NodeAt(i))' = Neighbours(NodeAt(i)) /\ NextAt(i)' = NextAt(i)
        BY <1>g, <1>m
    <3>2. /\ NextAt(i) \in 1 .. Len(Neighbours(NodeAt(i))) + 1
          /\ i < k => NextAt(i) > 1 /\ NodeAt(i + 1) = Neighbours(NodeAt(i))[NextAt(i) - 1]
        BY <1>k, <1>t DEF SearchInv, PathHeld
    <3>3. i < k - 1 => NodeAt(i + 1)' = NodeAt(i + 1)
        BY <1>m
    <3> QED BY <1>s, <3>1, <3>2, <3>3
  <2>2. \A i, j \in 1 .. k - 1 : i < j => index'[NodeAt(i)'] < index'[NodeAt(j)']
    <3>1. \A i, j \in 1 .. k : i < j => index[NodeAt(i)] < index[NodeAt(j)]
        BY <1>t DEF SearchInv, PathHeld
    <3> QED BY <1>m, <1>t, <3>1
  <2> QED  BY <1>m, <1>t, <2>1, <2>2 DEF PathHeld
<1>5. LookedAt'
  <2>1. ASSUME NEW i \in 1 .. k - 1, NEW j \in 1 .. NextAt(i)' - 1
        PROVE  index'[Neighbours(NodeAt(i))'[j]] # NotSeen
    <3>1. NodeAt(i)' = NodeAt(i) /\ Neighbours(NodeAt(i))' = Neighbours(NodeAt(i)) /\ NextAt(i)' = NextAt(i)
        BY <1>g, <1>m
    <3> QED BY <1>m, <1>t, <3>1 DEF SearchInv, LookedAt
  <2>2. \A x \in OnStack' \ Path' : \A y \in Drivers(x, DataKinds)' : index'[y] # NotSeen
    BY <1>g, <1>m, <1>s DEF SearchInv, LookedAt
  <2> QED  BY <1>t, <2>1, <2>2 DEF LookedAt
<1>6. PathReaches'
  <2> SUFFICES ASSUME NEW i \in 1 .. k - 1, NEW x \in OnStack', index[NodeAt(i)] <= index[x]
               PROVE  DependsOn(NodeAt(i), x)
    BY <1>g, <1>m, <1>t DEF PathReaches
  <2> QED  BY <1>s, <1>t DEF SearchInv, PathReaches
<1>7. ReachesPath'
  <2> SUFFICES ASSUME NEW x \in OnStack'
               PROVE  \E i \in 1 .. k - 1 : index[NodeAt(i)] <= index[x] /\ DependsOn(x, NodeAt(i))
    <3>1. DOMAIN work' = 1 .. k - 1 /\ index' = index /\ \A i \in 1 .. k - 1 : NodeAt(i)' = NodeAt(i)
        BY <1>m, <1>t
    <3>2. \A x, y : DependsOn(x, y)' = DependsOn(x, y)
        BY <1>g
    <3> QED BY <3>1, <3>2 DEF ReachesPath
  <2>1. PICK i \in 1 .. k : index[NodeAt(i)] <= index[x] /\ DependsOn(x, NodeAt(i))
    BY <1>s, <1>t DEF SearchInv, ReachesPath
  <2>2. i # k
    BY <1>p, <1>t, <2>1
  <2> QED  BY <2>1, <2>2
<1>8. LowReached'
  <2> SUFFICES ASSUME NEW i \in 1 .. k - 1
               PROVE  /\ low[NodeAt(i)] <= index[NodeAt(i)]
                      /\ \E y \in OnStack' : index[y] = low[NodeAt(i)] /\ DependsOn(NodeAt(i), y)
    BY <1>g, <1>m, <1>t DEF LowReached
  <2>1. low[NodeAt(i)] <= index[NodeAt(i)]
    BY <1>t DEF SearchInv, LowReached
  <2>2. PICK y \in OnStack : index[y] = low[NodeAt(i)] /\ DependsOn(NodeAt(i), y)
    BY <1>t DEF SearchInv, LowReached
  <2>3. index[y] < index[v]
    <3>1. index[NodeAt(i)] < index[v] /\ index[NodeAt(i)] \in Int /\ low[NodeAt(i)] \in Int
          /\ index[v] \in Int /\ index[y] \in Int
        BY <1>t
    <3> QED BY <2>1, <2>2, <3>1
  <2> QED  BY <1>p, <2>1, <2>2, <2>3
<1>9. LowOfFinished'
  <2> SUFFICES ASSUME NEW i \in 1 .. k - 1, NEW x \in OnStack', x \in OnStack \ Path,
                      index[NodeAt(i)] < index[x],
                      i < k - 1 => index[x] < index[NodeAt(i + 1)],
                      NEW y \in Drivers(x, DataKinds), y \in OnStack
               PROVE  low[NodeAt(i)] <= index[y]
    <3> SUFFICES ASSUME NEW i \in DOMAIN work', NEW x \in OnStack' \ Path',
                        index'[NodeAt(i)'] < index'[x],
                        i < Len(work') => index'[x] < index'[NodeAt(i + 1)'],
                        NEW y \in Drivers(x, DataKinds)' \cap OnStack'
                 PROVE  low'[NodeAt(i)'] <= index'[y]
        BY DEF LowOfFinished
    <3>1. i \in 1 .. k - 1 /\ x \in OnStack' /\ x \in OnStack \ Path
          /\ y \in Drivers(x, DataKinds) /\ y \in OnStack /\ NodeAt(i)' = NodeAt(i)
        BY <1>g, <1>m, <1>s, <1>t
    <3>2. i < k - 1 => NodeAt(i + 1)' = NodeAt(i + 1)
        BY <1>m, <3>1
    <3> QED BY <1>m, <3>1, <3>2
  <2>1. i < k => index[x] < index[NodeAt(i + 1)]
    <3>1. i < k - 1 \/ i + 1 = k
        OBVIOUS
    <3>2. i + 1 = k => NodeAt(i + 1) = v
        BY <1>t
    <3>3. index[x] < index[v]
        BY <1>p
    <3> QED BY <3>1, <3>2, <3>3
  <2>2. i \in DOMAIN work
    BY <1>t
  <2> QED  BY <1>k, <2>1, <2>2 DEF SearchInv, LowOfFinished
<1>10. LowOfLookedAt'
  <2> SUFFICES ASSUME NEW i \in 1 .. k - 1, NEW j \in 1 .. NextAt(i)' - 1,
                      i < k - 1 => j < NextAt(i)' - 1,
                      Neighbours(NodeAt(i))'[j] \in OnStack'
               PROVE  low'[NodeAt(i)'] <= index'[Neighbours(NodeAt(i))'[j]]
    BY <1>m, <1>t DEF LowOfLookedAt
  <2>1. NodeAt(i)' = NodeAt(i) /\ Neighbours(NodeAt(i))' = Neighbours(NodeAt(i)) /\ NextAt(i)' = NextAt(i)
    BY <1>g, <1>m
  <2>2. PICK y \in OnStack' : y = Neighbours(NodeAt(i))[j]
    BY <2>1
  <2>3. NextAt(i) \in Nat /\ i \in 1 .. k /\ j \in 1 .. NextAt(i) - 1 /\ y \in OnStack /\ y # v
    BY <1>s, <1>t, <2>1
  <2>4. i < k => j < NextAt(i) - 1
    <3>1. CASE i < k - 1
        BY <2>1, <3>1
    <3>2. CASE i = k - 1
        <4>1. NodeAt(i + 1) = Neighbours(NodeAt(i))[NextAt(i) - 1]
            <5>1. i \in DOMAIN work /\ i < Len(work)
                BY <1>k, <1>t, <2>3, <3>2
            <5> QED BY <5>1 DEF SearchInv, PathHeld
        <4>2. NodeAt(i + 1) = v
            BY <1>t, <3>2
        <4>3. j # NextAt(i) - 1
            BY <2>2, <2>3, <4>1, <4>2
        <4> QED BY <2>3, <4>3
    <3> QED BY <3>1, <3>2
  <2>5. low[NodeAt(i)] <= index[y]
    BY <1>k, <1>t, <2>2, <2>3, <2>4 DEF SearchInv, LowOfLookedAt
  <2> QED  BY <1>m, <2>1, <2>2, <2>5
<1>11. MembersClassed'
  <2>1. /\ Closed(Members \cup Popped(v), DataKinds)
        /\ v \in Popped(v) /\ \A u \in Popped(v) : Popped(v) = Class(u)
    BY <1>k, PoppedIsClass
  <2>2. Closed(Members, DataKinds)'
    BY <1>g, <1>m, <2>1 DEF Closed
  <2>3. \A c \in components' : c # {} /\ \A u \in c : c = Class(u)'
    BY <1>g, <1>m, <2>1 DEF SearchInv, MembersClassed
  <2> QED  BY <2>2, <2>3 DEF MembersClassed
<1>12. NotBegun' /\ AllSeen'
  BY DEF FinishOf, NotBegun, AllSeen
<1> QED  BY <1>1, <1>2, <1>3, <1>4, <1>5, <1>6, <1>7, <1>8, <1>9, <1>10, <1>11, <1>12 DEF SearchInv

\* Nothing is searched before the cone is complete.
Idle ==
    /\ SearchTypes /\ phase # "done"
    /\ work = <<>> /\ sccStack = <<>> /\ components = {}
    /\ \A v \in Nodes : index[v] = NotSeen

\* The invariant holds of a search that has not begun.
LEMMA IdleHolds == Idle => SearchInv
<1> SUFFICES ASSUME Idle PROVE SearchInv
  OBVIOUS
<1>1. OnStack = {} /\ Members = {} /\ DOMAIN work = {} /\ DOMAIN sccStack = {}
  BY DEF Idle, OnStack, ToSet, Members
<1> QED  BY <1>1 DEF Idle, SearchInv, StackApart, StackByIndex, PathHeld, LookedAt, PathReaches,
               ReachesPath, LowReached, LowOfFinished, LowOfLookedAt, MembersClassed, Closed,
               NotBegun, AllSeen

\* It has not begun at first, and the seeds are nodes.
LEMMA SearchInvInit == ConeAssumption /\ ConeInit => SearchInv
<1> SUFFICES ASSUME ConeAssumption, ConeInit PROVE SearchInv
  OBVIOUS
<1>1. seeds \subseteq Nodes
  <2>1. PICK signals \in PropertySpecs : seeds = UNION {Resolve(s) : s \in signals}
    BY DEF ConeInit
  <2>2. signals \subseteq PropertySignal
    BY DEF ConeAssumption
  <2>3. \A s \in PropertySignal : Resolve(s) \subseteq Nodes
    BY DEF PropertySignal, Resolve
  <2> QED  BY <2>1, <2>2, <2>3
<1>2. kinds \in [Nodes \X Nodes -> SUBSET EdgeKind]
  BY DEF ConeInit, ConeAssumption
<1>3. SearchTypes
  <2>1. /\ index = [v \in Nodes |-> NotSeen] /\ low = [v \in Nodes |-> NotSeen]
        /\ counter = 0 /\ work = <<>> /\ sccStack = <<>> /\ cone = seeds
    BY DEF ConeInit
  <2>2. low \in [Nodes -> Int]
    BY <2>1 DEF NotSeen
  <2>3. index \in [Nodes -> {NotSeen} \cup (0 .. counter - 1)]
    BY <2>1
  <2> QED  BY <1>1, <1>2, <2>1, <2>2, <2>3 DEF SearchTypes
<1>4. Idle
  BY <1>3 DEF Idle, ConeInit
<1> QED  BY <1>4, IdleHolds

\* Each step of the search keeps what holds, in the cone that the traversal left.
LEMMA SearchInvStep ==
    ConeAssumption /\ ConeInv /\ SearchInv /\ [ConeNext]_coneVars => SearchInv'
<1> SUFFICES ASSUME ConeAssumption, ConeInv, SearchInv, [ConeNext]_coneVars PROVE SearchInv'
  OBVIOUS
<1>c. phase # "cone" => ConeClosed
  BY DEF ConeInv, PendingOnStack, StackDrained, ConeClosed, Drivers, DataKinds, EdgeKind
<1>s. SearchTypes
  BY DEF SearchInv
<1>1. CASE Expand
  <2>1. /\ phase = "cone" /\ phase' = "cone" /\ kinds' = kinds /\ index' = index /\ low' = low
        /\ counter' = counter /\ work' = work /\ sccStack' = sccStack /\ components' = components
    BY <1>1 DEF Expand, designVars, tarjanVars
  <2>2. cone' \subseteq Nodes
    BY <1>1, <1>s DEF Expand, SearchTypes, Drivers
  <2>3. Idle'
    BY <1>s, <2>1, <2>2 DEF Idle, SearchTypes, SearchInv, NotBegun
  <2> QED  BY <2>3, IdleHolds, PTL
<1>2. CASE ConeDone
  <2>1. /\ phase = "cone" /\ phase' = "components" /\ kinds' = kinds /\ index' = index /\ low' = low
        /\ counter' = counter /\ work' = work /\ sccStack' = sccStack /\ components' = components
        /\ cone' = cone
    BY <1>2 DEF ConeDone, designVars, tarjanVars
  <2>2. Idle'
    BY <1>s, <2>1 DEF Idle, SearchTypes, SearchInv, NotBegun
  <2> QED  BY <2>2, IdleHolds, PTL
<1>3. CASE NextRoot
  <2>1. PICK v \in cone : \E k \in Nat : VisitOf(v, k)
    BY <1>3, RootVisited
  <2>2. PICK k \in Nat : VisitOf(v, k)
    BY <2>1
  <2> QED  BY <1>3, <1>c, <2>2, VisitKeeps DEF NextRoot
<1>4. CASE Descend
  <2>1. PICK v \in cone : \E k \in Nat : VisitOf(v, k)
    BY <1>4, NeighbourVisited
  <2>2. PICK k \in Nat : VisitOf(v, k)
    BY <2>1
  <2> QED  BY <1>4, <1>c, <2>2, VisitKeeps DEF Descend, Looking, Searching
<1>5. CASE LookAtIndexed
  <2>1. PICK k \in Nat : \E v, w \in Nodes : LookOf(k, v, w)
    BY <1>5, NeighbourLookedAt
  <2>2. PICK v \in Nodes, w \in Nodes : LookOf(k, v, w)
    BY <2>1
  <2> QED  BY <1>5, <1>c, <2>2, LookKeeps DEF LookAtIndexed, Looking, Searching
<1>6. CASE FinishNode
  <2>1. PICK k \in Nat : \E v \in Nodes : FinishOf(k, v) /\ (Stays(v) \/ Closes(v))
    BY <1>6, NodeFinished
  <2>2. PICK v \in Nodes : FinishOf(k, v) /\ (Stays(v) \/ Closes(v))
    BY <2>1
  <2>3. ConeClosed
    BY <1>6, <1>c DEF FinishNode, Searching
  <2>4. CASE Stays(v)
    BY <2>2, <2>3, <2>4, StayKeeps
  <2>5. CASE Closes(v)
    BY <2>2, <2>3, <2>5, CloseKeeps
  <2> QED  BY <2>2, <2>4, <2>5
<1>7. CASE ComponentsDone
  <2>1. /\ work = <<>> /\ \A v \in cone : index[v] # NotSeen
        /\ kinds' = kinds /\ index' = index /\ low' = low /\ counter' = counter /\ work' = work
        /\ sccStack' = sccStack /\ components' = components /\ cone' = cone /\ phase' = "done"
    BY <1>7 DEF ComponentsDone, designVars, tarjanVars
  <2>2. /\ \A u, via : Drivers(u, via)' = Drivers(u, via)
        /\ \A u : Neighbours(u)' = Neighbours(u)
        /\ \A x, y : DependsOn(x, y)' = DependsOn(x, y)
        /\ \A u : Class(u)' = Class(u)
    BY <2>1, GraphKept
  <2>3. OnStack' = OnStack /\ Members' = Members /\ DOMAIN work = {} /\ DOMAIN work' = {}
        /\ Path' = Path
    BY <2>1 DEF OnStack, Members, Path
  <2>4. SearchTypes' /\ StackApart' /\ StackByIndex'
    BY <2>1, <2>3 DEF SearchInv, SearchTypes, StackApart, StackByIndex
  <2>5. PathHeld' /\ PathReaches' /\ LowReached' /\ LowOfFinished' /\ LowOfLookedAt'
    BY <2>3 DEF PathHeld, PathReaches, LowReached, LowOfFinished, LowOfLookedAt
  <2>6. LookedAt' /\ ReachesPath'
    BY <2>1, <2>2, <2>3 DEF SearchInv, LookedAt, ReachesPath
  <2>7. MembersClassed'
    BY <2>1, <2>2, <2>3 DEF SearchInv, MembersClassed, Closed
  <2>8. NotBegun' /\ AllSeen'
    BY <2>1 DEF NotBegun, AllSeen
  <2> QED  BY <2>4, <2>5, <2>6, <2>7, <2>8 DEF SearchInv
<1>8. CASE UNCHANGED coneVars
  <2>1. /\ kinds' = kinds /\ index' = index /\ low' = low /\ counter' = counter /\ work' = work
        /\ sccStack' = sccStack /\ components' = components /\ cone' = cone /\ phase' = phase
    BY <1>8 DEF coneVars, designVars, tarjanVars
  <2>2. /\ \A u, via : Drivers(u, via)' = Drivers(u, via)
        /\ \A u : Neighbours(u)' = Neighbours(u)
        /\ \A x, y : DependsOn(x, y)' = DependsOn(x, y)
        /\ \A u : Class(u)' = Class(u)
    BY <2>1, GraphKept
  <2>3. OnStack' = OnStack /\ Members' = Members /\ Path' = Path
        /\ \A i : NodeAt(i)' = NodeAt(i) /\ NextAt(i)' = NextAt(i)
    BY <2>1 DEF OnStack, Members, Path, NodeAt, NextAt
  <2>4. SearchTypes' /\ StackApart' /\ StackByIndex'
    BY <2>1, <2>3 DEF SearchInv, SearchTypes, StackApart, StackByIndex
  <2>5. PathHeld' /\ PathReaches' /\ LowReached'
    BY <2>1, <2>2, <2>3 DEF SearchInv, PathHeld, PathReaches, LowReached
  <2>6. LookedAt' /\ ReachesPath'
    BY <2>1, <2>2, <2>3 DEF SearchInv, LookedAt, ReachesPath
  <2>7. LowOfFinished' /\ LowOfLookedAt'
    BY <2>1, <2>2, <2>3 DEF SearchInv, LowOfFinished, LowOfLookedAt
  <2>8. MembersClassed' /\ NotBegun' /\ AllSeen'
    BY <2>1, <2>2, <2>3 DEF SearchInv, MembersClassed, Closed, NotBegun, AllSeen
  <2> QED  BY <2>4, <2>5, <2>6, <2>7, <2>8 DEF SearchInv
<1> QED  BY <1>1, <1>2, <1>3, <1>4, <1>5, <1>6, <1>7, <1>8 DEF ConeNext

\* The invariant of tarjan_scc holds throughout.
THEOREM SearchInvariant == ConeSpec => [](ConeInv /\ SearchInv)
<1>1. ConeInit => SearchInv
  BY SearchInvInit, ConeAssumption
<1>2. ConeInv /\ SearchInv /\ [ConeNext]_coneVars => SearchInv'
  BY SearchInvStep, ConeAssumption
<1> QED  BY <1>1, <1>2, ConeInvariant, PTL DEF ConeSpec

\* "It never drops a real dependency": for every graph and every property the components
\* are the classes of mutual dependency in the cone, whatever order the search takes,
\* a partition around one of them splits no loop, and a partition by module names a signal,
\* clocks and resets aside, of every loop that it splits.
THEOREM PartitionsSoundAlways == ConeSpec => []PartitionsSound
<1>1. ConeInv /\ SearchInv => PartitionsSound
  <2> SUFFICES ASSUME ConeInv, SearchInv, phase = "done" PROVE PartitionsSound
    BY DEF PartitionsSound, ComponentsExact, ClustersWhole, SplitLoopsNamed
  <2>c. /\ \A x \in cone : Drivers(x, EdgeKind) \subseteq cone
        /\ \A x : Drivers(x, DataKinds) \subseteq Drivers(x, EdgeKind)
    BY DEF ConeInv, PendingOnStack, StackDrained, Drivers, DataKinds, EdgeKind
  <2>1. OnStack = {} /\ Members = cone
    <3>1. work = <<>> /\ \A v \in cone : index[v] # NotSeen
        BY DEF SearchInv, AllSeen
    <3>2. OnStack = {}
        BY <3>1 DEF SearchInv, ReachesPath
    <3> QED BY <3>1, <3>2 DEF SearchInv, StackApart, SearchTypes
  <2>2. components = {Class(v) : v \in cone}
    <3>1. ASSUME NEW c \in components PROVE \E v \in cone : c = Class(v)
        <4>1. PICK v \in c : c = Class(v)
            BY DEF SearchInv, MembersClassed
        <4>2. v \in cone
            BY <2>1 DEF Members
        <4> QED BY <4>1, <4>2
    <3>2. ASSUME NEW v \in cone PROVE Class(v) \in components
        <4>1. PICK c \in components : v \in c
            BY <2>1 DEF Members
        <4> QED BY <4>1 DEF SearchInv, MembersClassed
    <3> QED BY <3>1, <3>2
  <2>3. ComponentsExact
    BY <2>2 DEF ComponentsExact, Class
  <2>d. Closed(cone, DataKinds)
    BY <2>c DEF Closed
  <2>4. ASSUME NEW members \in HierarchyPartitions, NEW c \in components,
               NEW v \in c \cap members, NEW w \in c \ members
        PROVE  \E d \in c \ members : d \in CutSignals(members) \/ nodeKind[d] = "control"
    <3>1. members \subseteq cone
        BY DEF HierarchyPartitions
    <3>2. c = Class(v) /\ v \in cone /\ w \in cone /\ DependsOn(v, w) /\ cone \subseteq Nodes
        BY <2>1 DEF SearchInv, MembersClassed, SearchTypes, Class, Members
    <3>3. PICK u \in c \cap members : \E d \in c \ members : d \in Drivers(u, DataKinds)
        <4> SUFFICES ASSUME \A u \in c \cap members : \A d \in c \ members : d \notin Drivers(u, DataKinds)
                     PROVE  FALSE
            OBVIOUS
        <4> DEFINE T == {u \in Nodes : DependsOn(v, u)} \ (c \ members)
        <4>1. v \in T
            BY <3>2, Dependence
        <4>2. Closed(T, DataKinds)
            <5> SUFFICES ASSUME NEW u \in T, NEW d \in Drivers(u, DataKinds) PROVE d \in T
                BY DEF Closed
            <5>1. DependsOn(v, u) /\ DependsOn(u, d) /\ DependsOn(v, d) /\ d \in Nodes
                BY Dependence DEF Drivers
            <5> SUFFICES ASSUME d \in c \ members PROVE FALSE
                BY <5>1
            <5>2. DependsOn(d, v)
                BY <3>2 DEF Class
            <5>3. DependsOn(u, v)
                BY <5>1, <5>2, Dependence
            <5>4. u \in cone
                BY <3>2, <5>1, <2>d, Dependence
            <5>5. u \in c
                BY <3>2, <5>1, <5>3, <5>4 DEF Class
            <5> QED  BY <5>5
        <4>3. w \in T
            BY <3>2, <4>1, <4>2 DEF DependsOn
        <4> QED  BY <4>3
    <3>4. PICK d \in c \ members : d \in Drivers(u, DataKinds)
        BY <3>3
    <3>5. d \in cone \ members /\ kinds[<<u, d>>] # {}
        BY <2>c, <3>1, <3>4 DEF Drivers
    <3> QED BY <3>5 DEF CutSignals
  <2>5. ASSUME NEW members \in ComponentPartitions,
               NEW v \in members, NEW w \in Drivers(v, DataKinds) \ members, NEW u \in members
        PROVE  ~DependsOn(w, u)
    <3> SUFFICES ASSUME DependsOn(w, u) PROVE FALSE
        OBVIOUS
    <3>1. members \in components
        BY DEF ComponentPartitions
    <3>2. members = Class(v) /\ v \in cone /\ DependsOn(u, v)
        BY <3>1 DEF SearchInv, MembersClassed, Class
    <3>3. DependsOn(v, w) /\ DependsOn(w, v)
        BY <3>2, Dependence
    <3>4. w \in cone
        BY <2>c, <3>2
    <3> QED BY <3>2, <3>3, <3>4 DEF Class
  <2>6. ClustersWhole
    BY <2>5 DEF ClustersWhole
  <2>7. SplitLoopsNamed
    <3> SUFFICES ASSUME NEW members \in HierarchyPartitions, NEW c \in components,
                        c \cap members # {}, c \ members # {}
                 PROVE  \E w \in c \ members : w \in CutSignals(members) \/ nodeKind[w] = "control"
      BY DEF SplitLoopsNamed
    <3> QED  BY <2>4
  <2> QED  BY <2>3, <2>6, <2>7 DEF PartitionsSound
<1> QED  BY <1>1, SearchInvariant, PTL

-----------------------------------------------------------------------------
(***************************************************************************)
(* The resets of a module                                                  *)
(***************************************************************************)

\* The votes name a polarity only if they agree on it.
LEMMA VotesAgree ==
    ASSUME NEW votes \in SUBSET {"active_low", "active_high"}, VotePolarity(votes) # "unknown"
    PROVE  votes = {VotePolarity(votes)}
<1>1. Cardinality(votes) = 1
  BY DEF VotePolarity
<1>2. IsFiniteSet({"active_low", "active_high"})
  <2>1. IsFiniteSet({"active_low"} \cup {"active_high"})
    BY FS_Singleton, FS_Union
  <2>2. {"active_low"} \cup {"active_high"} = {"active_low", "active_high"}
    OBVIOUS
  <2> QED  BY <2>1, <2>2
<1>3. IsFiniteSet(votes)
  BY <1>2, FS_Subset
<1>4. PICK v : votes = {v}
  BY <1>1, <1>3, FS_Singleton
<1> QED  BY <1>1, <1>4 DEF VotePolarity

LEMMA VotesAreOfTwo ==
    ASSUME NEW m, NEW assigns, NEW sig
    PROVE  Votes(m, assigns, sig) \in SUBSET {"active_low", "active_high"}
BY DEF Votes, PolarityFromEdge, PolarityFromGuard, PolarityFromName

\* The assignments of a block: of a sequence, each with the same reset and guard.
LEMMA AssignedEach ==
    ASSUME NEW T, NEW list \in Seq(T), NEW sig, NEW form
    PROVE  /\ AssignEach(list, sig, form) \in Seq({Assign(a, sig, form) : a \in T})
           /\ \A a \in Range(list) : Assign(a, sig, form) \in Range(AssignEach(list, sig, form))
<1>1. AssignEach(list, sig, form) \in Seq({Assign(a, sig, form) : a \in T})
  <2> DEFINE E == {Assign(a, sig, form) : a \in T}
             n == Len(list)
  <2>1. DOMAIN list = 1 .. n /\ n \in Nat
    BY LenProperties
  <2>2. \A i \in 1 .. n : list[i] \in T
    BY ElementOfSeq
  <2>3. \A i \in 1 .. n : Assign(list[i], sig, form) \in E
    BY <2>2
  <2>4. AssignEach(list, sig, form) = [i \in 1 .. n |-> Assign(list[i], sig, form)]
    BY <2>1 DEF AssignEach
  <2>5. AssignEach(list, sig, form) \in Seq(E)
    <3> DEFINE f == AssignEach(list, sig, form)
    <3>1. f \in [1 .. n -> E]
      <4> HIDE DEF E, n
      <4> QED  BY <2>3, <2>4
    <3> HIDE DEF E, n, f
    <3>2. f \in Seq(E)
      BY <2>1, <3>1
    <3> QED  BY <3>2 DEF f
  <2> QED  BY <2>5
<1>2. ASSUME NEW a \in Range(list)
      PROVE  Assign(a, sig, form) \in Range(AssignEach(list, sig, form))
  BY DEF AssignEach, Range
<1> QED  BY <1>1, <1>2

\* The two halves of what a block of RTL text assigns, and its reset.
TextReset(b) == IF b.sequential /\ b.guard # "" THEN PrimaryReset(b.conditions) ELSE NoReset

TextKinds(b) ==
    {Assign(a, TextReset(b), b.guard) : a \in Range(b.branch) \cup Range(b.rest)}
    \cup {Assign(a, NoReset, "") : a \in Range(b.branch) \cup Range(b.rest)}

LEMMA TextAssignments ==
    ASSUME NEW b, b.branch \in Seq(Range(b.branch)), b.rest \in Seq(Range(b.rest))
    PROVE  /\ TextAssigns(b) \in Seq(TextKinds(b))
           /\ \A a \in Range(b.branch) :
                 b.sequential /\ b.guard # "" /\ IsConstant(a) =>
                    Assign(a, TextReset(b), b.guard) \in Range(TextAssigns(b))
<1> DEFINE T == Range(b.branch) \cup Range(b.rest)
           written(a) == <<a.lhs, a.value, a.reads>>
           all == b.branch \o b.rest
           values == {i \in DOMAIN b.branch : b.sequential /\ b.guard # "" /\ IsConstant(b.branch[i])}
           captured == {written(b.branch[i]) : i \in values}
           others == {i \in DOMAIN all : written(all[i]) \notin captured}
           first == AssignEach(Picked(b.branch, values), TextReset(b), b.guard)
           second == AssignEach(Picked(all, others), NoReset, "")
<1>1. TextAssigns(b) = first \o second
  BY DEF TextAssigns, TextReset
<1>2. b.branch \in Seq(T) /\ b.rest \in Seq(T)
  BY DEF Range
<1>3. all \in Seq(T)
  BY <1>2
<1>4. Picked(b.branch, values) \in Seq(T) /\ Range(Picked(b.branch, values)) = {b.branch[i] : i \in values}
  <2>1. values \in SUBSET DOMAIN b.branch
    OBVIOUS
  <2> HIDE DEF values, T
  <2> QED  BY <1>2, <2>1, PickedElements
<1>5. Picked(all, others) \in Seq(T)
  <2>1. others \in SUBSET DOMAIN all
    OBVIOUS
  <2> HIDE DEF others, T, all
  <2> QED  BY <1>3, <2>1, PickedElements
<1>6. first \in Seq({Assign(a, TextReset(b), b.guard) : a \in T})
  <2> HIDE DEF values, T
  <2> QED  BY <1>4, AssignedEach
<1>7. second \in Seq({Assign(a, NoReset, "") : a \in T})
  <2> DEFINE unset == Picked(all, others)
  <2>1. unset \in Seq(T)
    BY <1>5
  <2> HIDE DEF unset, T
  <2>2. AssignEach(unset, NoReset, "") \in Seq({Assign(a, NoReset, "") : a \in T})
    <3> DEFINE sig == NoReset
               form == ""
    <3> HIDE DEF sig, form
    <3>1. AssignEach(unset, sig, form) \in Seq({Assign(a, sig, form) : a \in T})
      BY <2>1, AssignedEach
    <3> QED  BY <3>1 DEF sig, form
  <2> QED  BY <2>2 DEF unset
<1>8. first \in Seq(TextKinds(b)) /\ second \in Seq(TextKinds(b))
  <2>1. {Assign(a, TextReset(b), b.guard) : a \in T} \subseteq TextKinds(b)
    BY DEF TextKinds
  <2>2. {Assign(a, NoReset, "") : a \in T} \subseteq TextKinds(b)
    BY DEF TextKinds
  <2> HIDE DEF first, second, T
  <2> QED  BY <1>6, <1>7, <2>1, <2>2, WidenedSequence
<1>9. ASSUME NEW a \in Range(b.branch), b.sequential, b.guard # "", IsConstant(a)
      PROVE  Assign(a, TextReset(b), b.guard) \in Range(first)
  <2>1. a \in Range(Picked(b.branch, values))
    <3>1. PICK i \in DOMAIN b.branch : b.branch[i] = a
      BY DEF Range
    <3>2. i \in values
      BY <1>9, <3>1
    <3> QED  BY <1>4, <3>1, <3>2
  <2> QED  BY <1>4, <2>1, AssignedEach
<1> HIDE DEF first, second
<1>10. first \o second \in Seq(TextKinds(b)) /\ Range(first) \subseteq Range(first \o second)
  BY <1>8, RangeOfJoined
<1> QED  BY <1>1, <1>9, <1>10

\* The well-formed module of an input, as its assumption gives it.
LEMMA BlockOfModule ==
    ASSUME NEW x \in ResetModules, NEW i \in DOMAIN x.module.blocks
    PROVE  /\ x.module.blocks[i].guard \in {"", "negated", "eq0", "bare", "eq1", "other"}
           /\ x.module.blocks[i].conditions \in Seq(DOMAIN x.order)
           /\ x.module.blocks[i].branch \in Seq(Range(x.module.blocks[i].branch))
           /\ x.module.blocks[i].rest \in Seq(Range(x.module.blocks[i].rest))
BY ResetModulesAssumption DEF ResetModulesAssumption

LEMMA BlocksOfModule ==
    ASSUME NEW x \in ResetModules
    PROVE  /\ x.module.blocks \in Seq({x.module.blocks[i] : i \in DOMAIN x.module.blocks})
           /\ IsFiniteSet(x.module.declared)
           /\ \A d \in x.module.declared : d.signal \in DOMAIN x.order
           /\ \A s \in DOMAIN x.order : x.order[s] \in Nat
BY ResetModulesAssumption DEF ResetModulesAssumption

\* What the source says of a reset is among the votes on its polarity.
LEMMA SaysIsVoted ==
    ASSUME NEW x \in ResetModules, NEW sig
    PROVE  Says(x.module, sig) \subseteq Votes(x.module, Assigns(x.module), sig)
<1> DEFINE m == x.module
           assigns == Assigns(m)
<1>1. ASSUME NEW e \in AsyncEdges(m, sig)
      PROVE  (IF e.edge = "negedge" THEN "active_low" ELSE "active_high") \in Votes(m, assigns, sig)
  BY DEF Votes, PolarityFromEdge
<1>2. ASSUME sig \in ActiveLowNames PROVE "active_low" \in Votes(m, assigns, sig)
  BY <1>2 DEF Votes, PolarityFromName
<1>3. ASSUME m.from = "text", NEW b \in Range(m.blocks), b.sequential, b.guard \notin {"", "other"},
             PrimaryReset(b.conditions) = sig, NEW c \in Range(b.branch), IsConstant(c)
      PROVE  (IF b.guard \in {"negated", "eq0"} THEN "active_low" ELSE "active_high")
                \in Votes(m, assigns, sig)
  <2>1. PICK i \in DOMAIN m.blocks : b = m.blocks[i]
    BY DEF Range
  <2>2. /\ b.branch \in Seq(Range(b.branch)) /\ b.rest \in Seq(Range(b.rest))
        /\ b.guard \in {"", "negated", "eq0", "bare", "eq1", "other"}
    BY <2>1, BlockOfModule
  <2>3. assigns[i] = TextAssigns(b)
    BY <1>3, <2>1 DEF Assigns
  <2> DEFINE a == Assign(c, sig, b.guard)
  <2>4. TextReset(b) = sig
    BY <1>3 DEF TextReset
  <2>5. a \in Range(assigns[i])
    BY <1>3, <2>2, <2>3, <2>4, TextAssignments
  <2>6. i \in Sequential(m.blocks)
    BY <1>3, <2>1 DEF Sequential
  <2>7. a.reset = sig /\ a.guard = b.guard
    BY DEF Assign
  <2> HIDE DEF a
  <2>8. a \in Guarded(m, assigns, sig)
    BY <2>5, <2>6, <2>7 DEF Guarded
  <2>9. PolarityFromGuard(a.guard) \in Votes(m, assigns, sig)
    <3>1. PolarityFromGuard(a.guard) # "unknown"
      BY <1>3, <2>2, <2>7 DEF PolarityFromGuard
    <3> HIDE DEF m, assigns
    <3> QED  BY <2>8, <3>1 DEF Votes
  <2>10. PolarityFromGuard(a.guard)
           = IF b.guard \in {"negated", "eq0"} THEN "active_low" ELSE "active_high"
    BY <1>3, <2>2, <2>7 DEF PolarityFromGuard
  <2> QED  BY <2>9, <2>10
<1> HIDE DEF assigns
<1> QED  BY <1>1, <1>2, <1>3 DEF Says, m, assigns

LEMMA CandidateVotes ==
    ASSUME NEW m, NEW assigns, NEW c \in Candidates(m, assigns)
    PROVE  c.polarity = VotePolarity(Votes(m, assigns, c.signal))
BY DEF Candidates

\* Two different polarities are one too many for a vote.
LEMMA OneSaid ==
    ASSUME NEW said, NEW v, said \subseteq {v}
    PROVE  Cardinality(said) # 2
<1>1. IsFiniteSet({v}) /\ Cardinality({v}) = 1
  BY FS_Singleton
<1>2. Cardinality(said) <= 1 /\ IsFiniteSet(said)
  BY <1>1, FS_Subset
<1>3. Cardinality(said) \in Nat
  BY <1>2, FS_CardinalityType
<1> QED  BY <1>2, <1>3

\* One call: a module that can be analyzed, and, once there is a report, its analysis.
ResetInv ==
    /\ tool = "reset-intent" /\ input \in ResetModules
    /\ reports = {} \/ reports = {Analysis(input.module, input.order)}

\* The report of reset-intent-agent is the analysis of the module it was called with.
LEMMA ResetInvariant == ResetIntentSpec => []ResetInv
<1>1. ResetIntentInit => ResetInv
  BY DEF ResetIntentInit, Called, ResetInv
<1>2. ResetInv /\ [AnalyzeResets]_passVars => ResetInv'
  BY DEF ResetInv, AnalyzeResets, Computing, Reports, passVars
<1> QED  BY <1>1, <1>2, PTL DEF ResetIntentSpec

LEMMA PolarityHeld ==
    ASSUME ResetInv, Reported("reset-intent")
    PROVE  PolarityUncontradicted
<1> DEFINE m == input.module
           assigns == Assigns(m)
           candidates == Candidates(m, assigns)
           targets == Targets(assigns)
<1>1. Report = Analysis(m, input.order) /\ input \in ResetModules
  BY DEF ResetInv, Reported, Report
<1>2. /\ Report.candidates = candidates
      /\ Report.sva = CandidateSva(candidates, targets)
      /\ Report.ambiguities = {c.signal : c \in {c \in candidates : c.polarity = "unknown"}}
  BY <1>1 DEF Analysis
<1>3. ASSUME NEW sig, VotePolarity(Votes(m, assigns, sig)) # "unknown"
      PROVE  /\ Says(m, sig) \subseteq {VotePolarity(Votes(m, assigns, sig))}
             /\ Cardinality(Says(m, sig)) # 2
  <2>1. Votes(m, assigns, sig) = {VotePolarity(Votes(m, assigns, sig))}
    BY <1>3, VotesAgree, VotesAreOfTwo
  <2>2. Says(m, sig) \subseteq Votes(m, assigns, sig)
    BY <1>1, SaysIsVoted
  <2> DEFINE said == Says(m, sig)
             v == VotePolarity(Votes(m, assigns, sig))
  <2>3. said \subseteq {v}
    BY <2>1, <2>2
  <2> HIDE DEF said, v
  <2>4. Cardinality(said) # 2
    BY <2>3, OneSaid
  <2> QED  BY <2>3, <2>4 DEF said, v
<1> HIDE DEF m, assigns, candidates, targets
<1>4. ASSUME NEW c \in candidates PROVE c.polarity = VotePolarity(Votes(m, assigns, c.signal))
  BY CandidateVotes DEF candidates
<1>5. ASSUME NEW s \in Report.sva
      PROVE  s.active # "unknown" => s.active = VotePolarity(Votes(m, assigns, s.target.reset))
  <2>1. PICK t \in targets :
          s = [target |-> t,
               active |-> LET c == {c \in candidates : c.signal = t.reset}
                          IN  IF c = {} THEN "unknown" ELSE (CHOOSE x \in c : TRUE).polarity]
    BY <1>2 DEF CandidateSva
  <2> DEFINE C == {c \in candidates : c.signal = t.reset}
  <2>2. s.target = t /\ s.active = IF C = {} THEN "unknown" ELSE (CHOOSE x \in C : TRUE).polarity
    BY <2>1
  <2>3. ASSUME C # {} PROVE (CHOOSE x \in C : TRUE) \in C
    BY <2>3
  <2>4. \A c \in C : c.polarity = VotePolarity(Votes(m, assigns, t.reset))
    BY <1>4
  <2> HIDE DEF C
  <2> QED  BY <2>2, <2>3, <2>4
<1>6. ASSUME NEW s \in Report.sva
      PROVE  /\ s.active # "unknown" => Says(m, s.target.reset) \subseteq {s.active}
             /\ Cardinality(Says(m, s.target.reset)) = 2 =>
                   /\ s.active = "unknown"
                   /\ (\E c \in Report.candidates : c.signal = s.target.reset) =>
                          s.target.reset \in Report.ambiguities
  <2>1. s.active # "unknown" => Says(m, s.target.reset) \subseteq {s.active}
    BY <1>3, <1>5
  <2>2. ASSUME Cardinality(Says(m, s.target.reset)) = 2 PROVE s.active = "unknown"
    BY <1>3, <1>5, <2>2
  <2>3. ASSUME Cardinality(Says(m, s.target.reset)) = 2,
               NEW c \in Report.candidates, c.signal = s.target.reset
        PROVE  s.target.reset \in Report.ambiguities
    <3>1. VotePolarity(Votes(m, assigns, c.signal)) = "unknown"
      BY <1>3, <2>3
    <3>2. c \in candidates /\ c.polarity = "unknown"
      BY <1>2, <1>4, <3>1
    <3> QED  BY <1>2, <2>3, <3>2
  <2> QED  BY <2>1, <2>2, <2>3
<1> QED  BY <1>6 DEF PolarityUncontradicted, m

\* A list of assignments under known resets.
ResetsIn(list, known) ==
    list \in Seq(Range(list)) /\ \A a \in Range(list) : a.reset \in known

LEMMA PrimaryIsNamed ==
    ASSUME NEW S, NEW conditions \in Seq(S)
    PROVE  PrimaryReset(conditions) \in S \cup {NoReset}
<1> DEFINE named == {i \in DOMAIN conditions : conditions[i] \in ResetNames}
<1>1. DOMAIN conditions = 1 .. Len(conditions) /\ Len(conditions) \in Nat
  BY LenProperties
<1>2. \A i \in DOMAIN conditions : conditions[i] \in S
  BY <1>1, ElementOfSeq
<1>3. ASSUME named # {} PROVE Min(named) \in DOMAIN conditions
  <2>1. named \in SUBSET Nat
    BY <1>1
  <2> HIDE DEF named
  <2>2. Min(named) \in named
    BY <1>3, <2>1, MinOfSome
  <2> QED  BY <2>2 DEF named
<1>4. ASSUME conditions # <<>> PROVE 1 \in DOMAIN conditions
  BY <1>1, <1>4, EmptySeq
<1>5. PrimaryReset(conditions) = IF named # {} THEN conditions[Min(named)]
                                 ELSE IF conditions # <<>> THEN conditions[1] ELSE NoReset
  BY DEF PrimaryReset
<1> HIDE DEF named
<1> QED  BY <1>2, <1>3, <1>4, <1>5

LEMMA TextResetsKnown ==
    ASSUME NEW x \in ResetModules, NEW i \in DOMAIN x.module.blocks
    PROVE  ResetsIn(TextAssigns(x.module.blocks[i]), DOMAIN x.order \cup {NoReset})
<1> DEFINE b == x.module.blocks[i]
           list == TextAssigns(b)
<1>1. list \in Seq(TextKinds(b))
  BY BlockOfModule, TextAssignments
<1>2. TextReset(b) \in DOMAIN x.order \cup {NoReset}
  BY BlockOfModule, PrimaryIsNamed DEF TextReset
<1>3. \A a \in TextKinds(b) : a.reset \in {TextReset(b), NoReset}
  <2> TAKE a \in TextKinds(b)
  <2> HIDE DEF b
  <2>1. \A c : Assign(c, TextReset(b), b.guard).reset = TextReset(b) /\ Assign(c, NoReset, "").reset = NoReset
    BY DEF Assign
  <2> QED  BY <2>1 DEF TextKinds
<1> HIDE DEF b, list
<1>4. list \in Seq(Range(list)) /\ Range(list) \subseteq TextKinds(b)
  BY <1>1, SequenceRange
<1> QED  BY <1>2, <1>3, <1>4 DEF ResetsIn, list, b

LEMMA ManifestResetsKnown ==
    ASSUME NEW x \in ResetModules, NEW i \in DOMAIN x.module.blocks
    PROVE  ResetsIn(ManifestAssigns(x.module.blocks[i]), DOMAIN x.order \cup {NoReset})
<1> DEFINE b == x.module.blocks[i]
           list == ManifestAssigns(b)
           T == Range(b.branch) \cup Range(b.rest)
           all == b.branch \o b.rest
<1>1. all \in Seq(T)
  <2>1. b.branch \in Seq(T) /\ b.rest \in Seq(T)
    <3>1. b.branch \in Seq(Range(b.branch)) /\ b.rest \in Seq(Range(b.rest))
      BY BlockOfModule
    <3> HIDE DEF b
    <3> QED  BY <3>1, WidenedSequence
  <2> HIDE DEF b, T
  <2> QED  BY <2>1, RangeOfJoined
<1>2. PrimaryReset(b.conditions) \in DOMAIN x.order \cup {NoReset}
  BY BlockOfModule, PrimaryIsNamed
<1> DEFINE form == IF PrimaryReset(b.conditions) \in ActiveLowNames THEN "negated" ELSE "bare"
           each(k) == IF PrimaryReset(b.conditions) \in ResetNames /\ IsConstant(all[k])
                        THEN Assign(all[k], PrimaryReset(b.conditions), form)
                        ELSE Assign(all[k], NoReset, "")
<1>3. list = [k \in DOMAIN all |-> each(k)]
  BY DEF ManifestAssigns
<1>4. \A k \in DOMAIN all : each(k).reset \in {PrimaryReset(b.conditions), NoReset}
  BY DEF Assign
<1>5. DOMAIN all = 1 .. Len(all) /\ Len(all) \in Nat
  <2> HIDE DEF all, T
  <2> QED  BY <1>1, LenProperties
<1> HIDE DEF b, list, all, each
<1>6. DOMAIN list = 1 .. Len(all) /\ \A k \in 1 .. Len(all) : list[k] = each(k)
  BY <1>3, <1>5
<1>7. \A a \in Range(list) : a.reset \in DOMAIN x.order \cup {NoReset}
  BY <1>2, <1>4, <1>5, <1>6 DEF Range
<1>8. list \in Seq(Range(list))
  <2> DEFINE R == Range(list)
  <2>1. list \in [1 .. Len(all) -> R]
    BY <1>3, <1>5, <1>6 DEF Range
  <2> HIDE DEF R
  <2>2. list \in Seq(R)
    BY <1>5, <2>1
  <2> QED  BY <2>2 DEF R
<1> QED  BY <1>7, <1>8 DEF ResetsIn, list, b

LEMMA MadeResetsKnown ==
    ASSUME NEW x \in ResetModules, NEW missing \in SUBSET x.module.declared,
           NEW made,
           made = {[lhs |-> "manifest:" \o d.signal, value |-> "0", reads |-> {},
                    reset |-> d.signal,
                    guard |-> IF d.polarity = "active_low" THEN "negated" ELSE "bare"] :
                      d \in missing}
    PROVE  SetToSeq(made) \in Seq(made) /\ \A a \in made : a.reset \in DOMAIN x.order
<1> DEFINE f == [d \in missing |->
                   [lhs |-> "manifest:" \o d.signal, value |-> "0", reads |-> {},
                    reset |-> d.signal,
                    guard |-> IF d.polarity = "active_low" THEN "negated" ELSE "bare"]]
<1>1. IsFiniteSet(missing)
  BY BlocksOfModule, FS_Subset
<1>2. made = {f[d] : d \in missing} /\ f \in [missing -> made]
  OBVIOUS
<1>3. \A d \in missing : f[d].reset = d.signal
  OBVIOUS
<1> HIDE DEF f
<1>4. f \in Surjection(missing, made)
  BY <1>2 DEF Surjection
<1>5. IsFiniteSet(made)
  BY <1>1, <1>4, FS_Surjection
<1>6. \A a \in made : a.reset \in DOMAIN x.order
  BY <1>2, <1>3, BlocksOfModule
<1> QED  BY <1>5, <1>6, SequenceOfSet

LEMMA JoinedResets ==
    ASSUME NEW known, NEW s, ResetsIn(s, known), NEW S, NEW t \in Seq(S),
           \A a \in S : a.reset \in known
    PROVE  ResetsIn(s \o t, known)
<1> DEFINE A == Range(s) \cup S
<1>1. s \in Seq(A)
  <2>1. s \in Seq(Range(s))
    BY DEF ResetsIn
  <2> QED  BY <2>1, WidenedSequence
<1>2. t \in Seq(A)
  BY WidenedSequence
<1>3. \A a \in A : a.reset \in known
  BY DEF ResetsIn
<1> HIDE DEF A
<1>4. s \o t \in Seq(A)
  BY <1>1, <1>2, RangeOfJoined
<1>5. s \o t \in Seq(Range(s \o t)) /\ Range(s \o t) \subseteq A
  BY <1>4, SequenceRange
<1> QED  BY <1>3, <1>5 DEF ResetsIn

\* Every block of a module is assigned a list, whose resets are known.
LEMMA AssignsKnown ==
    ASSUME NEW x \in ResetModules
    PROVE  /\ DOMAIN Assigns(x.module) = DOMAIN x.module.blocks
           /\ \A i \in DOMAIN x.module.blocks :
                 ResetsIn(Assigns(x.module)[i], DOMAIN x.order \cup {NoReset})
<1> DEFINE m == x.module
           known == DOMAIN x.order \cup {NoReset}
           plain == [i \in DOMAIN m.blocks |-> ManifestAssigns(m.blocks[i])]
<1>1. ASSUME m.from = "text"
      PROVE  Assigns(m) = [i \in DOMAIN m.blocks |-> TextAssigns(m.blocks[i])]
  BY <1>1 DEF Assigns
<1>2. ASSUME m.from # "text" PROVE Assigns(m) = FoldDeclared(m, plain)
  BY <1>2 DEF Assigns
<1>3. \A i \in DOMAIN m.blocks : ResetsIn(plain[i], known)
  BY ManifestResetsKnown
<1>4. CASE m.from = "text"
  BY <1>1, <1>4, TextResetsKnown
<1>5. CASE m.from # "text"
  <2> DEFINE missing == {d \in m.declared :
                           \A i \in DOMAIN plain : \A a \in Range(plain[i]) : a.reset # d.signal}
             made == {[lhs |-> "manifest:" \o d.signal, value |-> "0", reads |-> {},
                       reset |-> d.signal,
                       guard |-> IF d.polarity = "active_low" THEN "negated" ELSE "bare"] :
                         d \in missing}
             k == Min(Sequential(m.blocks))
  <2>1. Assigns(m) = IF Sequential(m.blocks) = {} THEN plain
                     ELSE [plain EXCEPT ![k] = @ \o SetToSeq(made)]
    BY <1>2, <1>5 DEF FoldDeclared
  <2>2. SetToSeq(made) \in Seq(made) /\ \A a \in made : a.reset \in known
    <3>1. missing \in SUBSET m.declared
      OBVIOUS
    <3> HIDE DEF missing
    <3> QED  BY <3>1, MadeResetsKnown
  <2>3. ASSUME Sequential(m.blocks) # {} PROVE k \in DOMAIN m.blocks
    <3>1. Sequential(m.blocks) \in SUBSET Nat
      <4>1. DOMAIN m.blocks = 1 .. Len(m.blocks)
        BY BlocksOfModule, LenProperties
      <4> QED  BY <4>1 DEF Sequential
    <3>2. k \in Sequential(m.blocks)
      BY <2>3, <3>1, MinOfSome
    <3> QED  BY <3>2 DEF Sequential
  <2> HIDE DEF made, missing, k, plain, known
  <2>4. DOMAIN plain = DOMAIN m.blocks
    BY DEF plain
  <2>5. CASE Sequential(m.blocks) = {}
    BY <1>3, <2>1, <2>4, <2>5 DEF known
  <2>6. CASE Sequential(m.blocks) # {}
    <3>1. k \in DOMAIN plain
      BY <2>3, <2>4, <2>6
    <3>2. ResetsIn(plain[k] \o SetToSeq(made), known)
      BY <1>3, <2>2, <2>4, <3>1, JoinedResets
    <3>3. /\ DOMAIN Assigns(m) = DOMAIN m.blocks
          /\ \A i \in DOMAIN m.blocks :
                Assigns(m)[i] = IF i = k THEN plain[k] \o SetToSeq(made) ELSE plain[i]
      BY <2>1, <2>4, <2>6, <3>1 DEF plain
    <3>4. \A i \in DOMAIN m.blocks : ResetsIn(Assigns(m)[i], known)
      BY <1>3, <3>2, <3>3
    <3> QED  BY <3>3, <3>4 DEF known
  <2> QED  BY <2>5, <2>6
<1> QED  BY <1>4, <1>5

\* All the assignments of a module, in one sequence.
LEMMA AllAssigned ==
    ASSUME NEW x \in ResetModules
    PROVE  \E T : /\ FlattenSeq(Assigns(x.module)) \in Seq(T)
                  /\ \A a \in T : a.reset \in DOMAIN x.order \cup {NoReset}
<1> DEFINE m == x.module
           assigns == Assigns(m)
           known == DOMAIN x.order \cup {NoReset}
           T == UNION {Range(assigns[i]) : i \in DOMAIN m.blocks}
           n == Len(m.blocks)
<1>1. DOMAIN m.blocks = 1 .. n /\ n \in Nat
  BY BlocksOfModule, LenProperties
<1>2. DOMAIN assigns = DOMAIN m.blocks /\ \A i \in DOMAIN m.blocks : ResetsIn(assigns[i], known)
  BY AssignsKnown
<1>3. \E f : assigns = [i \in DOMAIN m.blocks |-> f[i]]
  <2> DEFINE g == [i \in DOMAIN m.blocks |-> assigns[i]]
  <2>1. CASE m.from = "text"
    <3>1. assigns = [i \in DOMAIN m.blocks |-> TextAssigns(m.blocks[i])]
      BY <2>1 DEF Assigns
    <3> HIDE DEF assigns
    <3>2. assigns = [i \in DOMAIN m.blocks |-> assigns[i]]
      BY <3>1
    <3> QED  BY <3>2
  <2>2. CASE m.from # "text"
    <3> DEFINE plain == [i \in DOMAIN m.blocks |-> ManifestAssigns(m.blocks[i])]
    <3>1. assigns = FoldDeclared(m, plain)
      BY <2>2 DEF Assigns
    <3>2. FoldDeclared(m, plain) = [i \in DOMAIN m.blocks |-> FoldDeclared(m, plain)[i]]
      BY DEF FoldDeclared
    <3> HIDE DEF assigns, plain
    <3> QED  BY <3>1, <3>2
  <2> QED  BY <2>1, <2>2
<1> HIDE DEF assigns, known, n
<1>4. ASSUME NEW i \in DOMAIN m.blocks PROVE assigns[i] \in Seq(T)
  <2>1. assigns[i] \in Seq(Range(assigns[i]))
    BY <1>2 DEF ResetsIn
  <2>2. Range(assigns[i]) \subseteq T
    OBVIOUS
  <2> HIDE DEF T
  <2> QED  BY <2>1, <2>2, WidenedSequence
<1>5. \A a \in T : a.reset \in known
  BY <1>2 DEF ResetsIn
<1> HIDE DEF T
<1>6. assigns \in [1 .. n -> Seq(T)]
  BY <1>1, <1>3, <1>4
<1>7. assigns \in Seq(Seq(T))
  BY <1>1, <1>6
<1>8. FlattenSeq(assigns) \in Seq(T)
  BY <1>7, FlattenedSequence
<1> QED  BY <1>5, <1>8 DEF assigns, known

\* The resets of a register are finitely many, and have a place in the order.
LEMMA ResetsOfRegister ==
    ASSUME NEW x \in ResetModules, NEW register, NEW resets,
           resets = {t.reset : t \in {t \in Targets(Assigns(x.module)) : t.register = register}}
    PROVE  resets \subseteq DOMAIN x.order /\ IsFiniteSet(resets) /\ NoReset \notin resets
<1> DEFINE all == FlattenSeq(Assigns(x.module))
           known == DOMAIN x.order \cup {NoReset}
           first == {i \in DOMAIN all :
                       /\ all[i].reset # NoReset
                       /\ \A j \in 1 .. i - 1 : <<all[j].lhs, all[j].reset>>
                                                  # <<all[i].lhs, all[i].reset>>}
           target(i) == [register |-> all[i].lhs, reset |-> all[i].reset, value |-> all[i].value]
           mine == {i \in first : all[i].lhs = register}
           f == [i \in mine |-> all[i].reset]
<1>1. PICK T : all \in Seq(T) /\ \A a \in T : a.reset \in known
  BY AllAssigned
<1>2. DOMAIN all = 1 .. Len(all) /\ Len(all) \in Nat /\ \A i \in DOMAIN all : all[i] \in T
  <2> HIDE DEF all
  <2> QED  BY <1>1, LenProperties, ElementOfSeq
<1>3. Targets(Assigns(x.module)) = {target(i) : i \in first}
  BY DEF Targets
<1> HIDE DEF all
<1>4. resets = {all[i].reset : i \in mine}
  <2>1. \A i \in first : target(i).register = all[i].lhs /\ target(i).reset = all[i].reset
    OBVIOUS
  <2> HIDE DEF target, first
  <2>2. resets = {t.reset : t \in {target(i) : i \in mine}}
    BY <1>3, <2>1
  <2> QED  BY <2>1, <2>2
<1>5. \A i \in mine : all[i].reset \in known /\ all[i].reset # NoReset
  BY <1>1, <1>2
<1>6. mine \in SUBSET (1 .. Len(all)) /\ IsFiniteSet(1 .. Len(all))
  BY <1>2, FS_Interval
<1> HIDE DEF mine
<1>7. IsFiniteSet(mine)
  BY <1>6, FS_Subset
<1>8. f \in Surjection(mine, resets)
  BY <1>4 DEF Surjection
<1>9. IsFiniteSet(resets)
  BY <1>7, <1>8, FS_Surjection
<1> QED  BY <1>4, <1>5, <1>9

\* Of some resets with a place in the order, one is not before the others.
LEMMA LatestReset ==
    ASSUME NEW order, NEW resets, resets # {}, IsFiniteSet(resets), resets \subseteq DOMAIN order,
           \A s \in DOMAIN order : order[s] \in Nat
    PROVE  \E s \in resets : \A o \in resets : order[o] <= order[s]
<1> DEFINE places == {order[s] : s \in resets}
           f == [s \in resets |-> order[s]]
<1>1. f \in Surjection(resets, places)
  BY DEF Surjection
<1>2. IsFiniteSet(places)
  <2> HIDE DEF f, places
  <2> QED  BY <1>1, FS_Surjection
<1>3. places \in SUBSET Nat /\ places # {}
  OBVIOUS
<1>4. Max(places) \in places /\ \A p \in places : p <= Max(places)
  <2> HIDE DEF places
  <2> QED  BY <1>2, <1>3, MaxOfSome
<1> QED  BY <1>4

\* The domain of a register with resets is one of them.
LEMMA DomainOfResets ==
    ASSUME NEW x \in ResetModules, NEW register, NEW resets, resets # {},
           resets = {t.reset : t \in {t \in Targets(Assigns(x.module)) : t.register = register}}
    PROVE  DomainOf(Targets(Assigns(x.module)), register, x.order) \in resets
<1>1. resets \subseteq DOMAIN x.order /\ IsFiniteSet(resets)
  BY ResetsOfRegister
<1>2. \A s \in DOMAIN x.order : x.order[s] \in Nat
  BY BlocksOfModule
<1>3. \E s \in resets : \A o \in resets : x.order[o] <= x.order[s]
  BY <1>1, <1>2, LatestReset
<1>4. DomainOf(Targets(Assigns(x.module)), register, x.order)
        = CHOOSE s \in resets : \A o \in resets : x.order[o] <= x.order[s]
  BY DEF DomainOf
<1> QED  BY <1>3, <1>4

LEMMA CrossingsHeld ==
    ASSUME ResetInv, Reported("reset-intent")
    PROVE  CrossingsOfDomains
<1> DEFINE m == input.module
           assigns == Assigns(m)
           targets == Targets(assigns)
           domain(r) == DomainOf(targets, r, input.order)
           resets(r) == {t.reset : t \in {t \in targets : t.register = r}}
           free == {a \in UNION {Range(assigns[i]) : i \in DOMAIN assigns} : a.reset = NoReset}
<1>1. Report = Analysis(m, input.order) /\ input \in ResetModules
  BY DEF ResetInv, Reported, Report
<1>2. Report.targets = targets /\ Report.crossings = ResetCrossings(assigns, targets, input.order)
  BY <1>1 DEF Analysis
<1>3. ASSUME NEW r, resets(r) # {}
      PROVE  domain(r) \in resets(r) /\ domain(r) # NoReset
  <2> DEFINE R == resets(r)
  <2>1. R = {t.reset : t \in {t \in Targets(Assigns(input.module)) : t.register = r}}
    OBVIOUS
  <2>2. R # {} /\ domain(r) = DomainOf(Targets(Assigns(input.module)), r, input.order)
    BY <1>3
  <2> HIDE DEF R, domain
  <2>3. domain(r) \in R
    BY <1>1, <2>1, <2>2, DomainOfResets
  <2>4. NoReset \notin R
    BY <1>1, <2>1, ResetsOfRegister
  <2>5. domain(r) # NoReset
    BY <2>3, <2>4
  <2> QED  BY <2>3, <2>5 DEF R
<1>4. ASSUME NEW r, NEW q, resets(r) = resets(q) PROVE domain(r) = domain(q)
  <2> DEFINE latest(R) == IF R = {} THEN NoReset
                          ELSE CHOOSE s \in R : \A o \in R : input.order[o] <= input.order[s]
  <2>1. domain(r) = latest(resets(r)) /\ domain(q) = latest(resets(q))
    BY DEF DomainOf
  <2> HIDE DEF domain, latest, resets
  <2> QED  BY <1>4, <2>1
<1>5. Report.crossings =
        {[from |-> p[1], to |-> p[2].lhs] :
            p \in {p \in (UNION {a.reads : a \in free}) \X free :
                     /\ p[1] \in p[2].reads
                     /\ NoReset \notin {domain(p[1]), domain(p[2].lhs)}
                     /\ domain(p[1]) # domain(p[2].lhs)}}
  BY <1>2 DEF ResetCrossings
<1> HIDE DEF domain, resets, free
<1>6. ASSUME NEW r, NEW a \in free, r \in a.reads, domain(r) # NoReset, domain(a.lhs) # NoReset,
             domain(r) # domain(a.lhs)
      PROVE  [from |-> r, to |-> a.lhs] \in Report.crossings
  <2> DEFINE p == <<r, a>>
  <2>1. p[1] = r /\ p[2] = a /\ p \in (UNION {b.reads : b \in free}) \X free
    BY <1>6
  <2> HIDE DEF p
  <2> QED  BY <1>5, <1>6, <2>1
<1>7. ASSUME NEW c \in Report.crossings PROVE domain(c.from) # domain(c.to)
  BY <1>5
<1>8. ASSUME NEW i \in DOMAIN assigns, NEW a \in Range(assigns[i]), NEW r \in a.reads,
             a.reset = NoReset, {} \notin {resets(r), resets(a.lhs)}
      PROVE  /\ resets(r) \cap resets(a.lhs) = {} => [from |-> r, to |-> a.lhs] \in Report.crossings
             /\ resets(r) = resets(a.lhs) => [from |-> r, to |-> a.lhs] \notin Report.crossings
  <2>1. a \in free
    BY <1>8 DEF free
  <2>2. /\ domain(r) \in resets(r) /\ domain(r) # NoReset
        /\ domain(a.lhs) \in resets(a.lhs) /\ domain(a.lhs) # NoReset
    BY <1>3, <1>8
  <2>3. ASSUME resets(r) \cap resets(a.lhs) = {}
        PROVE  [from |-> r, to |-> a.lhs] \in Report.crossings
    BY <1>6, <2>1, <2>2, <2>3
  <2>4. ASSUME resets(r) = resets(a.lhs)
        PROVE  [from |-> r, to |-> a.lhs] \notin Report.crossings
    <3> DEFINE c == [from |-> r, to |-> a.lhs]
    <3>1. domain(r) = domain(a.lhs)
      BY <1>4, <2>4
    <3>2. c.from = r /\ c.to = a.lhs
      OBVIOUS
    <3> HIDE DEF c
    <3>3. c \notin Report.crossings
      BY <1>7, <3>1, <3>2
    <3> QED  BY <3>3 DEF c
  <2> QED  BY <2>3, <2>4
<1> QED  BY <1>2, <1>8 DEF CrossingsOfDomains, resets

\* The report of reset-intent-agent, for every module: no property under a polarity that
\* something in the source contradicts, and the reads between registers without a common
\* reset are its crossings.
THEOREM ResetIntentSoundAlways == ResetIntentSpec => []ResetIntentSound
<1>1. ResetInv => ResetIntentSound
  BY PolarityHeld, CrossingsHeld DEF ResetIntentSound
<1> QED  BY ResetInvariant, <1>1, PTL

-----------------------------------------------------------------------------
(***************************************************************************)
(* The dependency graph                                                    *)
(***************************************************************************)

\* The top, the names of the instances of a design, and the scopes that can be told apart by them.
TopScope(x) == [path |-> <<>>, module |-> x.modules[1]]
InstanceNames(x) == {i.name : i \in UNION {InstancesOf(x, m) : m \in ToSet(x.modules)}}
ScopeSet(x) == [path : Seq(InstanceNames(x)), module : ToSet(x.modules)]

\* What a scope is below.
LEMMA WithinSome ==
    ASSUME NEW x, NEW scopes, NEW t \in ScopesWithin(x, scopes)
    PROVE  \E s \in scopes : \E i \in InstancesOf(x, s.module) :
              /\ t.path = Append(s.path, i.name) /\ t.module \in Defined(x, i.module)
BY DEF ScopesWithin

LEMMA ScopesWithinKept ==
    ASSUME NEW x, NEW scopes, scopes \subseteq ScopeSet(x)
    PROVE  ScopesWithin(x, scopes) \subseteq ScopeSet(x)
<1> SUFFICES ASSUME NEW t \in ScopesWithin(x, scopes) PROVE t \in ScopeSet(x)
  OBVIOUS
<1>a. PICK s \in scopes : \E i \in InstancesOf(x, s.module) : \E m \in Defined(x, i.module) :
          t = [path |-> Append(s.path, i.name), module |-> m]
  BY DEF ScopesWithin
<1>b. PICK i \in InstancesOf(x, s.module) : \E m \in Defined(x, i.module) :
          t = [path |-> Append(s.path, i.name), module |-> m]
  BY <1>a
<1>1. PICK m \in Defined(x, i.module) : t = [path |-> Append(s.path, i.name), module |-> m]
  BY <1>b
<1>2. s.path \in Seq(InstanceNames(x)) /\ s.module \in ToSet(x.modules)
  BY DEF ScopeSet
<1>3. i.name \in InstanceNames(x)
  BY <1>2 DEF InstanceNames
<1>4. Append(s.path, i.name) \in Seq(InstanceNames(x))
  BY <1>2, <1>3
<1>5. m \in ToSet(x.modules)
  BY DEF Defined
<1> QED  BY <1>1, <1>4, <1>5 DEF ScopeSet

\* The scopes are reached level by level.
LEMMA ScopeLevels ==
    ASSUME NEW x, Len(x.modules) \in Nat, TopScope(x) \in ScopeSet(x)
    PROVE  \E level : /\ level[0] = {TopScope(x)}
                      /\ \A n \in 1 .. Len(x.modules) : level[n] = ScopesWithin(x, level[n - 1])
                      /\ Scopes(x) = UNION {level[n] : n \in 0 .. Len(x.modules)}
<1> DEFINE n == Len(x.modules)
           E == SUBSET ScopeSet(x)
           first == {TopScope(x)}
           Result == [k \in 1 .. n |-> [S \in E |-> ScopesWithin(x, S)]]
           f == CHOOSE g : g = [k \in 0 .. Len(x.modules) |->
                   IF k = 0 THEN {[path |-> <<>>, module |-> x.modules[1]]} ELSE ScopesWithin(x, g[k - 1])]
<1>1. n \in Nat
  OBVIOUS
<1>2. ASSUME NEW S \in E PROVE ScopesWithin(x, S) \in E
  BY ScopesWithinKept
<1>3. \E g : Iterates(g, n, E, first, Result)
  <2>1. first \in E
    OBVIOUS
  <2>2. Result \in [1 .. n -> [E -> E]]
    <3> HIDE DEF E, n
    <3> QED  BY <1>2
  <2> HIDE DEF E, Result, n, first
  <2>3. StepsWithin(n, E, first, Result)
    BY <1>1, <2>1, <2>2 DEF StepsWithin
  <2> QED  BY <2>3, IteratedSteps
<1>4. PICK g \in [0 .. n -> E] : g[0] = first /\ \A k \in 1 .. n : g[k] = ScopesWithin(x, g[k - 1])
  <2>1. PICK g : Iterates(g, n, E, first, Result)
    BY <1>3
  <2>2. g \in [0 .. n -> E] /\ g[0] = first /\ \A k \in 1 .. n : g[k] = Result[k][g[k - 1]]
    <3> HIDE DEF E, Result, n, first
    <3> QED  BY <2>1 DEF Iterates
  <2>3. ASSUME NEW k \in 1 .. n PROVE g[k] = ScopesWithin(x, g[k - 1])
    <3>1. g[k - 1] \in E
      <4> HIDE DEF E, Result, n, first
      <4> QED  BY <1>1, <2>2
    <3>2. g[k] = Result[k][g[k - 1]]
      BY <2>2
    <3> HIDE DEF E, n, first
    <3> QED  BY <3>1, <3>2
  <2> HIDE DEF E, Result, n, first
  <2> QED  BY <2>2, <2>3
<1>5. first = {[path |-> <<>>, module |-> x.modules[1]]}
  BY DEF TopScope
<1>6. f = CHOOSE h : h = [k \in 0 .. n |-> IF k = 0 THEN first ELSE ScopesWithin(x, h[k - 1])]
  BY <1>5 DEF n
<1>7. Scopes(x) = UNION {f[k] : k \in 0 .. n}
  BY DEF Scopes, n
<1> HIDE DEF n, E, first, f
<1>8. g = [k \in 0 .. n |-> IF k = 0 THEN first ELSE ScopesWithin(x, g[k - 1])]
  <2> DEFINE v(k) == IF k = 0 THEN first ELSE ScopesWithin(x, g[k - 1])
  <2>1. \A k \in 0 .. n : g[k] = v(k)
    BY <1>1, <1>4
  <2>2. g \in [0 .. n -> E]
    OBVIOUS
  <2> HIDE DEF v
  <2>3. g = [k \in 0 .. n |-> v(k)]
    BY <2>1, <2>2
  <2> QED  BY <2>3 DEF v
<1>9. f = [k \in 0 .. n |-> IF k = 0 THEN first ELSE ScopesWithin(x, f[k - 1])]
  BY <1>6, <1>8, Zenon
<1>10. f[0] = first /\ \A k \in 1 .. n : f[k] = ScopesWithin(x, f[k - 1])
  <2> DEFINE v(k) == IF k = 0 THEN first ELSE ScopesWithin(x, f[k - 1])
  <2>1. f = [k \in 0 .. n |-> v(k)]
    BY <1>9
  <2> HIDE DEF v
  <2>2. \A k \in 0 .. n : f[k] = v(k)
    BY <2>1
  <2> QED  BY <1>1, <2>2 DEF v
<1> QED  BY <1>7, <1>10 DEF n, first

\* A scope is told from the others by its path: two of one path are of one module, also when
\* one of them is left out in a level, and what is above a scope is a scope.
LEMMA ScopesByPath ==
    ASSUME NEW x \in ScoutDesigns
    PROVE  /\ Scopes(x) \subseteq ScopeSet(x)
           /\ \A s, t \in Scopes(x) : s.path = t.path => s = t
           /\ \A t \in Scopes(x) : t.path = <<>> \/
                 \E s \in Scopes(x) : \E i \in InstancesOf(x, s.module) :
                    t.path = Append(s.path, i.name) /\ t.module \in Defined(x, i.module)
<1> DEFINE n == Len(x.modules)
           names == InstanceNames(x)
           Above(t, S) == \E s \in S : \E i \in InstancesOf(x, s.module) :
                             t.path = Append(s.path, i.name) /\ t.module \in Defined(x, i.module)
<1>1. /\ x.modules \in Seq(ToSet(x.modules)) /\ x.modules # <<>> /\ DefinedOnce(ToSet(x.modules))
      /\ \A m \in ToSet(x.modules) : DefinedOnce({i \in ToSet(m.items) : i.is = "instance"})
  BY ScoutAssumption DEF ScoutAssumption
<1>2. n \in Nat /\ TopScope(x) \in ScopeSet(x)
  <2>1. n \in Nat /\ 1 \in DOMAIN x.modules
    BY <1>1
  <2>2. x.modules[1] \in ToSet(x.modules)
    BY <2>1 DEF ToSet
  <2> QED  BY <2>1, <2>2 DEF TopScope, ScopeSet
<1>3. PICK level : /\ level[0] = {TopScope(x)}
                   /\ \A k \in 1 .. n : level[k] = ScopesWithin(x, level[k - 1])
                   /\ Scopes(x) = UNION {level[k] : k \in 0 .. n}
  BY <1>2, ScopeLevels
<1> DEFINE Good(k) == /\ level[k] \subseteq ScopeSet(x)
                      /\ \A s \in level[k] : Len(s.path) = k
                      /\ \A s, t \in level[k] : s.path = t.path => s = t
           S == {k \in 0 .. n : Good(k)}
<1>4. 0 \in S
  <2>1. level[0] \subseteq ScopeSet(x)
    BY <1>2, <1>3
  <2>2. \A s \in level[0] : s = TopScope(x)
    BY <1>3
  <2>3. TopScope(x).path = <<>>
    BY DEF TopScope
  <2> QED  BY <1>2, <2>1, <2>2, <2>3
<1>5. ASSUME NEW k \in 1 .. n, k - 1 \in S PROVE k \in S
  <2>1. Good(k - 1) /\ level[k] = ScopesWithin(x, level[k - 1])
    BY <1>3, <1>5
  <2> HIDE DEF n
  <2>2. level[k] \subseteq ScopeSet(x)
    BY <2>1, ScopesWithinKept
  <2>3. ASSUME NEW t \in level[k]
        PROVE  \E s \in level[k - 1] : \E i \in InstancesOf(x, s.module) :
                  /\ t.path = Append(s.path, i.name) /\ t.module \in Defined(x, i.module)
    BY <2>1, WithinSome
  <2>4. ASSUME NEW s \in level[k - 1] PROVE s.path \in Seq(names) /\ Len(s.path) = k - 1 /\ s.module \in ToSet(x.modules)
    BY <2>1 DEF ScopeSet
  <2>5. ASSUME NEW t \in level[k] PROVE Len(t.path) = k
    <3>a. PICK s \in level[k - 1] : \E i \in InstancesOf(x, s.module) : t.path = Append(s.path, i.name)
      BY <2>3
    <3>1. PICK i \in InstancesOf(x, s.module) : t.path = Append(s.path, i.name)
      BY <3>a
    <3>2. s.path \in Seq(names) /\ Len(s.path) = k - 1
      BY <2>4
    <3>3. i.name \in names
      BY <2>4 DEF InstanceNames
    <3> HIDE DEF names
    <3>4. Len(Append(s.path, i.name)) = Len(s.path) + 1
      BY <3>2, <3>3
    <3> QED  BY <3>1, <3>2, <3>4
  <2>6. ASSUME NEW s \in level[k], NEW t \in level[k], s.path = t.path PROVE s = t
    <3>a. PICK u \in level[k - 1] : \E i \in InstancesOf(x, u.module) :
              s.path = Append(u.path, i.name) /\ s.module \in Defined(x, i.module)
      BY <2>3
    <3>1. PICK i \in InstancesOf(x, u.module) :
              s.path = Append(u.path, i.name) /\ s.module \in Defined(x, i.module)
      BY <3>a
    <3>b. PICK v \in level[k - 1] : \E j \in InstancesOf(x, v.module) :
              t.path = Append(v.path, j.name) /\ t.module \in Defined(x, j.module)
      BY <2>3
    <3>2. PICK j \in InstancesOf(x, v.module) :
              t.path = Append(v.path, j.name) /\ t.module \in Defined(x, j.module)
      BY <3>b
    <3>3. /\ u.path \in Seq(names) /\ v.path \in Seq(names)
          /\ u.module \in ToSet(x.modules) /\ v.module \in ToSet(x.modules)
          /\ Len(u.path) = k - 1 /\ Len(v.path) = k - 1
      BY <2>4
    <3>4. i.name \in names /\ j.name \in names
      BY <3>3 DEF InstanceNames
    <3>5. u.path = v.path /\ i.name = j.name
      <4> HIDE DEF names
      <4> DEFINE p == u.path
                 q == v.path
                 a == i.name
                 b == j.name
      <4>1. p \in Seq(names) /\ q \in Seq(names) /\ a \in names /\ b \in names /\ Append(p, a) = Append(q, b)
        BY <2>6, <3>1, <3>2, <3>3, <3>4
      <4> HIDE DEF p, q, a, b
      <4>2. p = q /\ a = b
        BY <4>1, AppendInjective
      <4> QED  BY <4>2 DEF p, q, a, b
    <3>6. u = v
      BY <2>1, <3>5
    <3>7. i = j
      BY <1>1, <3>3, <3>5, <3>6 DEF InstancesOf, DefinedOnce
    <3>8. s.module = t.module
      BY <1>1, <3>1, <3>2, <3>7 DEF Defined, DefinedOnce
    <3>9. s \in ScopeSet(x) /\ t \in ScopeSet(x)
      BY <2>2
    <3> QED  BY <2>6, <3>8, <3>9 DEF ScopeSet
  <2> QED  BY <2>2, <2>5, <2>6
<1>6. \A k \in 0 .. n : Good(k)
  <2>1. 0 .. n \subseteq S
    <3> HIDE DEF S, n
    <3> QED  BY <1>2, <1>4, <1>5, StepByStep
  <2> HIDE DEF n, Good
  <2> QED  BY <2>1
<1> HIDE DEF S, n
<1>7. Scopes(x) \subseteq ScopeSet(x)
  BY <1>3, <1>6
<1>8. ASSUME NEW s \in Scopes(x), NEW t \in Scopes(x), s.path = t.path PROVE s = t
  <2>1. PICK k \in 0 .. n, j \in 0 .. n : s \in level[k] /\ t \in level[j]
    BY <1>3
  <2>2. k = j
    BY <1>6, <1>8, <2>1
  <2> QED  BY <1>6, <1>8, <2>1, <2>2
<1>9. ASSUME NEW t \in Scopes(x), t.path # <<>> PROVE Above(t, Scopes(x))
  <2>1. PICK k \in 0 .. n : t \in level[k]
    BY <1>3
  <2>2. k # 0
    BY <1>3, <1>9, <2>1 DEF TopScope
  <2>3. k \in 1 .. n /\ k - 1 \in 0 .. n
    BY <1>2, <2>2
  <2>4. t \in ScopesWithin(x, level[k - 1])
    BY <1>3, <2>1, <2>3
  <2>5. level[k - 1] \subseteq Scopes(x)
    BY <1>3, <2>3
  <2> QED  BY <2>4, <2>5, WithinSome
<1> QED  BY <1>7, <1>8, <1>9

\* The only sequence of one element.
LEMMA SequenceOfOne ==
    ASSUME NEW e
    PROVE  SetToSeq({e}) = <<e>>
<1>1. Cardinality({e}) = 1
  BY FS_Singleton
<1>2. \E f : f \in [1 .. 1 -> {e}] /\ IsInjective(f)
  <2>1. [i \in 1 .. 1 |-> e] \in [1 .. 1 -> {e}] /\ IsInjective([i \in 1 .. 1 |-> e])
    BY DEF IsInjective
  <2> QED  BY <2>1
<1>3. SetToSeq({e}) \in [1 .. 1 -> {e}]
  BY <1>1, <1>2 DEF SetToSeq
<1> QED  BY <1>3

\* An item of a scope that the parser understands gives its edges to the graph.
LEMMA ItemsEdges ==
    ASSUME NEW x, NEW scope \in Scopes(x), NEW item \in ToSet(scope.module.items)
    PROVE  ItemEdges(x, scope.path, item) \subseteq BuildGraph(x).edges
BY DEF BuildGraph

\* A target has an edge to each name its assignment reads or its procedure waits for, the
\* reset looked for in a block without a clock left out.
LEMMA ProcedureDrives ==
    ASSUME NEW path, NEW p, NEW edges, NEW a \in p.assigns, NEW r,
           r \in a.rhs \/ (p.sequential /\ r \in p.clock \cup p.reset),
           <<r>> # a.lhs \/ r \notin p.clock \cup p.reset,
           p.sequential \/ r \notin p.clock \cup p.reset
    PROVE  \E e \in ProcedureEdges(path, p, edges) : e.src = Node(path, a.lhs) /\ e.dst = Node(path, <<r>>)
<1> DEFINE u == Node(path, a.lhs)
           v == Node(path, <<r>>)
<1>1. ASSUME NEW kind PROVE EdgeTo(u, v, kind).src = u /\ EdgeTo(u, v, kind).dst = v
  BY DEF EdgeTo
<1>2. CASE r \notin p.clock \cup p.reset
  <2>1. EdgeTo(u, v, IF p.sequential THEN "seq" ELSE "comb") \in ProcedureEdges(path, p, edges)
    BY <1>2 DEF ProcedureEdges
  <2> QED  BY <1>1, <2>1
<1>3. CASE r \in p.clock \cup p.reset
  <2>1. u # v
    BY <1>3 DEF Node
  <2>2. PICK kind \in {"clock", "reset"} : /\ (kind = "clock" => r \in p.clock)
                                           /\ (kind = "reset" => r \in p.reset)
    BY <1>3
  <2>3. EdgeTo(u, v, kind).src # EdgeTo(u, v, kind).dst
    BY <1>1, <2>1
  <2>4. EdgeTo(u, v, kind) \in ProcedureEdges(path, p, edges)
    BY <1>3, <2>2, <2>3 DEF ProcedureEdges
  <2> QED  BY <1>1, <2>4
<1> QED  BY <1>2, <1>3

\* A statement the parser follows is an assignment to its target; in the text of a design it
\* reads what the conditions of its procedure read.
LEMMA FollowedAssigned ==
    ASSUME NEW x, NEW p, NEW s \in ToSet(p.body), Followed(x, s), WellFormed(p)
    PROVE  \E t : /\ s.targets = <<t>>
                  /\ IF x.path = "rtl"
                     THEN [lhs |-> <<t>>, rhs |-> s.rhs \cup GuardSignals(p.body)] \in ParseAlways(p).assigns
                     ELSE [lhs |-> <<t>>, rhs |-> s.rhs] \in FromManifest(p).assigns
<1>1. s.heads \in Seq(ToSet(s.heads)) /\ s.targets \in Seq(ToSet(s.targets)) /\ Len(s.targets) = 1
  BY DEF WellFormed, Followed
<1> DEFINE t == s.targets[1]
<1>2. s.targets = <<t>>
  BY <1>1
<1>3. CASE x.path = "rtl"
  <2>1. \A h \in ToSet(s.heads) : Stripped(h)
    BY <1>3 DEF Followed
  <2>2. \A i \in DOMAIN s.heads : Stripped(s.heads[i])
    BY <2>1 DEF ToSet
  <2>3. LeftOver(s.heads) = <<>>
    BY <2>2 DEF LeftOver
  <2>4. [lhs |-> <<t>>, rhs |-> s.rhs \cup GuardSignals(p.body)] \in ReadStatement(s, GuardSignals(p.body))
    BY <1>1, <2>3 DEF ReadStatement
  <2> QED  BY <1>2, <1>3, <2>4 DEF ParseAlways
<1>4. CASE x.path # "rtl"
  <2>1. s.heads = <<>> \/ Last(s.heads).is # "label"
    BY <1>4 DEF Followed
  <2>2. [lhs |-> s.targets, rhs |-> s.rhs] \in FromManifest(p).assigns
    BY <2>1 DEF FromManifest
  <2> QED  BY <1>2, <1>4, <2>2
<1> QED  BY <1>3, <1>4

\* What the parser makes of a procedure.
Parsed(x, p) == IF x.path = "rtl" THEN ParseAlways(p) ELSE FromManifest(p)

\* It waits for its first edge and, as a reset, for its second, or else for a name that looks
\* like one.
LEMMA WaitsFor ==
    ASSUME NEW x, NEW p, WellFormed(p)
    PROVE  LET q == Parsed(x, p)
               sync == IF x.path = "rtl" THEN SyncReset(p.body) ELSE {}
           IN  /\ q.sequential <=> p.edges # <<>>
               /\ q.sequential => q.clock \cup q.reset \subseteq ToSet(p.edges) \cup sync
               /\ ~q.sequential => q.clock = {} /\ q.reset \subseteq sync
               /\ \A i \in DOMAIN p.edges : i < 3 => p.edges[i] \in q.clock \cup q.reset
<1> DEFINE q == Parsed(x, p)
           sync == IF x.path = "rtl" THEN SyncReset(p.body) ELSE {}
<1>1. p.edges \in Seq(ToSet(p.edges))
  BY DEF WellFormed
<1>2. /\ q.sequential = (p.edges # <<>>)
      /\ q.clock = (IF p.edges = <<>> THEN {} ELSE {p.edges[1]})
      /\ q.reset = (IF EdgeReset(p) # {} THEN EdgeReset(p) ELSE sync)
  BY DEF Parsed, ParseAlways, FromManifest
<1>3. EdgeReset(p) = IF Len(p.edges) > 1 THEN {p.edges[2]} ELSE {}
  BY DEF EdgeReset
<1> HIDE DEF q, sync
<1>4. \A i \in DOMAIN p.edges : p.edges[i] \in ToSet(p.edges)
  BY DEF ToSet
<1>5. CASE p.edges = <<>>
  <2>1. Len(p.edges) = 0 /\ DOMAIN p.edges = {}
    BY <1>5
  <2>2. EdgeReset(p) = {}
    BY <1>3, <2>1
  <2>3. ~q.sequential /\ q.clock = {} /\ q.reset = sync
    BY <1>2, <1>5, <2>2
  <2> QED  BY <1>5, <2>1, <2>3 DEF q, sync
<1>6. CASE p.edges # <<>>
  <2>1. Len(p.edges) \in Nat /\ Len(p.edges) >= 1 /\ DOMAIN p.edges = 1 .. Len(p.edges)
    BY <1>1, <1>6
  <2>2. p.edges[1] \in ToSet(p.edges) /\ (Len(p.edges) > 1 => p.edges[2] \in ToSet(p.edges))
    BY <1>4, <2>1
  <2>3. q.clock = {p.edges[1]}
    BY <1>2, <1>6
  <2>4. q.clock \cup q.reset \subseteq ToSet(p.edges) \cup sync
    BY <1>2, <1>3, <2>2, <2>3
  <2>5. ASSUME NEW i \in DOMAIN p.edges, i < 3 PROVE p.edges[i] \in q.clock \cup q.reset
    <3>1. CASE i = 1
      BY <2>3, <3>1
    <3>2. CASE i = 2
      <4>1. EdgeReset(p) = {p.edges[2]}
        BY <1>3, <2>1, <3>2
      <4> QED  BY <1>2, <3>2, <4>1
    <3> QED  BY <2>1, <2>5, <3>1, <3>2
  <2> QED  BY <1>2, <1>6, <2>4, <2>5 DEF q, sync
<1> QED  BY <1>5, <1>6

\* Of a statement that is followed no dependency is dropped but those that are overlooked.
LEMMA ProcedureFollowed ==
    ASSUME NEW x, NEW path, NEW p, NEW edges, WellFormed(p),
           ProcedureEdges(path, Parsed(x, p), ToSet(p.edges)) \subseteq edges
    PROVE  StatementsFollowed(x, path, p, edges)
<1> SUFFICES ASSUME NEW s \in ToSet(p.body), Followed(x, s), NEW dep \in Influences(p, s),
                    dep[2] \notin Overlooked(x, p, s)
             PROVE  \E e \in edges : e.src = Node(path, <<dep[1]>>) /\ e.dst = Node(path, <<dep[2]>>)
  BY DEF StatementsFollowed
<1> DEFINE q == Parsed(x, p)
           rhs == IF x.path = "rtl" THEN s.rhs \cup GuardSignals(p.body) ELSE s.rhs
           read == s.rhs \cup (IF x.path = "rtl" THEN s.under \ BehindBrackets(p.body) ELSE {})
           sync == IF x.path = "rtl" THEN SyncReset(p.body) ELSE {}
           r == dep[2]
<1>1. PICK t : s.targets = <<t>> /\ [lhs |-> <<t>>, rhs |-> rhs] \in q.assigns
  BY FollowedAssigned DEF Parsed
<1>2. dep[1] = t /\ r \in s.rhs \cup s.under \cup ToSet(p.edges)
  BY <1>1 DEF Influences, ToSet
<1>3. s.under \subseteq GuardSignals(p.body) \cup BehindBrackets(p.body) /\ p.edges \in Seq(ToSet(p.edges))
  BY DEF WellFormed
<1>4. /\ q.sequential <=> p.edges # <<>>
      /\ q.sequential => q.clock \cup q.reset \subseteq ToSet(p.edges) \cup sync
      /\ ~q.sequential => q.clock = {} /\ q.reset \subseteq sync
      /\ \A i \in DOMAIN p.edges : i < 3 => p.edges[i] \in q.clock \cup q.reset
  BY WaitsFor
<1>5. /\ r \notin s.under \ (read \cup ToSet(p.edges))
      /\ r \notin ToSet(SubSeq(p.edges, 3, Len(p.edges))) \ read
      /\ p.edges = <<>> => r \notin sync
      /\ p.edges # <<>> => r \notin ToSet(s.targets) \cap (ToSet(p.edges) \cup sync)
  BY DEF Overlooked
<1>6. t \in ToSet(s.targets)
  BY <1>1 DEF ToSet
<1>7. read \subseteq rhs
  BY <1>3
<1>8. r \in rhs \/ (q.sequential /\ r \in q.clock \cup q.reset)
  <2>1. CASE r \in read
    BY <1>7, <2>1
  <2>2. CASE r \notin read
    <3>1. r \in ToSet(p.edges)
      BY <1>2, <1>5, <2>2
    <3>2. PICK i \in DOMAIN p.edges : p.edges[i] = r
      BY <3>1 DEF ToSet
    <3>3. Len(p.edges) \in Nat /\ i \in 1 .. Len(p.edges)
      BY <1>3, <3>2
    <3>4. i < 3
      <4> SUFFICES ASSUME i >= 3 PROVE FALSE
        BY <3>3
      <4> DEFINE later == SubSeq(p.edges, 3, Len(p.edges))
      <4>1. i - 2 \in DOMAIN later /\ later[i - 2] = p.edges[i]
        BY <1>3, <3>3, SubSeqProperties
      <4>2. r \in ToSet(later)
        BY <3>2, <4>1 DEF ToSet
      <4> QED  BY <1>5, <2>2, <4>2
    <3>5. r \in q.clock \cup q.reset
      BY <1>4, <3>2, <3>4
    <3>6. p.edges # <<>>
      BY <3>3
    <3> QED  BY <1>4, <3>5, <3>6
  <2> QED  BY <2>1, <2>2
<1>9. q.sequential \/ r \notin q.clock \cup q.reset
  BY <1>4, <1>5
<1>10. <<r>> # <<t>> \/ r \notin q.clock \cup q.reset
  <2> SUFFICES ASSUME <<r>> = <<t>>, r \in q.clock \cup q.reset PROVE FALSE
    OBVIOUS
  <2>1. r = t
    OBVIOUS
  <2> QED  BY <1>4, <1>5, <1>6, <1>9, <2>1
<1> DEFINE a == [lhs |-> <<t>>, rhs |-> rhs]
<1>11. a \in q.assigns /\ a.lhs = <<t>> /\ a.rhs = rhs
  BY <1>1
<1> HIDE DEF a, q, rhs, read, sync, r
<1>12. \E e \in ProcedureEdges(path, q, ToSet(p.edges)) : e.src = Node(path, a.lhs) /\ e.dst = Node(path, <<r>>)
  BY <1>8, <1>9, <1>10, <1>11, ProcedureDrives
<1> QED  BY <1>2, <1>11, <1>12 DEF q, r

\* A connection by name to one signal has an edge, in the direction of the port.
LEMMA InstanceFollowed ==
    ASSUME NEW x, NEW path, NEW i, NEW edges, InstanceEdges(x, path, i) \subseteq edges,
           DefinedOnce(ToSet(x.modules)), \A m \in ToSet(x.modules) : DefinedOnce(m.ports),
           \A c \in ToSet(i.connections) : \A f, g \in c.formal : f = g
    PROVE  ConnectionsFollowed(x, path, i, edges)
<1> SUFFICES ASSUME NEW c \in ToSet(i.connections), c.plain, Len(c.names) = 1, c.formal # {}
             PROVE  LET outer == Node(path, <<c.names[1]>>)
                        inner == Node(Append(path, i.name), SetToSeq(c.formal))
                        Joined(u, v) == \E e \in edges : e.src = u /\ e.dst = v
                        dirs == {port.dir : port \in {port \in UNION {m.ports : m \in Defined(x, i.module)} :
                                                          {port.name} = c.formal}}
                    IN  /\ "input" \in dirs => Joined(inner, outer)
                        /\ "output" \in dirs \/ Defined(x, i.module) = {} => Joined(outer, inner)
                        /\ "inout" \in dirs => Joined(inner, outer) \/ Joined(outer, inner)
  BY DEF ConnectionsFollowed
<1> DEFINE outer == Node(path, <<c.names[1]>>)
           inner == Node(Append(path, i.name), SetToSeq(c.formal))
           Joined(u, v) == \E e \in edges : e.src = u /\ e.dst = v
           dirs == {port.dir : port \in {port \in UNION {m.ports : m \in Defined(x, i.module)} :
                                             {port.name} = c.formal}}
<1>1. PICK f : c.formal = {f}
  OBVIOUS
<1>2. SetToSeq(c.formal) = <<f>> /\ BaseName(c) = <<c.names[1]>>
  BY <1>1, SequenceOfOne DEF BaseName
<1>3. \A u, v : EdgeTo(u, v, "hier").src = u /\ EdgeTo(u, v, "hier").dst = v
  BY DEF EdgeTo
<1>4. CASE Defined(x, i.module) = {}
  <2>1. EdgeTo(outer, inner, "hier") \in BlackboxEdges(path, i)
    BY <1>1, <1>2 DEF BlackboxEdges
  <2>2. EdgeTo(outer, inner, "hier") \in edges
    BY <1>4, <2>1 DEF InstanceEdges
  <2>3. Joined(outer, inner)
    BY <1>3, <2>2
  <2>4. dirs = {}
    BY <1>4
  <2> HIDE DEF outer, inner, dirs, Joined
  <2> QED  BY <2>3, <2>4 DEF outer, inner, dirs, Joined
<1>5. CASE Defined(x, i.module) # {}
  <2>1. PICK child : Defined(x, i.module) = {child} /\ child \in ToSet(x.modules)
    BY <1>5 DEF Defined, DefinedOnce
  <2>2. WireInstance(path, i, child) \subseteq edges
    BY <1>5, <2>1 DEF InstanceEdges
  <2>3. IF Direction(child, f) = "output" THEN EdgeTo(outer, inner, "hier") \in edges
        ELSE EdgeTo(inner, outer, "hier") \in edges
    BY <1>1, <1>2, <2>2 DEF WireInstance
  <2>4. dirs = {port.dir : port \in {port \in child.ports : port.name = f}}
    BY <1>1, <2>1
  <2>5. ASSUME NEW d \in dirs PROVE Direction(child, f) = d
    <3>1. DefinedOnce(child.ports)
      BY <2>1
    <3>2. dirs = {d}
      BY <2>4, <3>1 DEF DefinedOnce
    <3> QED  BY <2>4, <3>2 DEF Direction
  <2>6. Joined(outer, inner) \/ Joined(inner, outer)
    BY <1>3, <2>3
  <2>7. "input" \in dirs => Joined(inner, outer)
    BY <1>3, <2>3, <2>5
  <2>8. "output" \in dirs => Joined(outer, inner)
    BY <1>3, <2>3, <2>5
  <2> HIDE DEF outer, inner, dirs, Joined
  <2> QED  BY <1>5, <2>6, <2>7, <2>8 DEF outer, inner, dirs, Joined
<1> QED  BY <1>4, <1>5

\* The source of an edge is a name of a scope, or a pin of an instance of a defined module.
LEMMA SourcesOfEdges ==
    ASSUME NEW x, NEW e \in BuildGraph(x).edges
    PROVE  \E s \in Scopes(x) : \/ e.src.path = s.path
                               \/ \E i \in InstancesOf(x, s.module) :
                                     /\ Defined(x, i.module) # {}
                                     /\ e.src.path = Append(s.path, i.name)
<1>1. PICK s \in Scopes(x) : \E item \in ToSet(s.module.items) : e \in ItemEdges(x, s.path, item)
  BY DEF BuildGraph
<1>2. PICK item \in ToSet(s.module.items) : e \in ItemEdges(x, s.path, item)
  BY <1>1
<1>3. /\ \A path, name : Node(path, name).path = path
      /\ \A u, v, kind : EdgeTo(u, v, kind).src = u
  BY DEF Node, EdgeTo
<1>4. ~OverLines(x, item)
  BY <1>2 DEF ItemEdges
<1>5. CASE item.is = "assign"
  <2>1. e \in AssignEdges(s.path, item)
    BY <1>2, <1>4, <1>5 DEF ItemEdges
  <2>2. PICK r \in item.rhs : e = EdgeTo(Node(s.path, item.targets), Node(s.path, <<r>>), "comb")
    BY <2>1 DEF AssignEdges
  <2> QED  BY <1>3, <2>2
<1>6. CASE item.is = "instance"
  <2>1. e \in InstanceEdges(x, s.path, item)
    BY <1>2, <1>4, <1>6 DEF ItemEdges
  <2>2. CASE Defined(x, item.module) = {}
    BY <1>3, <2>1, <2>2 DEF InstanceEdges, BlackboxEdges
  <2>3. CASE Defined(x, item.module) # {}
    <3>1. PICK child \in Defined(x, item.module) : e \in WireInstance(s.path, item, child)
      BY <2>1, <2>3 DEF InstanceEdges
    <3>2. e.src.path = s.path \/ e.src.path = Append(s.path, item.name)
      <4>1. \E u, v : /\ e \in {EdgeTo(u, v, "hier"), EdgeTo(v, u, "hier")}
                      /\ u.path = s.path /\ v.path = Append(s.path, item.name)
        <5>1. PICK c \in ToSet(item.connections), f \in UNION {d.formal : d \in ToSet(item.connections)} :
                  e \in {EdgeTo(Node(s.path, BaseName(c)), Node(Append(s.path, item.name), <<f>>), "hier"),
                         EdgeTo(Node(Append(s.path, item.name), <<f>>), Node(s.path, BaseName(c)), "hier")}
          BY <3>1 DEF WireInstance
        <5> DEFINE u == Node(s.path, BaseName(c))
                   v == Node(Append(s.path, item.name), <<f>>)
        <5>2. u.path = s.path /\ v.path = Append(s.path, item.name)
          BY <1>3
        <5> HIDE DEF u, v
        <5>3. e \in {EdgeTo(u, v, "hier"), EdgeTo(v, u, "hier")}
          BY <5>1 DEF u, v
        <5> QED  BY <5>2, <5>3
      <4> QED  BY <1>3, <4>1
    <3>3. item \in InstancesOf(x, s.module)
      BY <1>4, <1>6 DEF InstancesOf
    <3> QED  BY <2>3, <3>2, <3>3
  <2> QED  BY <2>2, <2>3
<1>7. CASE item.is # "assign" /\ item.is # "instance"
  <2>1. PICK q : e \in ProcedureEdges(s.path, q, ToSet(item.edges))
    BY <1>2, <1>4, <1>7 DEF ItemEdges
  <2>2. e.src.path = s.path
    <3> DEFINE Kind == IF q.sequential THEN "seq" ELSE "comb"
               data == UNION {{EdgeTo(Node(s.path, a.lhs), Node(s.path, <<r>>), Kind) :
                                  r \in a.rhs \ (q.clock \cup q.reset)} : a \in q.assigns}
               targets == {Node(s.path, a.lhs) : a \in q.assigns}
               clocked == {EdgeTo(t, Node(s.path, <<c>>), "clock") : t \in targets, c \in q.clock}
               cleared == {EdgeTo(t, Node(s.path, <<c>>), "reset") : t \in targets, c \in q.reset}
    <3>1. e \in data \/ e \in clocked \/ e \in cleared
      BY <2>1 DEF ProcedureEdges
    <3>4. \A t \in targets : t.path = s.path
      BY <1>3
    <3>2. CASE e \in data
      <4>1. PICK a \in q.assigns : \E r \in a.rhs : e = EdgeTo(Node(s.path, a.lhs), Node(s.path, <<r>>), Kind)
        BY <3>2
      <4> QED  BY <1>3, <4>1
    <3>3. CASE e \in clocked
      <4> HIDE DEF targets, data, cleared
      <4>1. PICK t \in targets, c \in q.clock : e = EdgeTo(t, Node(s.path, <<c>>), "clock")
        BY <3>3
      <4> QED  BY <1>3, <3>4, <4>1
    <3>5. CASE e \in cleared
      <4> HIDE DEF targets, data, clocked
      <4>1. PICK t \in targets, c \in q.reset : e = EdgeTo(t, Node(s.path, <<c>>), "reset")
        BY <3>5
      <4> QED  BY <1>3, <3>4, <4>1
    <3> HIDE DEF data, clocked, cleared
    <3> QED  BY <3>1, <3>2, <3>3, <3>5
  <2> QED  BY <2>2
<1> QED  BY <1>5, <1>6, <1>7

\* The pins of a module that is not there drive nothing further: an instance of the same path
\* would be the same instance.
LEMMA PinsAreFree ==
    ASSUME NEW x \in ScoutDesigns, NEW scope \in Scopes(x), NEW i \in InstancesOf(x, scope.module),
           Defined(x, i.module) = {}, NEW e \in BuildGraph(x).edges
    PROVE  e.src.path # Append(scope.path, i.name)
<1> DEFINE names == InstanceNames(x)
<1>1. /\ Scopes(x) \subseteq ScopeSet(x)
      /\ \A s, t \in Scopes(x) : s.path = t.path => s = t
      /\ \A t \in Scopes(x) : t.path = <<>> \/
            \E s \in Scopes(x) : \E j \in InstancesOf(x, s.module) :
               t.path = Append(s.path, j.name) /\ t.module \in Defined(x, j.module)
  BY ScopesByPath
<1>2. ASSUME NEW s \in Scopes(x), NEW j \in InstancesOf(x, s.module)
      PROVE  s.path \in Seq(names) /\ s.module \in ToSet(x.modules) /\ j.name \in names
  <2>1. s \in ScopeSet(x)
    BY <1>1
  <2>2. s.path \in Seq(names) /\ s.module \in ToSet(x.modules)
    <3> HIDE DEF names
    <3> QED  BY <2>1 DEF ScopeSet, names
  <2>3. j.name \in names
    BY <2>2 DEF InstanceNames
  <2> QED  BY <2>2, <2>3
<1>3. ASSUME NEW s \in Scopes(x), NEW j \in InstancesOf(x, s.module),
             Append(s.path, j.name) = Append(scope.path, i.name)
      PROVE  i = j
  <2> DEFINE p == s.path
             q == scope.path
             a == j.name
             b == i.name
  <2>1. p \in Seq(names) /\ q \in Seq(names) /\ a \in names /\ b \in names /\ Append(p, a) = Append(q, b)
    BY <1>2, <1>3
  <2>2. p = q /\ a = b
    <3> HIDE DEF p, q, a, b, names
    <3> QED  BY <2>1, AppendInjective
  <2>3. s = scope
    BY <1>1, <2>2
  <2>4. DefinedOnce({k \in ToSet(scope.module.items) : k.is = "instance"})
    BY <1>2, ScoutAssumption DEF ScoutAssumption
  <2> QED  BY <2>2, <2>3, <2>4 DEF InstancesOf, DefinedOnce
<1>4. PICK s \in Scopes(x) : \/ e.src.path = s.path
                             \/ \E j \in InstancesOf(x, s.module) :
                                   Defined(x, j.module) # {} /\ e.src.path = Append(s.path, j.name)
  BY SourcesOfEdges
<1> SUFFICES ASSUME e.src.path = Append(scope.path, i.name) PROVE FALSE
  OBVIOUS
<1>5. CASE \E j \in InstancesOf(x, s.module) : Defined(x, j.module) # {} /\ e.src.path = Append(s.path, j.name)
  BY <1>3, <1>5
<1>6. CASE e.src.path = s.path
  <2>1. s.path # <<>>
    <3>1. scope.path \in Seq(names) /\ i.name \in names
      BY <1>2
    <3> HIDE DEF names
    <3>2. Append(scope.path, i.name) # <<>>
      BY <3>1, AppendProperties
    <3> QED  BY <1>6, <3>2
  <2>2. PICK t \in Scopes(x) : \E j \in InstancesOf(x, t.module) :
            s.path = Append(t.path, j.name) /\ s.module \in Defined(x, j.module)
    BY <1>1, <2>1
  <2> QED  BY <1>3, <1>6, <2>2
<1> QED  BY <1>4, <1>5, <1>6

\* One call: a design, and, once there is a report, the graph of that design.
ScoutInv ==
    /\ tool = "flow-scout"
    /\ \E x \in ScoutDesigns : input = x /\ reports \in {{}, {BuildGraph(x)}}

\* The graph of flow-scout is that of the design it was called with.
LEMMA ScoutInvariant == ScoutSpec => []ScoutInv
<1>1. ScoutInit => ScoutInv
  BY DEF ScoutInit, Called, ScoutInv
<1>2. ScoutInv /\ [Scout]_passVars => ScoutInv'
  BY DEF ScoutInv, Scout, Computing, Reports, passVars
<1> QED  BY <1>1, <1>2, PTL DEF ScoutSpec

\* Of what the parser follows no dependency is dropped, in any design, at any depth of its
\* hierarchy, and the pins of a module that is not there are free.
THEOREM DependenciesKeptAlways == ScoutSpec => []DependenciesKept
<1>1. ASSUME ScoutInv, Reported("flow-scout") PROVE Report = BuildGraph(input) /\ input \in ScoutDesigns
  <2>1. reports = {BuildGraph(input)} /\ input \in ScoutDesigns
    BY <1>1 DEF ScoutInv, Reported
  <2> QED  BY <2>1 DEF Report
<1>2. ASSUME ScoutInv PROVE DependenciesKept
  <2> SUFFICES ASSUME Reported("flow-scout") PROVE DependenciesKept
    BY DEF DependenciesKept
  <2>1. Report = BuildGraph(input) /\ input \in ScoutDesigns
    BY <1>1, <1>2
  <2>2. ASSUME NEW scope \in Scopes(input), NEW k \in DOMAIN scope.module.items,
               <<scope.module.name, k>> \notin Report.unresolved
        PROVE  LET item == scope.module.items[k]
               IN  CASE item.is = "assign" ->
                            \A t \in ToSet(item.targets), r \in item.rhs : Len(item.targets) = 1 =>
                                \E e \in Report.edges : /\ e.src = Node(scope.path, <<t>>)
                                                        /\ e.dst = Node(scope.path, <<r>>)
                     [] item.is = "always" -> StatementsFollowed(input, scope.path, item, Report.edges)
                     [] item.is = "instance" -> ConnectionsFollowed(input, scope.path, item, Report.edges)
    <3> DEFINE item == scope.module.items[k]
    <3>1. scope.module \in ToSet(input.modules) /\ item \in ToSet(scope.module.items)
      BY <2>1, ScopesByPath DEF ScopeSet, ToSet
    <3>2. ~OverLines(input, item)
      BY <2>1, <2>2, <3>1 DEF BuildGraph
    <3>3. ItemEdges(input, scope.path, item) \subseteq Report.edges
      BY <2>1, <3>1, ItemsEdges
    <3>4. /\ DefinedOnce(ToSet(input.modules)) /\ \A m \in ToSet(input.modules) : DefinedOnce(m.ports)
          /\ item.is \in {"assign", "always", "instance"}
          /\ item.is = "assign" => item.targets \in Seq(ToSet(item.targets))
          /\ item.is = "always" => WellFormed(item)
          /\ item.is = "instance" => \A c \in ToSet(item.connections) : \A f, g \in c.formal : f = g
      BY <2>1, <3>1, ScoutAssumption, ZenonT(60) DEF ScoutAssumption
    <3> HIDE DEF item
    <3>5. CASE item.is = "assign"
      <4>1. AssignEdges(scope.path, item) \subseteq Report.edges
        BY <3>2, <3>3, <3>5 DEF ItemEdges
      <4>2. ASSUME NEW t \in ToSet(item.targets), NEW r \in item.rhs, Len(item.targets) = 1
            PROVE  \E e \in Report.edges : e.src = Node(scope.path, <<t>>) /\ e.dst = Node(scope.path, <<r>>)
        <5>1. item.targets = <<t>>
          BY <3>4, <3>5, <4>2 DEF ToSet
        <5>2. EdgeTo(Node(scope.path, <<t>>), Node(scope.path, <<r>>), "comb") \in Report.edges
          BY <4>1, <5>1 DEF AssignEdges
        <5> QED  BY <5>2 DEF EdgeTo
      <4> QED  BY <3>5, <4>2 DEF item
    <3>6. CASE item.is = "always"
      <4>1. ProcedureEdges(scope.path, Parsed(input, item), ToSet(item.edges)) \subseteq Report.edges
        BY <3>2, <3>3, <3>6 DEF ItemEdges, Parsed
      <4>2. StatementsFollowed(input, scope.path, item, Report.edges)
        BY <3>4, <3>6, <4>1, ProcedureFollowed
      <4> QED  BY <3>6, <4>2 DEF item
    <3>7. CASE item.is = "instance"
      <4>1. InstanceEdges(input, scope.path, item) \subseteq Report.edges
        BY <3>2, <3>3, <3>7 DEF ItemEdges
      <4>2. ConnectionsFollowed(input, scope.path, item, Report.edges)
        BY <3>4, <3>7, <4>1, InstanceFollowed
      <4> QED  BY <3>7, <4>2 DEF item
    <3> QED  BY <3>4, <3>5, <3>6, <3>7
  <2>3. ASSUME NEW scope \in Scopes(input), NEW i \in InstancesOf(input, scope.module),
               Defined(input, i.module) = {}, NEW e \in Report.edges
        PROVE  e.src.path # Append(scope.path, i.name)
    BY <2>1, <2>3, PinsAreFree
  <2> QED  BY <2>2, <2>3 DEF DependenciesKept
<1>3. ScoutInv => DependenciesKept
  BY <1>2
<1> QED  BY <1>3, ScoutInvariant, PTL

-----------------------------------------------------------------------------
(***************************************************************************)
(* The review of a security requirement                                    *)
(***************************************************************************)

\* All that the terms of a requirement are grounded in.
RefsOf(x, r) == UNION {GroundTerm(x, t) : t \in Range(TermsOf(r))}

\* The symbols of a manifest are a sequence.
LEMMA SymbolsInOrder ==
    ASSUME NEW x \in SecurityInputs
    PROVE  \E T : FlatSymbols(x.modules) \in Seq(T)
<1> DEFINE ms == x.modules
           A == {m.name : m \in Range(ms)}
           Named == UNION {Range(m.ports) \cup Range(m.nets) \cup Range(m.registers) \cup Range(m.parameters) :
                             m \in Range(ms)}
           T == [module : A, name : Named, kind : {"port", "net", "register", "parameter"}]
           KindOf(m, names, kind) == [i \in DOMAIN names |-> [module |-> m.name, name |-> names[i], kind |-> kind]]
           Symbols(m) == KindOf(m, m.ports, "port") \o KindOf(m, m.nets, "net")
                         \o KindOf(m, m.registers, "register") \o KindOf(m, m.parameters, "parameter")
<1>1. /\ ms \in Seq(Range(ms))
      /\ \A m \in Range(ms) :
            /\ m.ports \in Seq(Range(m.ports)) /\ m.nets \in Seq(Range(m.nets))
            /\ m.registers \in Seq(Range(m.registers)) /\ m.parameters \in Seq(Range(m.parameters))
  BY SecurityAssumption
<1>2. ASSUME NEW m \in Range(ms), NEW names \in Seq(Named), NEW kind \in {"port", "net", "register", "parameter"}
      PROVE  KindOf(m, names, kind) \in Seq(T)
  <2>1. m.name \in A
    OBVIOUS
  <2>2. \A i \in 1 .. Len(names) : [module |-> m.name, name |-> names[i], kind |-> kind] \in T
    BY <2>1
  <2> HIDE DEF A, Named, T
  <2> QED  BY <2>2
<1>3. ASSUME NEW m \in Range(ms) PROVE Symbols(m) \in Seq(T)
  <2>1. /\ Range(m.ports) \subseteq Named /\ Range(m.nets) \subseteq Named
        /\ Range(m.registers) \subseteq Named /\ Range(m.parameters) \subseteq Named
    OBVIOUS
  <2> HIDE DEF Named
  <2>2. m.ports \in Seq(Named) /\ m.nets \in Seq(Named) /\ m.registers \in Seq(Named) /\ m.parameters \in Seq(Named)
    <3>1. /\ m.ports \in Seq(Range(m.ports)) /\ m.nets \in Seq(Range(m.nets))
          /\ m.registers \in Seq(Range(m.registers)) /\ m.parameters \in Seq(Range(m.parameters))
      BY <1>1
    <3> QED  BY <2>1, <3>1, WidenedSequence
  <2>3. /\ KindOf(m, m.ports, "port") \in Seq(T) /\ KindOf(m, m.nets, "net") \in Seq(T)
        /\ KindOf(m, m.registers, "register") \in Seq(T) /\ KindOf(m, m.parameters, "parameter") \in Seq(T)
    BY <1>2, <2>2
  <2> HIDE DEF KindOf, T
  <2> QED  BY <2>3
<1>4. FlatSymbols(ms) = FlattenSeq([j \in DOMAIN ms |-> Symbols(ms[j])])
  BY DEF FlatSymbols
<1>5. [j \in DOMAIN ms |-> Symbols(ms[j])] \in Seq(Seq(T))
  <2>1. \A j \in DOMAIN ms : ms[j] \in Range(ms)
    BY DEF Range
  <2>2. \A j \in DOMAIN ms : Symbols(ms[j]) \in Seq(T)
    BY <1>3, <2>1
  <2>3. DOMAIN ms = 1 .. Len(ms) /\ Len(ms) \in Nat
    BY <1>1
  <2> HIDE DEF Symbols, T, ms
  <2> QED  BY <2>2, <2>3
<1> HIDE DEF Symbols, T
<1> QED  BY <1>4, <1>5, FlattenedSequence

\* A term is grounded in a symbol of its name, else in one that agrees with it on a part.
LEMMA GroundedTerm ==
    ASSUME NEW x \in SecurityInputs, NEW t, NEW ref \in GroundTerm(x, t)
    PROVE  /\ GroundTerm(x, t) = {ref} /\ ref.term = t
           /\ \E i \in DOMAIN FlatSymbols(x.modules) : FlatSymbols(x.modules)[i].name = ref.symbol
           /\ ref.symbol # t => ref.match = "alias"
<1> DEFINE flat == FlatSymbols(x.modules)
           exact == FindTerm(x, t)
           alias == FindAlias(x, t)
           Ref(i, match) == [term |-> t, symbol |-> flat[i].name, kind |-> flat[i].kind, match |-> match]
<1>1. exact \in SUBSET Nat /\ alias \in SUBSET Nat
  <2>1. DOMAIN flat \subseteq Nat
    BY SymbolsInOrder
  <2> QED  BY <2>1 DEF FindTerm, FindAlias
<1>2. /\ exact \subseteq DOMAIN flat /\ \A i \in exact : flat[i].name = t
      /\ alias \subseteq DOMAIN flat
  BY DEF FindTerm, FindAlias
<1>3. GroundTerm(x, t) = IF exact # {} THEN {Ref(Min(exact), "exact")}
                         ELSE IF alias # {} THEN {Ref(Min(alias), "alias")} ELSE {}
  BY DEF GroundTerm
<1>4. CASE exact # {}
  <2>1. Min(exact) \in exact
    BY <1>1, <1>4, MinOfSome
  <2> HIDE DEF exact, alias, flat
  <2> QED  BY <1>2, <1>3, <1>4, <2>1 DEF flat
<1>5. CASE exact = {}
  <2>1. alias # {}
    BY <1>3, <1>5
  <2>2. Min(alias) \in alias
    BY <1>1, <2>1, MinOfSome
  <2> HIDE DEF exact, alias, flat
  <2> QED  BY <1>2, <1>3, <1>5, <2>1, <2>2 DEF flat
<1> QED  BY <1>4, <1>5

\* What a requirement is grounded in, in the order of its terms.
LEMMA GroundedRefs ==
    ASSUME NEW x \in SecurityInputs, NEW r \in Range(x.requirements)
    PROVE  ResolvedRefs(x, r) \in Seq(RefsOf(x, r))
<1> DEFINE T == Range(r.signals) \cup Range(r.prose)
           terms == TermsOf(r)
           keep == {i \in DOMAIN terms : GroundTerm(x, terms[i]) # {}}
           found == Picked(terms, keep)
<1>1. r.signals \in Seq(T) /\ r.prose \in Seq(T)
  <2>1. r.signals \in Seq(Range(r.signals)) /\ r.prose \in Seq(Range(r.prose))
    BY SecurityAssumption
  <2> QED  BY <2>1, WidenedSequence
<1>2. terms \in Seq(T)
  <2>1. {i \in DOMAIN r.prose : r.prose[i] \notin Range(r.signals)} \in SUBSET (DOMAIN r.prose)
    OBVIOUS
  <2>2. Picked(r.prose, {i \in DOMAIN r.prose : r.prose[i] \notin Range(r.signals)}) \in Seq(T)
    BY <1>1, <2>1, PickedElements
  <2> HIDE DEF T
  <2> QED  BY <1>1, <2>2 DEF TermsOf
<1>3. found \in Seq(T) /\ Range(found) = {terms[i] : i \in keep}
  <2>1. keep \in SUBSET (DOMAIN terms)
    OBVIOUS
  <2> HIDE DEF keep, terms, T
  <2> QED  BY <1>2, <2>1, PickedElements
<1>4. ASSUME NEW j \in DOMAIN found
      PROVE  (CHOOSE ref \in GroundTerm(x, found[j]) : TRUE) \in RefsOf(x, r)
  <2>1. found[j] \in Range(found)
    BY DEF Range
  <2>2. PICK i \in keep : found[j] = terms[i]
    BY <1>3, <2>1
  <2>3. terms[i] \in Range(terms) /\ GroundTerm(x, terms[i]) # {}
    BY DEF Range
  <2> HIDE DEF terms, found, keep
  <2> QED  BY <2>2, <2>3 DEF RefsOf, terms
<1>5. ResolvedRefs(x, r) = [i \in DOMAIN found |-> CHOOSE ref \in GroundTerm(x, found[i]) : TRUE]
  BY DEF ResolvedRefs
<1>6. DOMAIN found = 1 .. Len(found) /\ Len(found) \in Nat
  BY <1>3
<1> HIDE DEF found
<1> QED  BY <1>4, <1>5, <1>6

\* At most one reference is picked.
LEMMA PickedReference ==
    ASSUME NEW S, NEW refs \in Seq(S), NEW keywords, DOMAIN keywords \subseteq Nat
    PROVE  Pick(refs, keywords) = {} \/ \E s \in Range(refs) : Pick(refs, keywords) = {s}
<1> DEFINE hits(k) == {i \in DOMAIN refs : HasKeyword(refs[i], keywords[k])}
           useful == {k \in DOMAIN keywords : hits(k) # {}}
<1>1. Pick(refs, keywords) = IF useful = {} THEN {} ELSE {refs[Min(hits(Min(useful)))]}
  BY DEF Pick
<1>2. ASSUME useful # {} PROVE refs[Min(hits(Min(useful)))] \in Range(refs)
  <2>1. useful \in SUBSET Nat
    OBVIOUS
  <2>2. Min(useful) \in useful
    <3> HIDE DEF useful
    <3> QED  BY <1>2, <2>1, MinOfSome
  <2>3. hits(Min(useful)) # {} /\ hits(Min(useful)) \in SUBSET Nat
    BY <2>2
  <2>4. Min(hits(Min(useful))) \in hits(Min(useful))
    <3> HIDE DEF hits, useful
    <3> QED  BY <2>3, MinOfSome
  <2>5. Min(hits(Min(useful))) \in DOMAIN refs
    BY <2>4
  <2> QED  BY <2>5 DEF Range
<1> HIDE DEF useful, hits
<1> QED  BY <1>1, <1>2

\* What is picked apart from a signal has another name.
LEMMA PickedApart ==
    ASSUME NEW S, NEW refs \in Seq(S), NEW keywords, DOMAIN keywords \subseteq Nat, NEW chosen
    PROVE  \/ PickExcluding(refs, chosen, keywords) = {}
           \/ \E s \in Range(refs) : /\ PickExcluding(refs, chosen, keywords) = {s}
                                     /\ \A c \in chosen : s.symbol # c.symbol
<1> DEFINE keep == {i \in DOMAIN refs : \A c \in chosen : refs[i].symbol # c.symbol}
           rest == Picked(refs, keep)
<1>1. rest \in Seq(S) /\ Range(rest) = {refs[i] : i \in keep}
  BY PickedElements
<1>2. \A s \in Range(rest) : s \in Range(refs) /\ \A c \in chosen : s.symbol # c.symbol
  BY <1>1 DEF Range
<1>3. PickExcluding(refs, chosen, keywords) = Pick(rest, keywords)
  BY DEF PickExcluding
<1> HIDE DEF rest
<1> QED  BY <1>1, <1>2, <1>3, PickedReference

\* The sides a property can have over the signals of S.
SideSet(S) ==
    [signal : {s.symbol : s \in S}, negated : BOOLEAN, other : {{}} \cup {{s.symbol} : s \in S}]

\* A property made of signals of S.
MadeFrom(S, c) ==
    /\ c.form \in {"implication", "never", "lockstep", "bounded_response", "reachable"}
    /\ c = [directive |-> c.directive, form |-> c.form, antecedent |-> c.antecedent, window |-> c.window,
            consequent |-> c.consequent, used |-> c.used]
    /\ c.directive \in {"assert", "cover"}
    /\ c.consequent \in SideSet(S) /\ c.antecedent \subseteq SideSet(S)
    /\ c.used \subseteq S
    /\ c.form = "bounded_response" => c.window = <<1, 3>>

\* No guard of a property is what it guards.
Apart(c) == \A a \in c.antecedent : a.signal # c.consequent.signal

\* What one builder gives: nothing, or one assertion.
OneAssertion(S, built) ==
    built = {} \/ \E c : built = {c} /\ MadeFrom(S, c) /\ c.directive = "assert"

\* The sides of a property are made of its signals.
LEMMA SidesMade ==
    ASSUME NEW S, NEW p \in S, NEW q \in S
    PROVE  /\ Sig(p) \in SideSet(S) /\ NotSig(p) \in SideSet(S)
           /\ Same(p, q) \in SideSet(S) /\ NotSame(p, q) \in SideSet(S)
           /\ Sig(p).signal = p.symbol /\ NotSig(p).signal = p.symbol
BY DEF SideSet, Sig, NotSig, Same, NotSame

\* A property as the renderer gets it, made of sides over the signals.
LEMMA AssertionMade ==
    ASSUME NEW S, NEW form \in {"implication", "never", "lockstep", "bounded_response"},
           NEW antecedent, antecedent \subseteq SideSet(S),
           NEW window, form = "bounded_response" => window = <<1, 3>>,
           NEW consequent \in SideSet(S), NEW used, used \subseteq S
    PROVE  \E c : /\ Sva(form, antecedent, window, consequent, used) = {c}
                  /\ MadeFrom(S, c) /\ c.directive = "assert"
                  /\ c.antecedent = antecedent /\ c.consequent = consequent
<1> DEFINE c == [directive |-> "assert", form |-> form, antecedent |-> antecedent, window |-> window,
                 consequent |-> consequent, used |-> used]
<1>1. Sva(form, antecedent, window, consequent, used) = {c}
  BY DEF Sva
<1>2. /\ c.directive = "assert" /\ c.form = form /\ c.antecedent = antecedent /\ c.window = window
      /\ c.consequent = consequent /\ c.used = used
  OBVIOUS
<1>3. c = [directive |-> c.directive, form |-> c.form, antecedent |-> c.antecedent, window |-> c.window,
           consequent |-> c.consequent, used |-> c.used]
  OBVIOUS
<1> HIDE DEF c
<1> QED  BY <1>1, <1>2, <1>3 DEF MadeFrom

\* A guard and what it guards: nothing, unless both were found.
LEMMA GatedMade ==
    ASSUME NEW S, NEW p \in S, NEW q \in S
    PROVE  /\ \E c : Gated(Sig(p), Sig(q), {p, q}) = {c} /\ OneAssertion(S, {c})
                     /\ (p.symbol # q.symbol => Apart(c))
           /\ \E c : Gated(Sig(p), NotSig(q), {p, q}) = {c} /\ OneAssertion(S, {c})
                     /\ (p.symbol # q.symbol => Apart(c))
<1>1. /\ Sig(p) \in SideSet(S) /\ Sig(q) \in SideSet(S) /\ NotSig(q) \in SideSet(S)
      /\ Sig(p).signal = p.symbol /\ Sig(q).signal = q.symbol /\ NotSig(q).signal = q.symbol
  BY SidesMade
<1>2. {Sig(p)} \subseteq SideSet(S) /\ {p, q} \subseteq S
  BY <1>1
<1>3. ASSUME NEW g \in SideSet(S), g.signal = q.symbol
      PROVE  \E c : Gated(Sig(p), g, {p, q}) = {c} /\ OneAssertion(S, {c})
                    /\ (p.symbol # q.symbol => Apart(c))
  <2>1. PICK c : /\ Sva("implication", {Sig(p)}, <<0, 0>>, g, {p, q}) = {c}
                 /\ MadeFrom(S, c) /\ c.directive = "assert"
                 /\ c.antecedent = {Sig(p)} /\ c.consequent = g
    BY <1>2, AssertionMade
  <2> QED  BY <1>1, <1>3, <2>1 DEF Gated, OneAssertion, Apart
<1> QED  BY <1>1, <1>3

\* access_control: what is done is picked apart from what grants it.
LEMMA AccessMade ==
    ASSUME NEW S, NEW refs \in Seq(S)
    PROVE  OneAssertion(S, BuildAccess(refs)) /\ \A c \in BuildAccess(refs) : Apart(c)
<1> DEFINE first == <<"grant", "allow", "unlock", "authorized", "permit">>
           second == <<"commit", "access", "wr_en", "rd_en", "write", "read", "en">>
           guard == Pick(refs, first)
           action == PickExcluding(refs, guard, second)
<1>0. Range(refs) \subseteq S
  BY SequenceRange
<1>1. DOMAIN first \subseteq Nat /\ DOMAIN second \subseteq Nat
  OBVIOUS
<1> HIDE DEF first, second
<1>2. guard = {} \/ \E g \in S : guard = {g}
  BY <1>0, <1>1, PickedReference
<1>3. action = {} \/ \E a \in S : action = {a} /\ \A g \in guard : a.symbol # g.symbol
  BY <1>0, <1>1, PickedApart
<1>4. BuildAccess(refs) = UNION {UNION {Gated(Sig(a), Sig(g), {a, g}) : g \in guard} : a \in action}
  BY DEF BuildAccess, BothFound, first, second
<1> HIDE DEF guard, action
<1>5. CASE guard = {} \/ action = {}
  <2>1. BuildAccess(refs) = {}
    BY <1>4, <1>5
  <2> QED  BY <2>1 DEF OneAssertion
<1>6. ASSUME NEW g \in S, guard = {g}, NEW a \in S, action = {a}, a.symbol # g.symbol
      PROVE  OneAssertion(S, BuildAccess(refs)) /\ \A c \in BuildAccess(refs) : Apart(c)
  <2>1. PICK c : Gated(Sig(a), Sig(g), {a, g}) = {c} /\ OneAssertion(S, {c}) /\ Apart(c)
    BY <1>6, GatedMade
  <2>2. UNION {UNION {Gated(Sig(p), Sig(q), {p, q}) : q \in {g}} : p \in {a}} = Gated(Sig(a), Sig(g), {a, g})
    OBVIOUS
  <2>3. BuildAccess(refs) = {c}
    BY <1>4, <1>6, <2>1, <2>2
  <2> QED  BY <2>1, <2>3
<1> QED  BY <1>2, <1>3, <1>5, <1>6

\* debug_lockout: the debug signal is picked apart from the lock.
LEMMA DebugMade ==
    ASSUME NEW S, NEW refs \in Seq(S)
    PROVE  OneAssertion(S, BuildDebug(refs)) /\ \A c \in BuildDebug(refs) : Apart(c)
<1> DEFINE first == <<"lock", "locked", "lockout">>
           second == <<"dbg_en", "debug_en", "dbg_enable", "enable", "dbg", "debug", "jtag", "scan">>
           lock == Pick(refs, first)
           dbg == PickExcluding(refs, lock, second)
<1>0. Range(refs) \subseteq S
  BY SequenceRange
<1>1. DOMAIN first \subseteq Nat /\ DOMAIN second \subseteq Nat
  OBVIOUS
<1> HIDE DEF first, second
<1>2. lock = {} \/ \E l \in S : lock = {l}
  BY <1>0, <1>1, PickedReference
<1>3. dbg = {} \/ \E d \in S : dbg = {d} /\ \A l \in lock : d.symbol # l.symbol
  BY <1>0, <1>1, PickedApart
<1>4. BuildDebug(refs) =
        IF lock = {} THEN UNION {Sva("never", {}, <<0, 0>>, NotSig(d), {d}) : d \in dbg}
        ELSE UNION {UNION {Gated(Sig(l), NotSig(d), {l, d}) : d \in dbg} : l \in lock}
  BY DEF BuildDebug, BothFound, first, second
<1> HIDE DEF lock, dbg
<1>5. CASE dbg = {}
  <2>1. BuildDebug(refs) = {}
    BY <1>4, <1>5
  <2> QED  BY <2>1 DEF OneAssertion
<1>6. ASSUME lock = {}, NEW d \in S, dbg = {d}
      PROVE  OneAssertion(S, BuildDebug(refs)) /\ \A c \in BuildDebug(refs) : Apart(c)
  <2>1. NotSig(d) \in SideSet(S) /\ {d} \subseteq S
    BY SidesMade
  <2>2. PICK c : /\ Sva("never", {}, <<0, 0>>, NotSig(d), {d}) = {c}
                 /\ MadeFrom(S, c) /\ c.directive = "assert" /\ c.antecedent = {}
    BY <2>1, AssertionMade
  <2>3. BuildDebug(refs) = {c}
    BY <1>4, <1>6, <2>2
  <2> QED  BY <2>2, <2>3 DEF OneAssertion, Apart
<1>7. ASSUME NEW l \in S, lock = {l}, NEW d \in S, dbg = {d}, d.symbol # l.symbol
      PROVE  OneAssertion(S, BuildDebug(refs)) /\ \A c \in BuildDebug(refs) : Apart(c)
  <2>1. PICK c : Gated(Sig(l), NotSig(d), {l, d}) = {c} /\ OneAssertion(S, {c}) /\ Apart(c)
    BY <1>7, GatedMade
  <2> DEFINE Each(a, b) == UNION {UNION {Gated(Sig(p), NotSig(q), {p, q}) : q \in b} : p \in a}
  <2>2. Each({l}, {d}) = Gated(Sig(l), NotSig(d), {l, d})
    OBVIOUS
  <2>3. lock # {} /\ (lock # {} => BuildDebug(refs) = Each(lock, dbg))
    BY <1>4, <1>7
  <2>4. BuildDebug(refs) = {c}
    <3> HIDE DEF Each
    <3> QED  BY <1>7, <2>1, <2>2, <2>3
  <2> QED  BY <2>1, <2>4
<1> QED  BY <1>2, <1>3, <1>5, <1>6, <1>7

\* lockstep_mismatch: two signals are compared, or a flag is never set.
LEMMA LockstepMade ==
    ASSUME NEW S, NEW refs \in Seq(S)
    PROVE  OneAssertion(S, BuildLockstep(refs))
<1> DEFINE keep == {i \in DOMAIN refs : refs[i].kind # "parameter"}
           pair == Picked(refs, keep)
           words == <<"mismatch", "error", "fault", "err">>
           flag == Pick(refs, words)
<1>1. pair \in Seq(S)
  BY PickedElements
<1>0. Range(refs) \subseteq S
  BY SequenceRange
<1>2. DOMAIN words \subseteq Nat
  OBVIOUS
<1> HIDE DEF words
<1>3. flag = {} \/ \E m \in S : flag = {m}
  BY <1>0, <1>2, PickedReference
<1>4. BuildLockstep(refs) =
        IF Len(pair) >= 2
        THEN Sva("lockstep", {}, <<0, 0>>, Same(pair[1], pair[2]), {pair[1], pair[2]})
        ELSE UNION {Sva("never", {}, <<0, 0>>, NotSig(m), {m}) : m \in flag}
  BY DEF BuildLockstep, words
<1> HIDE DEF pair, flag
<1>5. CASE Len(pair) >= 2
  <2>1. pair[1] \in S /\ pair[2] \in S
    BY <1>1, <1>5
  <2>2. ASSUME NEW p \in S, NEW q \in S
        PROVE  OneAssertion(S, Sva("lockstep", {}, <<0, 0>>, Same(p, q), {p, q}))
    <3>1. Same(p, q) \in SideSet(S) /\ {p, q} \subseteq S
      BY SidesMade
    <3>2. PICK c : /\ Sva("lockstep", {}, <<0, 0>>, Same(p, q), {p, q}) = {c}
                   /\ MadeFrom(S, c) /\ c.directive = "assert" /\ c.antecedent = {}
      BY <3>1, AssertionMade
    <3> QED  BY <3>2 DEF OneAssertion
  <2> QED  BY <1>4, <1>5, <2>1, <2>2
<1>6. CASE ~(Len(pair) >= 2) /\ flag = {}
  BY <1>4, <1>6 DEF OneAssertion
<1>7. ASSUME ~(Len(pair) >= 2), NEW m \in S, flag = {m} PROVE OneAssertion(S, BuildLockstep(refs))
  <2>1. NotSig(m) \in SideSet(S) /\ {m} \subseteq S
    BY SidesMade
  <2>2. PICK c : /\ Sva("never", {}, <<0, 0>>, NotSig(m), {m}) = {c}
                 /\ MadeFrom(S, c) /\ c.directive = "assert" /\ c.antecedent = {}
    BY <2>1, AssertionMade
  <2> QED  BY <1>4, <1>7, <2>2 DEF OneAssertion
<1> QED  BY <1>3, <1>5, <1>6, <1>7

\* The other categories take two signals, of which one may be the other.
EachGated(a, b) == UNION {UNION {Gated(Sig(p), Sig(q), {p, q}) : q \in b} : p \in a}
EachBarred(a, b) == UNION {UNION {Gated(Sig(p), NotSig(q), {p, q}) : q \in b} : p \in a}
EachAnswered(a, b) ==
    UNION {UNION {Sva("bounded_response", {Sig(p)}, <<1, 3>>, Sig(q), {p, q}) : q \in b} : p \in a}
EachDistinct(a, b) == UNION {UNION {Sva("never", {}, <<0, 0>>, NotSame(q, p), {p, q}) : q \in b} : p \in a}

\* Where both signals were found, one assertion of the two; else none.
LEMMA PairMade ==
    ASSUME NEW S, NEW one, one = {} \/ \E p \in S : one = {p}, NEW two, two = {} \/ \E q \in S : two = {q}
    PROVE  /\ OneAssertion(S, EachGated(one, two)) /\ OneAssertion(S, EachBarred(one, two))
           /\ OneAssertion(S, EachAnswered(one, two)) /\ OneAssertion(S, EachDistinct(one, two))
<1>1. CASE one = {} \/ two = {}
  <2>1. /\ EachGated(one, two) = {} /\ EachBarred(one, two) = {}
        /\ EachAnswered(one, two) = {} /\ EachDistinct(one, two) = {}
    BY <1>1 DEF EachGated, EachBarred, EachAnswered, EachDistinct
  <2> QED  BY <2>1 DEF OneAssertion
<1>2. ASSUME NEW p \in S, NEW q \in S, one = {p}, two = {q}
      PROVE  /\ OneAssertion(S, EachGated(one, two)) /\ OneAssertion(S, EachBarred(one, two))
             /\ OneAssertion(S, EachAnswered(one, two)) /\ OneAssertion(S, EachDistinct(one, two))
  <2>1. /\ EachGated({p}, {q}) = Gated(Sig(p), Sig(q), {p, q})
        /\ EachBarred({p}, {q}) = Gated(Sig(p), NotSig(q), {p, q})
    BY DEF EachGated, EachBarred
  <2>2. /\ EachAnswered({p}, {q}) = Sva("bounded_response", {Sig(p)}, <<1, 3>>, Sig(q), {p, q})
        /\ EachDistinct({p}, {q}) = Sva("never", {}, <<0, 0>>, NotSame(q, p), {p, q})
    BY DEF EachAnswered, EachDistinct
  <2>3. OneAssertion(S, Gated(Sig(p), Sig(q), {p, q}))
    <3>1. PICK c : /\ Gated(Sig(p), Sig(q), {p, q}) = {c} /\ OneAssertion(S, {c})
                   /\ (p.symbol # q.symbol => Apart(c))
      BY GatedMade
    <3> QED  BY <3>1
  <2>4. OneAssertion(S, Gated(Sig(p), NotSig(q), {p, q}))
    <3>1. PICK c : /\ Gated(Sig(p), NotSig(q), {p, q}) = {c} /\ OneAssertion(S, {c})
                   /\ (p.symbol # q.symbol => Apart(c))
      BY GatedMade
    <3> QED  BY <3>1
  <2>5. Sig(p) \in SideSet(S) /\ Sig(q) \in SideSet(S) /\ NotSame(q, p) \in SideSet(S)
    BY SidesMade
  <2>6. {p, q} \subseteq S /\ {Sig(p)} \subseteq SideSet(S)
    BY <2>5
  <2>7. OneAssertion(S, Sva("bounded_response", {Sig(p)}, <<1, 3>>, Sig(q), {p, q}))
    <3> DEFINE a == {Sig(p)}
               k == Sig(q)
               u == {p, q}
    <3>1. a \subseteq SideSet(S) /\ k \in SideSet(S) /\ u \subseteq S
      BY <2>5, <2>6
    <3> HIDE DEF a, k, u
    <3>2. PICK c : /\ Sva("bounded_response", a, <<1, 3>>, k, u) = {c}
                   /\ MadeFrom(S, c) /\ c.directive = "assert"
                   /\ c.antecedent = a /\ c.consequent = k
      BY <3>1, AssertionMade
    <3> QED  BY <3>2 DEF OneAssertion, a, k, u
  <2>8. OneAssertion(S, Sva("never", {}, <<0, 0>>, NotSame(q, p), {p, q}))
    <3>1. PICK c : /\ Sva("never", {}, <<0, 0>>, NotSame(q, p), {p, q}) = {c}
                   /\ MadeFrom(S, c) /\ c.directive = "assert" /\ c.antecedent = {}
      BY <2>5, <2>6, AssertionMade
    <3> QED  BY <3>1 DEF OneAssertion
  <2> QED  BY <1>2, <2>1, <2>2, <2>3, <2>4, <2>7, <2>8
<1> QED  BY <1>1, <1>2

\* A category gives at most one assertion, made of the signals that were resolved; where the
\* guard is picked apart from what it guards, they are two signals.
LEMMA CategoryMade ==
    ASSUME NEW S, NEW refs \in Seq(S), NEW category \in SecurityCategory
    PROVE  /\ OneAssertion(S, BuildForCategory(category, refs))
           /\ category \in {"access_control", "debug_lockout"} =>
                \A c \in BuildForCategory(category, refs) : Apart(c)
<1>0. Range(refs) \subseteq S
  BY SequenceRange
<1>1. CASE category = "access_control"
  BY <1>1, AccessMade DEF BuildForCategory
<1>2. CASE category = "debug_lockout"
  BY <1>2, DebugMade DEF BuildForCategory
<1>3. CASE category = "lockstep_mismatch"
  BY <1>3, LockstepMade DEF BuildForCategory
<1>4. CASE category = "privilege_gating"
  <2> DEFINE first == <<"op", "wr_en", "write", "exec", "secure", "access">>
             second == <<"priv", "mode", "level", "ring", "supervisor">>
  <2>1. BuildForCategory(category, refs) = EachGated(Pick(refs, first), Pick(refs, second))
    BY <1>4 DEF BuildForCategory, BothFound, EachGated
  <2>2. DOMAIN first \subseteq Nat /\ DOMAIN second \subseteq Nat
    OBVIOUS
  <2> HIDE DEF first, second
  <2>3. /\ Pick(refs, first) = {} \/ \E p \in S : Pick(refs, first) = {p}
        /\ Pick(refs, second) = {} \/ \E q \in S : Pick(refs, second) = {q}
    BY <1>0, <2>2, PickedReference
  <2>4. OneAssertion(S, BuildForCategory(category, refs))
    <3> DEFINE one == Pick(refs, first)
               two == Pick(refs, second)
    <3> HIDE DEF one, two
    <3>1. /\ OneAssertion(S, EachGated(one, two)) /\ OneAssertion(S, EachBarred(one, two))
          /\ OneAssertion(S, EachAnswered(one, two)) /\ OneAssertion(S, EachDistinct(one, two))
      BY <2>3, PairMade DEF one, two
    <3> QED  BY <2>1, <3>1 DEF one, two
  <2> QED  BY <1>4, <2>4
<1>5. CASE category = "fault_response"
  <2> DEFINE first == <<"fault", "error", "err", "alarm", "detect">>
             second == <<"resp", "halt", "safe", "shutdown", "clear", "recover">>
  <2>1. BuildForCategory(category, refs) = EachAnswered(Pick(refs, first), Pick(refs, second))
    BY <1>5 DEF BuildForCategory, BothFound, EachAnswered
  <2>2. DOMAIN first \subseteq Nat /\ DOMAIN second \subseteq Nat
    OBVIOUS
  <2> HIDE DEF first, second
  <2>3. /\ Pick(refs, first) = {} \/ \E p \in S : Pick(refs, first) = {p}
        /\ Pick(refs, second) = {} \/ \E q \in S : Pick(refs, second) = {q}
    BY <1>0, <2>2, PickedReference
  <2>4. OneAssertion(S, BuildForCategory(category, refs))
    <3> DEFINE one == Pick(refs, first)
               two == Pick(refs, second)
    <3> HIDE DEF one, two
    <3>1. /\ OneAssertion(S, EachGated(one, two)) /\ OneAssertion(S, EachBarred(one, two))
          /\ OneAssertion(S, EachAnswered(one, two)) /\ OneAssertion(S, EachDistinct(one, two))
      BY <2>3, PairMade DEF one, two
    <3> QED  BY <2>1, <3>1 DEF one, two
  <2> QED  BY <1>5, <2>4
<1>6. CASE category = "error_containment"
  <2> DEFINE first == <<"error", "err", "corrupt", "poison">>
             second == <<"out", "valid", "commit", "propagate", "downstream">>
  <2>1. BuildForCategory(category, refs) = EachBarred(Pick(refs, first), Pick(refs, second))
    BY <1>6 DEF BuildForCategory, BothFound, EachBarred
  <2>2. DOMAIN first \subseteq Nat /\ DOMAIN second \subseteq Nat
    OBVIOUS
  <2> HIDE DEF first, second
  <2>3. /\ Pick(refs, first) = {} \/ \E p \in S : Pick(refs, first) = {p}
        /\ Pick(refs, second) = {} \/ \E q \in S : Pick(refs, second) = {q}
    BY <1>0, <2>2, PickedReference
  <2>4. OneAssertion(S, BuildForCategory(category, refs))
    <3> DEFINE one == Pick(refs, first)
               two == Pick(refs, second)
    <3> HIDE DEF one, two
    <3>1. /\ OneAssertion(S, EachGated(one, two)) /\ OneAssertion(S, EachBarred(one, two))
          /\ OneAssertion(S, EachAnswered(one, two)) /\ OneAssertion(S, EachDistinct(one, two))
      BY <2>3, PairMade DEF one, two
    <3> QED  BY <2>1, <3>1 DEF one, two
  <2> QED  BY <1>6, <2>4
<1>7. CASE category = "information_flow_adjacent"
  <2> DEFINE first == <<"secret", "key", "priv", "sensitive">>
             second == <<"out", "observe", "leak", "public", "debug", "readable">>
  <2>1. BuildForCategory(category, refs) = EachDistinct(Pick(refs, first), Pick(refs, second))
    BY <1>7 DEF BuildForCategory, BothFound, EachDistinct
  <2>2. DOMAIN first \subseteq Nat /\ DOMAIN second \subseteq Nat
    OBVIOUS
  <2> HIDE DEF first, second
  <2>3. /\ Pick(refs, first) = {} \/ \E p \in S : Pick(refs, first) = {p}
        /\ Pick(refs, second) = {} \/ \E q \in S : Pick(refs, second) = {q}
    BY <1>0, <2>2, PickedReference
  <2>4. OneAssertion(S, BuildForCategory(category, refs))
    <3> DEFINE one == Pick(refs, first)
               two == Pick(refs, second)
    <3> HIDE DEF one, two
    <3>1. /\ OneAssertion(S, EachGated(one, two)) /\ OneAssertion(S, EachBarred(one, two))
          /\ OneAssertion(S, EachAnswered(one, two)) /\ OneAssertion(S, EachDistinct(one, two))
      BY <2>3, PairMade DEF one, two
    <3> QED  BY <2>1, <3>1 DEF one, two
  <2> QED  BY <1>7, <2>4
<1> QED  BY <1>1, <1>2, <1>3, <1>4, <1>5, <1>6, <1>7 DEF SecurityCategory

\* An objective becomes a cover of the first signal.
LEMMA CoverMade ==
    ASSUME NEW S, NEW refs \in Seq(S), refs # <<>>, NEW b, MadeFrom(S, b)
    PROVE  /\ MadeFrom(S, Covering(refs, b)) /\ Covering(refs, b).directive = "cover"
           /\ Apart(Covering(refs, b))
<1>1. refs[1] \in S
  OBVIOUS
<1>2. Sig(refs[1]) \in SideSet(S)
  BY <1>1, SidesMade
<1>3. Covering(refs, b) = [directive |-> "cover", form |-> "reachable", antecedent |-> {}, window |-> <<0, 0>>,
                           consequent |-> Sig(refs[1]), used |-> b.used]
  BY DEF Covering
<1>4. b.used \subseteq S
  BY DEF MadeFrom
<1> DEFINE d == Covering(refs, b)
           g == Sig(refs[1])
<1>5. /\ d.directive = "cover" /\ d.form = "reachable" /\ d.antecedent = {} /\ d.window = <<0, 0>>
      /\ d.consequent = g /\ d.used = b.used
  BY <1>3
<1>6. d = [directive |-> d.directive, form |-> d.form, antecedent |-> d.antecedent, window |-> d.window,
           consequent |-> d.consequent, used |-> d.used]
  <2> HIDE DEF d
  <2> QED  BY <1>3, <1>5 DEF d
<1>7. g \in SideSet(S)
  BY <1>2
<1> HIDE DEF d, g
<1>8. MadeFrom(S, d) /\ d.directive = "cover" /\ Apart(d)
  BY <1>4, <1>5, <1>6, <1>7 DEF MadeFrom, Apart
<1> QED  BY <1>8 DEF d

\* The answer to a clause is a candidate or the reason why there is none.
AnsweredFor(c, refs, built, a) ==
    /\ (a.candidate = {}) <=> (a.skipped # {} \/ c = {})
    /\ "assumption" \in c => a.candidate = {}
    /\ a.candidate = {} \/ a.candidate = built \/ a.candidate = {Covering(refs, b) : b \in built}

\* A clause of no marker is left to be flagged, one that is an assumption gives no candidate,
\* and any other gives one or the reason why not.
LEMMA ClauseAnswered ==
    ASSUME NEW x, NEW c \in SUBSET {"assumption", "objective", "safety"}, NEW refs, NEW built, NEW earlier
    PROVE  AnsweredFor(c, refs, built, AnswerOf(x, ClauseKind(c), refs, built, earlier))
<1> DEFINE a == AnswerOf(x, ClauseKind(c), refs, built, earlier)
<1> DEFINE kind == ClauseKind(c)
           sva == IF kind = "objective" THEN {Covering(refs, b) : b \in built} ELSE built
           dup == \E b \in sva, e \in earlier : <<b.directive, b.form, b.antecedent, b.consequent>>
                                                 = <<e.directive, e.form, e.antecedent, e.consequent>>
<1>1. /\ (kind = "ambiguity") <=> (c = {})
      /\ "assumption" \in c => kind = "assumption"
  BY DEF ClauseKind
<1>2. a = IF kind = "ambiguity" THEN [candidate |-> {}, skipped |-> {}]
          ELSE IF ~HasClock(x) THEN [candidate |-> {}, skipped |-> {"no clock"}]
          ELSE IF built = {} THEN [candidate |-> {}, skipped |-> {"not grounded"}]
          ELSE IF kind = "assumption" THEN [candidate |-> {}, skipped |-> {"never an assert"}]
          ELSE IF dup THEN [candidate |-> {}, skipped |-> {"duplicate"}]
          ELSE [candidate |-> sva, skipped |-> {}]
  BY DEF AnswerOf
<1>3. built # {} => sva # {}
  OBVIOUS
<1>4. sva = built \/ sva = {Covering(refs, b) : b \in built}
  OBVIOUS
<1> HIDE DEF kind, sva, dup, a
<1>5. /\ (a.candidate = {}) <=> (a.skipped # {} \/ c = {})
      /\ "assumption" \in c => a.candidate = {}
      /\ a.candidate = {} \/ a.candidate = sva
  <2>1. CASE kind = "ambiguity"
    BY <1>1, <1>2, <2>1
  <2>2. CASE kind # "ambiguity" /\ a = [candidate |-> sva, skipped |-> {}] /\ built # {} /\ kind # "assumption"
    BY <1>1, <1>3, <2>2
  <2>3. CASE kind # "ambiguity" /\ \E why : a = [candidate |-> {}, skipped |-> {why}]
    BY <1>1, <2>3
  <2> QED  BY <1>2, <2>1, <2>2, <2>3
<1>6. a.candidate = {} \/ a.candidate = built \/ a.candidate = {Covering(refs, b) : b \in built}
  BY <1>4, <1>5
<1> QED  BY <1>5, <1>6 DEF a, AnsweredFor

\* The candidates of a requirement: the assertion of its category, or the cover of it.
LEMMA RequirementGives ==
    ASSUME NEW x \in SecurityInputs, NEW r \in Range(x.requirements)
    PROVE  \E b : \A k \in DOMAIN r.clauses : \A earlier : \A c \in ForClause(x, r, k, earlier).candidate :
              /\ MadeFrom(RefsOf(x, r), c)
              /\ c = IF c.directive = "assert" THEN b ELSE Covering(ResolvedRefs(x, r), b)
              /\ r.category \in {"access_control", "debug_lockout"} => Apart(c)
<1> DEFINE S == RefsOf(x, r)
           refs == ResolvedRefs(x, r)
           built == BuildForCategory(r.category, refs)
<1>1. refs \in Seq(S)
  BY GroundedRefs
<1>2. r.category \in SecurityCategory /\ r.clauses \in Seq(SUBSET {"assumption", "objective", "safety"})
  BY SecurityAssumption
<1>3. /\ OneAssertion(Range(refs), built) /\ OneAssertion(S, built)
      /\ r.category \in {"access_control", "debug_lockout"} => \A c \in built : Apart(c)
  <2>1. refs \in Seq(Range(refs))
    BY <1>1, SequenceRange
  <2> HIDE DEF refs, S
  <2> QED  BY <1>1, <1>2, <2>1, CategoryMade
<1>4. built # {} => refs # <<>>
  <2>1. ASSUME NEW c, MadeFrom(Range(refs), c) PROVE Range(refs) # {}
    <3>1. c.consequent \in SideSet(Range(refs))
      BY <2>1 DEF MadeFrom
    <3> HIDE DEF refs
    <3> QED  BY <3>1 DEF SideSet
  <2>2. Range(<<>>) = {}
    BY DEF Range
  <2> HIDE DEF built, refs
  <2> QED  BY <1>3, <2>1, <2>2 DEF OneAssertion
<1>5. ASSUME NEW k \in DOMAIN r.clauses, NEW earlier
      PROVE  LET a == ForClause(x, r, k, earlier)
             IN  a.candidate = {} \/ a.candidate = built \/ a.candidate = {Covering(refs, b) : b \in built}
  <2>1. r.clauses[k] \in SUBSET {"assumption", "objective", "safety"}
    BY <1>2
  <2> DEFINE a == ForClause(x, r, k, earlier)
  <2>2. a = AnswerOf(x, ClauseKind(r.clauses[k]), refs, built, earlier)
    BY DEF ForClause
  <2> HIDE DEF refs, built
  <2>3. AnsweredFor(r.clauses[k], refs, built, a)
    BY <2>1, <2>2, ClauseAnswered
  <2> QED  BY <2>3 DEF AnsweredFor
<1>6. CASE built = {}
  <2>1. \A k \in DOMAIN r.clauses : \A earlier : ForClause(x, r, k, earlier).candidate = {}
    <3> HIDE DEF built
    <3> QED  BY <1>5, <1>6
  <2> QED  BY <2>1
<1>7. CASE built # {}
  <2> HIDE DEF built
  <2>1. PICK b : built = {b} /\ MadeFrom(S, b) /\ b.directive = "assert"
    <3> HIDE DEF S, refs
    <3> QED  BY <1>3, <1>7 DEF OneAssertion
  <2>2. /\ MadeFrom(S, Covering(refs, b)) /\ Covering(refs, b).directive = "cover"
        /\ Apart(Covering(refs, b))
    <3>1. refs # <<>>
      BY <1>4, <1>7
    <3> HIDE DEF S, refs
    <3> QED  BY <1>1, <2>1, <3>1, CoverMade
  <2>3. ASSUME NEW k \in DOMAIN r.clauses, NEW earlier, NEW c \in ForClause(x, r, k, earlier).candidate
        PROVE  /\ MadeFrom(S, c) /\ c = IF c.directive = "assert" THEN b ELSE Covering(refs, b)
               /\ r.category \in {"access_control", "debug_lockout"} => Apart(c)
    <3>1. c \in built \/ c \in {Covering(refs, d) : d \in built}
      <4> DEFINE got == ForClause(x, r, k, earlier).candidate
      <4>1. got = {} \/ got = built \/ got = {Covering(refs, d) : d \in built}
        BY <1>5
      <4> HIDE DEF got, refs
      <4>2. c \in got
        BY <2>3 DEF got
      <4> QED  BY <4>1, <4>2
    <3> HIDE DEF S, refs
    <3>2. c = b \/ c = Covering(refs, b)
      BY <2>1, <3>1
    <3>3. "cover" # "assert"
      OBVIOUS
    <3> QED  BY <1>3, <2>1, <2>2, <3>2, <3>3
  <2> QED  BY <2>3
<1> QED  BY <1>6, <1>7

\* Whether a negated side holds is the opposite of whether the side does.
LEMMA NegatedSide ==
    ASSUME NEW S, NEW c, MadeFrom(S, c), NEW v \in [NamesIn(c) -> BOOLEAN]
    PROVE  /\ SideHolds(c.consequent, v) \in BOOLEAN
           /\ SideHolds(Negated(c.consequent), v) = ~SideHolds(c.consequent, v)
<1> DEFINE side == c.consequent
           flipped == Negated(side)
           value == IF side.other = {} THEN v[side.signal] ELSE \A o \in side.other : v[side.signal] = v[o]
<1>1. side \in SideSet(S)
  BY DEF MadeFrom
<1>2. side.negated \in BOOLEAN
  BY <1>1 DEF SideSet
<1>3. flipped.negated = ~side.negated /\ flipped.signal = side.signal /\ flipped.other = side.other
  <2> HIDE DEF side
  <2> QED  BY <1>1 DEF SideSet, Negated
<1>4. value \in BOOLEAN
  <2>1. side.signal \in NamesIn(c)
    BY DEF NamesIn
  <2>2. v[side.signal] \in BOOLEAN
    <3> HIDE DEF side
    <3> QED  BY <2>1
  <2> HIDE DEF side
  <2> QED  BY <2>2
<1>5. SideHolds(side, v) = (value # side.negated) /\ SideHolds(flipped, v) = (value # flipped.negated)
  <2> HIDE DEF side, flipped
  <2> QED  BY <1>3 DEF SideHolds, value
<1>6. ASSUME NEW p \in BOOLEAN, NEW q \in BOOLEAN
      PROVE  (p # q) \in BOOLEAN /\ (p # ~q) = ~(p # q)
  OBVIOUS
<1> HIDE DEF value, side, flipped
<1> QED  BY <1>2, <1>3, <1>4, <1>5, <1>6 DEF side, flipped

\* A witness of a property of one cycle tells it from what it is a witness against.
LEMMA WitnessTells ==
    ASSUME NEW S, NEW c, MadeFrom(S, c), c.window = <<0, 0>>, NEW m \in GenerateMutations(c),
           NEW v \in [NamesIn(c) -> BOOLEAN]
    PROVE  IF m.kind = "drop_guard" THEN HoldsIn(m.sva, v) => HoldsIn(c, v)
           ELSE (\A a \in c.antecedent : SideHolds(a, v)) => HoldsIn(m.sva, v) # HoldsIn(c, v)
<1> DEFINE turned == [c EXCEPT !.consequent = Negated(@)]
           bare == [c EXCEPT !.antecedent = {}]
<1>1. c.form \in {"implication", "never", "lockstep", "reachable"}
  BY DEF MadeFrom
<1>2. /\ turned.antecedent = c.antecedent /\ turned.consequent = Negated(c.consequent)
      /\ bare.antecedent = {} /\ bare.consequent = c.consequent
  <2>1. c = [directive |-> c.directive, form |-> c.form, antecedent |-> c.antecedent, window |-> c.window,
             consequent |-> c.consequent, used |-> c.used]
    BY DEF MadeFrom
  <2>2. DOMAIN c = {"directive", "form", "antecedent", "window", "consequent", "used"}
    BY <2>1
  <2> QED  BY <2>2
<1>3. \/ m.kind = "drop_guard" /\ m.sva = bare
      \/ m.kind # "drop_guard" /\ m.sva = turned
  BY <1>1 DEF GenerateMutations
<1> HIDE DEF turned, bare
<1>4. CASE m.kind = "drop_guard" /\ m.sva = bare
  BY <1>2, <1>4 DEF HoldsIn
<1>5. CASE m.kind # "drop_guard" /\ m.sva = turned
  <2>1. ASSUME \A a \in c.antecedent : SideHolds(a, v)
        PROVE  HoldsIn(m.sva, v) # HoldsIn(c, v)
    <3>1. HoldsIn(c, v) = SideHolds(c.consequent, v)
      BY <2>1, NegatedSide DEF HoldsIn
    <3>2. HoldsIn(turned, v) = SideHolds(Negated(c.consequent), v)
      BY <1>2, <2>1, NegatedSide DEF HoldsIn
    <3> QED  BY <1>5, <3>1, <3>2, NegatedSide
  <2> QED  BY <1>5, <2>1
<1> QED  BY <1>3, <1>4, <1>5

\* A signal a candidate uses is one the manifest has, and a doubt about it is noted.
LEMMA ReferenceNoted ==
    ASSUME NEW x \in SecurityInputs, NEW r \in Range(x.requirements), NEW u \in RefsOf(x, r)
    PROVE  LET same == {i \in DOMAIN FlatSymbols(x.modules) : FlatSymbols(x.modules)[i].name = u.symbol}
           IN  /\ same # {}
               /\ u.symbol # u.term => <<"alias", u.term>> \in AmbiguityNotes(x, r)
               /\ Cardinality(same) > 1 /\ u.symbol = u.term => <<"several", u.term>> \in AmbiguityNotes(x, r)
<1>1. PICK t \in Range(TermsOf(r)) : u \in GroundTerm(x, t)
  BY DEF RefsOf
<1>2. /\ u.term = t
      /\ \E i \in DOMAIN FlatSymbols(x.modules) : FlatSymbols(x.modules)[i].name = u.symbol
      /\ u.symbol # t => u.match = "alias"
  BY <1>1, GroundedTerm
<1> DEFINE same == {i \in DOMAIN FlatSymbols(x.modules) : FlatSymbols(x.modules)[i].name = u.symbol}
<1>3. same # {}
  BY <1>2
<1>4. ASSUME u.symbol # u.term PROVE <<"alias", u.term>> \in AmbiguityNotes(x, r)
  BY <1>1, <1>2, <1>4 DEF AmbiguityNotes
<1>5. ASSUME Cardinality(same) > 1, u.symbol = u.term PROVE <<"several", u.term>> \in AmbiguityNotes(x, r)
  <2>1. FindTerm(x, t) = same
    BY <1>2, <1>5 DEF FindTerm
  <2>2. Cardinality(FindTerm(x, t)) > 1
    BY <1>5, <2>1
  <2> HIDE DEF same
  <2> QED  BY <1>1, <1>2, <2>2 DEF AmbiguityNotes
<1> QED  BY <1>3, <1>4, <1>5

\* One requirement set is read, and what is written is its review.
SecurityInv ==
    \E x \in SecurityInputs : tool = "security" /\ input = x /\ reports \in {{}, {RunSecurity(x)}}

\* What the report says is the review of what the pipeline was called with.
LEMMA SecurityInvariant == SecuritySpec => []SecurityInv
<1>1. SecurityInit => SecurityInv
  BY DEF SecurityInit, Called, SecurityInv
<1>2. SecurityInv /\ [ReviewSecurity]_passVars => SecurityInv'
  BY DEF SecurityInv, ReviewSecurity, Computing, Reports, passVars
<1> QED  BY <1>1, <1>2, PTL DEF SecuritySpec

\* What the results of the clauses of a requirement are.
ReviewedFor(x, r, results) ==
    /\ DOMAIN results = DOMAIN r.clauses
    /\ \A j \in DOMAIN results :
          /\ results[j].candidate = {} <=> (results[j].skipped # {} \/ r.clauses[j] = {})
          /\ results[j].candidate = {} /\ results[j].skipped = {} => j \in FlaggedClauses(r)
          /\ "assumption" \in r.clauses[j] => results[j].candidate = {}
    /\ \A c, d \in UNION {results[j].candidate : j \in DOMAIN results} :
          /\ MadeFrom(RefsOf(x, r), c)
          /\ c.directive = d.directive => c = d
          /\ r.category \in {"access_control", "debug_lockout"} => Apart(c)

\* The results of a requirement are the answers to its clauses, one after the other.
LEMMA RequirementReviewed ==
    ASSUME NEW x \in SecurityInputs, NEW r \in Range(x.requirements)
    PROVE  ReviewedFor(x, r, GenerateCandidates(x, r))
<1> DEFINE results == GenerateCandidates(x, r)
<1> DEFINE before(j) == UNION {ForClause(x, r, i, {}).candidate : i \in 1 .. (j - 1)}
<1>1. r.clauses \in Seq(SUBSET {"assumption", "objective", "safety"})
  BY SecurityAssumption
<1>2. results = [j \in DOMAIN r.clauses |-> ForClause(x, r, j, before(j))]
  BY DEF GenerateCandidates
<1> HIDE DEF before, results
<1>3. DOMAIN results = DOMAIN r.clauses /\ \A j \in DOMAIN r.clauses : results[j] = ForClause(x, r, j, before(j))
  BY <1>2
<1>4. ASSUME NEW j \in DOMAIN r.clauses
      PROVE  /\ results[j].candidate = {} <=> (results[j].skipped # {} \/ r.clauses[j] = {})
             /\ results[j].candidate = {} /\ results[j].skipped = {} => j \in FlaggedClauses(r)
             /\ "assumption" \in r.clauses[j] => results[j].candidate = {}
  <2>1. r.clauses[j] \in SUBSET {"assumption", "objective", "safety"}
    BY <1>1
  <2>2. /\ results[j].candidate = {} <=> (results[j].skipped # {} \/ r.clauses[j] = {})
        /\ "assumption" \in r.clauses[j] => results[j].candidate = {}
    <3> DEFINE refs == ResolvedRefs(x, r)
               built == BuildForCategory(r.category, refs)
    <3>1. results[j] = AnswerOf(x, ClauseKind(r.clauses[j]), refs, built, before(j))
      BY <1>3 DEF ForClause
    <3> HIDE DEF refs, built
    <3>2. AnsweredFor(r.clauses[j], refs, built, results[j])
      BY <2>1, <3>1, ClauseAnswered
    <3> QED  BY <3>2 DEF AnsweredFor
  <2> QED  BY <2>2 DEF FlaggedClauses
<1>5. PICK b : \A j \in DOMAIN r.clauses : \A earlier : \A c \in ForClause(x, r, j, earlier).candidate :
                  /\ MadeFrom(RefsOf(x, r), c)
                  /\ c = IF c.directive = "assert" THEN b ELSE Covering(ResolvedRefs(x, r), b)
                  /\ r.category \in {"access_control", "debug_lockout"} => Apart(c)
  <2> QED  BY <1>1, RequirementGives
<1>6. ASSUME NEW c \in UNION {results[j].candidate : j \in DOMAIN results}
      PROVE  /\ MadeFrom(RefsOf(x, r), c)
             /\ c = IF c.directive = "assert" THEN b ELSE Covering(ResolvedRefs(x, r), b)
             /\ r.category \in {"access_control", "debug_lockout"} => Apart(c)
  <2>1. PICK j \in DOMAIN r.clauses : c \in ForClause(x, r, j, before(j)).candidate
    BY <1>3, <1>6
  <2> QED  BY <1>5, <2>1
<1>7. \A c, d \in UNION {results[j].candidate : j \in DOMAIN results} : c.directive = d.directive => c = d
  <2> QED  BY <1>6
<1> QED  BY <1>3, <1>4, <1>6, <1>7 DEF results, ReviewedFor

\* For any requirements and any manifest: no clause is lost or asserted against its kind,
\* the signals of a candidate are in the manifest with their doubts noted, a guard that is
\* picked apart from what it guards is another signal, and a witness tells a design that
\* meets the candidate from one that does not.
THEOREM SecuritySoundAlways == SecuritySpec => []SecuritySound
<1>1. ASSUME SecurityInv, Reported("security"), ~Report.raised
      PROVE  /\ EveryClauseAnswered /\ OneOfEachDirective /\ SignalsInManifest
             /\ SidesApart /\ WitnessesDistinguish
  <2>1. PICK x \in SecurityInputs : input = x /\ reports \in {{}, {RunSecurity(x)}}
    BY <1>1 DEF SecurityInv
  <2>2. Report = RunSecurity(x)
    BY <1>1, <2>1 DEF Reported, Report
  <2> DEFINE R(k) == x.requirements[k]
             results == [k \in DOMAIN x.requirements |-> GenerateCandidates(x, R(k))]
             all == UNION {UNION {results[k][j].candidate : j \in DOMAIN results[k]} : k \in DOMAIN results}
             Given(k) == UNION {results[k][j].candidate : j \in DOMAIN results[k]}
  <2>3. /\ Report.results = results
        /\ Report.notes = [k \in DOMAIN results |-> AmbiguityNotes(x, R(k))]
        /\ Report.flagged = [k \in DOMAIN results |-> FlaggedClauses(R(k))]
        /\ Report.mutations = [c \in all |-> GenerateMutations(c)]
    <3> DEFINE bad == \E c \in all \cup BuiltFor(x) : NamesIn(c) \cap Unrenderable # {}
    <3>1. Report = IF bad THEN [raised |-> TRUE]
                   ELSE [raised |-> FALSE, results |-> results,
                         notes |-> [k \in DOMAIN results |-> AmbiguityNotes(x, R(k))],
                         flagged |-> [k \in DOMAIN results |-> FlaggedClauses(R(k))],
                         mutations |-> [c \in all |-> GenerateMutations(c)]]
      BY <2>2 DEF RunSecurity, ReviewOf
    <3> HIDE DEF bad, results, all
    <3> QED  BY <1>1, <3>1
  <2>4. DOMAIN results = DOMAIN x.requirements /\ \A k \in DOMAIN x.requirements : results[k] = GenerateCandidates(x, R(k))
    OBVIOUS
  <2>5. \A k : CandidatesOf(k) = Given(k)
    BY <2>3 DEF CandidatesOf
  <2> HIDE DEF results, Given
  <2>6. ASSUME NEW k \in DOMAIN x.requirements
        PROVE  /\ DOMAIN results[k] = DOMAIN R(k).clauses
               /\ \A j \in DOMAIN results[k] :
                     /\ results[k][j].candidate = {} <=> (results[k][j].skipped # {} \/ R(k).clauses[j] = {})
                     /\ results[k][j].candidate = {} /\ results[k][j].skipped = {} => j \in FlaggedClauses(R(k))
                     /\ "assumption" \in R(k).clauses[j] => results[k][j].candidate = {}
               /\ \A c, d \in Given(k) :
                     /\ MadeFrom(RefsOf(x, R(k)), c)
                     /\ c.directive = d.directive => c = d
                     /\ R(k).category \in {"access_control", "debug_lockout"} => Apart(c)
    <3>1. R(k) \in Range(x.requirements)
      BY DEF Range
    <3>2. results[k] = GenerateCandidates(x, R(k))
      BY <2>4
    <3> HIDE DEF R
    <3>3. ReviewedFor(x, R(k), results[k])
      BY <3>1, <3>2, RequirementReviewed
    <3> QED  BY <3>3 DEF ReviewedFor, Given
  <2>7. EveryClauseAnswered
    BY <2>1, <2>3, <2>4, <2>6 DEF EveryClauseAnswered
  <2>8. OneOfEachDirective
    BY <2>3, <2>4, <2>5, <2>6 DEF OneOfEachDirective
  <2>9. SignalsInManifest
    <3>0. DOMAIN Report.results = DOMAIN x.requirements /\ \A k \in DOMAIN x.requirements : Report.notes[k] = AmbiguityNotes(x, R(k))
      BY <2>3, <2>4
    <3> DEFINE Noted(k, c, u) ==
                 LET names == {FlatSymbols(x.modules)[i].name : i \in DOMAIN FlatSymbols(x.modules)}
                     same == {i \in DOMAIN FlatSymbols(x.modules) : FlatSymbols(x.modules)[i].name = u.symbol}
                 IN  /\ same # {} /\ NamesIn(c) \subseteq names
                     /\ u.symbol # u.term => <<"alias", u.term>> \in AmbiguityNotes(x, R(k))
                     /\ Cardinality(same) > 1 /\ u.symbol = u.term
                          => <<"several", u.term>> \in AmbiguityNotes(x, R(k))
    <3> SUFFICES ASSUME NEW k \in DOMAIN x.requirements, NEW c \in Given(k), NEW u \in c.used
                 PROVE  Noted(k, c, u)
      <4>1. SignalsInManifest <=> \A k \in DOMAIN Report.results : \A c \in CandidatesOf(k) : \A u \in c.used :
              LET names == {FlatSymbols(x.modules)[i].name : i \in DOMAIN FlatSymbols(x.modules)}
                  same == {i \in DOMAIN FlatSymbols(x.modules) : FlatSymbols(x.modules)[i].name = u.symbol}
              IN  /\ same # {} /\ NamesIn(c) \subseteq names
                  /\ u.symbol # u.term => <<"alias", u.term>> \in Report.notes[k]
                  /\ Cardinality(same) > 1 /\ u.symbol = u.term => <<"several", u.term>> \in Report.notes[k]
        BY <2>1 DEF SignalsInManifest
      <4> QED  BY <2>5, <3>0, <4>1
    <3> DEFINE S == RefsOf(x, R(k))
               names == {FlatSymbols(x.modules)[i].name : i \in DOMAIN FlatSymbols(x.modules)}
    <3>1. MadeFrom(S, c)
      BY <2>6
    <3>2. R(k) \in Range(x.requirements)
      BY DEF Range
    <3>3. u \in S
      BY <3>1 DEF MadeFrom
    <3>4. \A s \in S : s.symbol \in names
      <4>1. ASSUME NEW s \in S PROVE s.symbol \in names
        <5>1. PICK t \in Range(TermsOf(R(k))) : s \in GroundTerm(x, t)
          BY DEF RefsOf
        <5> QED  BY <5>1, GroundedTerm
      <4> QED  BY <4>1
    <3>5. NamesIn(c) \subseteq names
      <4>1. ASSUME NEW side \in SideSet(S) PROVE {side.signal} \cup side.other \subseteq names
        <5> HIDE DEF S, names
        <5> QED  BY <3>4 DEF SideSet
      <4>2. c.antecedent \cup {c.consequent} \subseteq SideSet(S)
        BY <3>1 DEF MadeFrom
      <4> HIDE DEF S, names
      <4> QED  BY <4>1, <4>2 DEF NamesIn
    <3>6. LET same == {i \in DOMAIN FlatSymbols(x.modules) : FlatSymbols(x.modules)[i].name = u.symbol}
          IN  /\ same # {}
              /\ u.symbol # u.term => <<"alias", u.term>> \in AmbiguityNotes(x, R(k))
              /\ Cardinality(same) > 1 /\ u.symbol = u.term
                   => <<"several", u.term>> \in AmbiguityNotes(x, R(k))
      BY <3>2, <3>3, ReferenceNoted
    <3> QED  BY <3>5, <3>6
  <2>10. SidesApart
    BY <2>1, <2>3, <2>4, <2>5, <2>6 DEF SidesApart, Apart
  <2>11. WitnessesDistinguish
    <3>1. DOMAIN Report.mutations = all /\ \A c \in all : Report.mutations[c] = GenerateMutations(c)
      BY <2>3
    <3>2. ASSUME NEW c \in all PROVE \E S : MadeFrom(S, c)
      <4>1. PICK k \in DOMAIN x.requirements : c \in Given(k)
        BY <2>4 DEF Given
      <4> QED  BY <2>6, <4>1
    <3> HIDE DEF all
    <3>3. ASSUME NEW c \in all, NEW m \in GenerateMutations(c), c.window = <<0, 0>>,
                 NEW v \in [NamesIn(c) -> BOOLEAN]
          PROVE  IF m.kind = "drop_guard" THEN HoldsIn(m.sva, v) => HoldsIn(c, v)
                 ELSE (\A a \in c.antecedent : SideHolds(a, v)) => HoldsIn(m.sva, v) # HoldsIn(c, v)
      <4>1. PICK S : MadeFrom(S, c)
        BY <3>2
      <4> QED  BY <3>3, <4>1, WitnessTells
    <3> QED  BY <3>1, <3>3 DEF WitnessesDistinguish
  <2> QED  BY <2>7, <2>8, <2>9, <2>10, <2>11
<1>2. SecurityInv => SecuritySound
  BY <1>1 DEF SecuritySound
<1> QED  BY <1>2, SecurityInvariant, PTL

-----------------------------------------------------------------------------
(***************************************************************************)
(* The review of assertions                                                *)
(***************************************************************************)

\* While the tool runs, and when it has reported.
ReviewInv ==
    /\ tool = "assertion-review"
    /\ \E x \in ReviewInputs : input = x /\ reports \in {{}, {Review(x)}}

\* The review is that of the file it was called with.
LEMMA ReviewInvariant == ReviewSpec => []ReviewInv
<1>1. ReviewInit => ReviewInv
  BY DEF ReviewInit, ReviewInv, Called
<1>2. ReviewInv /\ [ReviewText]_passVars => ReviewInv'
  BY DEF ReviewInv, ReviewText, Computing, Reports, passVars
<1> QED  BY <1>1, <1>2, PTL DEF ReviewSpec

\* A file of a constant, what its manifest says of it, and what the checks say of a property.
ReviewedStatement(s) ==
    /\ s.style \in {"none", "overlapping", "non_overlapping"} /\ s.delay \in {"none", "next"}
    /\ s.antecedent \in Seq(Range(s.antecedent)) /\ s.consequent \in Seq(Range(s.consequent))
    /\ s.consequent # <<>>
    /\ IsFiniteSet(s.compares) /\ IsFiniteSet(s.clock) /\ IsFiniteSet(s.disable)
    /\ \A d, e \in s.disable : d = e /\ d.negated \in BOOLEAN

ReviewedModule(m) ==
    /\ \A s \in DOMAIN m.ports : m.ports[s].direction \in {"input", "output", "inout"}
    /\ \A s \in DOMAIN m.resets : m.resets[s] \in {"active_low", "active_high", "unknown"}

ConcernsOf(x, i) ==
    Registry(ParseSva(x)[i], x.module, TracedByKey(x, ParseSva(x), ParseSva(x)[i]), x.requirements)

FindingsOf(x) ==
    UNION {{[property |-> i, concern |-> c] : c \in ConcernsOf(x, i)} : i \in DOMAIN ParseSva(x)}

LEMMA ReviewFields ==
    ASSUME NEW x
    PROVE  /\ Review(x).properties = ParseSva(x)
           /\ Review(x).findings = FindingsOf(x)
           /\ Review(x).grade = Grade(ReviewScore(FindingsOf(x), Len(ParseSva(x))))
BY DEF Review, FindingsOf, ConcernsOf

LEMMA FindingOf ==
    ASSUME NEW x
    PROVE  /\ \A f \in FindingsOf(x) : /\ f.property \in DOMAIN ParseSva(x)
                                       /\ f.concern \in ConcernsOf(x, f.property)
           /\ \A i \in DOMAIN ParseSva(x) : \A c \in ConcernsOf(x, i) :
                 \E f \in FindingsOf(x) : f.property = i /\ f.concern = c
<1>1. ASSUME NEW f \in FindingsOf(x)
      PROVE  f.property \in DOMAIN ParseSva(x) /\ f.concern \in ConcernsOf(x, f.property)
  <2>1. PICK i \in DOMAIN ParseSva(x) : f \in {[property |-> i, concern |-> c] : c \in ConcernsOf(x, i)}
    BY DEF FindingsOf
  <2>2. PICK c \in ConcernsOf(x, i) : f = [property |-> i, concern |-> c]
    BY <2>1
  <2> QED  BY <2>2
<1>2. ASSUME NEW i \in DOMAIN ParseSva(x), NEW c \in ConcernsOf(x, i)
      PROVE  \E f \in FindingsOf(x) : f.property = i /\ f.concern = c
  <2> DEFINE f == [property |-> i, concern |-> c]
  <2>1. f \in FindingsOf(x) /\ f.property = i /\ f.concern = c
    BY DEF FindingsOf
  <2> HIDE DEF f
  <2> QED  BY <2>1
<1> QED  BY <1>1, <1>2

\* What has been reported of a property is what the checks say of it.
LEMMA ConcernReported ==
    ASSUME NEW x, reports = {Review(x)}, NEW i \in DOMAIN ParseSva(x)
    PROVE  /\ Report = Review(x)
           /\ \A check, severity : HasConcern(i, check, severity) <=>
                 \E c \in ConcernsOf(x, i) : c.check = check /\ c.severity = severity
<1>1. Report = Review(x)
  BY DEF Report
<1>2. ASSUME NEW check, NEW severity
      PROVE  HasConcern(i, check, severity) <=>
                \E c \in ConcernsOf(x, i) : c.check = check /\ c.severity = severity
  BY <1>1, ReviewFields, FindingOf DEF HasConcern
<1> QED  BY <1>1, <1>2

\* Every concern has the name of the check that has it.
LEMMA ConcernsNamed ==
    ASSUME NEW p, NEW m
    PROVE  /\ \A c \in CheckMissingClock(p) : c.check = "MISSING_CLOCK"
           /\ \A c \in CheckDisableIff(p, m) : c.check = "MISSING_DISABLE_IFF"
           /\ \A c \in CheckResetPolarity(p, m) : c.check = "RESET_POLARITY_RISK"
           /\ \A c \in CheckImplicationStyle(p) : c.check = "IMPLICATION_STYLE_RISK"
           /\ \A c \in CheckUnboundedTemporal(p) : c.check = "UNBOUNDED_TEMPORAL"
           /\ \A c \in CheckWeakConsequent(p) : c.check = "WEAK_CONSEQUENT"
           /\ \A c \in CheckAntecedentInConsequent(p) : c.check = "ANTECEDENT_IN_CONSEQUENT"
           /\ \A c \in CheckTriviallyPassing(p) : c.check = "TRIVIALLY_PASSING"
           /\ \A c \in CheckAssumeConstrainsOutput(p, m) : c.check = "ASSUME_CONSTRAINS_OUTPUT"
           /\ \A c \in CheckSignals(p, m) : c.check \in {"UNDECLARED_SIGNAL", "WIDTH_MISMATCH"}
           /\ \A c \in CheckNameSemantics(p) : c.check = "NAME_SEMANTICS"
           /\ \A c \in CheckVacuityRisk(p) : c.check = "VACUITY_RISK"
<1>1. /\ \A c \in CheckMissingClock(p) : c.check = "MISSING_CLOCK"
      /\ \A c \in CheckResetPolarity(p, m) : c.check = "RESET_POLARITY_RISK"
      /\ \A c \in CheckImplicationStyle(p) : c.check = "IMPLICATION_STYLE_RISK"
      /\ \A c \in CheckTriviallyPassing(p) : c.check = "TRIVIALLY_PASSING"
      /\ \A c \in CheckNameSemantics(p) : c.check = "NAME_SEMANTICS"
      /\ \A c \in CheckVacuityRisk(p) : c.check = "VACUITY_RISK"
  BY DEF CheckMissingClock, CheckResetPolarity, CheckImplicationStyle, CheckTriviallyPassing,
         CheckNameSemantics, CheckVacuityRisk, When, Concern
<1>2. /\ \A c \in CheckDisableIff(p, m) : c.check = "MISSING_DISABLE_IFF"
      /\ \A c \in CheckWeakConsequent(p) : c.check = "WEAK_CONSEQUENT"
      /\ \A c \in CheckAntecedentInConsequent(p) : c.check = "ANTECEDENT_IN_CONSEQUENT"
  BY DEF CheckDisableIff, CheckWeakConsequent, CheckAntecedentInConsequent, When, Concern
<1>3. /\ \A c \in CheckUnboundedTemporal(p) : c.check = "UNBOUNDED_TEMPORAL"
      /\ \A c \in CheckAssumeConstrainsOutput(p, m) : c.check = "ASSUME_CONSTRAINS_OUTPUT"
      /\ \A c \in CheckSignals(p, m) : c.check \in {"UNDECLARED_SIGNAL", "WIDTH_MISMATCH"}
  BY DEF CheckUnboundedTemporal, CheckAssumeConstrainsOutput, CheckSignals, Concern
<1> QED  BY <1>1, <1>2, <1>3

\* So a concern of a certain name is one of its check.
LEMMA ConcernOrigin ==
    ASSUME NEW p, NEW m, NEW traced, NEW requirements
    PROVE  /\ \A c \in Registry(p, m, traced, requirements) :
                 /\ c.check = "TRIVIALLY_PASSING" => c \in CheckTriviallyPassing(p)
                 /\ c.check = "WEAK_CONSEQUENT" => c \in CheckWeakConsequent(p)
                 /\ c.check = "ANTECEDENT_IN_CONSEQUENT" => c \in CheckAntecedentInConsequent(p)
                 /\ c.check = "RESET_POLARITY_RISK" => c \in CheckResetPolarity(p, m)
                 /\ c.check = "ASSUME_CONSTRAINS_OUTPUT" => c \in CheckAssumeConstrainsOutput(p, m)
           /\ CheckTriviallyPassing(p) \cup CheckWeakConsequent(p) \cup CheckAntecedentInConsequent(p)
                 \cup CheckResetPolarity(p, m) \cup CheckAssumeConstrainsOutput(p, m)
                \subseteq Registry(p, m, traced, requirements)
<1>1. \A c \in CheckTraceability(p, traced, requirements) : c.check = "REQ_TRACEABILITY"
  BY DEF CheckTraceability, When, Concern
<1> QED  BY <1>1, ConcernsNamed DEF Registry

\* Each property has the parts of the statement it is made from.
SameParts(p, s) ==
    /\ p.name = s.name /\ p.line = s.line /\ p.clock = s.clock /\ p.disable = s.disable
    /\ p.style = s.style /\ p.antecedent = s.antecedent /\ p.delay = s.delay
    /\ p.consequent = s.consequent /\ p.operators = s.operators /\ p.compares = s.compares

ParsedAt(x, at) ==
    /\ DOMAIN ParseSva(x) = DOMAIN at
    /\ \A i \in DOMAIN at :
          /\ SameParts(ParseSva(x)[i], x.statements[at[i]])
          /\ ParseSva(x)[i].kind = IF x.statements[at[i]].block THEN UsageKind(x, x.statements[at[i]].name)
                                   ELSE x.statements[at[i]].kind

LEMMA ParsedStatements ==
    ASSUME NEW x \in ReviewInputs
    PROVE  /\ IsFiniteSet(Bodies(x)) /\ Cardinality(Bodies(x)) \in Nat
           /\ Bodies(x) \subseteq DOMAIN x.statements
           /\ \E at : PickedAt(x.statements, Bodies(x), at) /\ ParsedAt(x, at)
<1> DEFINE kept == Picked(x.statements, Bodies(x))
           made(s) == BuildProperty(s, IF s.block THEN UsageKind(x, s.name) ELSE s.kind)
<1>1. x.statements \in Seq(Range(x.statements)) /\ Bodies(x) \subseteq DOMAIN x.statements
  BY ReviewAssumption DEF Bodies
<1>2. IsFiniteSet(Bodies(x)) /\ Cardinality(Bodies(x)) \in Nat
  BY <1>1, PickedPositions
<1>3. PICK at : PickedAt(x.statements, Bodies(x), at)
  BY <1>1, PickedPositions
<1>4. DOMAIN kept = DOMAIN at /\ \A i \in DOMAIN at : kept[i] = x.statements[at[i]]
  BY <1>3 DEF PickedAt
<1>5. ParseSva(x) = [i \in DOMAIN kept |-> made(kept[i])]
  BY DEF ParseSva
<1> HIDE DEF kept, made
<1>6. DOMAIN ParseSva(x) = DOMAIN at /\ \A i \in DOMAIN at : ParseSva(x)[i] = made(x.statements[at[i]])
  BY <1>4, <1>5
<1>7. ParsedAt(x, at)
  BY <1>6 DEF ParsedAt, SameParts, made, BuildProperty
<1> QED  BY <1>1, <1>2, <1>3, <1>7

LEMMA ParsedProperty ==
    ASSUME NEW x \in ReviewInputs, NEW i \in DOMAIN ParseSva(x)
    PROVE  ReviewedStatement(ParseSva(x)[i])
<1>1. PICK at : PickedAt(x.statements, Bodies(x), at) /\ ParsedAt(x, at)
  BY ParsedStatements
<1>2. at[i] \in DOMAIN x.statements
  BY <1>1, ParsedStatements DEF PickedAt, ParsedAt
<1> DEFINE s == x.statements[at[i]]
           p == ParseSva(x)[i]
<1>3. s \in Range(x.statements)
  BY <1>2 DEF Range
<1>4. SameParts(p, s)
  BY <1>1 DEF ParsedAt
<1> HIDE DEF s, p
<1>5. ReviewedStatement(s)
  BY <1>3, ReviewAssumption DEF ReviewedStatement
<1>6. ReviewedStatement(p)
  BY <1>4, <1>5 DEF ReviewedStatement, SameParts
<1> QED  BY <1>6 DEF p

\* What is reported under the names the properties ask for is what their checks say.
LEMMA ReportedChecks ==
    ASSUME NEW x, reports = {Review(x)}, NEW i \in DOMAIN ParseSva(x)
    PROVE  \A severity :
              /\ HasConcern(i, "TRIVIALLY_PASSING", severity) <=>
                    \E c \in CheckTriviallyPassing(ParseSva(x)[i]) : c.severity = severity
              /\ HasConcern(i, "WEAK_CONSEQUENT", severity) <=>
                    \E c \in CheckWeakConsequent(ParseSva(x)[i]) : c.severity = severity
              /\ HasConcern(i, "ANTECEDENT_IN_CONSEQUENT", severity) <=>
                    \E c \in CheckAntecedentInConsequent(ParseSva(x)[i]) : c.severity = severity
              /\ HasConcern(i, "RESET_POLARITY_RISK", severity) <=>
                    \E c \in CheckResetPolarity(ParseSva(x)[i], x.module) : c.severity = severity
              /\ HasConcern(i, "ASSUME_CONSTRAINS_OUTPUT", severity) <=>
                    \E c \in CheckAssumeConstrainsOutput(ParseSva(x)[i], x.module) : c.severity = severity
<1> DEFINE p == ParseSva(x)[i]
           traced == TracedByKey(x, ParseSva(x), p)
<1>1. ConcernsOf(x, i) = Registry(p, x.module, traced, x.requirements)
  BY DEF ConcernsOf
<1> HIDE DEF p, traced
<1>2. \A check, severity : HasConcern(i, check, severity) <=>
         \E c \in Registry(p, x.module, traced, x.requirements) : c.check = check /\ c.severity = severity
  BY <1>1, ConcernReported
<1>3. /\ \A c \in CheckTriviallyPassing(p) : c.check = "TRIVIALLY_PASSING"
      /\ \A c \in CheckWeakConsequent(p) : c.check = "WEAK_CONSEQUENT"
      /\ \A c \in CheckAntecedentInConsequent(p) : c.check = "ANTECEDENT_IN_CONSEQUENT"
      /\ \A c \in CheckResetPolarity(p, x.module) : c.check = "RESET_POLARITY_RISK"
      /\ \A c \in CheckAssumeConstrainsOutput(p, x.module) : c.check = "ASSUME_CONSTRAINS_OUTPUT"
  BY ConcernsNamed
<1>4. \A c \in Registry(p, x.module, traced, x.requirements) :
         /\ c.check = "TRIVIALLY_PASSING" => c \in CheckTriviallyPassing(p)
         /\ c.check = "WEAK_CONSEQUENT" => c \in CheckWeakConsequent(p)
         /\ c.check = "ANTECEDENT_IN_CONSEQUENT" => c \in CheckAntecedentInConsequent(p)
         /\ c.check = "RESET_POLARITY_RISK" => c \in CheckResetPolarity(p, x.module)
         /\ c.check = "ASSUME_CONSTRAINS_OUTPUT" => c \in CheckAssumeConstrainsOutput(p, x.module)
  BY ConcernOrigin
<1>5. CheckTriviallyPassing(p) \cup CheckWeakConsequent(p) \cup CheckAntecedentInConsequent(p)
         \cup CheckResetPolarity(p, x.module) \cup CheckAssumeConstrainsOutput(p, x.module)
        \subseteq Registry(p, x.module, traced, x.requirements)
  BY ConcernOrigin
<1>6. \A severity :
         /\ HasConcern(i, "TRIVIALLY_PASSING", severity) <=>
               \E c \in CheckTriviallyPassing(p) : c.severity = severity
         /\ HasConcern(i, "WEAK_CONSEQUENT", severity) <=>
               \E c \in CheckWeakConsequent(p) : c.severity = severity
         /\ HasConcern(i, "ANTECEDENT_IN_CONSEQUENT", severity) <=>
               \E c \in CheckAntecedentInConsequent(p) : c.severity = severity
         /\ HasConcern(i, "RESET_POLARITY_RISK", severity) <=>
               \E c \in CheckResetPolarity(p, x.module) : c.severity = severity
         /\ HasConcern(i, "ASSUME_CONSTRAINS_OUTPUT", severity) <=>
               \E c \in CheckAssumeConstrainsOutput(p, x.module) : c.severity = severity
  BY <1>2, <1>3, <1>4, <1>5
<1> QED  BY <1>6 DEF p

\* What the kinds of hollowness say of a property.
LEMMA HollowSaid ==
    ASSUME NEW p
    PROVE  /\ (\E c \in CheckTriviallyPassing(p) : c.severity = "ERROR") <=>
                 /\ p.kind # "cover"
                 /\ \/ ~Implies(p) /\ p.consequent = <<"true">>
                    \/ Implies(p) /\ p.antecedent = <<"false">>
           /\ (\E c \in CheckWeakConsequent(p) : c.severity = "ERROR") <=>
                 Implies(p) /\ p.consequent = <<"true">>
           /\ (\E c \in CheckAntecedentInConsequent(p) : c.severity = "ERROR") <=>
                 Implies(p) /\ Identical(p)
<1>1. (\E c \in CheckTriviallyPassing(p) : c.severity = "ERROR") <=>
         /\ p.kind # "cover"
         /\ \/ ~Implies(p) /\ p.consequent = <<"true">>
            \/ Implies(p) /\ p.antecedent = <<"false">>
  BY DEF CheckTriviallyPassing, When, Concern
<1>2. (\E c \in CheckWeakConsequent(p) : c.severity = "ERROR") <=>
         Implies(p) /\ p.consequent = <<"true">>
  <2>1. CASE Implies(p) /\ p.consequent = <<"true">>
    BY <2>1 DEF CheckWeakConsequent, When, Concern
  <2>2. CASE ~(Implies(p) /\ p.consequent = <<"true">>)
    <3>1. \A c \in CheckWeakConsequent(p) : c.severity = "INFO"
      BY <2>2 DEF CheckWeakConsequent, When, Concern
    <3> QED  BY <2>2, <3>1
  <2> QED  BY <2>1, <2>2
<1>3. (\E c \in CheckAntecedentInConsequent(p) : c.severity = "ERROR") <=>
         Implies(p) /\ Identical(p)
  <2>1. \A c \in When(Implies(p) /\ ~Identical(p) /\ Repeats(p), "ANTECEDENT_IN_CONSEQUENT", "WARNING") :
           c.severity = "WARNING"
    BY DEF When, Concern
  <2>2. (\E c \in When(Implies(p) /\ Identical(p), "ANTECEDENT_IN_CONSEQUENT", "ERROR") : c.severity = "ERROR")
           <=> Implies(p) /\ Identical(p)
    BY DEF When, Concern
  <2> QED  BY <2>1, <2>2 DEF CheckAntecedentInConsequent
<1> QED  BY <1>1, <1>2, <1>3

LEMMA Lengths == \A n \in Nat : n = 0 \/ n = 1 \/ n > 1
OBVIOUS

LEMMA OneTerm ==
    ASSUME NEW S, NEW s \in Seq(S)
    PROVE  /\ s # <<>> => Len(s) # 0 /\ s[1] \in Range(s)
           /\ Len(s) = 1 => s = <<s[1]>> /\ Range(s) = {s[1]}
           /\ \A t : s = <<t>> => Len(s) = 1 /\ Range(s) = {t}
<1>1. s # <<>> => Len(s) # 0 /\ s[1] \in Range(s)
  BY DEF Range
<1>2. Len(s) = 1 => s = <<s[1]>> /\ Range(s) = {s[1]}
  BY DEF Range
<1>3. \A t : s = <<t>> => Len(s) = 1 /\ Range(s) = {t}
  BY DEF Range
<1> QED  BY <1>1, <1>2, <1>3

\* What the checks say for certain is so.
LEMMA HollowCannotFail ==
    ASSUME NEW p, ReviewedStatement(p),
           \/ p.consequent = <<"true">>
           \/ Implies(p) /\ p.antecedent = <<"false">>
           \/ p.style = "overlapping" /\ Identical(p)
    PROVE  ~CanFail(p)
<1> SUFFICES ASSUME CanFail(p) PROVE FALSE
  OBVIOUS
<1> DEFINE signals == (Range(p.antecedent) \cup Range(p.consequent)) \ Constants
           at(now, later) == IF p.style = "non_overlapping" \/ p.delay = "next" THEN later ELSE now
<1>1. PICK now \in [signals -> BOOLEAN], later \in [signals -> BOOLEAN] :
         /\ Implies(p) => AllTrue(p.antecedent, now)
         /\ ~AllTrue(p.consequent, at(now, later))
  BY DEF CanFail
<1>2. CASE p.consequent = <<"true">>
  <2>1. p.consequent \in Seq(Range(p.consequent))
    BY DEF ReviewedStatement
  <2>2. Range(p.consequent) = {"true"}
    BY <1>2, <2>1, OneTerm
  <2> QED  BY <1>1, <2>2 DEF AllTrue, Value, Constants
<1>3. CASE Implies(p) /\ p.antecedent = <<"false">>
  <2>1. p.antecedent \in Seq(Range(p.antecedent))
    BY DEF ReviewedStatement
  <2>2. Range(p.antecedent) = {"false"}
    BY <1>3, <2>1, OneTerm, ZenonT(60)
  <2> QED  BY <1>1, <1>3, <2>2 DEF AllTrue, Value, Constants
<1>4. CASE p.style = "overlapping" /\ Identical(p)
  <2>1. Implies(p) /\ at(now, later) = now /\ p.antecedent = p.consequent
    BY <1>4 DEF Implies, Identical
  <2> HIDE DEF at
  <2> QED  BY <1>1, <2>1
<1> QED  BY <1>2, <1>3, <1>4

\* A property that cannot fail has a shape the checks know, or hides it in several terms.
LEMMA CannotFailShape ==
    ASSUME NEW p, ReviewedStatement(p), ~CanFail(p)
    PROVE  \/ p.consequent = <<"true">>
           \/ Implies(p) /\ p.antecedent = <<"false">>
           \/ Implies(p) /\ Identical(p)
           \/ /\ Len(p.antecedent) > 1 \/ Len(p.consequent) > 1
              /\ \/ Implies(p) /\ Range(p.consequent) \ {"true"} \subseteq Range(p.antecedent)
                 \/ "false" \in Range(p.antecedent) \/ Range(p.consequent) = {"true"}
<1> DEFINE ante == Range(p.antecedent)
           cons == Range(p.consequent)
           signals == (ante \cup cons) \ Constants
           later == [s \in signals |-> FALSE]
           now == [s \in signals |-> s \in ante]
           shifted == p.style = "non_overlapping" \/ p.delay = "next"
<1>1. /\ p.antecedent \in Seq(ante) /\ p.consequent \in Seq(cons) /\ p.consequent # <<>>
      /\ p.delay \in {"none", "next"} /\ Len(p.antecedent) \in Nat /\ Len(p.consequent) \in Nat
  BY DEF ReviewedStatement
<1>2. /\ now \in [signals -> BOOLEAN] /\ later \in [signals -> BOOLEAN]
      /\ \A s \in signals : now[s] = (s \in ante) /\ later[s] = FALSE
  OBVIOUS
<1>3. \A e, f \in [signals -> BOOLEAN] :
         \/ Implies(p) /\ ~AllTrue(p.antecedent, e)
         \/ AllTrue(p.consequent, IF shifted THEN f ELSE e)
  BY DEF CanFail
<1>4. /\ Len(p.consequent) = 1 => p.consequent = <<p.consequent[1]>> /\ cons = {p.consequent[1]}
      /\ Len(p.antecedent) = 1 => p.antecedent = <<p.antecedent[1]>> /\ ante = {p.antecedent[1]}
      /\ Len(p.consequent) # 0 /\ cons # {}
  BY <1>1, OneTerm
<1>5. AllTrue(p.antecedent, now) \/ "false" \in ante
  BY <1>2 DEF AllTrue, Value, Constants
<1>6. ASSUME NEW f \in [signals -> BOOLEAN], AllTrue(p.consequent, f), NEW t \in cons, t # "true"
      PROVE  t \in signals /\ f[t]
  BY <1>6 DEF AllTrue, Value, Constants
<1>7. ASSUME AllTrue(p.consequent, later) PROVE cons = {"true"}
  <2>1. \A t \in cons : t = "true"
    BY <1>2, <1>6, <1>7
  <2> QED  BY <1>4, <2>1
<1>8. ASSUME AllTrue(p.consequent, now) PROVE cons \ {"true"} \subseteq ante
  BY <1>2, <1>6, <1>8
<1> HIDE DEF now, later, signals, shifted
<1>9. ASSUME cons = {"true"} PROVE p.consequent = <<"true">> \/ Len(p.consequent) > 1
  BY <1>1, <1>4, <1>9
<1>10. CASE ~Implies(p)
  <2>1. AllTrue(p.consequent, later)
    BY <1>2, <1>3, <1>10
  <2> HIDE DEF ante, cons
  <2>2. cons = {"true"}
    BY <1>7, <2>1
  <2> QED  BY <1>9, <2>2 DEF cons
<1>11. CASE Implies(p) /\ "false" \in ante
  <2>1. Len(p.antecedent) # 0
    <3>1. p.antecedent # <<>>
      BY <1>11, <1>1 DEF Range
    <3> QED  BY <1>1, <3>1
  <2>2. Len(p.antecedent) = 1 => p.antecedent = <<"false">>
    BY <1>4, <1>11
  <2>3. Len(p.antecedent) = 1 \/ Len(p.antecedent) > 1
    BY <1>1, <2>1, Lengths
  <2> QED  BY <1>11, <2>2, <2>3
<1>12. CASE Implies(p) /\ "false" \notin ante /\ shifted
  <2>1. AllTrue(p.consequent, later)
    BY <1>2, <1>3, <1>5, <1>12
  <2>2. cons = {"true"}
    BY <1>7, <2>1
  <2> QED  BY <1>9, <2>2
<1>13. CASE Implies(p) /\ "false" \notin ante /\ ~shifted
  <2>1. AllTrue(p.consequent, now)
    BY <1>2, <1>3, <1>5, <1>13
  <2>2. cons \ {"true"} \subseteq ante
    BY <1>8, <2>1
  <2>3. p.delay = "none"
    BY <1>1, <1>13 DEF shifted
  <2>4. CASE Len(p.antecedent) > 1 \/ Len(p.consequent) > 1
    BY <1>13, <2>2, <2>4
  <2>5. CASE ~(Len(p.antecedent) > 1 \/ Len(p.consequent) > 1)
    <3>1. Len(p.consequent) = 1 /\ Len(p.antecedent) \in {0, 1}
      BY <1>1, <1>4, <2>5, Lengths
    <3>2. CASE p.consequent[1] = "true"
      BY <1>4, <3>1, <3>2
    <3>3. CASE p.consequent[1] # "true"
      <4>1. p.consequent[1] \in ante
        BY <1>4, <2>2, <3>1, <3>3
      <4>2. Len(p.antecedent) # 0
        <5>1. p.antecedent # <<>>
          BY <1>1, <4>1 DEF Range
        <5> QED  BY <1>1, <5>1
      <4>3. p.antecedent = p.consequent
        BY <1>4, <3>1, <4>1, <4>2
      <4> QED  BY <1>13, <2>3, <4>3 DEF Identical
    <3> QED  BY <3>2, <3>3
  <2> QED  BY <2>4, <2>5
<1> QED  BY <1>10, <1>11, <1>12, <1>13

LEMMA HollowCaughtOf ==
    ASSUME NEW x \in ReviewInputs, reports = {Review(x)}
    PROVE  HollowCaught
<1>1. Report = Review(x) /\ Report.properties = ParseSva(x)
  BY ReviewFields DEF Report
<1> SUFFICES ASSUME NEW i \in DOMAIN ParseSva(x)
             PROVE LET p == ParseSva(x)[i]
                       warned == \E check \in {"TRIVIALLY_PASSING", "WEAK_CONSEQUENT", "ANTECEDENT_IN_CONSEQUENT"} :
                                    \E severity \in {"ERROR", "WARNING"} : HasConcern(i, check, severity)
                   IN  /\ \/ HasConcern(i, "TRIVIALLY_PASSING", "ERROR")
                          \/ HasConcern(i, "WEAK_CONSEQUENT", "ERROR")
                          \/ p.style = "overlapping" /\ HasConcern(i, "ANTECEDENT_IN_CONSEQUENT", "ERROR")
                          => ~CanFail(p)
                       /\ p.kind # "cover" /\ ~CanFail(p) =>
                             \/ warned
                             \/ /\ Len(p.antecedent) > 1 \/ Len(p.consequent) > 1
                                /\ \/ Implies(p) /\ Range(p.consequent) \ {"true"} \subseteq Range(p.antecedent)
                                   \/ "false" \in Range(p.antecedent) \/ Range(p.consequent) = {"true"}
  BY <1>1 DEF HollowCaught
<1> DEFINE p == ParseSva(x)[i]
<1>2. ReviewedStatement(p)
  BY ParsedProperty
<1> DEFINE trivially == HasConcern(i, "TRIVIALLY_PASSING", "ERROR")
           weak == HasConcern(i, "WEAK_CONSEQUENT", "ERROR")
           repeated == HasConcern(i, "ANTECEDENT_IN_CONSEQUENT", "ERROR")
<1>3. /\ trivially <=> \E c \in CheckTriviallyPassing(p) : c.severity = "ERROR"
      /\ weak <=> \E c \in CheckWeakConsequent(p) : c.severity = "ERROR"
      /\ repeated <=> \E c \in CheckAntecedentInConsequent(p) : c.severity = "ERROR"
  BY ReportedChecks
<1> HIDE DEF p
<1>4. /\ trivially <=> /\ p.kind # "cover"
                       /\ \/ ~Implies(p) /\ p.consequent = <<"true">>
                          \/ Implies(p) /\ p.antecedent = <<"false">>
      /\ weak <=> Implies(p) /\ p.consequent = <<"true">>
      /\ repeated <=> Implies(p) /\ Identical(p)
  BY <1>3, HollowSaid
<1>5. trivially \/ weak \/ (p.style = "overlapping" /\ repeated) => ~CanFail(p)
  BY <1>2, <1>4, HollowCannotFail
<1>6. ASSUME p.kind # "cover", ~CanFail(p), ~trivially, ~weak, ~repeated
      PROVE  /\ Len(p.antecedent) > 1 \/ Len(p.consequent) > 1
             /\ \/ Implies(p) /\ Range(p.consequent) \ {"true"} \subseteq Range(p.antecedent)
                \/ "false" \in Range(p.antecedent) \/ Range(p.consequent) = {"true"}
  <2>1. /\ p.consequent # <<"true">>
        /\ ~(Implies(p) /\ p.antecedent = <<"false">>)
        /\ ~(Implies(p) /\ Identical(p))
    BY <1>4, <1>6
  <2> QED  BY <1>2, <1>6, <2>1, CannotFailShape
<1> HIDE DEF trivially, weak, repeated
<1>7. p.kind # "cover" /\ ~CanFail(p) =>
         \/ trivially \/ weak \/ repeated
         \/ /\ Len(p.antecedent) > 1 \/ Len(p.consequent) > 1
            /\ \/ Implies(p) /\ Range(p.consequent) \ {"true"} \subseteq Range(p.antecedent)
               \/ "false" \in Range(p.antecedent) \/ Range(p.consequent) = {"true"}
  BY <1>6
<1> QED  BY <1>5, <1>7 DEF p, trivially, weak, repeated

\* What the checks know of a signal of the manifest.
LEMMA SignalOfManifest ==
    ASSUME NEW m
    PROVE  /\ DOMAIN FromRtlIntentManifest(m) = DOMAIN m.ports \cup DOMAIN m.nets
           /\ \A s \in DOMAIN m.ports \cup DOMAIN m.nets :
                 /\ FromRtlIntentManifest(m)[s].polarity =
                       IF s \in DOMAIN m.resets THEN m.resets[s] ELSE "unknown"
                 /\ FromRtlIntentManifest(m)[s].role =
                       RoleFor(m, s, IF s \in DOMAIN m.ports THEN m.ports[s].direction ELSE "internal")
BY DEF FromRtlIntentManifest

LEMMA ManifestIsOne ==
    ASSUME NEW x \in ReviewInputs, NEW m \in x.module
    PROVE  x.module = {m} /\ ReviewedModule(m)
BY ReviewAssumption DEF ReviewedModule

LEMMA PolarityExactOf ==
    ASSUME NEW x \in ReviewInputs, input = x, reports = {Review(x)}
    PROVE  PolarityExact
<1>1. Report.properties = ParseSva(x)
  BY ReviewFields DEF Report
<1> SUFFICES ASSUME NEW i \in DOMAIN ParseSva(x), NEW m \in x.module, NEW d \in ParseSva(x)[i].disable,
                    d.signal \in DOMAIN m.resets \cap (DOMAIN m.ports \cup DOMAIN m.nets)
             PROVE LET active == IF m.resets[d.signal] = "active_low" THEN FALSE ELSE TRUE
                       off(level) == IF d.negated THEN ~level ELSE level
                   IN  m.resets[d.signal] # "unknown" /\ off(~active) <=>
                          HasConcern(i, "RESET_POLARITY_RISK", "ERROR")
  BY <1>1 DEF PolarityExact
<1> DEFINE p == ParseSva(x)[i]
           polarity == m.resets[d.signal]
<1>2. x.module = {m} /\ ReviewedModule(m)
  BY ManifestIsOne
<1>3. ReviewedStatement(p)
  BY ParsedProperty
<1>4. HasConcern(i, "RESET_POLARITY_RISK", "ERROR") <=>
        \E c \in CheckResetPolarity(p, x.module) : c.severity = "ERROR"
  BY ReportedChecks
<1>5. d \in p.disable
  OBVIOUS
<1> HIDE DEF p
<1>6. p.disable = {d} /\ d.negated \in BOOLEAN
  BY <1>3, <1>5 DEF ReviewedStatement
<1>7. /\ d.signal \in DOMAIN FromRtlIntentManifest(m)
      /\ FromRtlIntentManifest(m)[d.signal].polarity = polarity
  BY SignalOfManifest
<1>8. polarity \in {"active_low", "active_high", "unknown"}
  BY <1>2 DEF ReviewedModule
<1> DEFINE wrong == \/ polarity = "active_low" /\ ~d.negated
                    \/ polarity = "active_high" /\ d.negated
<1>9. CheckResetPolarity(p, x.module) = When(wrong, "RESET_POLARITY_RISK", "ERROR")
  BY <1>2, <1>6, <1>7 DEF CheckResetPolarity
<1>10. (\E c \in CheckResetPolarity(p, x.module) : c.severity = "ERROR") <=> wrong
  <2>1. CASE wrong
    <3>1. CheckResetPolarity(p, x.module) = {Concern("RESET_POLARITY_RISK", "ERROR", "property")}
      BY <1>9, <2>1 DEF When
    <3> QED  BY <2>1, <3>1 DEF Concern
  <2>2. CASE ~wrong
    <3>1. CheckResetPolarity(p, x.module) = {}
      BY <1>9, <2>2 DEF When
    <3> QED  BY <2>2, <3>1
  <2> QED  BY <2>1, <2>2
<1> QED  BY <1>4, <1>6, <1>8, <1>10

LEMMA AssumesInputsOnlyOf ==
    ASSUME NEW x \in ReviewInputs, input = x, reports = {Review(x)}
    PROVE  AssumesInputsOnly
<1>1. Report.properties = ParseSva(x) /\ Report.findings = FindingsOf(x)
  BY ReviewFields DEF Report
<1> SUFFICES ASSUME NEW i \in DOMAIN ParseSva(x), NEW m \in x.module, ParseSva(x)[i].kind = "assume",
                    NEW s \in Identifiers(ParseSva(x)[i]) \ (m.clocks \cup DOMAIN m.resets)
             PROVE (s \in DOMAIN m.ports /\ m.ports[s].direction = "output")
                        \/ s \in DOMAIN m.nets \ DOMAIN m.ports <=>
                    HasConcern(i, "ASSUME_CONSTRAINS_OUTPUT", "ERROR")
                        /\ \E f \in FindingsOf(x) : f.property = i /\ f.concern.about = s
                                                       /\ f.concern.check = "ASSUME_CONSTRAINS_OUTPUT"
  BY <1>1 DEF AssumesInputsOnly
<1> DEFINE p == ParseSva(x)[i]
           traced == TracedByKey(x, ParseSva(x), p)
           driven == (s \in DOMAIN m.ports /\ m.ports[s].direction = "output")
                        \/ s \in DOMAIN m.nets \ DOMAIN m.ports
           limited == {t \in Identifiers(p) \cap DOMAIN FromRtlIntentManifest(m) :
                         FromRtlIntentManifest(m)[t].role \in {"output", "internal"}}
<1>2. x.module = {m} /\ ReviewedModule(m)
  BY ManifestIsOne
<1>3. CheckAssumeConstrainsOutput(p, x.module) =
        {Concern("ASSUME_CONSTRAINS_OUTPUT", "ERROR", t) : t \in limited}
  <2> HIDE DEF p
  <2>1. p.kind = "assume"
    BY DEF p
  <2> QED  BY <1>2, <2>1 DEF CheckAssumeConstrainsOutput
<1>4. driven <=> s \in limited
  <2>1. s \in Identifiers(p) /\ s \notin m.clocks /\ s \notin DOMAIN m.resets
    OBVIOUS
  <2>2. \A default : RoleFor(m, s, default) = default
    BY <2>1 DEF RoleFor
  <2>3. CASE s \in DOMAIN m.ports
    <3>1. FromRtlIntentManifest(m)[s].role = m.ports[s].direction
      BY <2>2, <2>3, SignalOfManifest
    <3>2. m.ports[s].direction \in {"input", "output", "inout"}
      BY <1>2, <2>3 DEF ReviewedModule
    <3>3. s \in DOMAIN FromRtlIntentManifest(m)
      BY <2>3, SignalOfManifest
    <3> QED  BY <2>1, <2>3, <3>1, <3>2, <3>3
  <2>4. CASE s \notin DOMAIN m.ports /\ s \in DOMAIN m.nets
    <3>1. FromRtlIntentManifest(m)[s].role = "internal" /\ s \in DOMAIN FromRtlIntentManifest(m)
      BY <2>2, <2>4, SignalOfManifest
    <3> QED  BY <2>1, <2>4, <3>1
  <2>5. CASE s \notin DOMAIN m.ports /\ s \notin DOMAIN m.nets
    <3>1. s \notin DOMAIN FromRtlIntentManifest(m)
      BY <2>5, SignalOfManifest
    <3> QED  BY <2>5, <3>1
  <2> QED  BY <2>3, <2>4, <2>5
<1>5. HasConcern(i, "ASSUME_CONSTRAINS_OUTPUT", "ERROR") <=>
        \E c \in CheckAssumeConstrainsOutput(p, x.module) : c.severity = "ERROR"
  BY ReportedChecks
<1>6. ConcernsOf(x, i) = Registry(p, x.module, traced, x.requirements)
  BY DEF ConcernsOf
<1> HIDE DEF p, traced, limited, driven
<1>7. ASSUME driven
      PROVE  /\ HasConcern(i, "ASSUME_CONSTRAINS_OUTPUT", "ERROR")
             /\ \E f \in FindingsOf(x) : f.property = i /\ f.concern.about = s
                                            /\ f.concern.check = "ASSUME_CONSTRAINS_OUTPUT"
  <2> DEFINE c == Concern("ASSUME_CONSTRAINS_OUTPUT", "ERROR", s)
  <2>1. /\ c \in CheckAssumeConstrainsOutput(p, x.module)
        /\ c.severity = "ERROR" /\ c.about = s /\ c.check = "ASSUME_CONSTRAINS_OUTPUT"
    BY <1>3, <1>4, <1>7 DEF Concern
  <2> HIDE DEF c
  <2>2. c \in ConcernsOf(x, i)
    BY <1>6, <2>1, ConcernOrigin
  <2>3. PICK f \in FindingsOf(x) : f.property = i /\ f.concern = c
    BY <2>2, FindingOf
  <2> QED  BY <1>5, <2>1, <2>3
<1>8. ASSUME NEW f \in FindingsOf(x), f.property = i, f.concern.about = s,
             f.concern.check = "ASSUME_CONSTRAINS_OUTPUT"
      PROVE  driven
  <2>1. f.concern \in Registry(p, x.module, traced, x.requirements)
    BY <1>6, <1>8, FindingOf
  <2>2. f.concern \in CheckAssumeConstrainsOutput(p, x.module)
    BY <1>8, <2>1, ConcernOrigin
  <2>3. PICK t \in limited : f.concern = Concern("ASSUME_CONSTRAINS_OUTPUT", "ERROR", t)
    BY <1>3, <2>2
  <2>4. t = s
    BY <1>8, <2>3 DEF Concern
  <2> QED  BY <1>4, <2>4
<1>9. driven <=>
        HasConcern(i, "ASSUME_CONSTRAINS_OUTPUT", "ERROR")
            /\ \E f \in FindingsOf(x) : f.property = i /\ f.concern.about = s
                                           /\ f.concern.check = "ASSUME_CONSTRAINS_OUTPUT"
  BY <1>7, <1>8
<1> QED  BY <1>9 DEF driven

\* The properties on a line are in one-to-one correspondence with its bodies.
LEMMA LineReviewed ==
    ASSUME NEW x \in ReviewInputs, NEW line
    PROVE  Cardinality({i \in DOMAIN ParseSva(x) : ParseSva(x)[i].line = line})
             = Cardinality({j \in Bodies(x) : x.statements[j].line = line})
<1>1. PICK at : PickedAt(x.statements, Bodies(x), at) /\ ParsedAt(x, at)
  BY ParsedStatements
<1> DEFINE made == {i \in DOMAIN ParseSva(x) : ParseSva(x)[i].line = line}
           written == {j \in Bodies(x) : x.statements[j].line = line}
           f == [i \in made |-> at[i]]
<1>2. /\ DOMAIN ParseSva(x) = DOMAIN at /\ \A i \in DOMAIN at : at[i] \in Bodies(x)
      /\ \A i \in DOMAIN at : ParseSva(x)[i].line = x.statements[at[i]].line
      /\ \A l, m \in DOMAIN at : at[l] = at[m] => l = m
      /\ \A i \in Bodies(x) : \E m \in DOMAIN at : at[m] = i
      /\ DOMAIN at = 1 .. Cardinality(Bodies(x)) /\ Cardinality(Bodies(x)) \in Nat
  BY <1>1, ParsedStatements DEF PickedAt, ParsedAt, SameParts
<1>3. IsFiniteSet(made)
  <2>1. IsFiniteSet(DOMAIN at)
    BY <1>2, FS_Interval
  <2> QED  BY <1>2, <2>1, FS_Subset
<1>4. f \in [made -> written]
  BY <1>2
<1>5. \A l, m \in made : f[l] = f[m] => l = m
  BY <1>2
<1>6. \A j \in written : \E i \in made : f[i] = j
  BY <1>2
<1> HIDE DEF made, written, f
<1>7. f \in Bijection(made, written)
  BY <1>4, <1>5, <1>6 DEF Bijection, Injection, Surjection, IsInjective
<1>8. Cardinality(written) = Cardinality(made)
  BY <1>3, <1>7, FS_Bijection DEF ExistsBijection
<1> QED  BY <1>8 DEF made, written

LEMMA EachReviewedOnceOf ==
    ASSUME NEW x \in ReviewInputs, input = x, reports = {Review(x)}
    PROVE  EachReviewedOnce
<1>1. Report.properties = ParseSva(x)
  BY ReviewFields DEF Report
<1>2. ASSUME NEW k \in DOMAIN x.statements
      PROVE Cardinality({i \in DOMAIN ParseSva(x) : ParseSva(x)[i].line = x.statements[k].line})
              = Cardinality({j \in Bodies(x) : x.statements[j].line = x.statements[k].line})
  BY LineReviewed
<1>3. ASSUME NEW k \in DOMAIN x.statements, x.statements[k].block,
             {i \in References(x) : x.statements[i].refers = x.statements[k].name} # {}
      PROVE \E i \in DOMAIN ParseSva(x),
               u \in {i \in References(x) : x.statements[i].refers = x.statements[k].name} :
               /\ ParseSva(x)[i].line = x.statements[k].line /\ ParseSva(x)[i].name = x.statements[k].name
               /\ ParseSva(x)[i].kind = x.statements[u].kind
  <2> DEFINE s == x.statements[k]
             uses == {i \in References(x) : x.statements[i].refers = s.name}
             n == Len(x.statements)
  <2>1. PICK at : PickedAt(x.statements, Bodies(x), at) /\ ParsedAt(x, at)
    BY ParsedStatements
  <2>2. k \in Bodies(x)
    BY <1>3 DEF Bodies
  <2>3. PICK i \in DOMAIN at : at[i] = k
    BY <2>1, <2>2 DEF PickedAt
  <2>4. /\ i \in DOMAIN ParseSva(x) /\ SameParts(ParseSva(x)[i], s)
        /\ ParseSva(x)[i].kind = UsageKind(x, s.name)
    BY <1>3, <2>1, <2>3 DEF ParsedAt
  <2>5. UsageKind(x, s.name) = x.statements[Max(uses)].kind
    BY <1>3 DEF UsageKind
  <2>6. uses \in SUBSET (1 .. n) /\ n \in Nat /\ uses # {}
    <3>1. x.statements \in Seq(Range(x.statements))
      BY ReviewAssumption
    <3>2. References(x) \subseteq DOMAIN x.statements
      BY DEF References, Inline
    <3> QED  BY <1>3, <3>1, <3>2
  <2> HIDE DEF uses, n
  <2>7. Max(uses) \in uses
    BY <2>6, LastPosition
  <2> QED  BY <2>4, <2>5, <2>7 DEF uses, SameParts
<1>4. \A k \in DOMAIN input.statements :
          LET line == input.statements[k].line
          IN  Cardinality({i \in DOMAIN Report.properties : Report.properties[i].line = line})
                = Cardinality({j \in Bodies(input) : input.statements[j].line = line})
  BY <1>1, <1>2
<1>5. \A k \in DOMAIN input.statements :
          LET s == input.statements[k]
              uses == {i \in References(input) : input.statements[i].refers = s.name}
          IN  s.block /\ uses # {} =>
                  \E i \in DOMAIN Report.properties, u \in uses :
                      /\ Report.properties[i].line = s.line /\ Report.properties[i].name = s.name
                      /\ Report.properties[i].kind = input.statements[u].kind
  BY <1>1, <1>3
<1> QED  BY <1>4, <1>5 DEF EachReviewedOnce

\* The findings are finitely many, so that errors count.
LEMMA FiniteImage ==
    ASSUME NEW f, f = [x \in DOMAIN f |-> f[x]], IsFiniteSet(DOMAIN f)
    PROVE  IsFiniteSet(Range(f))
<1>1. f \in Surjection(DOMAIN f, Range(f))
  BY DEF Surjection, Range
<1> QED  BY <1>1, FS_Surjection DEF ExistsSurjection

LEMMA FiniteIdentifiers ==
    ASSUME NEW p, ReviewedStatement(p)
    PROVE  IsFiniteSet(Identifiers(p))
<1> DEFINE compared == [c \in p.compares |-> c.signal]
           guards == [d \in p.disable |-> d.signal]
<1>1. IsFiniteSet(Range(p.antecedent)) /\ IsFiniteSet(Range(p.consequent))
  <2>1. ASSUME NEW t, t \in Seq(Range(t)) PROVE IsFiniteSet(Range(t))
    <3>1. DOMAIN t = 1 .. Len(t) /\ Len(t) \in Nat
      BY <2>1
    <3>2. IsFiniteSet(DOMAIN t)
      BY <3>1, FS_Interval
    <3>3. t = [i \in DOMAIN t |-> t[i]]
      BY <2>1
    <3> QED  BY <3>2, <3>3, FiniteImage
  <2> QED  BY <2>1 DEF ReviewedStatement
<1>2. IsFiniteSet({c.signal : c \in p.compares}) /\ IsFiniteSet({d.signal : d \in p.disable})
  <2>1. /\ DOMAIN compared = p.compares /\ compared = [c \in DOMAIN compared |-> compared[c]]
        /\ DOMAIN guards = p.disable /\ guards = [d \in DOMAIN guards |-> guards[d]]
    OBVIOUS
  <2>2. Range(compared) = {c.signal : c \in p.compares} /\ Range(guards) = {d.signal : d \in p.disable}
    BY DEF Range
  <2> HIDE DEF compared, guards
  <2>3. IsFiniteSet(Range(compared)) /\ IsFiniteSet(Range(guards))
    BY <2>1, FiniteImage DEF ReviewedStatement
  <2> QED  BY <2>2, <2>3
<1> DEFINE A == Range(p.antecedent)
           B == Range(p.consequent)
           C == {c.signal : c \in p.compares}
           D == {d.signal : d \in p.disable}
<1> HIDE DEF A, B, C, D
<1>3. IsFiniteSet(((A \cup B) \cup C) \cup D)
  BY <1>1, <1>2, FS_Union DEF A, B, C, D
<1>4. Identifiers(p) \subseteq ((A \cup B) \cup C) \cup D
  BY DEF Identifiers, A, B, C, D
<1> QED  BY <1>3, <1>4, FS_Subset

LEMMA FiniteWhen ==
    ASSUME NEW condition, NEW check, NEW severity
    PROVE  IsFiniteSet(When(condition, check, severity))
BY FS_EmptySet, FS_Singleton DEF When

LEMMA FiniteChecks ==
    ASSUME NEW p, ReviewedStatement(p), NEW m, NEW traced, NEW requirements
    PROVE  /\ IsFiniteSet(CheckMissingClock(p)) /\ IsFiniteSet(CheckDisableIff(p, m))
           /\ IsFiniteSet(CheckResetPolarity(p, m)) /\ IsFiniteSet(CheckImplicationStyle(p))
           /\ IsFiniteSet(CheckUnboundedTemporal(p)) /\ IsFiniteSet(CheckWeakConsequent(p))
           /\ IsFiniteSet(CheckAntecedentInConsequent(p)) /\ IsFiniteSet(CheckTriviallyPassing(p))
           /\ IsFiniteSet(CheckNameSemantics(p)) /\ IsFiniteSet(CheckTraceability(p, traced, requirements))
           /\ IsFiniteSet(CheckVacuityRisk(p))
<1>1. /\ IsFiniteSet(CheckMissingClock(p)) /\ IsFiniteSet(CheckResetPolarity(p, m))
      /\ IsFiniteSet(CheckImplicationStyle(p)) /\ IsFiniteSet(CheckTriviallyPassing(p))
      /\ IsFiniteSet(CheckNameSemantics(p)) /\ IsFiniteSet(CheckVacuityRisk(p))
  BY FiniteWhen DEF CheckMissingClock, CheckResetPolarity, CheckImplicationStyle, CheckTriviallyPassing,
                    CheckNameSemantics, CheckVacuityRisk
<1>2. IsFiniteSet(CheckDisableIff(p, m)) /\ IsFiniteSet(CheckTraceability(p, traced, requirements))
  <2>1. IsFiniteSet({})
    BY FS_EmptySet
  <2> QED  BY <2>1, FiniteWhen DEF CheckDisableIff, CheckTraceability
<1>3. IsFiniteSet(CheckWeakConsequent(p))
  BY FiniteWhen DEF CheckWeakConsequent
<1>4. IsFiniteSet(CheckAntecedentInConsequent(p))
  BY FiniteWhen, FS_Union DEF CheckAntecedentInConsequent
<1>5. IsFiniteSet(CheckUnboundedTemporal(p))
  <2> DEFINE ops == p.operators \cap {"range", "eventually", "until"}
             f == [o \in ops |-> Concern("UNBOUNDED_TEMPORAL", IF o = "until" THEN "INFO" ELSE "WARNING", o)]
  <2>1. ops = (IF "range" \in p.operators THEN {"range"} ELSE {})
              \cup (IF "eventually" \in p.operators THEN {"eventually"} ELSE {})
              \cup (IF "until" \in p.operators THEN {"until"} ELSE {})
    OBVIOUS
  <2>2. IsFiniteSet(ops)
    <3> HIDE DEF ops
    <3>1. \A t : IsFiniteSet({t}) /\ IsFiniteSet({})
      BY FS_Singleton, FS_EmptySet
    <3> QED  BY <2>1, <3>1, FS_Union
  <2>3. DOMAIN f = ops /\ f = [o \in DOMAIN f |-> f[o]] /\ Range(f) = CheckUnboundedTemporal(p)
    BY DEF Range, CheckUnboundedTemporal
  <2> HIDE DEF f, ops
  <2>4. IsFiniteSet(Range(f))
    BY <2>2, <2>3, FiniteImage
  <2> QED  BY <2>3, <2>4
<1> QED  BY <1>1, <1>2, <1>3, <1>4, <1>5

\* What is said of one signal at a time, of each view of the manifest.
LEMMA FiniteSignalChecks ==
    ASSUME NEW p, ReviewedStatement(p), NEW m, IsFiniteSet(m)
    PROVE  IsFiniteSet(CheckAssumeConstrainsOutput(p, m)) /\ IsFiniteSet(CheckSignals(p, m))
<1> DEFINE driven(v) == {s \in Identifiers(p) \cap DOMAIN FromRtlIntentManifest(v) :
                           /\ p.kind = "assume"
                           /\ FromRtlIntentManifest(v)[s].role \in {"output", "internal"}}
           unknown(v) == (Identifiers(p) \cup p.clock)
                            \ (DOMAIN FromRtlIntentManifest(v) \cup v.clocks \cup DOMAIN v.resets)
           wide(v) == {c \in p.compares : /\ c.signal \in DOMAIN FromRtlIntentManifest(v)
                                          /\ c.width # FromRtlIntentManifest(v)[c.signal].width}
           limits(v) == {Concern("ASSUME_CONSTRAINS_OUTPUT", "ERROR", s) : s \in driven(v)}
           strangers(v) == {Concern("UNDECLARED_SIGNAL", "ERROR", s) : s \in unknown(v)}
           widths(v) == {Concern("WIDTH_MISMATCH", "WARNING", c.signal) : c \in wide(v)}
<1>1. ASSUME NEW v PROVE IsFiniteSet(driven(v)) /\ IsFiniteSet(unknown(v)) /\ IsFiniteSet(wide(v))
  <2>1. IsFiniteSet(Identifiers(p)) /\ IsFiniteSet(p.clock) /\ IsFiniteSet(p.compares)
    BY FiniteIdentifiers DEF ReviewedStatement
  <2>2. IsFiniteSet(Identifiers(p) \cup p.clock)
    BY <2>1, FS_Union
  <2>3. driven(v) \subseteq Identifiers(p) /\ unknown(v) \subseteq Identifiers(p) \cup p.clock
        /\ wide(v) \subseteq p.compares
    OBVIOUS
  <2> HIDE DEF driven, unknown, wide
  <2> QED  BY <2>1, <2>2, <2>3, FS_Subset
<1> HIDE DEF driven, unknown, wide
<1>2. ASSUME NEW v PROVE IsFiniteSet(limits(v)) /\ IsFiniteSet(strangers(v)) /\ IsFiniteSet(widths(v))
  <2> DEFINE f == [s \in driven(v) |-> Concern("ASSUME_CONSTRAINS_OUTPUT", "ERROR", s)]
             g == [s \in unknown(v) |-> Concern("UNDECLARED_SIGNAL", "ERROR", s)]
             h == [c \in wide(v) |-> Concern("WIDTH_MISMATCH", "WARNING", c.signal)]
  <2>1. /\ DOMAIN f = driven(v) /\ f = [s \in DOMAIN f |-> f[s]] /\ Range(f) = limits(v)
        /\ DOMAIN g = unknown(v) /\ g = [s \in DOMAIN g |-> g[s]] /\ Range(g) = strangers(v)
        /\ DOMAIN h = wide(v) /\ h = [c \in DOMAIN h |-> h[c]] /\ Range(h) = widths(v)
    BY DEF Range
  <2> HIDE DEF f, g, h, limits, strangers, widths
  <2>2. IsFiniteSet(Range(f)) /\ IsFiniteSet(Range(g)) /\ IsFiniteSet(Range(h))
    BY <1>1, <2>1, FiniteImage
  <2> QED  BY <2>1, <2>2
<1>3. /\ CheckAssumeConstrainsOutput(p, m) = UNION {limits(v) : v \in m}
      /\ CheckSignals(p, m) = UNION {strangers(v) \cup widths(v) : v \in m}
  BY DEF CheckAssumeConstrainsOutput, CheckSignals, driven, unknown, wide
<1> HIDE DEF limits, strangers, widths
<1> DEFINE k == [v \in m |-> limits(v)]
           l == [v \in m |-> strangers(v) \cup widths(v)]
<1>4. /\ DOMAIN k = m /\ k = [v \in DOMAIN k |-> k[v]] /\ Range(k) = {limits(v) : v \in m}
      /\ DOMAIN l = m /\ l = [v \in DOMAIN l |-> l[v]] /\ Range(l) = {strangers(v) \cup widths(v) : v \in m}
  BY DEF Range
<1> HIDE DEF k, l
<1>5. IsFiniteSet(Range(k)) /\ IsFiniteSet(Range(l))
  BY <1>4, FiniteImage
<1>6. \A v : IsFiniteSet(strangers(v) \cup widths(v))
  BY <1>2, FS_Union
<1>7. IsFiniteSet(UNION Range(k))
  <2>1. \A T \in Range(k) : IsFiniteSet(T)
    BY <1>2, <1>4
  <2> QED  BY <1>5, <2>1, FS_UNION
<1>8. IsFiniteSet(UNION Range(l))
  <2>1. \A T \in Range(l) : IsFiniteSet(T)
    BY <1>4, <1>6
  <2> QED  BY <1>5, <2>1, FS_UNION
<1> QED  BY <1>3, <1>4, <1>7, <1>8

LEMMA FiniteFindings ==
    ASSUME NEW x \in ReviewInputs
    PROVE  IsFiniteSet(FindingsOf(x))
<1> DEFINE made(i) == {[property |-> i, concern |-> c] : c \in ConcernsOf(x, i)}
           all == [i \in DOMAIN ParseSva(x) |-> made(i)]
<1>1. ASSUME NEW i \in DOMAIN ParseSva(x) PROVE IsFiniteSet(ConcernsOf(x, i))
  <2> DEFINE p == ParseSva(x)[i]
             traced == TracedByKey(x, ParseSva(x), p)
             c1 == CheckMissingClock(p) \cup CheckDisableIff(p, x.module)
             c2 == CheckResetPolarity(p, x.module) \cup CheckImplicationStyle(p)
             c3 == CheckUnboundedTemporal(p) \cup CheckWeakConsequent(p)
             c4 == CheckAntecedentInConsequent(p) \cup CheckTriviallyPassing(p)
             c5 == CheckAssumeConstrainsOutput(p, x.module) \cup CheckSignals(p, x.module)
             c6 == CheckNameSemantics(p) \cup CheckTraceability(p, traced, x.requirements)
             c7 == CheckVacuityRisk(p)
  <2>1. ReviewedStatement(p) /\ IsFiniteSet(x.module)
    BY ParsedProperty, ReviewAssumption
  <2>2. ConcernsOf(x, i) = ((c1 \cup c2) \cup (c3 \cup c4)) \cup ((c5 \cup c6) \cup c7)
    BY DEF ConcernsOf, Registry
  <2> HIDE DEF p, traced
  <2>3. /\ IsFiniteSet(c1) /\ IsFiniteSet(c2) /\ IsFiniteSet(c3) /\ IsFiniteSet(c4)
        /\ IsFiniteSet(c6) /\ IsFiniteSet(c7)
    BY <2>1, FiniteChecks, FS_Union
  <2>4. IsFiniteSet(c5)
    BY <2>1, FiniteSignalChecks, FS_Union
  <2> HIDE DEF c1, c2, c3, c4, c5, c6, c7
  <2>5. IsFiniteSet((c1 \cup c2) \cup (c3 \cup c4)) /\ IsFiniteSet((c5 \cup c6) \cup c7)
    <3>1. IsFiniteSet(c1 \cup c2) /\ IsFiniteSet(c3 \cup c4) /\ IsFiniteSet(c5 \cup c6)
      BY <2>3, <2>4, FS_Union
    <3> QED  BY <2>3, <3>1, FS_Union
  <2> QED  BY <2>2, <2>5, FS_Union
<1>2. ASSUME NEW i \in DOMAIN ParseSva(x) PROVE IsFiniteSet(made(i))
  <2> DEFINE f == [c \in ConcernsOf(x, i) |-> [property |-> i, concern |-> c]]
  <2>1. DOMAIN f = ConcernsOf(x, i) /\ f = [c \in DOMAIN f |-> f[c]] /\ Range(f) = made(i)
    BY DEF Range
  <2> HIDE DEF f, made
  <2>2. IsFiniteSet(Range(f))
    BY <1>1, <2>1, FiniteImage
  <2> QED  BY <2>1, <2>2
<1>3. FindingsOf(x) = UNION {made(i) : i \in DOMAIN ParseSva(x)}
  BY DEF FindingsOf
<1> HIDE DEF made
<1>4. /\ DOMAIN all = DOMAIN ParseSva(x) /\ all = [i \in DOMAIN all |-> all[i]]
      /\ Range(all) = {made(i) : i \in DOMAIN ParseSva(x)}
  BY DEF Range
<1>5. IsFiniteSet(DOMAIN ParseSva(x))
  <2>1. PICK at : PickedAt(x.statements, Bodies(x), at) /\ ParsedAt(x, at)
    BY ParsedStatements
  <2>2. DOMAIN ParseSva(x) = 1 .. Cardinality(Bodies(x)) /\ Cardinality(Bodies(x)) \in Nat
    BY <2>1, ParsedStatements DEF PickedAt, ParsedAt
  <2> QED  BY <2>2, FS_Interval
<1>6. \A T \in Range(all) : IsFiniteSet(T)
  BY <1>2, <1>4
<1> HIDE DEF all
<1>7. IsFiniteSet(Range(all))
  BY <1>4, <1>5, FiniteImage
<1>8. IsFiniteSet(UNION Range(all))
  BY <1>6, <1>7, FS_UNION
<1> QED  BY <1>3, <1>4, <1>8

LEMMA MaxOfTwo ==
    ASSUME NEW a \in Int, NEW b \in Int
    PROVE  Max({a, b}) = IF a >= b THEN a ELSE b
<1>1. CASE a >= b
  <2>1. \A y \in {a, b} : a >= y
    BY <1>1
  <2>2. \A t \in {a, b} : (\A y \in {a, b} : t >= y) => t = a
    BY <1>1
  <2> QED  BY <1>1, <2>1, <2>2 DEF Max
<1>2. CASE ~(a >= b)
  <2>1. \A y \in {a, b} : b >= y
    BY <1>2
  <2>2. \A t \in {a, b} : (\A y \in {a, b} : t >= y) => t = b
    BY <1>2
  <2> QED  BY <1>2, <2>1, <2>2 DEF Max
<1> QED  BY <1>1, <1>2

\* The score of n properties with a penalty.
ScoreOf(n, penalty) ==
    LET budget == 20 * Max({n, 1})
        left == Max({budget - penalty, 0})
    IN  (2000 * left + budget) \div (2 * budget)

\* With up to four properties ten points are more than a tenth of what they are worth.
LEMMA ErrorCostsGrade ==
    ASSUME NEW n \in 0 .. 4, NEW penalty \in Nat, penalty >= 10
    PROVE  Grade(ScoreOf(n, penalty)) # "A"
<1> DEFINE budget == 20 * Max({n, 1})
           left == Max({budget - penalty, 0})
           score == (2000 * left + budget) \div (2 * budget)
<1>1. Max({n, 1}) = IF n >= 1 THEN n ELSE 1
  BY MaxOfTwo
<1>2. budget \in {20, 40, 60, 80}
  BY <1>1
<1> HIDE DEF budget
<1>3. left = IF budget - penalty >= 0 THEN budget - penalty ELSE 0
  BY <1>2, MaxOfTwo
<1>4. left \in Nat /\ left <= budget - 10
  BY <1>2, <1>3
<1> HIDE DEF left
<1>5. score \in Int /\ score < 900
  <2>1. CASE budget = 20
    BY <1>4, <2>1
  <2>2. CASE budget = 40
    BY <1>4, <2>2
  <2>3. CASE budget = 60
    BY <1>4, <2>3
  <2>4. CASE budget = 80
    BY <1>4, <2>4
  <2> QED  BY <1>2, <2>1, <2>2, <2>3, <2>4
<1> HIDE DEF score
<1>6. Grade(score) # "A"
  <2>1. score \in 750 .. 899 \/ score \in 600 .. 749 \/ score \in 400 .. 599 \/ score < 400
    BY <1>5
  <2>2. Grade(score) = CASE score \in 750 .. 899 -> "B"
                         [] score \in 600 .. 749 -> "C"
                         [] score \in 400 .. 599 -> "D"
                         [] score < 400 -> "F"
    BY <1>5 DEF Grade
  <2> QED  BY <1>5, <2>1, <2>2
<1> QED  BY <1>6 DEF ScoreOf, score, left, budget

LEMMA BestGradeCleanOf ==
    ASSUME NEW x \in ReviewInputs, reports = {Review(x)}
    PROVE  BestGradeClean
<1> DEFINE findings == FindingsOf(x)
           n == Len(ParseSva(x))
<1>1. /\ Report.properties = ParseSva(x) /\ Report.findings = findings
      /\ Report.grade = Grade(ReviewScore(findings, n))
  BY ReviewFields DEF Report
<1> SUFFICES ASSUME n <= 4, NEW f \in findings, f.concern.severity = "ERROR"
             PROVE  Grade(ReviewScore(findings, n)) # "A"
  BY <1>1 DEF BestGradeClean
<1>2. IsFiniteSet(findings)
  BY FiniteFindings
<1>3. n \in Nat
  <2>1. PICK at : PickedAt(x.statements, Bodies(x), at) /\ ParsedAt(x, at)
    BY ParsedStatements
  <2> DEFINE kept == Picked(x.statements, Bodies(x))
  <2>2. DOMAIN ParseSva(x) = 1 .. Cardinality(Bodies(x)) /\ Cardinality(Bodies(x)) \in Nat
    BY <2>1, ParsedStatements DEF PickedAt, ParsedAt
  <2>3. ParseSva(x) = [i \in 1 .. Cardinality(Bodies(x)) |-> ParseSva(x)[i]]
    <3>1. ParseSva(x) = [i \in DOMAIN kept |->
             BuildProperty(kept[i], IF kept[i].block THEN UsageKind(x, kept[i].name) ELSE kept[i].kind)]
      BY DEF ParseSva
    <3> HIDE DEF kept
    <3> QED  BY <2>2, <3>1
  <2> HIDE DEF kept
  <2>4. ParseSva(x) \in Seq(Range(ParseSva(x)))
    BY <2>2, <2>3 DEF Range
  <2> QED  BY <2>4
<1> HIDE DEF findings, n
<1>4. ASSUME NEW severity
      PROVE  /\ Count(findings, severity) \in Nat
             /\ Count(findings, severity) = 0 => {g \in findings : g.concern.severity = severity} = {}
  <2> DEFINE found == {g \in findings : g.concern.severity = severity}
  <2>1. found \subseteq findings
    OBVIOUS
  <2>2. Count(findings, severity) = Cardinality(found)
    BY DEF Count
  <2> HIDE DEF found
  <2>3. IsFiniteSet(found)
    BY <1>2, <2>1, FS_Subset
  <2>4. Cardinality(found) \in Nat /\ (Cardinality(found) = 0 => found = {})
    BY <2>3, FS_CardinalityType, FS_EmptySet
  <2> QED  BY <2>2, <2>4 DEF found
<1>5. Count(findings, "ERROR") \in Nat /\ Count(findings, "ERROR") # 0
      /\ Count(findings, "WARNING") \in Nat /\ Count(findings, "INFO") \in Nat
  BY <1>4
<1>6. Penalty(findings) \in Nat /\ Penalty(findings) >= 10
  BY <1>5 DEF Penalty
<1>7. n \in 0 .. 4
  BY <1>3
<1>8. ReviewScore(findings, n) = ScoreOf(n, Penalty(findings))
  BY DEF ReviewScore, ScoreOf
<1> QED  BY <1>6, <1>7, <1>8, ErrorCostsGrade

\* For any file, manifest and tags: what assertion-review-agent calls constant or vacuous cannot
\* fail, and what cannot fail is given away unless several terms hide it; a guard is called
\* inverted exactly when it is; an assumption about what the design drives is an error; nothing
\* is reviewed twice or not at all; and up to four properties with an error never get grade A.
THEOREM ReviewSoundAlways == ReviewSpec => []ReviewSound
<1>1. ASSUME ReviewInv PROVE ReviewSound
  <2> SUFFICES ASSUME Reported("assertion-review")
               PROVE  HollowCaught /\ PolarityExact /\ EachReviewedOnce /\ AssumesInputsOnly /\ BestGradeClean
    BY DEF ReviewSound
  <2>1. PICK x \in ReviewInputs : input = x /\ reports \in {{}, {Review(x)}}
    BY <1>1 DEF ReviewInv
  <2>2. reports = {Review(x)}
    BY <2>1 DEF Reported
  <2> QED  BY <2>1, <2>2, HollowCaughtOf, PolarityExactOf, EachReviewedOnceOf, AssumesInputsOnlyOf,
             BestGradeCleanOf
<1>2. ReviewInv => ReviewSound
  BY <1>1
<1> QED  BY <1>2, ReviewInvariant, PTL

-----------------------------------------------------------------------------
(***************************************************************************)
(* The synchronizers of a module                                           *)
(***************************************************************************)

\* A register takes the whole of another and nothing else: what the walk asks of a stage.
Takes(m, r, s) ==
    /\ \A a \in Driving(m, r) : a.reads \subseteq {r, s} /\ s \notin a.sliced
    /\ \E a \in Driving(m, r) : s \in a.reads

LEMMA CleanTakes ==
    ASSUME NEW m, NEW r, NEW s, s # r
    PROVE  IsCleanStage(m, r, s) <=> Takes(m, r, s)
<1> DEFINE A == Driving(m, r)
<1>1. \A x : /\ x \in Reads(m, r) <=> x # r /\ \E a \in A : x \in a.reads
             /\ x \in SlicedReads(m, r) <=> x # r /\ \E a \in A : x \in a.sliced
  BY DEF Reads, SlicedReads
<1>2. IsCleanStage(m, r, s) <=> Reads(m, r) = {s} /\ s \notin SlicedReads(m, r)
  BY DEF IsCleanStage
<1>3. Takes(m, r, s) <=> /\ \A a \in A : a.reads \subseteq {r, s} /\ s \notin a.sliced
                         /\ \E a \in A : s \in a.reads
  BY DEF Takes
<1> HIDE DEF A
<1>4. ASSUME Reads(m, r) = {s}, s \notin SlicedReads(m, r) PROVE Takes(m, r, s)
  <2>1. \E a \in A : s \in a.reads
    BY <1>1, <1>4
  <2>2. \A a \in A : s \notin a.sliced
    BY <1>1, <1>4
  <2>3. \A a \in A : \A x \in a.reads : x \in {r, s}
    BY <1>1, <1>4
  <2> QED  BY <1>3, <2>1, <2>2, <2>3
<1>5. ASSUME Takes(m, r, s) PROVE Reads(m, r) = {s} /\ s \notin SlicedReads(m, r)
  <2>1. \A x : x \in Reads(m, r) <=> x = s
    BY <1>1, <1>3, <1>5
  <2> QED  BY <1>1, <1>3, <1>5, <2>1
<1> QED  BY <1>2, <1>4, <1>5

\* A chain that the walk could have made: each of its registers is the one follower of those
\* before it.
Walked(m, chain) ==
    /\ chain \in Seq(Registers(m)) /\ chain # <<>>
    /\ \A i, j \in DOMAIN chain : chain[i] = chain[j] => i = j
    /\ \A i \in 2 .. Len(chain) : Followers(m, SubSeq(chain, 1, i - 1)) = {chain[i]}

\* The first stages of a chain.
LEMMA FirstStages ==
    ASSUME NEW R, NEW chain \in Seq(R), NEW n \in 1 .. Len(chain)
    PROVE  LET s == SubSeq(chain, 1, n) IN
           /\ s \in Seq(R) /\ Len(s) = n /\ DOMAIN s = 1 .. n
           /\ \A i \in 1 .. n : s[i] = chain[i]
           /\ Range(s) = {chain[i] : i \in 1 .. n}
<1> DEFINE s == SubSeq(chain, 1, n)
<1>1. Len(chain) \in Nat /\ n \in Nat /\ DOMAIN chain = 1 .. Len(chain) /\ \A i \in 1 .. n : chain[i] \in R
  OBVIOUS
<1>2. s = [i \in 1 .. n |-> chain[i]]
  <2>1. s = [i \in 1 .. ((n - 1) + 1) |-> chain[(1 + i) - 1]]
    OBVIOUS
  <2> QED  BY <1>1, <2>1
<1>3. DOMAIN s = 1 .. n /\ \A i \in 1 .. n : s[i] = chain[i]
  BY <1>2
<1>4. s \in Seq(R) /\ Len(s) = n
  BY <1>1, <1>2
<1> HIDE DEF s
<1>5. Range(s) = {chain[i] : i \in 1 .. n}
  BY <1>3 DEF Range
<1> QED  BY <1>3, <1>4, <1>5 DEF s

\* Two chains of the walk from one register agree as far as both go.
LEMMA WalkedAgree ==
    ASSUME NEW m, NEW c, NEW d, Walked(m, c), Walked(m, d), c[1] = d[1]
    PROVE  \A i \in 1 .. Len(c) : i <= Len(d) => c[i] = d[i]
<1> DEFINE R == Registers(m)
           n == Len(c)
           S == {k \in 0 .. n : \A i \in 1 .. k : i <= Len(d) => c[i] = d[i]}
<1>1. c \in Seq(R) /\ d \in Seq(R) /\ n \in Nat /\ Len(d) \in Nat
  BY DEF Walked
<1>2. 0 \in S
  BY <1>1
<1>3. ASSUME NEW k \in 1 .. n, k - 1 \in S PROVE k \in S
  <2>1. SUFFICES ASSUME k <= Len(d), k # 1 PROVE c[k] = d[k]
    BY <1>1, <1>3
  <2>2. k - 1 \in 1 .. Len(c) /\ k - 1 \in 1 .. Len(d) /\ k \in 2 .. Len(c) /\ k \in 2 .. Len(d)
    BY <1>1, <2>1
  <2>3. SubSeq(c, 1, k - 1) = SubSeq(d, 1, k - 1)
    <3>1. \A i \in 1 .. k - 1 : c[i] = d[i]
      BY <1>1, <1>3, <2>2
    <3> DEFINE s == SubSeq(c, 1, k - 1)
               t == SubSeq(d, 1, k - 1)
    <3>2. s \in Seq(R) /\ Len(s) = k - 1 /\ \A i \in 1 .. k - 1 : s[i] = c[i]
      BY <1>1, <2>2, FirstStages
    <3>3. t \in Seq(R) /\ Len(t) = k - 1 /\ \A i \in 1 .. k - 1 : t[i] = d[i]
      BY <1>1, <2>2, FirstStages
    <3> HIDE DEF s, t
    <3>4. \A i \in 1 .. Len(s) : s[i] = t[i]
      BY <3>1, <3>2, <3>3
    <3> QED  BY <3>2, <3>3, <3>4, SeqEqual DEF s, t
  <2>4. Followers(m, SubSeq(c, 1, k - 1)) = {c[k]} /\ Followers(m, SubSeq(d, 1, k - 1)) = {d[k]}
    BY <2>2 DEF Walked
  <2> QED  BY <2>3, <2>4
<1> HIDE DEF S
<1>4. 0 .. n \subseteq S
  BY <1>1, <1>2, <1>3, StepByStep
<1>5. n \in S
  BY <1>1, <1>4
<1> QED  BY <1>5 DEF S

\* The registers of a module are finitely many.
LEMMA RegistersFinite ==
    ASSUME NEW m \in CrossingModules
    PROVE  IsFiniteSet(Registers(m)) /\ Cardinality(Registers(m)) \in Nat
<1>1. IsFiniteSet(DOMAIN m.registers)
  BY CrossingAssumption DEF CrossingAssumption
<1>2. Registers(m) \in SUBSET DOMAIN m.registers
  BY DEF Registers
<1> QED  BY <1>1, <1>2, FS_Subset, FS_CardinalityType

\* A walked chain enters a register once.
LEMMA WalkedLength ==
    ASSUME NEW m \in CrossingModules, NEW c, Walked(m, c)
    PROVE  Len(c) \in 1 .. Cardinality(Registers(m))
<1> DEFINE R == Registers(m)
<1>1. /\ c \in Seq(R) /\ c # <<>> /\ Len(c) \in Nat /\ DOMAIN c = 1 .. Len(c)
      /\ \A i, j \in DOMAIN c : c[i] = c[j] => i = j
  BY DEF Walked
<1>2. c \in Injection(1 .. Len(c), R)
  BY <1>1 DEF Injection, IsInjective
<1>3. IsFiniteSet(R) /\ Cardinality(R) \in Nat
  BY RegistersFinite
<1>4. Cardinality(1 .. Len(c)) <= Cardinality(R)
  BY <1>2, <1>3, FS_Injection
<1>5. Cardinality(1 .. Len(c)) = Len(c) /\ Len(c) # 0
  BY <1>1, FS_Interval, EmptySeq
<1> QED  BY <1>1, <1>3, <1>4, <1>5

\* The followers of a chain are other registers.
LEMMA FollowersOther ==
    ASSUME NEW m, NEW c, NEW s \in Followers(m, c)
    PROVE  s \in Registers(m) /\ \A i \in DOMAIN c : c[i] # s
BY DEF Followers, Range

\* One step of the walk.
LEMMA WalkStep ==
    ASSUME NEW m \in CrossingModules, NEW c, Walked(m, c)
    PROVE  IF Cardinality(Followers(m, c)) = 1
           THEN /\ Walked(m, Extended(m, c)) /\ Extended(m, c)[1] = c[1]
                /\ Len(Extended(m, c)) = Len(c) + 1
           ELSE Extended(m, c) = c
<1> DEFINE R == Registers(m)
           F == Followers(m, c)
           s == CHOOSE x \in F : TRUE
           d == Append(c, s)
<1>1. /\ c \in Seq(R) /\ c # <<>> /\ Len(c) \in Nat /\ DOMAIN c = 1 .. Len(c) /\ Len(c) # 0
      /\ \A i, j \in DOMAIN c : c[i] = c[j] => i = j
      /\ \A i \in 2 .. Len(c) : Followers(m, SubSeq(c, 1, i - 1)) = {c[i]}
  BY EmptySeq DEF Walked
<1>2. CASE Cardinality(F) # 1
  BY <1>2 DEF Extended
<1>3. CASE Cardinality(F) = 1
  <2>1. Extended(m, c) = d
    BY <1>3 DEF Extended
  <2>2. IsFiniteSet(F)
    <3>1. F \in SUBSET R
      BY FollowersOther
    <3> QED  BY <3>1, RegistersFinite, FS_Subset
  <2>3. PICK x : F = {x}
    BY <1>3, <2>2, FS_Singleton
  <2>4. s = x /\ s \in F
    BY <2>3
  <2>5. s \in R /\ \A i \in 1 .. Len(c) : c[i] # s
    BY <1>1, <2>4, FollowersOther
  <2> HIDE DEF F, s
  <2>6. /\ d \in Seq(R) /\ Len(d) = Len(c) + 1 /\ DOMAIN d = 1 .. Len(c) + 1
        /\ \A i \in 1 .. Len(c) : d[i] = c[i]
        /\ d[Len(c) + 1] = s /\ d # <<>>
    BY <1>1, <2>5
  <2> HIDE DEF d
  <2>7. \A i, j \in DOMAIN d : d[i] = d[j] => i = j
    <3> SUFFICES ASSUME NEW i \in 1 .. Len(c) + 1, NEW j \in 1 .. Len(c) + 1, d[i] = d[j] PROVE i = j
      BY <2>6
    <3>1. CASE i = Len(c) + 1 /\ j # Len(c) + 1
      BY <1>1, <2>5, <2>6, <3>1
    <3>2. CASE j = Len(c) + 1 /\ i # Len(c) + 1
      BY <1>1, <2>5, <2>6, <3>2
    <3>3. CASE i # Len(c) + 1 /\ j # Len(c) + 1
      BY <1>1, <2>5, <2>6, <3>3
    <3> QED  BY <3>1, <3>2, <3>3
  <2>8. ASSUME NEW i \in 2 .. Len(d) PROVE Followers(m, SubSeq(d, 1, i - 1)) = {d[i]}
    <3>1. i - 1 \in 1 .. Len(c) /\ i - 1 \in 1 .. Len(d) /\ i \in Nat
      BY <1>1, <2>6
    <3> DEFINE t == SubSeq(d, 1, i - 1)
               u == SubSeq(c, 1, i - 1)
    <3>2. t \in Seq(R) /\ Len(t) = i - 1 /\ \A k \in 1 .. i - 1 : t[k] = d[k]
      BY <2>6, <3>1, FirstStages
    <3>3. u \in Seq(R) /\ Len(u) = i - 1 /\ \A k \in 1 .. i - 1 : u[k] = c[k]
      BY <1>1, <3>1, FirstStages
    <3> HIDE DEF t, u
    <3>4. \A k \in 1 .. Len(t) : t[k] = u[k]
      BY <1>1, <2>6, <3>1, <3>2, <3>3
    <3>5. t = u
      BY <3>2, <3>3, <3>4, SeqEqual
    <3>6. CASE i = Len(c) + 1
      <4>1. \A k \in 1 .. Len(u) : u[k] = c[k]
        BY <3>3
      <4>2. u = c
        BY <1>1, <3>3, <3>6, <4>1, SeqEqual
      <4> QED  BY <2>3, <2>4, <2>6, <3>5, <3>6, <4>2 DEF t, F
    <3>7. CASE i # Len(c) + 1
      <4>1. i \in 2 .. Len(c)
        BY <1>1, <2>6, <3>1, <3>7
      <4>2. Followers(m, u) = {c[i]} /\ d[i] = c[i]
        BY <1>1, <2>6, <4>1 DEF u
      <4> QED  BY <3>5, <4>2 DEF t
    <3> QED  BY <3>6, <3>7
  <2>9. Walked(m, d)
    BY <2>6, <2>7, <2>8 DEF Walked
  <2> QED  BY <1>1, <1>3, <2>1, <2>6, <2>9 DEF F
<1> QED  BY <1>2, <1>3

\* The chains of the walk, one by one.
LEMMA WalkSteps ==
    ASSUME NEW m \in CrossingModules, NEW r \in Registers(m)
    PROVE  \E g : /\ g[0] = <<r>>
                  /\ \A k \in 1 .. Cardinality(Registers(m)) : g[k] = Extended(m, g[k - 1])
                  /\ SyncChain(m, r) = g[Cardinality(Registers(m))]
<1> DEFINE n == Cardinality(Registers(m))
           E == Seq(Registers(m))
           first == <<r>>
           Result == [k \in 1 .. n |-> [c \in E |-> Extended(m, c)]]
           f == CHOOSE g : g = [k \in 0 .. Cardinality(Registers(m)) |->
                   IF k = 0 THEN <<r>> ELSE Extended(m, g[k - 1])]
<1>1. n \in Nat
  BY RegistersFinite
<1>2. ASSUME NEW c \in E PROVE Extended(m, c) \in E
  <2>1. CASE Cardinality(Followers(m, c)) = 1
    <3> DEFINE F == Followers(m, c)
               s == CHOOSE x \in F : TRUE
    <3>1. F # {}
      <4>1. Cardinality({}) = 0
        BY FS_EmptySet
      <4>2. SUFFICES ASSUME F = {} PROVE FALSE
        OBVIOUS
      <4>3. Cardinality(F) = Cardinality({})
        BY <4>2
      <4> HIDE DEF F
      <4> QED  BY <2>1, <4>1, <4>3 DEF F
    <3>2. s \in F
      BY <3>1
    <3>3. s \in Registers(m)
      BY <3>2, FollowersOther
    <3>4. Extended(m, c) = Append(c, s)
      BY <2>1 DEF Extended
    <3> HIDE DEF s
    <3> QED  BY <1>2, <3>3, <3>4
  <2>2. CASE Cardinality(Followers(m, c)) # 1
    BY <1>2, <2>2 DEF Extended
  <2> QED  BY <2>1, <2>2
<1>3. \E g : Iterates(g, n, E, first, Result)
  <2>1. first \in E
    OBVIOUS
  <2>2. Result \in [1 .. n -> [E -> E]]
    <3> HIDE DEF E, n
    <3> QED  BY <1>2
  <2> HIDE DEF E, Result, n, first
  <2>3. StepsWithin(n, E, first, Result)
    BY <1>1, <2>1, <2>2 DEF StepsWithin
  <2> QED  BY <2>3, IteratedSteps
<1>4. PICK g \in [0 .. n -> E] : g[0] = first /\ \A k \in 1 .. n : g[k] = Extended(m, g[k - 1])
  <2>1. PICK g : Iterates(g, n, E, first, Result)
    BY <1>3
  <2>2. g \in [0 .. n -> E] /\ g[0] = first /\ \A k \in 1 .. n : g[k] = Result[k][g[k - 1]]
    <3> HIDE DEF E, Result, n, first
    <3> QED  BY <2>1 DEF Iterates
  <2>3. ASSUME NEW k \in 1 .. n PROVE g[k] = Extended(m, g[k - 1])
    <3>1. g[k - 1] \in E
      <4> HIDE DEF E, Result, n, first
      <4> QED  BY <1>1, <2>2
    <3>2. g[k] = Result[k][g[k - 1]]
      BY <2>2
    <3> HIDE DEF E, n, first
    <3> QED  BY <3>1, <3>2
  <2> HIDE DEF E, Result, n, first
  <2> QED  BY <2>2, <2>3
<1>5. f = CHOOSE h : h = [k \in 0 .. n |-> IF k = 0 THEN first ELSE Extended(m, h[k - 1])]
  BY DEF n
<1>6. SyncChain(m, r) = f[n]
  BY DEF SyncChain, n
<1> HIDE DEF n, E, first, f
<1>7. g = [k \in 0 .. n |-> IF k = 0 THEN first ELSE Extended(m, g[k - 1])]
  <2> DEFINE v(k) == IF k = 0 THEN first ELSE Extended(m, g[k - 1])
  <2>1. \A k \in 0 .. n : g[k] = v(k)
    BY <1>1, <1>4
  <2>2. g \in [0 .. n -> E]
    OBVIOUS
  <2> HIDE DEF v
  <2>3. g = [k \in 0 .. n |-> v(k)]
    BY <2>1, <2>2
  <2> QED  BY <2>3 DEF v
<1>8. f = [k \in 0 .. n |-> IF k = 0 THEN first ELSE Extended(m, f[k - 1])]
  BY <1>5, <1>7, Zenon
<1>9. f[0] = first /\ \A k \in 1 .. n : f[k] = Extended(m, f[k - 1])
  <2> DEFINE v(k) == IF k = 0 THEN first ELSE Extended(m, f[k - 1])
  <2>1. f = [k \in 0 .. n |-> v(k)]
    BY <1>8
  <2> HIDE DEF v
  <2>2. \A k \in 0 .. n : f[k] = v(k)
    BY <2>1
  <2> QED  BY <1>1, <2>2 DEF v
<1> QED  BY <1>6, <1>9 DEF n, first

\* Where the walk ends no register follows alone.
LEMMA WalkEnds ==
    ASSUME NEW m \in CrossingModules, NEW r \in Registers(m)
    PROVE  LET c == SyncChain(m, r) IN
           Walked(m, c) /\ c[1] = r /\ Cardinality(Followers(m, c)) # 1
<1> DEFINE n == Cardinality(Registers(m))
           Stuck(c) == Cardinality(Followers(m, c)) # 1
<1>1. PICK g : /\ g[0] = <<r>>
               /\ \A k \in 1 .. n : g[k] = Extended(m, g[k - 1])
               /\ SyncChain(m, r) = g[n]
  BY WalkSteps
<1> DEFINE Good(k) == /\ Walked(m, g[k]) /\ g[k][1] = r
                      /\ Len(g[k]) = k + 1 \/ Stuck(g[k])
           S == {k \in 0 .. n : Good(k)}
<1>2. n \in Nat
  BY RegistersFinite
<1>3. 0 \in S
  <2>1. Walked(m, <<r>>)
    <3>1. /\ <<r>> \in Seq(Registers(m)) /\ <<r>> # <<>>
          /\ \A i, j \in DOMAIN <<r>> : <<r>>[i] = <<r>>[j] => i = j
          /\ 2 .. Len(<<r>>) = {}
      OBVIOUS
    <3> QED  BY <3>1 DEF Walked
  <2>2. <<r>>[1] = r /\ Len(<<r>>) = 0 + 1
    OBVIOUS
  <2>3. Good(0)
    BY <1>1, <2>1, <2>2
  <2> HIDE DEF Good
  <2> QED  BY <1>2, <2>3
<1>4. ASSUME NEW k \in 1 .. n, k - 1 \in S PROVE k \in S
  <2>1. Good(k - 1)
    BY <1>4
  <2>2. g[k] = Extended(m, g[k - 1]) /\ k \in Int
    BY <1>1, <1>2
  <2>3. CASE Stuck(g[k - 1])
    <3>1. g[k] = g[k - 1]
      BY <2>1, <2>2, <2>3, WalkStep
    <3>2. Good(k)
      BY <2>1, <2>3, <3>1
    <3> HIDE DEF Good
    <3> QED  BY <1>2, <3>2
  <2>4. CASE ~ Stuck(g[k - 1])
    <3>1. Walked(m, g[k]) /\ g[k][1] = g[k - 1][1] /\ Len(g[k]) = Len(g[k - 1]) + 1
      BY <2>1, <2>2, <2>4, WalkStep
    <3>2. Len(g[k - 1]) = (k - 1) + 1
      BY <2>1, <2>4
    <3>3. Len(g[k]) = k + 1
      BY <2>2, <3>1, <3>2
    <3>4. Good(k)
      BY <2>1, <3>1, <3>3
    <3> HIDE DEF Good
    <3> QED  BY <1>2, <3>4
  <2> QED  BY <2>3, <2>4
<1>5. n \in S
  <2> HIDE DEF S
  <2>1. 0 .. n \subseteq S
    BY <1>2, <1>3, <1>4, StepByStep
  <2> QED  BY <1>2, <2>1
<1>6. Good(n)
  BY <1>5
<1>7. Len(g[n]) # n + 1
  <2>1. Len(g[n]) \in 1 .. n
    BY <1>6, WalkedLength
  <2> QED  BY <1>2, <2>1
<1> QED  BY <1>1, <1>6, <1>7

\* What a synchronizer is, stage by stage, and the walk's followers in the same words.
Forwarding(m, c, i) ==
    {r \in Registers(m) \ {c[j] : j \in 1 .. (i - 1)} :
        Clock(m, r) = Clock(m, c[1]) /\ Takes(m, r, c[i - 1])}

LEMMA SynchronizerStages ==
    ASSUME NEW m, NEW src, NEW c
    PROVE  Synchronizer(m, src, c) <=>
              /\ IsInjective(c)
              /\ Takes(m, c[1], src)
              /\ \A i \in 2 .. Len(c) : Forwarding(m, c, i) = {c[i]}
BY DEF Synchronizer, Takes, Forwarding

LEMMA FollowersForward ==
    ASSUME NEW m, NEW c \in Seq(Registers(m)), NEW i \in 2 .. Len(c)
    PROVE  Followers(m, SubSeq(c, 1, i - 1)) = Forwarding(m, c, i)
<1> DEFINE t == SubSeq(c, 1, i - 1)
           R == Registers(m)
<1>1. i - 1 \in 1 .. Len(c) /\ 1 \in 1 .. (i - 1) /\ i - 1 \in 1 .. (i - 1)
  OBVIOUS
<1>2. /\ Len(t) = i - 1 /\ t[1] = c[1] /\ t[Len(t)] = c[i - 1]
      /\ Range(t) = {c[j] : j \in 1 .. (i - 1)}
  <2>1. /\ Len(t) = i - 1 /\ \A k \in 1 .. i - 1 : t[k] = c[k]
        /\ Range(t) = {c[j] : j \in 1 .. i - 1}
    BY <1>1, FirstStages
  <2> QED  BY <1>1, <2>1
<1> HIDE DEF t
<1>3. ASSUME NEW r \in R \ Range(t)
      PROVE  IsCleanStage(m, r, c[i - 1]) <=> Takes(m, r, c[i - 1])
  <2>1. c[i - 1] # r
    BY <1>1, <1>2
  <2> QED  BY <2>1, CleanTakes
<1>4. Followers(m, t) = {s \in R \ Range(t) :
                            Clock(m, s) = Clock(m, c[1]) /\ IsCleanStage(m, s, c[i - 1])}
  BY <1>2 DEF Followers
<1>5. Forwarding(m, c, i) = {r \in R \ Range(t) :
                            Clock(m, r) = Clock(m, c[1]) /\ Takes(m, r, c[i - 1])}
  BY <1>2 DEF Forwarding
<1> HIDE DEF R
<1>6. \A r : r \in Followers(m, t) <=> r \in Forwarding(m, c, i)
  BY <1>3, <1>4, <1>5
<1>7. Followers(m, t) = Forwarding(m, c, i)
  BY <1>6
<1> QED  BY <1>7 DEF t

\* The synchronizers are the chains that the walk could have made from a clean first stage.
LEMMA SynchronizerWalked ==
    ASSUME NEW m, NEW src, NEW c \in Seq(Registers(m)), c # <<>>, src # c[1]
    PROVE  Synchronizer(m, src, c) <=> Walked(m, c) /\ IsCleanStage(m, c[1], src)
<1>1. \A i \in 2 .. Len(c) : Followers(m, SubSeq(c, 1, i - 1)) = Forwarding(m, c, i)
  BY FollowersForward
<1>2. IsInjective(c) <=> \A i, j \in DOMAIN c : c[i] = c[j] => i = j
  BY DEF IsInjective
<1>3. IsCleanStage(m, c[1], src) <=> Takes(m, c[1], src)
  BY CleanTakes
<1>4. Walked(m, c) <=> /\ \A i, j \in DOMAIN c : c[i] = c[j] => i = j
                       /\ \A i \in 2 .. Len(c) : Forwarding(m, c, i) = {c[i]}
  BY <1>1 DEF Walked
<1> QED  BY <1>2, <1>3, <1>4, SynchronizerStages

\* The synchronizers of a crossing and their lengths.
SynchronizersOf(m, src, dst) ==
    {s \in UNION {[1..n -> Registers(m)] : n \in 2..Cardinality(Registers(m))} :
        s[1] = dst /\ Synchronizer(m, src, s)}

LEMMA SynchronizersAre ==
    ASSUME NEW m \in CrossingModules, NEW src, NEW dst, src # dst, NEW s
    PROVE  s \in SynchronizersOf(m, src, dst) <=>
              Walked(m, s) /\ s[1] = dst /\ IsCleanStage(m, dst, src) /\ Len(s) >= 2
<1> DEFINE R == Registers(m)
           total == Cardinality(R)
<1>1. total \in Nat
  BY RegistersFinite
<1>2. ASSUME s \in SynchronizersOf(m, src, dst)
      PROVE  Walked(m, s) /\ s[1] = dst /\ IsCleanStage(m, dst, src) /\ Len(s) >= 2
  <2>1. /\ s \in UNION {[1..n -> Registers(m)] : n \in 2..Cardinality(Registers(m))}
        /\ s[1] = dst /\ Synchronizer(m, src, s)
    BY <1>2 DEF SynchronizersOf
  <2>2. PICK n \in 2 .. total : s \in [1 .. n -> R]
    BY <2>1
  <2>3. n \in Nat /\ n >= 2
    BY <1>1
  <2> HIDE DEF R, total
  <2>4. s \in Seq(R) /\ Len(s) = n /\ s # <<>>
    BY <2>2, <2>3
  <2> QED  BY <2>1, <2>3, <2>4, SynchronizerWalked DEF R
<1>3. ASSUME Walked(m, s), s[1] = dst, IsCleanStage(m, dst, src), Len(s) >= 2
      PROVE  s \in SynchronizersOf(m, src, dst)
  <2>1. s \in Seq(R) /\ s # <<>>
    BY <1>3 DEF Walked
  <2>2. Synchronizer(m, src, s)
    BY <1>3, <2>1, SynchronizerWalked
  <2>3. Len(s) \in 1 .. total
    BY <1>3, WalkedLength
  <2>4. Len(s) \in 2 .. total /\ s \in [1 .. Len(s) -> R]
    BY <1>1, <1>3, <2>1, <2>3
  <2>5. s \in UNION {[1..n -> R] : n \in 2 .. total}
    <3> HIDE DEF R, total
    <3> QED  BY <2>4
  <2> QED  BY <1>3, <2>2, <2>5 DEF SynchronizersOf
<1> QED  BY <1>2, <1>3

\* A walk from the same register is no longer than the one that ended.
LEMMA WalkLongest ==
    ASSUME NEW m \in CrossingModules, NEW r \in Registers(m), NEW s, Walked(m, s), s[1] = r
    PROVE  Len(s) <= Len(SyncChain(m, r))
<1> DEFINE c == SyncChain(m, r)
           R == Registers(m)
<1>1. Walked(m, c) /\ c[1] = r /\ Cardinality(Followers(m, c)) # 1
  BY WalkEnds
<1> HIDE DEF c
<1>2. c \in Seq(R) /\ s \in Seq(R) /\ Len(c) \in Nat /\ Len(s) \in Nat /\ Len(c) # 0
  BY <1>1, EmptySeq DEF Walked
<1>3. SUFFICES ASSUME Len(s) > Len(c) PROVE FALSE
  BY <1>2 DEF c
<1>4. \A i \in 1 .. Len(c) : c[i] = s[i]
  BY <1>1, <1>2, <1>3, WalkedAgree
<1> DEFINE k == Len(c)
           t == SubSeq(s, 1, k)
<1>5. k \in 1 .. Len(s) /\ k + 1 \in 2 .. Len(s) /\ (k + 1) - 1 = k
  BY <1>2, <1>3
<1>6. t \in Seq(R) /\ Len(t) = k /\ \A i \in 1 .. k : t[i] = s[i]
  <2> HIDE DEF k
  <2> QED  BY <1>2, <1>5, FirstStages
<1>7. t = c
  <2> HIDE DEF t
  <2>1. \A i \in 1 .. Len(t) : t[i] = c[i]
    BY <1>4, <1>6
  <2> QED  BY <1>2, <1>6, <2>1, SeqEqual
<1>8. Followers(m, SubSeq(s, 1, (k + 1) - 1)) = {s[k + 1]}
  <2> HIDE DEF k
  <2> QED  BY <1>5 DEF Walked
<1>9. Followers(m, c) = {s[k + 1]}
  <2>1. SubSeq(s, 1, (k + 1) - 1) = t
    BY <1>5
  <2> QED  BY <1>7, <1>8, <2>1
<1> HIDE DEF k, t
<1> QED  BY <1>1, <1>9, FS_Singleton

\* The depth that a crossing is given is the length of its longest synchronizer.
LEMMA LongestSynchronizer ==
    ASSUME NEW m \in CrossingModules, NEW dst \in Registers(m), NEW src, src # dst
    PROVE  LET depth == SyncChainDepth(m, dst, src) IN
           (IF depth >= 2 THEN depth ELSE 0) =
               Max({0} \cup {Len(s) : s \in SynchronizersOf(m, src, dst)})
<1> DEFINE depth == SyncChainDepth(m, dst, src)
           chains == SynchronizersOf(m, src, dst)
           L == {0} \cup {Len(s) : s \in chains}
           total == Cardinality(Registers(m))
           c == SyncChain(m, dst)
<1>1. \A s \in chains : Walked(m, s) /\ s[1] = dst /\ IsCleanStage(m, dst, src) /\ Len(s) >= 2
  BY SynchronizersAre
<1>2. Walked(m, c) /\ c[1] = dst
  BY WalkEnds
<1>3. total \in Nat /\ Len(c) \in 1 .. total
  BY <1>2, RegistersFinite, WalkedLength
<1>4. \A s \in chains : Len(s) \in 2 .. total /\ Len(s) <= Len(c)
  <2> TAKE s \in chains
  <2>1. Walked(m, s) /\ s[1] = dst /\ Len(s) >= 2
    BY <1>1
  <2>2. Len(s) \in 1 .. total
    BY <2>1, WalkedLength
  <2>3. Len(s) <= Len(c)
    BY <2>1, WalkLongest
  <2> QED  BY <1>3, <2>1, <2>2, <2>3
<1>5. Len(c) >= 2 /\ IsCleanStage(m, dst, src) => c \in chains
  BY <1>2, SynchronizersAre
<1>6. depth = IF IsCleanStage(m, dst, src) THEN Len(c)
              ELSE IF src \in Reads(m, dst) THEN 1 ELSE 0
  BY DEF SyncChainDepth
<1> HIDE DEF c, chains, depth, total
<1>7. L \in SUBSET Nat /\ L # {} /\ IsFiniteSet(L)
  <2>1. L \subseteq 0 .. total
    BY <1>3, <1>4
  <2> HIDE DEF L
  <2>2. IsFiniteSet(0 .. total) /\ L \in SUBSET (0 .. total)
    BY <1>3, <2>1, FS_Interval
  <2>3. L # {}
    BY DEF L
  <2>4. \A x \in 0 .. total : x \in Nat
    BY <1>3
  <2>5. L \in SUBSET Nat
    BY <2>2, <2>4
  <2>6. IsFiniteSet(L)
    BY <2>2, FS_Subset
  <2> QED  BY <2>3, <2>5, <2>6
<1>8. Max(L) \in L /\ \A y \in L : y <= Max(L)
  <2> HIDE DEF L
  <2> QED  BY <1>7, MaxOfSome
<1>9. (IF depth >= 2 THEN depth ELSE 0) = Max(L)
  <2>1. CASE IsCleanStage(m, dst, src) /\ Len(c) >= 2
    <3>1. Len(c) \in L
      BY <1>5, <2>1
    <3>2. \A y \in L : y <= Len(c)
      BY <1>3, <1>4
    <3>3. Max(L) = Len(c)
      <4> HIDE DEF L
      <4>1. Max(L) \in Nat /\ Len(c) \in Nat
        <5>1. Max(L) \in Nat
          BY <1>7, <1>8
        <5>2. Len(c) \in Nat
          BY <1>3
        <5> QED  BY <5>1, <5>2
      <4>2. Max(L) <= Len(c) /\ Len(c) <= Max(L)
        BY <1>8, <3>1, <3>2
      <4> QED  BY <4>1, <4>2
    <3> QED  BY <1>6, <2>1, <3>3
  <2>2. CASE ~ (IsCleanStage(m, dst, src) /\ Len(c) >= 2)
    <3>1. chains = {}
      BY <1>1, <1>3, <1>4, <2>2
    <3>2. L = {0}
      BY <3>1
    <3>3. Max(L) = 0
      <4> HIDE DEF L
      <4> QED  BY <1>8, <3>2
    <3>4. ~ (depth >= 2)
      BY <1>3, <1>6, <2>2
    <3> QED  BY <3>3, <3>4
  <2> QED  BY <2>1, <2>2
<1> QED  BY <1>9 DEF depth, chains

\* A crossing without evidence scores 65 or more.
LEMMA UnsynchronizedScore ==
    ASSUME NEW m, NEW kind, NEW src, NEW dst
    PROVE  Severity(RiskScore(m, kind, "none_found", src, dst)) \in {"medium", "high"}
<1> DEFINE if(b, n) == IF b THEN n ELSE 0
           score == 40 + if(kind = "rdc", 10)
                       + if("none_found" = "none_found", 25)
                       - if("none_found" \in {"two_ff_candidate", "multi_ff_candidate"}, 15)
                       - if("none_found" = "glossary_cell", 20)
                       + if(m.width[src] > 1, 20)
                       + if(src \in SlicedReads(m, dst) \/ CombNeighbors(m, dst), 10)
                       + if(0 \in {m.width[src], m.width[dst]}, 5)
           capped == Min({100, score})
           risk == Max({5, capped})
<1>1. RiskScore(m, kind, "none_found", src, dst) = risk
  BY DEF RiskScore
<1>2. score \in Nat /\ score >= 65
  <2>1. \A b, n : n \in Nat => if(b, n) \in Nat
    OBVIOUS
  <2>2. /\ if(kind = "rdc", 10) \in Nat /\ if(m.width[src] > 1, 20) \in Nat
        /\ if(src \in SlicedReads(m, dst) \/ CombNeighbors(m, dst), 10) \in Nat
        /\ if(0 \in {m.width[src], m.width[dst]}, 5) \in Nat
    BY <2>1
  <2>3. /\ if("none_found" = "none_found", 25) = 25
        /\ if("none_found" \in {"two_ff_candidate", "multi_ff_candidate"}, 15) = 0
        /\ if("none_found" = "glossary_cell", 20) = 0
    OBVIOUS
  <2> HIDE DEF if
  <2> QED  BY <2>2, <2>3
<1> HIDE DEF score
<1>3. capped \in {100, score} /\ capped \in Nat /\ capped >= 65
  <2>1. {100, score} \in SUBSET Nat /\ {100, score} # {}
    BY <1>2
  <2>2. capped \in {100, score}
    BY <2>1, MinOfSome
  <2> HIDE DEF capped
  <2> QED  BY <1>2, <2>2
<1> HIDE DEF capped
<1>4. risk \in Nat /\ risk >= 65
  <2>1. {5, capped} \in SUBSET Nat /\ {5, capped} # {} /\ IsFiniteSet({5, capped})
    <3>1. {5, capped} \in SUBSET Nat /\ {5, capped} # {}
      BY <1>3
    <3>2. IsFiniteSet({5}) /\ IsFiniteSet({capped})
      BY FS_Singleton
    <3>3. IsFiniteSet({5} \cup {capped}) /\ {5, capped} = {5} \cup {capped}
      BY <3>2, FS_Union
    <3> QED  BY <3>1, <3>3
  <2>2. risk \in {5, capped} /\ capped <= risk
    BY <2>1, MaxOfSome
  <2> HIDE DEF risk
  <2> QED  BY <1>3, <2>2
<1> HIDE DEF risk
<1> QED  BY <1>1, <1>4 DEF Severity

\* A crossing of a module is of two registers, and what it says of synchronizers is there.
LEMMA CrossingReal ==
    ASSUME NEW m \in CrossingModules, NEW resets, NEW c \in Crossings(m, resets)
    PROVE  /\ c.kind = "cdc" /\ c.sync # "glossary_cell" =>
                c.depth = Max({0} \cup {Len(s) : s \in SynchronizersOf(m, c.src, c.dst)})
           /\ c.depth = 0 => c.severity \in {"medium", "high"}
<1>1. PICK src \in Registers(m), dst \in Registers(m) :
          /\ src \in Reads(m, dst)
          /\ c = MakeCrossing(m, CrossingKind(m, resets, src, dst), src, dst)
  <2>1. PICK p \in Registers(m) \X Registers(m) :
            /\ p[1] \in Reads(m, p[2])
            /\ c = MakeCrossing(m, CrossingKind(m, resets, p[1], p[2]), p[1], p[2])
    BY DEF Crossings
  <2>2. p[1] \in Registers(m) /\ p[2] \in Registers(m)
    BY <2>1
  <2> QED  BY <2>1, <2>2
<1> DEFINE kind == CrossingKind(m, resets, src, dst)
           e == Evidence(m, kind, src, dst)
           depth == SyncChainDepth(m, dst, src)
<1>2. src # dst
  BY <1>1 DEF Reads
<1>3. /\ c.kind = kind /\ c.src = src /\ c.dst = dst /\ c.sync = e.sync /\ c.depth = e.depth
      /\ c.severity = Severity(RiskScore(m, kind, e.sync, src, dst))
  <2> HIDE DEF kind
  <2> QED  BY <1>1 DEF MakeCrossing, kind
<1>4. (IF depth >= 2 THEN depth ELSE 0) =
          Max({0} \cup {Len(s) : s \in SynchronizersOf(m, src, dst)})
  BY <1>2, LongestSynchronizer
<1>5. e = IF dst \in DOMAIN m.cells THEN [sync |-> "glossary_cell", depth |-> m.cells[dst]]
          ELSE IF kind = "cdc" /\ depth >= 2
            THEN [sync |-> IF depth = 2 THEN "two_ff_candidate" ELSE "multi_ff_candidate",
                  depth |-> depth]
          ELSE [sync |-> "none_found", depth |-> 0]
  <2> HIDE DEF kind
  <2> QED  BY DEF Evidence
<1>6. dst \in DOMAIN m.cells => m.cells[dst] \in Nat \ {0}
  BY CrossingAssumption DEF CrossingAssumption
<1> HIDE DEF kind, e, depth
<1>7. ASSUME c.kind = "cdc", c.sync # "glossary_cell"
      PROVE  e.depth = IF depth >= 2 THEN depth ELSE 0
  <2>1. dst \notin DOMAIN m.cells
    BY <1>3, <1>5, <1>7
  <2> QED  BY <1>3, <1>5, <1>7, <2>1
<1>8. ASSUME c.depth = 0 PROVE c.severity \in {"medium", "high"}
  <2>1. dst \notin DOMAIN m.cells
    BY <1>3, <1>5, <1>6, <1>8
  <2>2. ~ (kind = "cdc" /\ depth >= 2)
    <3> SUFFICES ASSUME kind = "cdc", depth >= 2 PROVE FALSE
      OBVIOUS
    <3>1. e.depth = depth
      BY <1>5, <2>1
    <3>2. depth = 0 /\ depth >= 2
      BY <1>3, <1>8, <3>1
    <3>3. 0 >= 2
      BY <3>2
    <3> QED  BY <3>3
  <2>3. e.sync = "none_found"
    BY <1>5, <2>1, <2>2
  <2> QED  BY <1>3, <2>3, UnsynchronizedScore
<1> QED  BY <1>3, <1>4, <1>7, <1>8

\* The analysis of one module: with the choice of some resets, its crossings.
CrossingsInv ==
    tool = "cdc-rdc-triage" =>
        \E m \in CrossingModules :
            /\ input = m
            /\ reports = {} \/ \E resets \in ResetChoices(m) :
                  reports = {[resets |-> resets, crossings |-> Crossings(m, resets),
                              summary |-> TriageSummary(Crossings(m, resets))]}

\* A report is of the module that was given, with a reset of its own for every procedure.
LEMMA CrossingsInvariant == CrossingsSpec => []CrossingsInv
<1>1. CrossingsInit => CrossingsInv
  BY DEF CrossingsInit, CrossingsInv, Called
<1>2. CrossingsInv /\ [Triage]_passVars => CrossingsInv'
  <2> SUFFICES ASSUME CrossingsInv, [Triage]_passVars PROVE CrossingsInv'
    OBVIOUS
  <2>1. CASE Triage
    <3>1. tool = "cdc-rdc-triage"
      BY <2>1 DEF Triage, Computing
    <3>2. PICK m \in CrossingModules : input = m
      BY <3>1 DEF CrossingsInv
    <3>3. PICK resets \in ResetChoices(input) :
              Reports([resets |-> resets, crossings |-> Crossings(input, resets),
                       summary |-> TriageSummary(Crossings(input, resets))])
      BY <2>1 DEF Triage
    <3>4. input' = m /\ resets \in ResetChoices(m)
          /\ reports' = {[resets |-> resets, crossings |-> Crossings(m, resets),
                          summary |-> TriageSummary(Crossings(m, resets))]}
      BY <3>2, <3>3 DEF Reports
    <3> QED  BY <3>4 DEF CrossingsInv
  <2>2. CASE UNCHANGED passVars
    BY <2>2 DEF CrossingsInv, passVars
  <2> QED  BY <2>1, <2>2
<1> QED  BY <1>1, <1>2, PTL DEF CrossingsSpec

\* For every module and every choice of its resets: the depth of a crossing of clocks is that
\* of its longest chain of synchronizing flops, and no crossing without one is ranked low.
THEOREM SynchronizersRealAlways == CrossingsSpec => []SynchronizersReal
<1>1. CrossingsInv => SynchronizersReal
  <2> SUFFICES ASSUME CrossingsInv, Reported("cdc-rdc-triage"), NEW c \in Report.crossings
               PROVE  /\ c.kind = "cdc" /\ c.sync # "glossary_cell" =>
                            c.depth = Max({0} \cup {Len(s) : s \in SynchronizersOf(input, c.src, c.dst)})
                      /\ c.depth = 0 => c.severity \in {"medium", "high"}
    BY DEF SynchronizersReal, SynchronizersOf
  <2>1. tool = "cdc-rdc-triage" /\ reports # {}
    BY DEF Reported
  <2>2. PICK m \in CrossingModules : /\ input = m
            /\ \E resets \in ResetChoices(m) :
                  reports = {[resets |-> resets, crossings |-> Crossings(m, resets),
                              summary |-> TriageSummary(Crossings(m, resets))]}
    BY <2>1 DEF CrossingsInv
  <2>3. PICK resets : reports = {[resets |-> resets, crossings |-> Crossings(m, resets),
                                  summary |-> TriageSummary(Crossings(m, resets))]}
    BY <2>2
  <2> DEFINE report == [resets |-> resets, crossings |-> Crossings(m, resets),
                        summary |-> TriageSummary(Crossings(m, resets))]
  <2>4. Report.crossings = Crossings(m, resets)
    <3>1. report.crossings = Crossings(m, resets)
      OBVIOUS
    <3>2. reports = {report}
      BY <2>3
    <3> HIDE DEF report
    <3>3. Report = report
      BY <3>2 DEF Report
    <3> QED  BY <3>1, <3>3
  <2>5. c \in Crossings(m, resets)
    BY <2>4
  <2> QED  BY <2>2, <2>5, CrossingReal
<1> QED  BY <1>1, CrossingsInvariant, PTL

=============================================================================
