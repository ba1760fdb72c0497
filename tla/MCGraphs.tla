------------------------------- MODULE MCGraphs -------------------------------
(***************************************************************************)
(* Inputs for TLC of the cone of influence of formal-flow-scout and of the *)
(* knowledge graph.                                                        *)
(***************************************************************************)
EXTENDS ConeOfInfluence, KnowledgeGraph

\* Every graph of data edges on N nodes without self-loops, and with one control
\* edge or none besides.
MCControlEdges == {{}, {<<0, 1>>}, {<<1, 2>>}}
MCDataPairs    == {e \in Nodes \X Nodes : e[1] # e[2]}
MCDesigns ==
    {[e \in Nodes \X Nodes |->
        (IF e \in data THEN {"data"} ELSE {})
        \cup (IF e \in control THEN {"control"} ELSE {})] :
        data \in SUBSET MCDataPairs, control \in MCControlEdges}
MCNodeKinds == {[v \in Nodes |-> IF v = 2 THEN k ELSE "data"] : k \in NodeKind}
MCModules   == {[v \in Nodes |-> IF v = 1 THEN "child" ELSE "top"]}

\* Signals that resolve by their name, by a unique suffix, or not at all.
MCExact(v) == [exact |-> {v}, suffix |-> {v}]
MCPropertySpecs == {{MCExact(0)},
                    {MCExact(2), [exact |-> {}, suffix |-> {0, 1}]},
                    {MCExact(0), [exact |-> {}, suffix |-> {1}]}}

\* Two modules with an interface of the same name, a requirement that only
\* properties and tests name, and links to things that another file brings.  The
\* properties and the coverage come in two versions: a property is gone, one lost a
\* requirement, a hole is closed, a covered bin is a hole again.
MCFiles == {"rtl", "sva", "plan", "coverage", "runs", "evidence"}
MCArtifact ==
  [rtl |-> <<[kind |-> "rtl", content |->
     <<[name |-> "fifo", resets |-> <<"por">>, interfaces |-> <<"wr">>,
        signals |-> <<[name |-> "full", interface |-> "wr", reset |-> "por"]>>],
       [name |-> "arb", resets |-> <<>>, interfaces |-> <<"wr">>,
        signals |-> <<>>]>>]>>,
   sva |-> <<[kind |-> "sva", content |->
     <<[id |-> "P1", module |-> "fifo", requirements |-> <<"R1", "R2">>,
        resets |-> <<"por">>, interfaces |-> <<"wr">>],
       [id |-> "P2", module |-> "", requirements |-> <<>>,
        resets |-> <<>>, interfaces |-> <<>>]>>],
     [kind |-> "sva", content |->
     <<[id |-> "P1", module |-> "fifo", requirements |-> <<"R1">>,
        resets |-> <<>>, interfaces |-> <<"wr">>]>>]>>,
   plan |-> <<[kind |-> "testplan", content |->
     [requirements |-> <<"R1", "R3">>,
      tests |-> <<[id |-> "T1", requirements |-> <<"R1", "R2">>, bins |-> <<"B1">>]>>]]>>,
   coverage |-> <<[kind |-> "coverage", content |->
     <<[id |-> "B1", hits |-> 0, goal |-> 1, module |-> "fifo", interface |-> "wr"],
       [id |-> "B2", hits |-> 0, goal |-> 1, module |-> "", interface |-> ""],
       [id |-> "B3", hits |-> 1, goal |-> 1, module |-> "", interface |-> ""]>>],
     [kind |-> "coverage", content |->
     <<[id |-> "B2", hits |-> 1, goal |-> 1, module |-> "", interface |-> ""],
       [id |-> "B3", hits |-> 0, goal |-> 1, module |-> "", interface |-> ""]>>]>>,
   runs |-> <<[kind |-> "runledger", content |->
     <<[id |-> "N1", failures |->
          <<[id |-> "F1", status |-> "FAIL", assertion |-> "P1", test |-> "",
             interfaces |-> <<<<"fifo", "wr">>>>, waiver |-> "", bug |-> "G1"],
            [id |-> "F2", status |-> "TIMEOUT", assertion |-> "", test |-> "T1",
             interfaces |-> <<<<"arb", "wr">>>>, waiver |-> "W1", bug |-> ""]>>]>>]>>,
   evidence |-> <<[kind |-> "evidence", content |->
     <<[id |-> "C1", benchmarks |-> <<"X">>], [id |-> "C2", benchmarks |-> <<>>]>>]>>]

ConeSleeps ==
    /\ kinds = [e \in Nodes \X Nodes |-> {}] /\ seeds = {0}
    /\ nodeKind[2] = "data"

=============================================================================
