------------------------------- MODULE MCDesigns -------------------------------
(***************************************************************************)
(* Inputs for TLC of the tools that read a design and what is said of it:  *)
(* clock and reset domains, and the graph of what depends on what.         *)
(***************************************************************************)
EXTENDS DomainCrossings, ResetIntent, DependencyGraph

\* A source and three registers on either of two clocks, each reading one or two of
\* them or an input; y takes a slice or the whole, or is driven by a cell of the glossary.
MCFlops == {"s", "x", "y", "z"}
MCReads == [{"x", "y", "z"} ->
               {{"s"}, {"x"}, {"y"}, {"z"}, {"s", "x"}, {"y", "in"}}]
MCFlopProc(p, onB, reads, slice) ==
    [kind |-> "always_ff", conditions |-> <<>>,
     edges |-> IF p \in onB THEN <<"rst", "clkb">>
               ELSE IF p = "s" THEN <<"por", "rst", "clka">> ELSE <<"rst", "clka">>,
     assignments |->
       {[lhs |-> p, nonblocking |-> TRUE,
         reads |-> IF p = "s" THEN {"s"} ELSE reads[p],
         sliced |-> IF p = "y" /\ slice THEN reads[p] \ {"x"} ELSE {}]}]
MCFlopModule(onB, reads, slice, cells) ==
    [procs |-> [p \in MCFlops |-> MCFlopProc(p, onB, reads, slice)],
     registers |-> [f \in MCFlops |-> f],
     clocks |-> {"clka", "clkb"}, resets |-> {"rst", "por"}, cells |-> cells,
     width |-> [f \in MCFlops |-> IF f = "s" /\ slice THEN 8 ELSE 1]]
MCCrossingModules ==
    {MCFlopModule(onB, reads, slice, <<>>) :
        onB \in SUBSET {"x", "y", "z"}, reads \in MCReads, slice \in BOOLEAN}
    \cup {MCFlopModule({"y", "z"}, reads, FALSE, [c \in {"y"} |-> 1]) : reads \in MCReads}

\* Two blocks that drive two registers, with an asynchronous, a synchronous or no
\* reset, guards of either form and a signal declared a reset of unknown polarity.
MCResetBlocks(reg, other, rst) ==
    LET set(r, v) == [lhs |-> r, value |-> v, reads |-> {}]
        take(r, s) == [lhs |-> r, value |-> "", reads |-> {s}]
        clock == [signal |-> "clk", edge |-> "posedge"]
    IN  {[sequential |-> TRUE, edges |-> edges, conditions |-> <<rst>>,
          guard |-> guard, branch |-> branch, rest |-> <<take(reg, other)>>] :
            edges \in {<<clock>>, <<clock, [signal |-> rst, edge |-> "negedge"]>>},
            guard \in {"", "negated", "bare", "other"},
            branch \in {<<set(reg, "0")>>, <<set(reg, "0"), set(other, "1")>>,
                        <<take(reg, other)>>}}
MCResetModules ==
    {[order |-> [s \in {"rst_n", "por", "en"} |->
                   IF s = "en" THEN 1 ELSE IF s = "por" THEN 2 ELSE 3],
      module |-> [from |-> from, blocks |-> <<a, b>>, declared |-> declared]] :
        from \in {"text", "manifest"},
        a \in MCResetBlocks("a", "b", "rst_n"),
        b \in MCResetBlocks("b", "a", "por") \cup MCResetBlocks("b", "a", "rst_n"),
        declared \in {{}, {[signal |-> "en", polarity |-> "unknown"]}}}

\* Two statements of a procedure: behind a condition, in the same block as the other, or in
\* the arm of a case, with one target or two; a condition may have brackets in it or begin
\* with a reset.
MCIf(names, first) == [is |-> "if", inner |-> FALSE, read |-> names, behind |-> {}, first |-> first]
MCInner == [is |-> "if", inner |-> TRUE, read |-> {"en"}, behind |-> {"c"}, first |-> {}]
MCHeads == {
    [heads |-> <<>>, under |-> {}],
    [heads |-> <<MCIf({"rst"}, {"rst"})>>, under |-> {"rst"}],
    [heads |-> <<MCIf({"en", "c"}, {"en"})>>, under |-> {"en", "c"}],
    [heads |-> <<MCInner>>, under |-> {"en", "c"}],
    [heads |-> <<>>, under |-> {"en", "c"}],
    [heads |-> <<[is |-> "case", read |-> {"c"}, behind |-> {}], [is |-> "label", name |-> "A"]>>,
     under |-> {"c"}],
    [heads |-> <<[is |-> "label", name |-> "B"]>>, under |-> {"c"}]}
MCSet(h, targets, rhs) == [heads |-> h.heads, under |-> h.under, targets |-> targets, rhs |-> rhs]
MCBodies ==
    {b \in {<<MCSet(h, ts, {"d"}), MCSet(g, <<"q">>, rhs)>> :
               h \in MCHeads, g \in MCHeads, ts \in {<<"q">>, <<"p", "q">>},
               rhs \in {{}, {"d", "clk"}, {"rst"}}} :
        \A s \in ToSet(b) : s.under \subseteq GuardSignals(b) \cup BehindBrackets(b)}
MCProcedures ==
    {[is |-> "always", split |-> split, edges |-> edges, body |-> body] :
        split \in BOOLEAN, body \in MCBodies,
        edges \in {<<>>, <<"clk">>, <<"clk", "rst">>, <<"clk", "set", "rst">>}}
MCScoutModule(name, items) ==
    [name |-> name, items |-> items,
     ports |-> {[name |-> "d", dir |-> "input"], [name |-> "q", dir |-> "output"], [name |-> "io", dir |-> "inout"]}]

\* Two levels below the top, a module that is not there, and connections of every form.
MCPin(formal, names, plain) == [formal |-> formal, names |-> names, plain |-> plain]
MCPins == {<<MCPin({"d"}, <<"a">>, TRUE), MCPin({"q"}, <<"y">>, TRUE)>>,
           <<MCPin({"d"}, <<"a", "b">>, TRUE), MCPin({"io"}, <<"y">>, TRUE)>>,
           <<MCPin({"d"}, <<"a", "b">>, FALSE), MCPin({"x"}, <<"y">>, TRUE)>>,
           <<MCPin({}, <<"a">>, TRUE), MCPin({}, <<"y">>, TRUE)>>}
MCUse(module, name, pins, split) ==
    [is |-> "instance", module |-> module, name |-> name, connections |-> pins, split |-> split]
MCAssign(targets, rhs) == [is |-> "assign", targets |-> targets, rhs |-> rhs, split |-> FALSE]
MCScoutDesigns ==
    {[path |-> path, modules |-> <<MCScoutModule("top", <<p>>)>>] :
        path \in {"rtl", "manifest"}, p \in MCProcedures}
    \cup {[path |-> path, modules |-> <<
             MCScoutModule("top", <<MCUse("mid", "u1", pins, split), MCUse("mid", "u2", pins, FALSE),
                                    MCAssign(targets, {"y", "a"})>>),
             MCScoutModule("mid", <<MCUse(below, "u1", others, FALSE), MCAssign(<<"q">>, {"y"})>>),
             MCScoutModule("leaf", <<MCAssign(<<"q">>, {"d"})>>)>>] :
             path \in {"rtl", "manifest"}, split \in BOOLEAN, pins \in MCPins, others \in MCPins,
             below \in {"leaf", "absent"}, targets \in {<<"z">>, <<"z", "w">>}}

=============================================================================
