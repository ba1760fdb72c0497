------------------------------ MODULE MCProperties ------------------------------
(***************************************************************************)
(* Inputs for TLC of the tools that read or write properties: the hygiene  *)
(* of assumptions, the checks of register maps, the review of assertions   *)
(* and the contracts of protocols.                                         *)
(***************************************************************************)
EXTENDS ConstraintHygiene, RegisterChecks, AssertionReview,
        ProtocolContract, SvaIntent, SecurityProperties

\* Two assumptions of up to three literals and a check, with and without a manifest.
MCLiteral(signal, form, value) == [signal |-> signal, form |-> form, value |-> value]
MCDirective(kind, literals, operators) ==
    [kind |-> kind, literals |-> literals, operators |-> operators]
MCLiterals ==
    {MCLiteral("a", form, 0) : form \in {"is", "not", "other"}}
    \cup {MCLiteral("b", "equals", v) : v \in {0, 1, 2, -1}} \cup {MCLiteral("b", "is", 0)}
MCAssumptions ==
    {MCDirective("assume", <<l>>, <<>>) : l \in MCLiterals}
    \cup {MCDirective("assume", <<k, l>>, <<o>>) :
            k \in MCLiterals, l \in MCLiterals, o \in {"&&", "||", "|->"}}
MCFirstAssumptions ==
    {MCDirective("assume", <<l, MCLiteral("b", "equals", v)>>, <<o>>) :
        l \in MCLiterals, v \in {0, 1}, o \in {"&&", "|->"}}
    \cup {MCDirective("assume", <<MCLiteral("b", "equals", 1), MCLiteral("a", "not", 0),
                                  MCLiteral("a", "is", 0)>>, <<first, second>>) :
            first \in {"||", "&&"}, second \in {"&&", "|->"}}
MCPorts(a, b) == [name |-> "top", ports |-> [p \in {"a", "b"} |-> IF p = "a" THEN a ELSE b],
                  registers |-> {"b"}, nets |-> {}]
MCManifests ==
    {[loaded |-> TRUE, top |-> "top", modules |-> <<MCPorts("input", b)>>] :
        b \in {"input", "inout"}}
    \cup {[loaded |-> TRUE, top |-> "top",
           modules |-> <<[name |-> "top", ports |-> [p \in {"a"} |-> "output"],
                          registers |-> {"b"}, nets |-> {"a"}]>>],
          [loaded |-> FALSE, top |-> "none", modules |-> <<>>]}
MCHygieneInput(one, other, manifest) ==
    [directives |-> <<one, other, MCDirective("assert", <<MCLiteral("a", "is", 0)>>, <<>>)>>,
     manifest |-> manifest]
MCHygieneInputs ==
    {MCHygieneInput(one, other, [loaded |-> FALSE, top |-> "none", modules |-> <<>>]) :
        one \in MCFirstAssumptions, other \in MCAssumptions}
    \cup {MCHygieneInput(one, MCDirective("assume", <<l>>, <<>>), manifest) :
            one \in MCFirstAssumptions, l \in MCLiterals, manifest \in MCManifests}

\* Three registers of one or two bytes at close addresses; one register of up to two fields,
\* from rows or a document, with or without symbols of the RTL.
MCNormalized == [n \in {"CTRL", "ctrl", "STAT", "r1", "r2", "r3"} |->
                    IF n \in {"CTRL", "ctrl"} THEN "ctrl" ELSE n]
MCOccursIn == {<<"en", "ctrl", "en">>, <<"en", "ctrl", "enable">>, <<"enable", "ctrl", "enable">>}
MCRegister(name, address, width, access, reset, fields) ==
    [name |-> name, address |-> address, width |-> width, access |-> access, reset |-> reset,
     fields |-> fields]
MCField(name, offset, width, access, reset) ==
    [name |-> name, offset |-> offset, width |-> width, access |-> access, reset |-> reset,
     interrupt |-> access \in {"RW", "W1C"}, effect |-> access = "WO", privileged |-> access = "RO"]
MCDocument(registers, unit, rtl) ==
    [format |-> "json", rows |-> <<>>, registers |-> registers, unit |-> unit, rtl |-> rtl]
MCAddressMaps ==
    {MCDocument(<<MCRegister("r1", a, v, "RW", {}, <<>>), MCRegister("r2", b, w, "RO", {}, <<>>),
                  MCRegister("r3", c, 16, "RESERVED", {}, <<>>)>>, unit, <<>>) :
        a \in 0 .. 2, b \in 0 .. 3, c \in 0 .. 3, v \in {8, 9, 24}, w \in {8, 16}, unit \in {1, 2}}
MCOneField(names, accesses) ==
    {MCField(n, o, w, access, reset) : n \in names, o \in 0 .. 1, w \in 1 .. 2,
        access \in accesses, reset \in {{}, {0}, {0, 1}}}
MCOtherField(accesses) == {MCField("enable", o, 1, access, reset) :
                              o \in 1 .. 2, access \in accesses, reset \in {{}, {0}}}
MCFieldMaps ==
    {MCDocument(<<MCRegister("ctrl", 0, 2, "RW", reset, <<f, g>>)>>, 1, <<>>) :
        reset \in {{}, {0}, {0, 1}, {2}}, f \in MCOneField({"en"}, {"RW"}), g \in MCOtherField({"RO"})}
    \cup {MCDocument(<<MCRegister("ctrl", 0, 2, access, {}, <<f, g>>)>>, 1, <<>>) :
            access \in {"RW", "RO"}, f \in MCOneField({"en", "EN"}, {"WO"}), g \in MCOtherField(AccessTypes)}
MCRow(register, field, address, access) ==
    [register |-> register, field |-> field, address |-> address, width |-> 8, access |-> access,
     reset |-> {0}]
MCSymbol(name, kind, width, reset, access) ==
    [name |-> name, kind |-> kind, width |-> width, reset |-> reset, access |-> access]
MCSymbols == {MCSymbol(n, kind, w, {{}}, {}) :
                 n \in {"CTRL", "ctrl"}, kind \in {"register", "signal"}, w \in {{}, {9}}}
MCTables ==
    {[format |-> "csv", registers |-> <<>>, unit |-> 2, rtl |-> rtl,
      rows |-> <<MCRow("ctrl", field, a, access), MCRow("STAT", {}, 1, "RO"),
                 MCRow("ctrl", {}, 1, "none")>>] :
        a \in 0 .. 1, access \in {"RW", "WO", "other"},
        field \in {{}, {MCField("en", 0, 1, "RW", {0})}, {MCField("en", 0, 1, "RW", {1})}},
        rtl \in {<<>>} \cup {<<s, t>> : s \in MCSymbols, t \in MCSymbols}}
MCTwins ==
    {MCDocument(<<MCRegister("ctrl", 0, 8, "RW", {}, <<f>>), MCRegister("ctrl", a, w, "RW", {}, g)>>,
                1, rtl) :
        f \in MCOneField({"en"}, {"RW"}), g \in {<<>>} \cup {<<h>> : h \in MCOneField({"en"}, {"RO"})},
        a \in 0 .. 1, w \in 8 .. 9, rtl \in {<<>>} \cup {<<t>> : t \in MCSymbols}}
MCRegisterInputs == MCAddressMaps \cup MCFieldMaps \cup MCTables \cup MCTwins

\* One property of every shape; one with a guard and a manifest; three statements that
\* may name each other, with a tag.
MCStatement(line, kind, style, antecedent, delay, consequent) ==
    [block |-> FALSE, refers |-> {}, name |-> {"req_ack"}, kind |-> kind, line |-> line,
     clock |-> {"clk"}, disable |-> {}, style |-> style, antecedent |-> antecedent,
     delay |-> delay, consequent |-> consequent, operators |-> {}, compares |-> {}]
MCReview(statements, tags, module) ==
    [statements |-> statements, tags |-> tags, module |-> module, requirements |-> {"R1"}]
MCAntecedents == {<<"a">>, <<"true">>, <<"false">>, <<"a", "b">>, <<"b", "false">>, <<"a", "b", "rst">>}
MCConsequents == {<<"a">>, <<"true">>, <<"false">>, <<"a", "b">>, <<"b", "a">>, <<"b", "a", "b">>, <<"true", "true">>}
MCShapes ==
    {MCStatement(1, kind, style, ant, delay, cons) :
        kind \in {"assert", "cover"}, style \in {"overlapping", "non_overlapping"},
        ant \in MCAntecedents, delay \in {"none", "next"}, cons \in MCConsequents}
    \cup {MCStatement(1, kind, "none", <<>>, delay, cons) :
            kind \in {"assert", "cover"}, delay \in {"none", "next"}, cons \in MCConsequents}
MCGuarded ==
    {[MCStatement(1, kind, "overlapping", <<"a">>, "none", <<"b">>) EXCEPT
          !.disable = {[signal |-> s, negated |-> n]}, !.compares = {[signal |-> "b", width |-> 2]},
          !.clock = c, !.operators = {"until"}] :
        kind \in {"assert", "assume"}, s \in {"rst", "a"}, n \in BOOLEAN, c \in {{}, {"clk"}}}
MCModules ==
    {[ports |-> [s \in {"a", "rst"} |-> [direction |-> IF s = "a" THEN d ELSE "input", width |-> {}]],
      nets |-> [s \in nets |-> {2}], clocks |-> clocks, resets |-> [s \in resets |-> polarity]] :
        d \in {"input", "output"}, nets \in {{}, {"b"}, {"a", "b"}}, clocks \in {{"clk"}, {"clk", "a"}},
        resets \in {{}, {"rst"}, {"rst", "a"}}, polarity \in {"active_low", "active_high", "unknown"}}
MCNamed(line, block, refers, name, kind) ==
    [MCStatement(line, kind, "overlapping", <<"a">>, "none", <<"b">>) EXCEPT
        !.block = block, !.refers = refers, !.name = name]
MCUses ==
    {MCNamed(l, TRUE, {}, {n}, "assert") : l \in 1 .. 4, n \in {"p1", "req_ack"}}
    \cup {MCNamed(l, FALSE, {n}, {}, kind) : l \in 1 .. 4, n \in {"p1", "req_ack"}, kind \in {"assume", "cover"}}
    \cup {MCNamed(l, FALSE, {}, {}, kind) : l \in 1 .. 4, kind \in {"assert", "cover"}}
MCThree ==
    {<<u, v, w>> : u \in {u \in MCUses : u.line = 1}, v \in {u \in MCUses : u.line = 3},
                   w \in {u \in MCUses : u.line = 4}}
MCReviewInputs ==
    {MCReview(<<s>>, <<>>, {}) : s \in MCShapes}
    \cup {MCReview(<<s>>, <<[line |-> 1, requirement |-> r]>>, {m}) :
            s \in MCGuarded, m \in MCModules, r \in {"R1"}}
    \cup {MCReview(t, <<[line |-> 2, requirement |-> r]>>, {}) : t \in MCThree, r \in {"R1", "R2"}}

\* Signals have the names of the roles they play.  Who drives them, what is bound, the
\* bounds, and where the reset and its polarity come from all vary.
MCReset(signal, confidence, polarity) ==
    [signal |-> signal, confidence |-> confidence, polarity |-> polarity]
MCResetCases ==
    {[reset |-> r, polarity |-> p, resets |-> cs] :
        r \in {{}, {"rst"}}, p \in {{}, {"active_high"}},
        cs \in {<<>>, <<MCReset("rst", 1, "active_low")>>,
                <<MCReset("por", 1, "active_high"), MCReset("rst", 2, "active_low")>>,
                <<MCReset("rst", 1, "unknown"), MCReset("por", 1, "active_low")>>}}
MCBounds == {[depth |-> d, credits |-> d, low |-> l, high |-> h] :
                d \in {{}, {1}, {2}}, l \in {{}, {0}}, h \in {{}, {0}, {2}}}
MCBindings ==
    (UNION {{[protocol |-> p, bound |-> RequiredRoles[p] \cup o] : o \in SUBSET OptionalRoles[p]} :
              p \in DOMAIN RequiredRoles})
    \cup {[protocol |-> "fifo", bound |-> {"push"}], [protocol |-> "credit", bound |-> {"send", "credit_return", "data"}]}
MCDrive(first, second) ==
    [s \in Signals |-> CASE s \in {"valid", "req", "push", "irq", "send"} -> first
                         [] s \in {"ready", "data", "grant", "pop", "source", "credit_return"} -> second
                         [] s \in {"full", "empty", "count", "clear", "credit_count", "reset"} -> "output"]
MCRequest(b, drive, case, bounds, clock, internal) ==
    [protocol |-> b.protocol, roles |-> [r \in b.bound |-> r], clock |-> clock,
     reset |-> case.reset, polarity |-> case.polarity, depth |-> bounds.depth, credits |-> bounds.credits,
     low |-> bounds.low, high |-> bounds.high,
     module |-> [ports |-> [s \in Signals \ internal |-> drive[s]], internal |-> internal \ {"req"},
                 clocks |-> <<>>, resets |-> case.resets]]
MCNoReset == [reset |-> {}, polarity |-> {}, resets |-> <<>>]
MCContractRequests ==
    {MCRequest(b, MCDrive("input", "output"), case, bounds, {"clk"}, {}) :
        b \in MCBindings, case \in {MCNoReset}, bounds \in MCBounds}
    \cup {MCRequest(b, MCDrive("output", "input"), case, bounds, {"clk"}, {}) :
            b \in MCBindings, case \in MCResetCases,
            bounds \in {[depth |-> {1}, credits |-> {}, low |-> {}, high |-> {}]}}
    \cup {MCRequest(b, MCDrive(first, second), MCNoReset, bounds, clock, internal) :
            b \in MCBindings, first \in {"input", "output", "inout"}, second \in {"input", "output"},
            bounds \in {[depth |-> {1}, credits |-> {1}, low |-> {1}, high |-> {1}]},
            clock \in {{}, {"clk"}}, internal \in {{}, {"valid", "req", "grant"}}}

\* Sentences with every pair of marker words, both phrases in several shapes, one or two
\* timing phrases; modules with one or two of everything, aliases and a glossary.
MCPhrase(shape, names) == [shape |-> shape, names |-> names]
MCSentence(words, trigger, consequent, timing, names) ==
    LET said == (UNION {Range(p.names) : p \in trigger \cup consequent}) \ Range(names)
    IN  [words |-> words, trigger |-> trigger, consequent |-> consequent, timing |-> timing,
         names |-> SetToSeq(said) \o names,
         whole |-> MCPhrase(IF trigger = {} THEN "is" ELSE "other", <<Last(names)>>)]
MCTiming(phrase, lo, hi) == [phrase |-> phrase, lo |-> lo, hi |-> hi]
MCTimings ==
    {{}, {MCTiming("within", 0, 2)}, {MCTiming("next", 1, 1)}, {MCTiming("after", 2, 2)},
     {MCTiming("range", 1, 2), MCTiming("after", 3, 3)}, {MCTiming("range", 2, 1)},
     {MCTiming("within", 0, 2), MCTiming("range", 2, 1)}}
MCWords == {"must", "must be reachable", "assume", "the input", "throughput", "eventually",
            "always", "overflow", "onehot", "reset", "stable", "stalled"}
MCIntentModule(name, ports, aliases, clocks, resets) ==
    [name |-> name, ports |-> ports, nets |-> {"gnt"}, registers |-> {"gnt", "ack"},
     aliases |-> aliases, clocks |-> clocks, resets |-> resets]
MCAliases ==
    {[gnt |-> a, ack |-> b] : a \in {{}, {"Req"}, {"assume"}, {"stalled", "stable", "onehot"}},
                              b \in {{}, {"Req", "input", "overflow"}}}
MCOnlyReset(signal, polarity) == <<[signal |-> signal, polarity |-> polarity]>>
MCTop(aliases, reset) == MCIntentModule("t", {"req", "rst", "rst_n"}, aliases, <<"clk">>, reset)
MCNamesById == <<"ack", "gnt", "req", "reset", "rst", "rst_n">>
MCStopNames == {"reset"}
MCSameButForCase == {<<"Req", "req">>, <<"Gnt", "gnt">>, <<"Gnt", "ack">>}
MCSides == {MCPhrase("is", <<"gnt">>), MCPhrase("zero", <<"Gnt">>), MCPhrase("other", <<"req", "gnt">>)}
MCTriggers == {{MCPhrase("is", <<"req">>)}, {MCPhrase("not", <<"Req">>)}, {MCPhrase("other", <<"req", "gnt">>)}}
MCIntentInputs ==
    {[sentences |-> <<MCSentence(words, t, c, timing, <<"req", "gnt">>)>>,
      modules |-> <<MCTop(aliases, MCOnlyReset("rst", "active_high"))>>, top |-> {}, glossary |-> <<>>] :
        words \in {{"must", w} : w \in MCWords} \cup {{"assume", "must be reachable"}, {"must", "stable", "stalled"}, {}},
        t \in {{}} \cup MCTriggers, c \in {{MCPhrase("is", <<"gnt">>)}, {MCPhrase("other", <<"req", "gnt">>)}, {}},
        timing \in {{}, {MCTiming("within", 0, 2)}}, aliases \in MCAliases}
    \cup {[sentences |-> <<MCSentence({"must"}, t, {c}, timing, <<"req", n>>),
                          MCSentence({"reset"}, {}, {}, {}, <<n>>)>>,
           modules |-> <<MCTop([gnt |-> {"Req"}], reset)>>, top |-> {"t"}, glossary |-> g] :
            t \in MCTriggers, c \in MCSides, timing \in MCTimings, n \in {"gnt", "Gnt"},
            reset \in {MCOnlyReset(r, p) : r \in {"rst", "rst_n"}, p \in {"unknown", "active_high"}},
            g \in {[Req |-> "ack"], [req |-> "rst_n"]}}
    \cup {[sentences |-> <<MCSentence({"must"}, {MCPhrase("is", <<"req">>)}, {MCPhrase("is", <<"gnt">>)}, {}, <<"req", "gnt">>)>>,
           modules |-> <<MCIntentModule("u", {}, <<>>, <<"clk">>, <<>>),
                         MCIntentModule("t", ports, <<>>, clocks, resets)>>, top |-> top, glossary |-> <<>>] :
            ports \in {{"req"}, {"req", "rst", "gnt"}}, clocks \in {<<>>, <<"clk">>, <<"clk", "clk2">>},
            resets \in {<<>>, MCOnlyReset("rst", "active_high"), MCOnlyReset("por", "active_high"),
                        MCOnlyReset("rst", "active_low") \o MCOnlyReset("por", "unknown")},
            top \in {{}, {"t"}, {"v"}}}
    \cup {[sentences |-> <<MCSentence({w}, {MCPhrase("is", <<"req">>)}, c, {}, <<n, "reset">>)>>,
           modules |-> <<MCIntentModule("t", {"req", "reset"}, [reset |-> {"init"}], <<"clk">>, <<>>)>>,
           top |-> {}, glossary |-> <<>>] :
            w \in {"must", "onehot", "reset"}, n \in {"init", "gnt"},
            c \in {{}, {MCPhrase("is", <<"reset">>)}, {MCPhrase("is", <<"gnt">>)}}}

\* Each category with signals that fit its keywords, in every selection and two orders; names
\* that fit two keywords, that only an alias finds, that two modules share, or with "cover".
MCKeywordsIn ==
    [grant |-> {"grant"}, access |-> {"access"}, access_grant |-> {"access", "grant"}, op |-> {"op"},
     priv_mode |-> {"priv", "mode"}, lock |-> {"lock"}, dbg_en |-> {"dbg_en", "dbg", "en"},
     fault |-> {"fault"}, halt |-> {"halt"}, recover |-> {"recover"}, err_out |-> {"err", "out"},
     key |-> {"key"}, en |-> {"en"}, dbg |-> {"dbg"}]
MCAliasPairs == {<<"en", "dbg_en">>, <<"dbg", "dbg_en">>}
MCNamesOfCategory ==
    [access_control |-> {"grant", "access", "access_grant"}, privilege_gating |-> {"op", "priv_mode", "en"},
     debug_lockout |-> {"lock", "dbg_en", "dbg"}, fault_response |-> {"fault", "halt", "recover"},
     error_containment |-> {"err_out", "fault", "halt"}, lockstep_mismatch |-> {"fault", "op", "dbg"},
     information_flow_adjacent |-> {"key", "err_out", "dbg"}]
MCSecurityModule(name, ports, registers, clocks) ==
    [name |-> name, ports |-> ports, nets |-> <<>>, registers |-> registers,
     parameters |-> <<>>, clocks |-> clocks]
MCRequirement(category, clauses, signals, prose, boundary) ==
    [category |-> category, clauses |-> clauses, signals |-> signals, prose |-> prose, boundary |-> boundary]
MCClauseMarks == {{}, {"safety"}, {"objective"}, {"assumption", "safety"}}
MCSecurityInputs ==
    UNION {{[requirements |-> <<MCRequirement(category, <<c, d>>, signals, prose, FALSE)>>,
             modules |-> <<MCSecurityModule("m", <<"grant", "access", "op", "lock", "fault", "key">>, regs, clocks),
                           MCSecurityModule("n", ports, <<"priv_mode", "dbg_en">>, {})>>] :
              c \in MCClauseMarks, d \in {{"objective", "safety"}},
              signals \in {SetToSeq(S) : S \in SUBSET MCNamesOfCategory[category]},
              prose \in {<<>>, SetToSeq(MCNamesOfCategory[category])},
              regs \in {<<"halt">>, <<"recover", "access_grant">>},
              clocks \in {{"clk"}, {}},
              ports \in {<<"err_out">>, <<"fault", "err_out", "halt">>}} : category \in DOMAIN MCNamesOfCategory}

=============================================================================
