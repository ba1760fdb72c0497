------------------------------- MODULE RtlIntent -------------------------------
(***************************************************************************)
(* rtl-intent-ingestor: the built-in parser of a subset of Verilog, the    *)
(* scores of clocks and resets, and the hierarchy of the manifest.         *)
(*                                                                         *)
(* A file is a sequence of tokens and the parser a position in it; what it *)
(* takes from a statement and where the next one begins is decided by the  *)
(* tokens alone.  A text is a sequence of tokens.  Only the spans of what  *)
(* was not understood are kept of all source locations.  A bracket that is *)
(* closed but never opened in the connections of an instance is not among  *)
(* the inputs: the code does not return from it.                           *)
(***************************************************************************)
EXTENDS OnePass, Integers, FiniteSetsExt, SequencesExt

CONSTANTS
    RtlFiles,           \* [files, top]: sequences of modules, each a head and statements
    Numerals,           \* the tokens that are numbers
    ClockHints,         \* the identifiers with a hint of a clock in them
    ResetHints,         \* those with a hint of a reset
    LowHints            \* those with the prefix or suffix of an active-low reset

------------------------------------------------------------------------------
(* Tokens *)

Openers == {"(", "[", "{"}
Closers == {")", "]", "}"}
Operators == Openers \cup Closers
    \cup {"#", "@", ",", ";", ":", ".", "=", "<=", "==", "*", "+", "-", "~", "!", "&", "|", "tick"}

\* Keywords are identifiers, too.
IsIdent(w) == w \notin Operators \cup Numerals \cup {"EOF"}

Directions == {"input", "output", "inout"}
NetKeywords == {"wire", "reg", "logic"}
AlwaysKeywords == {"always", "always_ff", "always_comb", "always_latch"}
ModuleLevel == AlwaysKeywords \cup {"assign", "endmodule", "module", "initial", "generate", "function", "task"}
Unsupported == {"generate", "function", "task", "initial", "case", "casez", "casex", "typedef", "genvar", "integer"}
StmtKeywords == Directions \cup NetKeywords \cup AlwaysKeywords \cup Unsupported
    \cup {"assign", "parameter", "localparam", "endgenerate", "if", "else", "for", "begin", "end"}
NoSignals == {"if", "else", "for", "while", "case", "casez", "casex", "begin", "end",
              "posedge", "negedge", "or", "and", "not", "default", "repeat"}

After(t, p, w) == IF t[p] = w THEN p + 1 ELSE p

\* The first of some tokens at or behind a position; the end if there is none.
SkipTo(t, p, words) == Min({q \in p..Len(t) : t[q] \in words \cup {"EOF"}})
PastSemicolon(t, p) == After(t, SkipTo(t, p, {";", "endmodule"}), ";")

Depth(t, p, q, open, close) ==
    Cardinality({i \in p..q : t[i] \in open}) - Cardinality({i \in p..q : t[i] \in close})

\* Behind the bracket that closes the one at p.
PastBracket(t, p) ==
    LET open == {t[p]}
        close == {IF t[p] = "(" THEN ")" ELSE "]"}
        ends == {q \in p..Len(t) : Depth(t, p, q, open, close) = 0}
    IN  IF ends = {} THEN Len(t) ELSE Min(ends) + 1

\* Mutation: brackets are not counted.
ExprEndFlat(t, p, stop) == SkipTo(t, p, stop)

\* Where an expression ends: at a stop token, or a closing bracket, outside its brackets.
ExprEnd(t, p, stop) ==
    Min({q \in p..Len(t) : \/ t[q] = "EOF"
                           \/ t[q] \in stop \cup Closers /\ Depth(t, p, q - 1, Openers, Closers) = 0})

TextOf(t, p, q) == SubSeq(t, p, q - 1)

\* The beginning of a target: up to an index, a dot or the first blank of the joined text.
BaseSignal(lhs) ==
    LET Blank(i) == /\ lhs[i - 1] \notin Openers \cup {".", "~", "!"}
                    /\ lhs[i] \notin Closers \cup {",", ";"}
                    /\ ~(lhs[i] = "(" /\ IsIdent(lhs[i - 1]))
        ends == {i \in 2..Len(lhs) : lhs[i] \in {"[", "."} \/ Blank(i)}
    IN  IF ends = {} THEN lhs ELSE SubSeq(lhs, 1, Min(ends) - 1)

------------------------------------------------------------------------------
(* Declarations.  A parser of a construct gives the position behind it in "pos". *)

\* [msb:lsb] or [msb], if there is one: a set of at most one range.
RangeAt(t, p) ==
    LET colon == ExprEnd(t, p + 1, {":", "]"})
        close == IF t[colon] = ":" THEN ExprEnd(t, colon + 1, {"]"}) ELSE colon
        msb == TextOf(t, p + 1, colon)
    IN  IF t[p] # "[" THEN [range |-> {}, pos |-> p]
        ELSE [range |-> {<<msb, IF t[colon] = ":" /\ close > colon + 1
                                THEN TextOf(t, colon + 1, close) ELSE msb>>},
              pos |-> After(t, close, "]")]

\* What stands before the names: a kind, "signed", a range.
DeclaredAs(t, p) ==
    LET kind == {t[p]} \cap NetKeywords
        rest == RangeAt(t, After(t, IF kind = {} THEN p ELSE p + 1, "signed"))
    IN  [kind |-> kind, range |-> rest.range, pos |-> rest.pos]

\* A list is parsed item by item: the parser of an item is a step of a state with the
\* position in "pos".

Port(name, dir, d) == [name |-> name, dir |-> dir, kind |-> d.kind, range |-> d.range]

\* In the port list a direction, its kind and its range hold until the next direction; a
\* name before any is declared in the body.
PortItem(t, s) ==
    LET d == DeclaredAs(t, s.pos + 1)
        new == [s EXCEPT !.dir = {t[s.pos]}, !.as = d]
        Named(r, i) ==
            [r EXCEPT !.pos = After(t, i + 1, ","),
                      !.ports = IF r.dir = {} THEN @
                                ELSE Append(@, Port(t[i], CHOOSE dir \in r.dir : TRUE, r.as)),
                      !.bare = IF r.dir = {} THEN Append(@, t[i]) ELSE @]
    IN  IF t[s.pos] \in Directions
        THEN IF IsIdent(t[d.pos]) THEN Named(new, d.pos) ELSE [new EXCEPT !.pos = After(t, d.pos, ",")]
        ELSE IF IsIdent(t[s.pos]) THEN Named(s, s.pos) ELSE [s EXCEPT !.pos = @ + 1]

RECURSIVE PortItems(_, _)
PortItems(t, s) == IF t[s.pos] \in {")", "EOF"} THEN s ELSE PortItems(t, PortItem(t, s))

PortList(t, p) ==
    PortItems(t, [pos |-> p, dir |-> {}, as |-> DeclaredAs(t, p), ports |-> <<>>, bare |-> <<>>])

Parameter(name, default, local) == [name |-> name, default |-> default, local |-> local]

\* Names with or without a value, behind types and ranges; what stands between is skipped.
ParameterItem(t, s) ==
    LET p == s.pos
        last == ExprEnd(t, p + 2, {",", ")", ";"})
        Named(default, end) ==
            [s EXCEPT !.list = Append(@, Parameter(t[p], default, s.local)),
                      !.pos = After(t, end, ","), !.done = t[end] # ","]
    IN  IF t[p] = "[" THEN [s EXCEPT !.pos = PastBracket(t, p)]
        ELSE IF ~IsIdent(t[p]) THEN [s EXCEPT !.done = TRUE]
        ELSE IF t[p + 1] = "=" THEN Named(TextOf(t, p + 2, last), last)
        ELSE IF t[p + 1] \in {",", ";", ")"} THEN Named(<<>>, p + 1)
        ELSE [s EXCEPT !.pos = p + 1]

RECURSIVE ParameterItems(_, _)
ParameterItems(t, s) == IF s.done THEN s ELSE ParameterItems(t, ParameterItem(t, s))

ParameterDecl(t, p) ==
    ParameterItems(t, [pos |-> p + 1, local |-> t[p] = "localparam", list |-> <<>>, done |-> FALSE])

\* Behind "#(": declarations, or NAME = value without a keyword.
HeaderParameter(t, s) ==
    LET p == s.pos
        decl == ParameterDecl(t, p)
        value == ExprEnd(t, p + 2, {",", ")", ";"})
    IN  IF t[p] \in {"parameter", "localparam"}
        THEN [s EXCEPT !.pos = decl.pos, !.list = @ \o decl.list]
        ELSE IF IsIdent(t[p]) /\ t[p + 1] = "="
        THEN [s EXCEPT !.pos = value, !.list = Append(@, Parameter(t[p], TextOf(t, p + 2, value), FALSE))]
        ELSE [s EXCEPT !.pos = p + 1,
                       !.depth = CASE t[p] = "(" -> @ + 1 [] t[p] = ")" -> @ - 1 [] OTHER -> @]

RECURSIVE HeaderItems(_, _)
HeaderItems(t, s) == IF s.depth = 0 \/ t[s.pos] = "EOF" THEN s ELSE HeaderItems(t, HeaderParameter(t, s))

HeaderParameters(t, p) ==
    HeaderItems(t, [pos |-> p, depth |-> 1, list |-> <<>>])

\* "input [3:0] a, b;" in the body: a name of the header is completed, any other is a port.
PortName(t, s) ==
    LET p == s.pos
        Completed(port) == [port EXCEPT !.dir = s.dir,
                                        !.kind = IF s.as.kind = {} THEN @ ELSE s.as.kind,
                                        !.range = IF s.as.range = {} THEN @ ELSE s.as.range]
        known == {i \in DOMAIN s.ports : s.ports[i].name = t[p]}
    IN  [s EXCEPT !.pos = After(t, p + 1, ","), !.done = t[p + 1] # ",",
                  !.ports = IF known = {} THEN Append(@, Port(t[p], s.dir, s.as))
                            ELSE [@ EXCEPT ![Min(known)] = Completed(@)]]

RECURSIVE PortNamesOf(_, _)
PortNamesOf(t, s) == IF s.done \/ ~IsIdent(t[s.pos]) THEN s ELSE PortNamesOf(t, PortName(t, s))

PortDecl(t, p, ports) ==
    LET as == DeclaredAs(t, p + 1)
    IN  PortNamesOf(t, [pos |-> as.pos, dir |-> t[p], as |-> as, ports |-> ports,
                        nets |-> <<>>, done |-> FALSE])

\* "reg [3:0] q, mem [0:7];": a port gets the kind and the range it lacks, any other name is
\* a net, with its dimension behind the name.
NetName(t, s) ==
    LET p == s.pos
        known == {i \in DOMAIN s.ports : s.ports[i].name = t[p]}
        dim == RangeAt(t, p + 1)
        behind == IF known = {} THEN dim.pos ELSE p + 1
        end == IF t[behind] = "=" THEN ExprEnd(t, behind + 1, {",", ";"}) ELSE behind
        Refined(port) == [port EXCEPT !.kind = IF @ = {} THEN {s.kind} ELSE @,
                                      !.range = IF @ = {} THEN s.range ELSE @]
    IN  [s EXCEPT !.pos = After(t, end, ","), !.done = t[end] # ",",
                  !.ports = IF known = {} THEN @ ELSE [@ EXCEPT ![Min(known)] = Refined(@)],
                  !.nets = IF known # {} THEN @
                           ELSE Append(@, [name |-> t[p], kind |-> s.kind, range |-> s.range,
                                           dimension |-> dim.range])]

RECURSIVE NetNames(_, _)
NetNames(t, s) == IF s.done \/ ~IsIdent(t[s.pos]) THEN s ELSE NetNames(t, NetName(t, s))

NetDecl(t, p, ports) ==
    LET rest == RangeAt(t, After(t, p + 1, "signed"))
    IN  NetNames(t, [pos |-> rest.pos, kind |-> t[p], range |-> rest.range, ports |-> ports,
                  nets |-> <<>>, done |-> FALSE])

\* "assign a = x, b = y;"
AssignItem(t, s) ==
    LET eq == ExprEnd(t, s.pos, {"="})
        rhs == After(t, eq, "=")
        end == ExprEnd(t, rhs, {",", ";"})
        lhs == TextOf(t, s.pos, eq)
    IN  [s EXCEPT !.pos = After(t, end, ","), !.done = t[end] # ",",
                  !.list = IF lhs = <<>> THEN @ ELSE Append(@, <<lhs, TextOf(t, rhs, end)>>)]

RECURSIVE AssignItems(_, _)
AssignItems(t, s) == IF s.done \/ t[s.pos] \in {";", "EOF"} THEN s ELSE AssignItems(t, AssignItem(t, s))

ContinuousAssign(t, p) ==
    AssignItems(t, [pos |-> p + 1, list |-> <<>>, done |-> FALSE])

------------------------------------------------------------------------------
(* Procedures *)

\* "posedge a or b, c": what is none of these is skipped.
SensitivityItem(t, s) ==
    LET edge == {t[s.pos]} \cap {"posedge", "negedge"}
        i == IF edge = {} THEN s.pos ELSE s.pos + 1
        behind == IF IsIdent(t[i]) THEN i + 1 ELSE i
    IN  [pos |-> IF t[behind] \in {")", "EOF"} THEN behind ELSE behind + 1,
         list |-> IF IsIdent(t[i]) THEN Append(s.list, [signal |-> t[i], edge |-> edge]) ELSE s.list]

RECURSIVE SensitivityItems(_, _)
SensitivityItems(t, s) == IF t[s.pos] \in {")", "EOF"} THEN s ELSE SensitivityItems(t, SensitivityItem(t, s))

\* An at sign with a star or a list in brackets, if there is one.
Sensitivity(t, p) ==
    LET star == t[p + 1] = "*" \/ (t[p + 1] = "(" /\ t[p + 2] = "*")
        items == SensitivityItems(t, [pos |-> p + 2, list |-> <<>>])
    IN  IF t[p] # "@" THEN [list |-> <<>>, star |-> FALSE, pos |-> p]
        ELSE IF star
        THEN [list |-> <<>>, star |-> TRUE,
              pos |-> IF t[p + 1] = "*" THEN p + 2 ELSE After(t, p + 3, ")")]
        ELSE IF t[p + 1] = "("
        THEN [list |-> items.list, star |-> FALSE, pos |-> After(t, items.pos, ")")]
        ELSE [list |-> <<>>, star |-> FALSE, pos |-> p + 1]

\* One statement of a body: the head of a control statement with the names of its condition,
\* an assignment up to its semicolon, or something else.
BodyStatement(t, s) ==
    LET p == s.pos
        end == IF t[p + 1] = "(" THEN PastBracket(t, p + 1) ELSE p + 1
        names == SelectSeq(TextOf(t, p + 1, end), LAMBDA w : IsIdent(w) /\ w \notin NoSignals)
        op == SkipTo(t, p, {";", "end", "=", "<=", "begin", "if", "else", "for", "case"})
        semi == ExprEnd(t, op + 1, {";"})
    IN  IF t[p] \in {"if", "else", "for", "while", "case", "casez", "casex", "repeat"}
        THEN [s EXCEPT !.pos = end, !.conditions = @ \o names]
        ELSE IF t[p] \in {"endcase", "default", ":"} THEN [s EXCEPT !.pos = p + 1]
        ELSE IF t[op] \in {"=", "<="}
        THEN [s EXCEPT !.pos = After(t, semi, ";"),
                       !.assigns = IF op = p THEN @
                                   ELSE Append(@, [lhs |-> TextOf(t, p, op), nonblocking |-> t[op] = "<=",
                                                   rhs |-> TextOf(t, op + 1, semi)])]
        ELSE [s EXCEPT !.pos = IF t[op] = ";" \/ op = p THEN op + 1 ELSE op]

\* A body in begin and end goes to the matching end; another one as long as an "else" follows
\* or a head of a control statement has been read.
BodyItem(t, s) ==
    LET next == BodyStatement(t, s)
        goesOn == t[next.pos] = "else" \/ t[s.pos] \in {"if", "else", "for", "while", "case"}
    IN  IF s.depth > 0
        THEN CASE t[s.pos] = "begin" -> [s EXCEPT !.pos = @ + 1, !.depth = @ + 1]
               [] t[s.pos] = "end"   -> [s EXCEPT !.pos = @ + 1, !.depth = @ - 1, !.done = (s.depth = 1)]
               [] OTHER              -> next
        ELSE IF t[s.pos] \in ModuleLevel THEN [s EXCEPT !.done = TRUE]
        ELSE [next EXCEPT !.done = ~goesOn]

RECURSIVE BodyItems(_, _)
BodyItems(t, s) == IF s.done \/ t[s.pos] = "EOF" THEN s ELSE BodyItems(t, BodyItem(t, s))

AlwaysBody(t, p) ==
    BodyItems(t, [pos |-> After(t, p, "begin"), depth |-> IF t[p] = "begin" THEN 1 ELSE 0, done |-> FALSE,
              assigns |-> <<>>, conditions |-> <<>>])

ProcedureOf(word, sens, body) ==
    LET kind == IF word = "always_ff" \/ \E s \in ToSet(sens.list) : s.edge # {} THEN "always_ff"
                ELSE IF word = "always_comb" \/ sens.star \/ sens.list # <<>> THEN "always_comb"
                ELSE "always"
    IN  [pos |-> body.pos,
         list |-> <<[kind |-> kind, sensitivity |-> sens.list, assigns |-> body.assigns,
                     conditions |-> ToSet(body.conditions)]>>]

Always(t, p) ==
    LET sens == Sensitivity(t, p + 1) IN ProcedureOf(t[p], sens, AlwaysBody(t, sens.pos))

------------------------------------------------------------------------------
(* Instances *)

\* ".a(x)" or "x"; what is no expression stays where it is.
ConnectionItem(t, s) ==
    LET p == s.pos
        formal == IF IsIdent(t[p + 1]) THEN {t[p + 1]} ELSE {}
        open == IF formal = {} THEN p + 1 ELSE p + 2
        close == ExprEnd(t, open + 1, {")"})
        end == ExprEnd(t, p, {",", ")"})
    IN  IF t[p] = "."
        THEN IF t[open] = "("
             THEN [pos |-> After(t, After(t, close, ")"), ","),
                   list |-> Append(s.list, [formal |-> formal, actual |-> TextOf(t, open + 1, close)])]
             ELSE [pos |-> After(t, open, ","), list |-> Append(s.list, [formal |-> formal, actual |-> <<>>])]
        ELSE [pos |-> After(t, end, ","),
              list |-> IF end = p THEN s.list
                       ELSE Append(s.list, [formal |-> {}, actual |-> TextOf(t, p, end)])]

\* Module [#(...)] name [range] ( ... ): the position of the name and of the bracket.
InstanceName(t, p) ==
    IF t[p + 1] = "#" THEN (IF t[p + 2] = "(" THEN PastBracket(t, p + 2) ELSE p + 2) ELSE p + 1
InstanceOpen(t, p) ==
    LET i == InstanceName(t, p) IN IF t[i + 1] = "[" THEN PastBracket(t, i + 1) ELSE i + 1
IsInstance(t, p) ==
    /\ IsIdent(t[p]) /\ t[p] \notin StmtKeywords
    /\ IsIdent(t[InstanceName(t, p)]) /\ t[InstanceOpen(t, p)] = "("

RECURSIVE ConnectionItems(_, _)
ConnectionItems(t, s) == IF t[s.pos] \in {")", "EOF"} THEN s ELSE ConnectionItems(t, ConnectionItem(t, s))

Instance(t, p) ==
    LET items == ConnectionItems(t, [pos |-> InstanceOpen(t, p) + 1, list |-> <<>>])
    IN  [pos |-> After(t, items.pos, ")"),
         list |-> <<[module |-> t[p], name |-> t[InstanceName(t, p)], connections |-> items.list]>>]

------------------------------------------------------------------------------
(* Modules and files: s is [pos, m, unresolved] *)

\* What is said not to be understood goes from the position to the token "last".
NotUnderstood(s, kind, last, to) ==
    [s EXCEPT !.pos = to, !.unresolved = Append(@, [kind |-> kind, from |-> s.pos, to |-> last])]

BlockEnd == [generate |-> "endgenerate", function |-> "endfunction", task |-> "endtask",
             case |-> "endcase", casez |-> "endcase", casex |-> "endcase"]

\* Only the keyword of a block that is not modelled is recorded.
UnsupportedBlock(t, s) ==
    LET w == t[s.pos]
        end == IF w \in DOMAIN BlockEnd
               THEN After(t, SkipTo(t, s.pos + 1, {BlockEnd[w]}), BlockEnd[w])
               ELSE PastSemicolon(t, s.pos + 1)
    IN  NotUnderstood(s, "unsupported_construct", s.pos, end)

WithDecl(s, d) == [s EXCEPT !.pos = d.pos, !.m.ports = d.ports, !.m.nets = @ \o d.nets]
Taken(s, part, items) == [s EXCEPT !.pos = items.pos, !.m[part] = @ \o items.list]

ModuleItem(t, s) ==
    LET p == s.pos
        w == t[p]
        Closed(r) == [r EXCEPT !.pos = After(t, @, ";")]
    IN  CASE w \in Directions -> Closed(WithDecl(s, PortDecl(t, p, s.m.ports)))
          [] w \in NetKeywords -> Closed(WithDecl(s, NetDecl(t, p, s.m.ports)))
          [] w \in {"parameter", "localparam"} -> Closed(Taken(s, "parameters", ParameterDecl(t, p)))
          [] w = "assign" -> Closed(Taken(s, "assigns", ContinuousAssign(t, p)))
          [] w \in AlwaysKeywords -> Taken(s, "procedures", Always(t, p))
          [] w \in Unsupported -> UnsupportedBlock(t, s)
          [] IsInstance(t, p) -> Closed(Taken(s, "instances", Instance(t, p)))
          [] OTHER -> NotUnderstood(s, "unrecognized_statement", PastSemicolon(t, p) - 1, PastSemicolon(t, p))

\* Names of the header that the body never declares are inputs.
Undeclared(m, bare) ==
    SelectSeq(bare, LAMBDA b : \A port \in ToSet(m.ports) : port.name # b)
Finalized(m, bare) ==
    LET late == Undeclared(m, bare)
    IN  [m EXCEPT !.ports = @ \o [i \in DOMAIN late |->
            [name |-> late[i], dir |-> "input", kind |-> {}, range |-> {}]]]

\* The nonblocking targets of the clocked procedures.
ClockedTargets(m) ==
    {BaseSignal(a.lhs) : a \in {b \in UNION {ToSet(q.assigns) : q \in
        {q \in ToSet(m.procedures) : q.kind = "always_ff"}} : b.nonblocking}}

RECURSIVE ModuleItems(_, _)
ModuleItems(t, s) == IF t[s.pos] \in {"EOF", "endmodule"} THEN s ELSE ModuleItems(t, ModuleItem(t, s))

Begun(t, s, params, header) ==
    [pos |-> After(t, After(t, header.pos, ")"), ";"), unresolved |-> s.unresolved,
     m |-> [name |-> t[s.pos + 1], parameters |-> params.list, ports |-> header.ports,
            nets |-> <<>>, assigns |-> <<>>, procedures |-> <<>>, instances |-> <<>>]]

Ended(t, s, bare, body) ==
    [pos |-> After(t, body.pos, "endmodule"), unresolved |-> body.unresolved,
     modules |-> Append(s.modules, Finalized(body.m, bare))]

ParseBody(t, s, params, header) ==
    Ended(t, s, header.bare, ModuleItems(t, Begun(t, s, params, header)))

ParsePorts(t, s, params) ==
    ParseBody(t, s, params, IF t[params.pos] = "(" THEN PortList(t, params.pos + 1)
                            ELSE [pos |-> params.pos, ports |-> <<>>, bare |-> <<>>])

ParseModule(t, s) ==
    LET p == s.pos
    IN  IF ~IsIdent(t[p + 1])
        THEN NotUnderstood(s, "module_header", p + 1, SkipTo(t, p + 1, {"endmodule"}))
        ELSE ParsePorts(t, s, IF t[p + 2] = "#" /\ t[p + 3] = "(" THEN HeaderParameters(t, p + 4)
                              ELSE [pos |-> After(t, p + 2, "#"), list |-> <<>>])

FileItem(t, s) ==
    IF t[s.pos] = "module" THEN ParseModule(t, s)
    ELSE IF t[s.pos] \in {"tick", "typedef", "package", "interface"}
    THEN NotUnderstood(s, "top_level_construct", s.pos, PastSemicolon(t, s.pos + 1))
    ELSE [s EXCEPT !.pos = @ + 1]

RECURSIVE FileItems(_, _)
FileItems(t, s) == IF t[s.pos] = "EOF" THEN s ELSE FileItems(t, FileItem(t, s))

ParseText(t) ==
    FileItems(t, [pos |-> 1, unresolved |-> <<>>, modules |-> <<>>])

------------------------------------------------------------------------------
(* Clocks, resets, hierarchy *)

\* The entries with an edge of the clocked procedures, one per occurrence.
Edges(m) ==
    UNION {{<<i, k>> : k \in {k \in DOMAIN m.procedures[i].sensitivity :
                                m.procedures[i].sensitivity[k].edge # {}}} :
              i \in {i \in DOMAIN m.procedures : m.procedures[i].kind = "always_ff"}}
EdgeOf(m, e) == m.procedures[e[1]].sensitivity[e[2]]
EdgesOf(m, name) == {e \in Edges(m) : EdgeOf(m, e).signal = name}

PortNames(m) == {port.name : port \in ToSet(m.ports)}

\* The clocked procedures that test a port like a reset and do not wait for it.
TestedIn(m, name) ==
    {i \in DOMAIN m.procedures :
        /\ m.procedures[i].kind = "always_ff" /\ name \in m.procedures[i].conditions
        /\ \A s \in ToSet(m.procedures[i].sensitivity) : s.signal # name}

Capped(score) == IF score > 100 THEN 100 ELSE score

ClockCandidates(m) ==
    LET edge == {EdgeOf(m, e).signal : e \in Edges(m)} \ ResetHints
        named == PortNames(m) \cap ClockHints
    IN  {[signal |-> c, confidence |-> Capped((IF c \in edge THEN 60 * Cardinality(EdgesOf(m, c)) ELSE 0)
                                              + (IF c \in named THEN 40 ELSE 0))] : c \in edge \cup named}

ResetCandidates(m) ==
    LET ports == PortNames(m)
        edge == {EdgeOf(m, e).signal : e \in Edges(m)} \cap ResetHints
        Low(r) == r \in LowHints \/ \E e \in EdgesOf(m, r) : EdgeOf(m, e).edge = {"negedge"}
        Tested(r) == IF r \in ports THEN Cardinality(TestedIn(m, r)) ELSE 0
    IN  {[signal |-> r,
          confidence |-> Capped(50 * Cardinality(EdgesOf(m, r)) + (IF r \in ports THEN 40 ELSE 0) + 35 * Tested(r)),
          polarity |-> IF Low(r) THEN "active_low" ELSE "unknown",
          sync |-> IF r \in edge THEN "asynchronous" ELSE IF Tested(r) > 0 THEN "synchronous" ELSE "unknown"]
            : r \in edge \cup (ports \cap ResetHints)}

\* The one module that no instance is of; the only module in any case.
InferTop(modules, hierarchy) ==
    LET children == {e.child : e \in {e \in hierarchy : e.defined}}
        roots == SelectSeq(modules, LAMBDA m : m.name \notin children)
    IN  IF Len(roots) = 1 THEN {roots[1].name}
        ELSE IF Len(modules) = 1 THEN {modules[1].name} ELSE {}

------------------------------------------------------------------------------
(* The manifest *)

TokensOf(file) ==
    FlattenSeq([j \in DOMAIN file.modules |->
        file.modules[j].head \o FlattenSeq([i \in DOMAIN file.modules[j].body |->
            file.modules[j].body[i].text]) \o <<"endmodule">>]) \o <<"EOF">>

\* Files are known by their base names: of two with one name only the last is read.
SourcesOf(files) ==
    LET Named(i) == {k \in DOMAIN files : files[k].name = files[i].name}
        first == SelectSeq([i \in DOMAIN files |-> i], LAMBDA i : i = Min(Named(i)))
    IN  [n \in DOMAIN first |-> files[Max(Named(first[n]))]]

Manifest(parsed, asked) ==
    LET modules == FlattenSeq([k \in DOMAIN parsed |-> parsed[k].modules])
        names == {m.name : m \in ToSet(modules)}
        hierarchy == UNION {{[parent |-> m.name, child |-> i.module, name |-> i.name,
                              defined |-> i.module \in names] : i \in ToSet(m.instances)} : m \in ToSet(modules)}
    IN  [modules |-> modules, hierarchy |-> hierarchy,
         registers |-> [k \in DOMAIN modules |-> ClockedTargets(modules[k])],
         clocks |-> [k \in DOMAIN modules |-> ClockCandidates(modules[k])],
         resets |-> [k \in DOMAIN modules |-> ResetCandidates(modules[k])],
         unresolved |-> UNION {{[file |-> k, from |-> u.from, to |-> u.to] :
                                  u \in ToSet(parsed[k].unresolved)} : k \in DOMAIN parsed},
         top |-> IF asked # {} THEN asked ELSE InferTop(modules, hierarchy)]

ManifestOf(x) ==
    LET read == SourcesOf(x.files)
    IN  Manifest([k \in DOMAIN read |-> ParseText(TokensOf(read[k]))], x.top)

IngestInit == \E x \in RtlFiles : Called("rtl-intent", x)

Ingest == Computing("rtl-intent") /\ Reports(ManifestOf(input))

------------------------------------------------------------------------------
(* Properties: a statement of an input is [text, means], the tokens and what a reader of
   Verilog takes from them. *)

Parts == {"ports", "nets", "parameters", "assigns", "procedures", "instances"}

\* Where a statement stands in its file.
FirstToken(file, j, i) ==
    LET before == [file EXCEPT !.modules = SubSeq(@, 1, j - 1)]
        body == file.modules[j].body
    IN  Len(TokensOf(before)) + Len(file.modules[j].head)
            + Len(FlattenSeq([n \in 1..(i - 1) |-> body[n].text]))
LastToken(file, j, i) == FirstToken(file, j, i) + Len(file.modules[j].body[i].text) - 1

\* Each statement of a file that is read is in the manifest with all it means, whatever
\* stands around it, or the manifest says that something there was not understood.
StatementsKept(files, r) ==
    \A f \in DOMAIN files : \A j \in DOMAIN files[f].modules :
        LET source == files[f].modules[j]
        IN  \E k \in DOMAIN r.modules :
            /\ r.modules[k].name = source.name
            /\ source.ports \subseteq {[name |-> p.name, dir |-> p.dir] : p \in ToSet(r.modules[k].ports)}
            /\ \A i \in DOMAIN source.body :
                  \/ /\ \A part \in Parts : source.body[i].means[part] \subseteq ToSet(r.modules[k][part])
                     /\ source.body[i].means.registers \subseteq r.registers[k]
                  \/ \E u \in r.unresolved : /\ u.file = f
                                             /\ u.from <= LastToken(files[f], j, i)
                                             /\ FirstToken(files[f], j, i) <= u.to

\* What the manifest has is what some statement means.
NothingInvented(files, r) ==
    \A k \in DOMAIN r.modules :
        \E f \in DOMAIN files : \E j \in DOMAIN files[f].modules :
            LET source == files[f].modules[j]
                Meant(part) == UNION {s.means[part] : s \in ToSet(source.body)}
            IN  /\ r.modules[k].name = source.name
                /\ \A part \in Parts \ {"ports", "parameters", "procedures"} :
                      ToSet(r.modules[k][part]) \subseteq Meant(part)
                /\ r.registers[k] \subseteq Meant("registers")

\* A module of a design that was understood is the top exactly if no instance is of it, and
\* none is guessed where several are.
TopIsRoot(files, asked, r) ==
    LET sources == UNION {ToSet(file.modules) : file \in ToSet(files)}
        used == {i.module : i \in UNION {UNION {s.means.instances : s \in ToSet(m.body)} : m \in sources}}
        roots == {m.name : m \in sources} \ used
    IN  r.unresolved = {} /\ asked = {} =>
            r.top = IF Cardinality(roots) = 1 THEN roots
                    ELSE IF Cardinality(sources) = 1 THEN {m.name : m \in sources} ELSE {}

\* A register is clocked by something: one of the edges its procedure waits for is a clock,
\* unless all look like resets, and then the reset is said to be asynchronous.
RegistersClocked(r) ==
    \A k \in DOMAIN r.modules : \A q \in ToSet(r.modules[k].procedures) :
        LET edges == {s.signal : s \in {s \in ToSet(q.sensitivity) : s.edge # {}}}
        IN  q.kind = "always_ff" /\ edges # {} =>
                \/ \E c \in r.clocks[k] : c.signal \in edges /\ c.confidence >= 60
                \/ \A e \in edges : \E c \in r.resets[k] : c.signal = e /\ c.sync = "asynchronous"

\* The manifest of a design says what its files say, statement by statement, and where it
\* does not it says so.
ManifestSound ==
    Reported("rtl-intent") =>
        LET files == SourcesOf(input.files)
        IN  /\ StatementsKept(files, Report) /\ NothingInvented(files, Report)
            /\ TopIsRoot(files, input.top, Report) /\ RegistersClocked(Report)

=============================================================================
