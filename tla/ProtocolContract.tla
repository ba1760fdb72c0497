------------------------------ MODULE ProtocolContract ------------------------------
(***************************************************************************)
(* protocol-contract-agent: a request binds the roles of a protocol to     *)
(* signals of a module; the roles, clock and reset are grounded on the     *)
(* manifest, and the template of the protocol gives the assumptions,       *)
(* guarantees, covers and forbidden scenarios of a contract.               *)
(*                                                                         *)
(* A rule says that, when all of some literals <<role, value>> hold, what  *)
(* follows holds now, in the next cycle or within a window.  Optional      *)
(* values are sets of at most one element.                                 *)
(***************************************************************************)
EXTENDS OnePass, Integers, FiniteSetsExt, SequencesExt

CONSTANT ContractRequests   \* [protocol, roles, clock, reset, polarity, depth, credits, low, high, module]

ASSUME ContractAssumption ==
    \A x \in ContractRequests :
        /\ x.protocol \in {"valid_ready", "req_grant", "fifo", "interrupt", "credit"}
        /\ \A option \in {x.depth, x.credits, x.low, x.high} :
              option \subseteq Int /\ \A v, w \in option : v = w
        /\ x.module.resets \in Seq(Range(x.module.resets))
        /\ \A i \in DOMAIN x.module.resets : x.module.resets[i].confidence \in Nat

The(option) == CHOOSE v \in option : TRUE

------------------------------------------------------------------------------
(* Grounding *)

Ownership(direction) ==
    CASE direction = "input" -> "env_input" [] direction = "output" -> "dut_output"
      [] direction = "inout" -> "unknown"

\* Who drives a signal: a port by its direction, a register or a net from inside.
GroundSignal(m, s) ==
    IF s \in DOMAIN m.ports THEN {Ownership(m.ports[s])}
    ELSE IF s \in m.internal THEN {"internal"} ELSE {}

\* The first of those with the highest confidence.
BestCandidate(cs) ==
    cs[Min({i \in DOMAIN cs : \A j \in DOMAIN cs : cs[j].confidence <= cs[i].confidence})]

\* What is asked for, or else the best candidate; a clock that the module does not have is
\* taken to be an input of it.
ResolveClock(x) ==
    IF x.clock = {} /\ x.module.clocks # <<>> THEN {BestCandidate(x.module.clocks).signal} ELSE x.clock

\* The polarity is the request's, or that of the candidate of the reset's name; it is never
\* read from the name.
ResolveReset(x) ==
    LET best == x.reset = {} /\ x.module.resets # <<>>
        named == {i \in DOMAIN x.module.resets : x.module.resets[i].signal \in x.reset}
        candidate == IF best THEN {BestCandidate(x.module.resets)}
                     ELSE IF named # {} THEN {x.module.resets[Min(named)]} ELSE {}
    IN  [name |-> IF best THEN {c.signal : c \in candidate} ELSE x.reset,
         polarity |-> IF x.polarity # {} THEN The(x.polarity)
                      ELSE IF candidate # {} THEN The(candidate).polarity ELSE "unknown"]

------------------------------------------------------------------------------
(* Rules *)

RequiredRoles ==
    [p \in {"valid_ready", "req_grant", "fifo", "interrupt", "credit"} |->
        CASE p = "valid_ready" -> {"valid", "ready"} [] p = "req_grant" -> {"req", "grant"}
          [] p = "fifo" -> {"push", "pop"} [] p = "interrupt" -> {"irq"}
          [] p = "credit" -> {"send", "credit_return"}]

OptionalRoles ==
    [p \in DOMAIN RequiredRoles |->
        CASE p = "valid_ready" -> {"data"} [] p = "req_grant" -> {}
          [] p = "fifo" -> {"full", "empty", "count"} [] p = "interrupt" -> {"source", "clear"}
          [] p = "credit" -> {"credit_count"}]

High(role) == <<role, TRUE>>
Low(role) == <<role, FALSE>>

Rule(name, kind, when, style, then) ==
    [name |-> name, kind |-> kind, when |-> when, style |-> style, then |-> then, window |-> <<>>,
     after |-> {}]

All(literals) == [form |-> "all", literals |-> literals]
NotAll(literals) == [form |-> "not", literals |-> literals]
AtMostText(role, n) == [form |-> "at_most", count |-> role, bound |-> n]
IffCount(role, count, n) == [form |-> "iff", role |-> role, count |-> count, bound |-> n]

Cover(name, literals) == Rule(name, "cover", literals, "now", All({}))

Never(name, literals) == Rule(name, "assert", {}, "now", NotAll(literals))

Has(c, role) == role \in DOMAIN c.roles

\* A rule that is there when the roles it needs are bound.
With(c, roles, rules) == IF roles \subseteq DOMAIN c.roles THEN rules ELSE {}

\* A window opens after one cycle unless the request says when; it is rendered only if it
\* is one.
Window(c) == <<IF c.low = {} THEN 1 ELSE The(c.low), The(c.high)>>

Respond(c, name, from, to) ==
    IF c.high = {} THEN {}
    ELSE {[Rule(name, "assert", {High(from)}, "within", All({High(to)})) EXCEPT !.window = Window(c)]}

\* About the reset itself, with no guard against it.
InReset(c, name, literal) ==
    IF c.reset = {} \/ c.polarity = "unknown" THEN {}
    ELSE {Rule(name, "assert", {}, "in_reset", All({literal}))}

\* Mutation: whoever drives valid, it is assumed to be held.
ValidReadyAssumed(c) ==
    LET stalled == {High("valid"), Low("ready")}
    IN  {Rule("valid_stable", "assume", stalled, "next", All({High("valid")})),
         Cover("handshake", {High("valid"), High("ready")}),
         Cover("accept_without_valid", {High("ready"), Low("valid")})}

\* Valid and data held while stalled are assumed of an input and guaranteed otherwise.
ValidReady(c) ==
    LET stalled == {High("valid"), Low("ready")}
        kind == IF c.roles["valid"] = "env_input" THEN "assume" ELSE "assert"
    IN  {Rule("valid_stable", kind, stalled, "next", All({High("valid")})),
         Cover("handshake", {High("valid"), High("ready")}),
         Cover("accept_without_valid", {High("ready"), Low("valid")})}
        \cup With(c, {"data"}, {Rule("data_stable", kind, stalled, "stable", All({High("data")}))})

ReqGrant(c) ==
    {Rule("no_spurious_grant", "assert", {High("grant")}, "now", All({High("req")})),
     Cover("grant", {High("req"), High("grant")})}
    \cup {[r EXCEPT !.after = {"no_spurious_grant"}] : r \in Respond(c, "grant_latency", "req", "grant")}
    \cup IF c.roles["req"] # "env_input" THEN {}
         ELSE {Rule("req_stable", "assume", {High("req"), Low("grant")}, "next", All({High("req")}))}

Fifo(c) ==
    With(c, {"full"}, {Never("no_overflow", {High("full"), High("push")}), Cover("fill", {High("full")})})
    \cup With(c, {"empty"}, {Never("no_underflow", {High("empty"), High("pop")}), Cover("drain", {High("empty")})}
                            \cup InReset(c, "reset_empty", High("empty")))
    \cup (IF c.depth = {} THEN {}
          ELSE LET d == The(c.depth)
               IN  With(c, {"count"}, {Rule("count_bound", "assert", {}, "now", AtMostText("count", d))})
                   \cup With(c, {"count", "full"},
                             {Rule("full_iff_count", "assert", {}, "now", IffCount("full", "count", d))})
                   \cup With(c, {"count", "empty"},
                             {Rule("empty_iff_count", "assert", {}, "now", IffCount("empty", "count", 0))}))
    \cup {Cover("concurrent", {High("push"), High("pop")})}

Interrupt(c) ==
    With(c, {"clear"}, {Rule("irq_sticky", "assert", {High("irq"), Low("clear")}, "next", All({High("irq")}))})
    \cup With(c, {"clear", "source"},
              {[Rule("irq_clears", "assert", {High("clear"), Low("source")}, "next", All({Low("irq")}))
                   EXCEPT !.after = {"irq_sticky"}]})
    \cup With(c, {"source"}, Respond(c, "irq_raise", "source", "irq"))
    \cup {Cover("irq", {High("irq")})} \cup InReset(c, "irq_reset_low", Low("irq"))

Credit(c) ==
    With(c, {"credit_count"},
         {Never("no_send_without_credit", {High("send"), <<"credit_count", 0>>}),
          Cover("credit_exhausted", {<<"credit_count", 0>>})}
         \cup {Rule("credit_bound", "assert", {}, "now", AtMostText("credit_count", n)) : n \in c.credits})
    \cup {Cover("send", {High("send")})}

Generate(c) ==
    CASE c.protocol = "valid_ready" -> ValidReady(c) [] c.protocol = "req_grant" -> ReqGrant(c)
      [] c.protocol = "fifo" -> Fifo(c) [] c.protocol = "interrupt" -> Interrupt(c)
      [] c.protocol = "credit" -> Credit(c)

\* Whose signals a rule reads.
RolesOf(r) ==
    {l[1] : l \in r.when}
    \cup CASE r.then.form \in {"all", "not"} -> {l[1] : l \in r.then.literals}
           [] r.then.form = "at_most" -> {r.then.count}
           [] r.then.form = "iff" -> {r.then.role, r.then.count}

\* Assumptions that read what the environment does not drive are left for people.
OwnershipOk(c, r) == \A role \in RolesOf(r) : c.roles[role] = "env_input"

------------------------------------------------------------------------------
(* Contract *)

\* What is omitted for want of a bound, and assumptions about what the design drives.
TemplateWarnings(c) ==
    LET told(condition, code) == IF condition THEN {code} ELSE {}
    IN  told(c.protocol = "req_grant" /\ c.high = {}, "no_latency_bound")
        \cup told(c.protocol = "fifo" /\ Has(c, "count") /\ c.depth = {}, "no_depth")
        \cup told(c.protocol = "fifo" /\ Has(c, "empty") /\ c.polarity = "unknown", "reset_polarity_unknown")
        \cup told(c.protocol = "interrupt" /\ Has(c, "source") /\ c.high = {}, "no_irq_latency")
        \cup told(c.protocol = "credit" /\ ~Has(c, "credit_count"), "no_credit_count")
        \cup told(c.protocol = "credit" /\ Has(c, "credit_count") /\ c.credits = {}, "no_max_credits")
        \cup told(\E r \in Generate(c) : r.kind = "assume" /\ ~OwnershipOk(c, r), "assume_on_output")

ResetCheck(c) ==
    IF c.reset = {} THEN "WARN" ELSE IF c.polarity = "unknown" THEN "FAIL" ELSE "REVIEW"

WindowRefused(c) ==
    /\ c.protocol = "req_grant" \/ (c.protocol = "interrupt" /\ Has(c, "source"))
    /\ c.high # {} /\ (Window(c)[1] < 0 \/ Window(c)[2] < Window(c)[1])

\* A bound signal that the module lacks, or a window that is none, ends the tool; a required
\* role or a clock that is missing leaves a contract without rules that says so.
GenerateContract(x) ==
    LET p == x.protocol
        bound == DOMAIN x.roles \cap (RequiredRoles[p] \cup OptionalRoles[p])
        absent == {r \in bound : GroundSignal(x.module, x.roles[r]) = {}}
        reset == ResolveReset(x)
        c == [protocol |-> p, roles |-> [r \in bound |-> The(GroundSignal(x.module, x.roles[r]))],
              reset |-> reset.name, polarity |-> reset.polarity, depth |-> x.depth,
              credits |-> x.credits, low |-> x.low, high |-> x.high]
        missing == (IF RequiredRoles[p] \subseteq bound THEN {} ELSE {"missing_required_role"})
                   \cup (IF DOMAIN x.roles \subseteq bound THEN {} ELSE {"unknown_role"})
                   \cup (IF ResolveClock(x) = {} THEN {"no_clock"} ELSE {})
        blocked == missing \cap {"missing_required_role", "no_clock"} # {}
    IN  IF absent # {} \/ (~blocked /\ WindowRefused(c)) THEN [made |-> FALSE]
        ELSE [made |-> TRUE, context |-> c,
              rules |-> IF blocked THEN {} ELSE Generate(c),
              warnings |-> IF blocked THEN missing ELSE missing \cup TemplateWarnings(c),
              reset_check |-> IF blocked THEN "FAIL" ELSE ResetCheck(c)]

ContractInit == \E x \in ContractRequests : Called("protocol-contract", x)

MakeContract == Computing("protocol-contract") /\ Reports(GenerateContract(input))

ContractSpec == ContractInit /\ [][MakeContract]_passVars

------------------------------------------------------------------------------
(* Properties *)

Signals == (UNION {RequiredRoles[p] \cup OptionalRoles[p] : p \in DOMAIN RequiredRoles}) \cup {"reset"}

LiteralsHold(literals, s) == \A l \in literals : s[l[1]] = l[2]

Follows(then, s) ==
    CASE then.form = "all" -> LiteralsHold(then.literals, s)
      [] then.form = "not" -> ~LiteralsHold(then.literals, s)
      [] then.form = "at_most" -> s[then.count] <= then.bound
      [] then.form = "iff" -> s[then.role] = (s[then.count] = then.bound)

\* A rule over two cycles of an interface that answers within one; switched off in reset
\* when the polarity is known.
RuleHolds(r, polarity, s, t) ==
    CASE r.style = "in_reset" -> s.reset => Follows(r.then, s)
      [] r.style # "in_reset" ->
            (polarity = "unknown" \/ (~s.reset /\ ~t.reset)) /\ LiteralsHold(r.when, s) =>
                CASE r.style = "now" -> Follows(r.then, s)
                  [] r.style = "next" -> Follows(r.then, t)
                  [] r.style = "stable" -> \A l \in r.then.literals : t[l[1]] = s[l[1]]
                  [] r.style = "within" -> \/ r.window[1] = 0 /\ Follows(r.then, s)
                                           \/ r.window[2] >= 1 /\ Follows(r.then, t)

\* Two cycles of a well-behaved interface of each protocol.
Ideal(c) ==
    LET flag == BOOLEAN
        room == IF c.depth = {} THEN 1 ELSE The(c.depth)
        most == IF c.credits = {} THEN 1 ELSE The(c.credits)
    IN  CASE c.protocol = "valid_ready" ->
               {p \in [valid : flag, ready : flag, data : {1, 2}, reset : {FALSE}]
                      \X [valid : flag, ready : flag, data : {1, 2}, reset : {FALSE}] :
                   p[1].valid /\ ~p[1].ready => p[2].valid /\ p[2].data = p[1].data}
          [] c.protocol = "req_grant" ->
               {p \in [req : flag, grant : flag, reset : {FALSE}] \X [req : flag, grant : flag, reset : {FALSE}] :
                   /\ \A i \in 1 .. 2 : p[i].grant => p[i].req
                   /\ p[1].req /\ ~p[1].grant => p[2].req /\ p[2].grant}
          [] c.protocol = "fifo" ->
               LET at(n, push, pop, reset) ==
                       [count |-> n, push |-> push, pop |-> pop, full |-> n = room, empty |-> n = 0,
                        reset |-> reset]
                   states == {s \in {at(n, u, v, w) : n \in 0 .. room, u \in flag, v \in flag, w \in flag} :
                                 (s.push => ~s.full) /\ (s.pop => ~s.empty) /\ (s.reset => s.empty)}
               IN  {p \in states \X states :
                       p[2].count = IF p[2].reset THEN 0
                                    ELSE p[1].count + (IF p[1].push THEN 1 ELSE 0)
                                                    - (IF p[1].pop THEN 1 ELSE 0)}
          [] c.protocol = "interrupt" ->
               LET states == {s \in [irq : flag, source : flag, clear : flag, reset : flag] : s.reset => ~s.irq}
               IN  {p \in states \X states :
                       p[2].irq = (~p[2].reset /\ (p[1].source \/ (p[1].irq /\ ~p[1].clear)))}
          [] c.protocol = "credit" ->
               LET states == {s \in [send : flag, credit_return : flag, credit_count : 0 .. most, reset : {FALSE}] :
                                 s.send => s.credit_count > 0}
               IN  states \X states

\* A well-behaved interface keeps its contract: every assumption and guarantee holds of it.
\* (A window that closes with the request has no room for an answer in the next cycle; one
\* that opens after it asks for a second grant when the first comes with the request; and
\* without a known polarity the interface is looked at out of reset.)
IdealKeepsContract ==
    \A r \in Report.rules : r.kind # "cover" =>
        \A p \in Ideal(Report.context) :
            \/ RuleHolds(r, Report.context.polarity, p[1], p[2])
            \/ r.style = "within" /\ r.window[2] = 0
            \/ r.name = "grant_latency" /\ r.window[1] > 0 /\ p[1].grant
            \/ Report.context.polarity = "unknown" /\ (p[1].reset \/ p[2].reset)

\* Nothing the design drives is assumed without a warning, and what an assumption obliges
\* is never an output.
AssumptionsOfInputs ==
    \A r \in Report.rules : r.kind = "assume" =>
        /\ OwnershipOk(Report.context, r) \/ "assume_on_output" \in Report.warnings
        /\ \A l \in r.then.literals :
              r.style = "next" => Report.context.roles[l[1]] = "env_input"

\* No rule is about a reset whose polarity nobody stated; that polarity is the request's or
\* a candidate's of that very reset, and no contract of an unknown one passes its check.
PolarityNeverGuessed ==
    LET c == Report.context
        stated == input.polarity \cup {input.module.resets[i].polarity :
                     i \in {i \in DOMAIN input.module.resets : input.module.resets[i].signal \in c.reset}}
    IN  /\ c.reset # {} => c.polarity \in stated \cup {"unknown"}
        /\ (\E r \in Report.rules : r.style = "in_reset") => c.polarity # "unknown" /\ c.reset # {}
        /\ c.reset # {} /\ c.polarity = "unknown" => Report.reset_check = "FAIL"

\* A bound that nobody gave makes a warning and no rule.
NoInventedBounds ==
    LET c == Report.context
        bounds == {r \in Report.rules : r.then.form = "at_most" \/ r.window # <<>>}
    IN  /\ \A r \in bounds :
              IF r.window # <<>> THEN r.window[2] \in c.high ELSE r.then.bound \in c.depth \cup c.credits
        /\ Report.rules # {} /\ bounds = {} =>
              \/ Report.warnings # {}
              \/ c.protocol = "valid_ready"
              \/ c.protocol = "fifo" /\ ~Has(c, "count")
              \/ c.protocol = "interrupt" /\ ~Has(c, "source")

ContractSound ==
    Reported("protocol-contract") /\ Report.made =>
        IdealKeepsContract /\ AssumptionsOfInputs /\ PolarityNeverGuessed /\ NoInventedBounds

=============================================================================
