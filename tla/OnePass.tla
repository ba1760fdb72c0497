--------------------------------- MODULE OnePass ---------------------------------
(***************************************************************************)
(* The frame shared by the tools of the suite that read one input, compute *)
(* and write one report: no state survives the call.  The module of a tool *)
(* gives its inputs and its report; the input is picked when the behaviour *)
(* begins, among all that the tool can be asked.                           *)
(***************************************************************************)
EXTENDS Naturals, Sequences, FiniteSets

VARIABLES
    tool,       \* the command that runs
    input,      \* what it was called with
    reports     \* {} while it computes, then its report

passVars == <<tool, input, reports>>

Called(name, i) == tool = name /\ input = i /\ reports = {}

Computing(name) == tool = name /\ reports = {}

Reports(report) == reports' = {report} /\ UNCHANGED <<tool, input>>

Reported(name) == tool = name /\ reports # {}

Report == CHOOSE r \in reports : TRUE

\* The elements of a sequence that are at certain positions, in their order.
Picked(s, positions) ==
    [n \in 1 .. Cardinality(positions) |->
        s[CHOOSE i \in positions : Cardinality({j \in positions : j < i}) = n - 1]]

\* The elements of a sequence in the order of their positions that Before gives, a total one.
InOrder(s, Before(_, _)) ==
    [n \in DOMAIN s |->
        s[CHOOSE i \in DOMAIN s : Cardinality({j \in DOMAIN s : Before(j, i)}) = n - 1]]

\* The k-th smallest value of a finite function.
OrderStatistic(f, k) ==
    CHOOSE v \in {f[i] : i \in DOMAIN f} :
        /\ Cardinality({i \in DOMAIN f : f[i] < v}) < k
        /\ Cardinality({i \in DOMAIN f : f[i] <= v}) >= k

=============================================================================
