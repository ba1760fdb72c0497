--------------------------- MODULE HoldoutEvaluation ---------------------------
(***************************************************************************)
(* The offline evaluation of configuration policies: the group-holdout     *)
(* split of a benchmark suite, the train-then-freeze evaluation of one     *)
(* policy, and the feature ablation of the bandit, over a suite that grows *)
(* between evaluations.  What a policy has learned is the set of items it  *)
(* got feedback on; records are the items a pass executed.                 *)
(***************************************************************************)
EXTENDS Integers, FiniteSets, FiniteSetsExt

CONSTANTS
    Benchmarks,   \* the items that may be in the suite
    Groups,       \* their groups, numbered in the order of their names
    GroupOf,      \* GroupOf[i]: the correlated-design cluster of item i
    Bucket,       \* Bucket[g]: the group's hash, 0 .. 99
    Threshold,    \* test_fraction in percent
    Features      \* feature groups to ablate, without "bias"

ASSUME HoldoutAssumption ==
    /\ Groups \subseteq Nat
    /\ GroupOf \in [Benchmarks -> Groups]
    /\ Bucket \in [Groups -> 0 .. 99]
    /\ Threshold \in 1 .. 99

VARIABLES
    suite,      \* the items of the suite file
    pc,         \* the step of evaluate_policy_on_split or of the ablation
    learns,     \* is the policy the bandit?
    learned,    \* the items the policy object has feedback on
    split,      \* the split computed when the evaluation started
    trained,    \* the records of the last pass over train
    tested,     \* the records of the pass over test
    labels      \* ablation: the masks still to run

holdoutVars == <<suite, pc, learns, learned, split, trained, tested, labels>>

GroupsOf(items) == {GroupOf[i] : i \in items}

\* _group_bucket below the threshold: it looks at the group alone.
HashedToTest(items, g) == Bucket[g] < Threshold

\* group_holdout_split's test groups: the first group when the hash puts none
\* there, all but the last when it puts all of several there.
TestGroups(items) ==
    LET groups == GroupsOf(items)
        hashed == {g \in groups : HashedToTest(items, g)}
        filled == IF hashed = {} /\ groups # {} THEN {Min(groups)} ELSE hashed
    IN IF filled = groups /\ Cardinality(groups) > 1
       THEN filled \ {Max(filled)} ELSE filled

\* group_holdout_split
Holdout(items) ==
    LET test == {i \in items : GroupOf[i] \in TestGroups(items)}
    IN [train |-> items \ test, test |-> test]

NoSplit == [train |-> {}, test |-> {}]

-----------------------------------------------------------------------------
HoldoutInit ==
    /\ suite \in {{i} : i \in Benchmarks}
    /\ pc = "idle" /\ learns = FALSE /\ learned = {} /\ split = NoSplit
    /\ trained = {} /\ tested = {} /\ labels = {}

\* A new version of the suite file has one more item.
AddItem(i) ==
    /\ pc = "idle"
    /\ i \notin suite
    /\ suite' = suite \cup {i}
    /\ UNCHANGED <<pc, learns, learned, split, trained, tested, labels>>

\* evaluate_policy_on_split: the split, and a fresh policy.
StartEvaluation(bandit) ==
    /\ pc = "idle"
    /\ split' = Holdout(suite)
    /\ learns' = bandit
    /\ learned' = {} /\ trained' = {} /\ tested' = {} /\ labels' = {}
    /\ pc' = "train_run"
    /\ UNCHANGED suite

\* ablation_feature_groups: one fresh bandit for the full mask and for every
\* feature group left out.
StartAblation ==
    /\ pc = "idle"
    /\ split' = Holdout(suite)
    /\ learns' = TRUE
    /\ learned' = {} /\ trained' = {} /\ tested' = {}
    /\ labels' = Features \cup {"full"}
    /\ pc' = "train_run"
    /\ UNCHANGED suite

\* _run_items over the train side.
RunTrain ==
    /\ pc = "train_run"
    /\ trained' = split.train
    /\ pc' = IF learns THEN "train" ELSE "test_run"
    /\ UNCHANGED <<suite, learns, learned, split, tested, labels>>

\* policy.train with the rewards of that pass.
Train ==
    /\ pc = "train"
    /\ learned' = learned \cup trained
    /\ pc' = IF labels = {} THEN "train_again" ELSE "test_run"
    /\ UNCHANGED <<suite, learns, split, trained, tested, labels>>

\* evaluate: the trained policy runs over train once more, without feedback.
RunTrainAgain ==
    /\ pc = "train_again"
    /\ trained' = split.train
    /\ pc' = "test_run"
    /\ UNCHANGED <<suite, learns, learned, split, tested, labels>>

\* _run_items over the test side with the frozen policy, and the metrics.
RunTest ==
    /\ pc = "test_run"
    /\ tested' = split.test
    /\ pc' = "report"
    /\ UNCHANGED <<suite, learns, learned, split, trained, labels>>

\* Mutation: the ablation goes on with the bandit it has.
NextMaskSamePolicy(label) ==
    /\ pc = "report" /\ label \in labels /\ labels # {label}
    /\ labels' = labels \ {label}
    /\ trained' = split.test /\ tested' = {}
    /\ pc' = "train"
    /\ UNCHANGED <<suite, learns, learned, split>>

\* The next mask of the ablation, on a bandit of its own.
NextMask(label) ==
    /\ pc = "report" /\ label \in labels /\ labels # {label}
    /\ labels' = labels \ {label}
    /\ learned' = {} /\ trained' = {} /\ tested' = {}
    /\ pc' = "train_run"
    /\ UNCHANGED <<suite, learns, split>>

\* The metrics are returned.
Finish ==
    /\ pc = "report"
    /\ Cardinality(labels) <= 1
    /\ pc' = "idle"
    /\ UNCHANGED <<suite, learns, learned, split, trained, tested, labels>>

HoldoutSteps ==
    \/ RunTrain \/ Train \/ RunTrainAgain \/ RunTest \/ Finish
    \/ \E label \in labels : NextMask(label)

HoldoutNext ==
    \/ \E i \in Benchmarks : AddItem(i)
    \/ \E bandit \in BOOLEAN : StartEvaluation(bandit)
    \/ StartAblation
    \/ HoldoutSteps

HoldoutSpec == HoldoutInit /\ [][HoldoutNext]_holdoutVars

-----------------------------------------------------------------------------
(***************************************************************************)
(* Properties                                                              *)
(***************************************************************************)

\* What a policy is evaluated on was never near its training, not even through
\* another item of the same design family, in any pass of any evaluation.
NoLeakage ==
    pc = "report" => GroupsOf(learned) \cap GroupsOf(tested) = {}

\* Every item is on one side, and with two groups or more both sides have some:
\* no report is about an empty test side or an untrained bandit.
BothSides ==
    pc # "idle" =>
        /\ split.train \cup split.test = suite
        /\ Cardinality(GroupsOf(suite)) > 1
             => split.train # {} /\ split.test # {}

\* "Adding items to an existing group never moves that group across the split
\* boundary": nor does it move any other group.
SplitStable == GroupsOf(suite') = GroupsOf(suite) => TestGroups(suite') = TestGroups(suite)

\* A report is of a policy with something to learn from and nothing to remember, and the
\* next one, of a suite that has grown within its groups, of the same split.  (Nothing is
\* split or reported when the behaviour begins.)
SplitSound == [][BothSides' /\ NoLeakage' /\ SplitStable]_holdoutVars

=============================================================================
