------------------------------- MODULE ToolProofs -------------------------------
(***************************************************************************)
(* Proofs about the holdout evaluation of policies, for any suite that     *)
(* grows, any design families and any hash, and about tools that answer    *)
(* one call: what they report is sound for every input they can be given.  *)
(***************************************************************************)
EXTENDS HoldoutEvaluation, SvaIntent, ProtocolContract, ConstraintHygiene, RegisterChecks, DataLemmas

-----------------------------------------------------------------------------
(***************************************************************************)
(* The holdout evaluation                                                  *)
(***************************************************************************)

\* The test groups are some of the groups, and not all when there are several.
LEMMA TestGroupsSplit ==
    ASSUME NEW items \in SUBSET Benchmarks, IsFiniteSet(items), items # {}
    PROVE  /\ TestGroups(items) \subseteq GroupsOf(items)
           /\ TestGroups(items) # {}
           /\ Cardinality(GroupsOf(items)) > 1 => TestGroups(items) # GroupsOf(items)
<1> DEFINE groups == GroupsOf(items)
           hashed == {g \in groups : HashedToTest(items, g)}
           filled == IF hashed = {} /\ groups # {} THEN {Min(groups)} ELSE hashed
<1>1. groups \in SUBSET Nat /\ groups # {} /\ IsFiniteSet(groups)
  <2>1. groups \in SUBSET Nat /\ groups # {}
    BY HoldoutAssumption DEF HoldoutAssumption, GroupsOf
  <2> DEFINE f == [i \in items |-> GroupOf[i]]
  <2>2. f \in Surjection(items, groups)
    BY DEF GroupsOf, Surjection
  <2>3. IsFiniteSet(groups)
    BY <2>2, FS_Surjection
  <2> QED  BY <2>1, <2>3
<1>2. hashed \in SUBSET groups
  OBVIOUS
<1>3. TestGroups(items) = IF filled = groups /\ Cardinality(groups) > 1
                          THEN filled \ {Max(filled)} ELSE filled
  BY DEF TestGroups
<1> HIDE DEF groups, hashed
<1>4. filled \in SUBSET groups /\ filled # {}
  BY <1>1, <1>2, MinOfSome
<1> HIDE DEF filled
<1>5. IsFiniteSet(filled) /\ Max(filled) \in filled
  <2>1. IsFiniteSet(filled)
    BY <1>1, <1>4, FS_Subset
  <2>2. filled \in SUBSET Nat
    BY <1>1, <1>4
  <2> QED  BY <1>4, <2>1, <2>2, MaxOfSome
<1>6. Cardinality(groups) > 1 /\ filled = groups => filled \ {Max(filled)} # {}
  <2>1. filled \ {Max(filled)} = {} => filled = {Max(filled)}
    BY <1>5
  <2>2. Cardinality({Max(filled)}) = 1
    BY FS_Singleton
  <2> QED  BY <2>1, <2>2
<1>7. /\ TestGroups(items) \subseteq groups
      /\ TestGroups(items) # {}
      /\ Cardinality(groups) > 1 => TestGroups(items) # groups
  BY <1>3, <1>4, <1>5, <1>6
<1> QED  BY <1>7 DEF groups

\* Which groups are tested is decided by the groups of the suite and by nothing else.
LEMMA TestGroupsOfGroups ==
    ASSUME NEW items, NEW others, GroupsOf(items) = GroupsOf(others)
    PROVE  TestGroups(items) = TestGroups(others)
BY DEF TestGroups, HashedToTest

\* The two sides of a split cover the suite and share no group, and neither is empty when
\* there are several groups.
LEMMA SplitOfSuite ==
    ASSUME NEW items \in SUBSET Benchmarks, IsFiniteSet(items), items # {}
    PROVE  /\ Holdout(items).train \cup Holdout(items).test = items
           /\ GroupsOf(Holdout(items).train) \cap GroupsOf(Holdout(items).test) = {}
           /\ Cardinality(GroupsOf(items)) > 1 =>
                 Holdout(items).train # {} /\ Holdout(items).test # {}
<1> DEFINE test == {i \in items : GroupOf[i] \in TestGroups(items)}
           train == items \ test
<1>1. Holdout(items).train = train /\ Holdout(items).test = test
  BY DEF Holdout
<1>2. train \cup test = items
  OBVIOUS
<1>3. GroupsOf(train) \cap GroupsOf(test) = {}
  BY DEF GroupsOf
<1>4. test # {}
  <2>1. PICK g \in GroupsOf(items) : g \in TestGroups(items)
    BY TestGroupsSplit
  <2> QED  BY <2>1 DEF GroupsOf
<1>5. Cardinality(GroupsOf(items)) > 1 => train # {}
  <2>1. Cardinality(GroupsOf(items)) > 1 =>
          \E g \in GroupsOf(items) : g \notin TestGroups(items)
    BY TestGroupsSplit
  <2> QED  BY <2>1 DEF GroupsOf
<1> HIDE DEF test, train
<1> QED  BY <1>1, <1>2, <1>3, <1>4, <1>5

\* Between the start of an evaluation and its report the suite stands still, the split is
\* that of the suite, and what was learned or recorded stays on its side of it.
HoldoutInv ==
    /\ suite \in SUBSET Benchmarks /\ suite # {} /\ IsFiniteSet(suite)
    /\ pc # "idle" =>
          /\ split = Holdout(suite)
          /\ learned \subseteq split.train
          /\ trained \subseteq split.train
          /\ tested \subseteq split.test

LEMMA HoldoutInvStarts == HoldoutInit => HoldoutInv
BY FS_Singleton DEF HoldoutInit, HoldoutInv

LEMMA HoldoutInvStep ==
    ASSUME HoldoutInv, [HoldoutNext]_holdoutVars
    PROVE  HoldoutInv'
<1>1. ASSUME NEW i \in Benchmarks, AddItem(i) PROVE HoldoutInv'
  <2>1. IsFiniteSet(suite \cup {i})
    BY FS_AddElement DEF HoldoutInv
  <2> QED  BY <1>1, <2>1 DEF AddItem, HoldoutInv
<1>2. ASSUME NEW bandit \in BOOLEAN, StartEvaluation(bandit) PROVE HoldoutInv'
  BY <1>2 DEF StartEvaluation, HoldoutInv, Holdout, TestGroups, GroupsOf, HashedToTest
<1>3. CASE StartAblation
  BY <1>3 DEF StartAblation, HoldoutInv, Holdout, TestGroups, GroupsOf, HashedToTest
<1>4. CASE RunTrain
  BY <1>4 DEF RunTrain, HoldoutInv, Holdout, TestGroups, GroupsOf, HashedToTest
<1>5. CASE Train
  BY <1>5 DEF Train, HoldoutInv, Holdout, TestGroups, GroupsOf, HashedToTest
<1>6. CASE RunTrainAgain
  BY <1>6 DEF RunTrainAgain, HoldoutInv, Holdout, TestGroups, GroupsOf, HashedToTest
<1>7. CASE RunTest
  BY <1>7 DEF RunTest, HoldoutInv, Holdout, TestGroups, GroupsOf, HashedToTest
<1>8. CASE Finish
  BY <1>8 DEF Finish, HoldoutInv, Holdout, TestGroups, GroupsOf, HashedToTest
<1>9. ASSUME NEW label \in labels, NextMask(label) PROVE HoldoutInv'
  BY <1>9 DEF NextMask, HoldoutInv, Holdout, TestGroups, GroupsOf, HashedToTest
<1>10. CASE UNCHANGED holdoutVars
  BY <1>10 DEF holdoutVars, HoldoutInv, Holdout, TestGroups, GroupsOf, HashedToTest
<1> QED
  BY <1>1, <1>2, <1>3, <1>4, <1>5, <1>6, <1>7, <1>8, <1>9, <1>10 DEF HoldoutNext, HoldoutSteps

\* While policies are trained, evaluated and ablated, only items of the training side
\* have been learned from, and only items of the test side are measured.
LEMMA HoldoutInvariant == HoldoutSpec => []HoldoutInv
<1>1. HoldoutInv /\ [HoldoutNext]_holdoutVars => HoldoutInv'
  BY HoldoutInvStep
<1> QED  BY HoldoutInvStarts, <1>1, PTL DEF HoldoutSpec

\* Every item of a reported suite is on one side of a split that leaves neither side without
\* items, no design family is on both sides of what was learned and what was tested, and a
\* suite that grows within its families is split as before.
THEOREM SplitSoundAlways == HoldoutSpec => SplitSound
<1>1. HoldoutInv => BothSides /\ NoLeakage
  <2>1. ASSUME HoldoutInv, pc # "idle" PROVE BothSides /\ NoLeakage
    <3>1. split = Holdout(suite) /\ learned \subseteq split.train /\ tested \subseteq split.test
      BY <2>1 DEF HoldoutInv
    <3>2. GroupsOf(learned) \subseteq GroupsOf(split.train)
          /\ GroupsOf(tested) \subseteq GroupsOf(split.test)
      BY <3>1 DEF GroupsOf
    <3>3. /\ split.train \cup split.test = suite
          /\ GroupsOf(split.train) \cap GroupsOf(split.test) = {}
          /\ Cardinality(GroupsOf(suite)) > 1 => split.train # {} /\ split.test # {}
      BY <2>1, <3>1, SplitOfSuite DEF HoldoutInv
    <3> QED  BY <3>2, <3>3 DEF BothSides, NoLeakage
  <2> QED  BY <2>1 DEF BothSides, NoLeakage
<1>2. SplitStable
  BY TestGroupsOfGroups DEF SplitStable
<1> QED  BY HoldoutInvariant, <1>1, <1>2, PTL DEF SplitSound

-----------------------------------------------------------------------------
(***************************************************************************)
(* sva-intent-engine                                                       *)
(***************************************************************************)

\* One call: an input that can be asked for, and, once there is a report, the report on it.
IntentInv ==
    /\ tool = "intent" /\ input \in IntentInputs
    /\ reports = {} \/ reports = {RunFull(input)}

\* The report of run_full is the report on the input it was called with.
LEMMA IntentInvariant == IntentSpec => []IntentInv
<1>1. IntentInit => IntentInv
  BY DEF IntentInit, Called, IntentInv
<1>2. IntentInv /\ [GenerateIntents]_passVars => IntentInv'
  BY DEF IntentInv, GenerateIntents, Computing, Reports, passVars, RunFull
<1> QED  BY <1>1, <1>2, PTL DEF IntentSpec

\* The module that is looked at is one of the manifest, with or without a name to look for.
LEMMA ProjectedIsOne ==
    ASSUME NEW x \in IntentInputs
    PROVE  Projected(x) \in Range(x.modules)
<1> DEFINE named == {i \in DOMAIN x.modules : x.top = {x.modules[i].name}}
<1>1. DOMAIN x.modules = 1 .. Len(x.modules) /\ Len(x.modules) \in Nat /\ Len(x.modules) # 0
  BY IntentAssumption DEF IntentAssumption
<1>2. named \in SUBSET Nat
  BY <1>1
<1>3. named # {} => Min(named) \in named
  BY <1>2, MinOfSome
<1>4. (IF named = {} THEN 1 ELSE Min(named)) \in DOMAIN x.modules
  BY <1>1, <1>3
<1> QED  BY <1>4 DEF Projected, Range

LEMMA SymbolsHaveIds ==
    ASSUME NEW x \in IntentInputs
    PROVE  Symbols(x) \subseteq Range(NamesById) /\ DOMAIN NamesById = 1 .. Len(NamesById)
BY ProjectedIsOne, IntentAssumption DEF IntentAssumption, Symbols

\* Two matches of a term are counted as more than one.
LEMMA SeveralMatches ==
    ASSUME NEW x \in IntentInputs, NEW t, NEW m \in MatchTerm(x, t), NEW n \in MatchTerm(x, t), m # n
    PROVE  Cardinality(MatchTerm(x, t)) > 1
<1>1. IsFiniteSet(Range(NamesById))
  <2>1. NamesById \in Surjection(1 .. Len(NamesById), Range(NamesById))
    BY SymbolsHaveIds, IntentAssumption DEF IntentAssumption, Surjection, Range
  <2>2. IsFiniteSet(1 .. Len(NamesById))
    <3>1. Len(NamesById) \in Nat
      BY IntentAssumption DEF IntentAssumption
    <3> QED  BY <3>1, FS_Interval
  <2> QED  BY <2>1, <2>2, FS_Surjection
<1>2. IsFiniteSet(MatchTerm(x, t))
  <2>1. MatchTerm(x, t) \in SUBSET Range(NamesById)
    BY SymbolsHaveIds DEF MatchTerm
  <2> QED  BY <1>1, <2>1, FS_Subset
<1>3. Cardinality(MatchTerm(x, t)) \in Nat
  BY <1>2, FS_CardinalityType
<1>4. Cardinality(MatchTerm(x, t)) # 0
  BY <1>2, FS_EmptySet
<1>5. Cardinality(MatchTerm(x, t)) # 1
  BY <1>2, FS_Singleton
<1> QED  BY <1>3, <1>4, <1>5

\* The names that sort first among the best matches are one of them.
LEMMA BestMatchMatches ==
    ASSUME NEW x \in IntentInputs, NEW t, MatchTerm(x, t) # {}
    PROVE  BestMatch(x, t) \in MatchTerm(x, t)
<1> DEFINE M == MatchTerm(x, t)
           ids == {i \in DOMAIN NamesById : NamesById[i] \in M}
<1>1. M \subseteq Symbols(x)
  BY DEF MatchTerm
<1>2. Symbols(x) \subseteq Range(NamesById)
  BY SymbolsHaveIds
<1>3. DOMAIN NamesById \subseteq Nat
  BY IntentAssumption DEF IntentAssumption
<1>4. ids # {} /\ ids \in SUBSET Nat
  BY <1>1, <1>2, <1>3 DEF Range
<1>5. Min(ids) \in ids /\ \A i \in ids : Min(ids) <= i
  BY <1>4, MinOfSome
<1>6. \A m \in M : \E i, j \in DOMAIN NamesById :
         NamesById[i] = NamesById[Min(ids)] /\ NamesById[j] = m /\ i <= j
  <2> TAKE m \in M
  <2>1. PICK j \in DOMAIN NamesById : NamesById[j] = m
    BY <1>1, <1>2 DEF Range
  <2>2. j \in ids
    BY <2>1
  <2> QED  BY <1>5, <2>1, <2>2
<1>7. NamesById[Min(ids)] \in M
  BY <1>5
<1> HIDE DEF ids
<1> QED  BY <1>6, <1>7 DEF BestMatch

LEMMA ResolvedAreSymbols ==
    ASSUME NEW x \in IntentInputs, NEW s
    PROVE  ResolvedNames(x, s) \subseteq Symbols(x)
<1>1. ASSUME NEW t, MatchTerm(x, t) # {} PROVE BestMatch(x, t) \in Symbols(x)
  BY <1>1, BestMatchMatches DEF MatchTerm
<1>2. \A t \in ReferencedTerms(s) \ NotGrounded(x, s) : MatchTerm(x, t) # {}
  BY DEF NotGrounded
<1> QED  BY <1>1, <1>2 DEF ResolvedNames

\* What the two sides name is written in the sentence and resolved.
LEMMA SidesFromSentence ==
    ASSUME NEW s, WellRead(s), NEW form, NEW resolved,
           NEW p \in BuildExpressions(s, form, resolved).antecedent
                     \cup BuildExpressions(s, form, resolved).consequent
    PROVE  Range(p.names) \subseteq Range(s.names) \cap resolved
<1>1. ASSUME NEW phrase \in SUBSET (s.trigger \cup s.consequent \cup {s.whole}),
             NEW q \in Normalize(phrase, resolved)
      PROVE  Range(q.names) \subseteq Range(s.names) \cap resolved
  BY <1>1 DEF WellRead, Normalize
<1>2. FirstResolved(s, resolved) \subseteq Range(s.names) \cap resolved
  <2> DEFINE at == {i \in DOMAIN s.names : s.names[i] \in resolved \ StopNames}
  <2>1. at \in SUBSET Nat
    BY DEF WellRead
  <2>2. at # {} => Min(at) \in at
    BY <2>1, MinOfSome
  <2>3. FirstResolved(s, resolved) = IF at = {} THEN {} ELSE {s.names[Min(at)]}
    BY DEF FirstResolved
  <2> QED  BY <2>2, <2>3 DEF Range
<1>3. ASSUME NEW shape, NEW n \in FirstResolved(s, resolved),
             p = [shape |-> shape, names |-> <<n>>]
      PROVE  Range(p.names) \subseteq Range(s.names) \cap resolved
  <2>1. Range(p.names) = {n}
    BY <1>3 DEF Range
  <2> QED  BY <1>2, <2>1
<1>4. CASE form = "reset_state"
  BY <1>3, <1>4 DEF BuildExpressions
<1>5. CASE form = "one_hot"
  BY <1>3, <1>5 DEF BuildExpressions
<1>6. CASE form = "invariant"
  <2> DEFINE phrase == IF s.consequent # {} THEN s.consequent ELSE {s.whole}
  <2>1. p \in Normalize(phrase, resolved)
    BY <1>6 DEF BuildExpressions
  <2>2. phrase \in SUBSET (s.trigger \cup s.consequent \cup {s.whole})
    OBVIOUS
  <2> QED  BY <1>1, <2>1, <2>2
<1>7. CASE form \notin {"reset_state", "one_hot", "invariant"}
  <2>1. p \in Normalize(s.trigger, resolved) \/ p \in Normalize(s.consequent, resolved)
    BY <1>7 DEF BuildExpressions
  <2> QED  BY <1>1, <2>1
<1> QED  BY <1>4, <1>5, <1>6, <1>7

\* The condition of a sentence is one side of its property, or the form has no condition.
LEMMA ConditionOfForm ==
    ASSUME NEW x, NEW s, WellRead(s), NEW form \in ChooseForm(s),
           NEW sides, sides = BuildExpressions(s, form, ResolvedNames(x, s)),
           sides.consequent # {},
           NeedsAntecedent(form) => sides.antecedent # {}
    PROVE  \/ sides.antecedent = s.trigger
           \/ form = "one_hot"
           \/ ClassifyWords(s) = "cover" /\ Unread(x, s, form)
<1> DEFINE resolved == ResolvedNames(x, s)
<1>1. \A phrase : Normalize(phrase, resolved) \subseteq phrase
  BY DEF Normalize
<1>2. CASE form = "invariant"
  <2>1. sides = [antecedent |-> {},
                 consequent |-> Normalize(IF s.consequent # {} THEN s.consequent ELSE {s.whole}, resolved)]
    BY <1>2 DEF BuildExpressions
  <2>2. s.consequent = {} \/ s.trigger = {}
    BY <1>2 DEF ChooseForm, Implied, FormByTiming
  <2>3. s.trigger = {}
    BY <2>1, <2>2 DEF WellRead, Normalize
  <2> QED  BY <2>1, <2>3
<1>3. CASE form = "reset_state"
  <2>1. sides.antecedent = {}
    BY <1>3 DEF BuildExpressions
  <2>2. s.trigger = {}
    BY <1>3 DEF ChooseForm, Implied, FormByTiming
  <2> QED  BY <2>1, <2>2
<1>4. CASE form \notin {"reset_state", "one_hot", "invariant"}
  <2>1. sides.antecedent = Normalize(s.trigger, resolved)
    BY <1>4 DEF BuildExpressions
  <2>2. sides.antecedent # {} => sides.antecedent = s.trigger
    BY <1>1, <2>1 DEF WellRead
  <2>3. CASE sides.antecedent = {}
    <3>1. form = "eventually_within_bound"
      BY <1>4, <2>3 DEF NeedsAntecedent
    <3>2. ClassifyWords(s) = "cover"
      BY <3>1 DEF ChooseForm, FormByTiming
    <3>3. s.trigger # {} => Unread(x, s, form)
      BY <1>4, <2>3 DEF Unread
    <3> QED  BY <2>3, <3>2, <3>3
  <2> QED  BY <2>2, <2>3
<1> QED  BY <1>2, <1>3, <1>4

\* A property that is emitted renders the intent of a sentence that is clear and grounded.
LEMMA EmittedIsBuilt ==
    ASSUME IntentInv, Reported("intent"),
           NEW k \in DOMAIN input.sentences, NEW v \in EmittedFrom(k)
    PROVE  LET s == input.sentences[k]
           IN  /\ WellRead(s)
               /\ NotGrounded(input, s) = {}
               /\ ClassifyWords(s) \notin {"ambiguity", "unsupported"}
               /\ \E form \in ChooseForm(s) :
                     /\ v = ValidateAndRender(TemporalIntent(input, s, form))
                     /\ Renders(TemporalIntent(input, s, form))
<1> DEFINE s == input.sentences[k]
<1>1. Report = RunFull(input)
  BY DEF Report, Reported, IntentInv
<1>2. ~Report.refused /\ v \in Report.clauses[k].validation /\ v.emitted
  BY DEF EmittedFrom
<1>3. Report.clauses[k].validation = {ValidateAndRender(i) : i \in BuildIntent(input, s)}
  BY <1>1, <1>2 DEF RunFull
<1>4. PICK i \in BuildIntent(input, s) : v = ValidateAndRender(i)
  BY <1>2, <1>3
<1>5. NotGrounded(input, s) = {} /\ ClassifyWords(s) \notin {"ambiguity", "unsupported"}
  BY <1>4 DEF BuildIntent
<1>6. PICK form \in ChooseForm(s) : i = TemporalIntent(input, s, form)
  BY <1>4 DEF BuildIntent
<1>7. Renders(TemporalIntent(input, s, form))
  BY <1>2, <1>4, <1>6 DEF ValidateAndRender
<1>8. WellRead(s)
  BY IntentAssumption DEF IntentAssumption, IntentInv, Range
<1> QED  BY <1>4, <1>5, <1>6, <1>7, <1>8

\* Only clear and grounded sentences, with names, clock, reset and delays that were given and
\* with their condition, give properties, for every manifest, glossary and requirement.
THEOREM IntentSoundAlways == IntentSpec => []IntentSound
<1>1. ASSUME IntentInv, Reported("intent") PROVE IntentSound
  <2> DEFINE S(k) == input.sentences[k]
             Built(k, v, form) == /\ v = ValidateAndRender(TemporalIntent(input, S(k), form))
                                  /\ Renders(TemporalIntent(input, S(k), form))
  <2>1. Report = RunFull(input)
    BY <1>1 DEF Report, Reported, IntentInv
  <2>2. OnlyClearSentences
    <3> SUFFICES ASSUME NEW k \in DOMAIN input.sentences, NEW v \in EmittedFrom(k)
                 PROVE  /\ S(k).words \cap (VagueTerms \cup UnsupportedMarkers) = {}
                        /\ \A t \in ReferencedTerms(S(k)) :
                              \E n \in Symbols(input) : MatchScore(input, t, n) > 0
      BY DEF OnlyClearSentences
    <3>1. NotGrounded(input, S(k)) = {} /\ ClassifyWords(S(k)) \notin {"ambiguity", "unsupported"}
      BY <1>1, EmittedIsBuilt
    <3>2. S(k).words \cap (VagueTerms \cup UnsupportedMarkers) = {}
      BY <3>1 DEF ClassifyWords
    <3>3. \A t \in ReferencedTerms(S(k)) : MatchTerm(input, t) # {}
      BY <3>1 DEF NotGrounded
    <3> QED  BY <3>2, <3>3 DEF MatchTerm
  <2>3. NamesFromTheSentence
    <3> SUFFICES ASSUME NEW k \in DOMAIN input.sentences, NEW v \in EmittedFrom(k)
                 PROVE  Mentioned(v) \subseteq Range(S(k).names) \cap Symbols(input)
      BY DEF NamesFromTheSentence
    <3>1. WellRead(S(k)) /\ \E form \in ChooseForm(S(k)) : Built(k, v, form)
      BY <1>1, EmittedIsBuilt
    <3>2. PICK form : Built(k, v, form)
      BY <3>1
    <3>3. v.intent.sides = BuildExpressions(S(k), form, ResolvedNames(input, S(k)))
      BY <3>2 DEF ValidateAndRender, TemporalIntent
    <3>4. \A e \in v.intent.sides.antecedent \cup v.intent.sides.consequent :
             Range(e.names) \subseteq Range(S(k).names) \cap ResolvedNames(input, S(k))
      BY <3>1, <3>3, SidesFromSentence
    <3>5. ResolvedNames(input, S(k)) \subseteq Symbols(input)
      BY <1>1, ResolvedAreSymbols DEF IntentInv
    <3> QED  BY <3>4, <3>5 DEF Mentioned
  <2>4. NeverGuessed
    <3> SUFFICES ASSUME NEW k \in DOMAIN input.sentences, NEW v \in EmittedFrom(k)
                 PROVE  /\ \A c \in v.intent.clock : Projected(input).clocks = <<c>>
                        /\ v.intent.clock # {}
                        /\ \A d \in v.disable : /\ Len(Projected(input).resets) = 1
                                                /\ Projected(input).resets[1].signal = d.signal
                        /\ \A b \in v.intent.bounds :
                              \E t \in S(k).timing : t.lo = b.lo /\ t.hi = b.hi
      BY DEF NeverGuessed
    <3>1. PICK form : Built(k, v, form)
      BY <1>1, EmittedIsBuilt
    <3> DEFINE m == Projected(input)
    <3>2. m.clocks \in Seq(Range(m.clocks)) /\ m.resets \in Seq(Range(m.resets))
      BY <1>1, ProjectedIsOne, IntentAssumption DEF IntentAssumption, IntentInv
    <3>3. /\ v.intent.clock = SoleOf(m.clocks) /\ v.intent.clock # {}
          /\ v.intent.reset = {r.signal : r \in SoleOf(m.resets)}
          /\ v.intent.bounds = ExtractBounds(S(k))
          /\ v.disable = DisableIff(v.intent)
      BY <3>1 DEF ValidateAndRender, TemporalIntent, Renders
    <3>4. \A c \in v.intent.clock : m.clocks = <<c>>
      BY <3>2, <3>3 DEF SoleOf
    <3>5. \A d \in v.disable : d.signal \in v.intent.reset
      BY <3>3 DEF DisableIff
    <3>6. \A d \in v.disable : Len(m.resets) = 1 /\ m.resets[1].signal = d.signal
      BY <3>2, <3>3, <3>5 DEF SoleOf
    <3>7. \A b \in v.intent.bounds : \E t \in S(k).timing : t.lo = b.lo /\ t.hi = b.hi
      BY <3>3 DEF ExtractBounds
    <3> QED  BY <3>3, <3>4, <3>6, <3>7
  <2>5. ConditionKept
    <3> SUFFICES ASSUME NEW k \in DOMAIN input.sentences, NEW v \in EmittedFrom(k)
                 PROVE  /\ \/ v.intent.sides.antecedent = S(k).trigger
                           \/ v.intent.form = "one_hot"
                           \/ v.intent.kind = "cover" /\ v.warned
                        /\ \A t \in ReferencedTerms(S(k)) :
                              (\E i, j \in MatchTerm(input, t) : i # j) => v.warned
      BY DEF ConditionKept
    <3>1. PICK form \in ChooseForm(S(k)) : Built(k, v, form)
      BY <1>1, EmittedIsBuilt
    <3>2. /\ v.intent.sides = BuildExpressions(S(k), form, ResolvedNames(input, S(k)))
          /\ v.intent.form = form /\ v.intent.kind = ClassifyWords(S(k))
          /\ v.warned <=> AmbiguousTerms(input, S(k)) # {} \/ Unread(input, S(k), form)
      BY <3>1 DEF ValidateAndRender, TemporalIntent
    <3>3. v.intent.sides.consequent # {} /\ (NeedsAntecedent(form) => v.intent.sides.antecedent # {})
      BY <3>1 DEF ValidateAndRender, TemporalIntent, Renders
    <3>4. WellRead(S(k))
      BY <1>1, EmittedIsBuilt
    <3>5. \/ v.intent.sides.antecedent = S(k).trigger
          \/ form = "one_hot"
          \/ ClassifyWords(S(k)) = "cover" /\ Unread(input, S(k), form)
      BY <3>2, <3>3, <3>4, ConditionOfForm
    <3>6. ASSUME NEW t \in ReferencedTerms(S(k)), \E i, j \in MatchTerm(input, t) : i # j
          PROVE  t \in AmbiguousTerms(input, S(k))
      <4>1. Cardinality(MatchTerm(input, t)) > 1
        BY <1>1, <3>6, SeveralMatches DEF IntentInv
      <4> QED  BY <4>1 DEF AmbiguousTerms
    <3> QED  BY <3>2, <3>5, <3>6
  <2>6. Report.refused <=> \E k \in DOMAIN input.sentences : \E b \in ExtractBounds(S(k)) : b.lo > b.hi
    <3>1. Report.refused <=> \E k \in DOMAIN input.sentences : Inverted(S(k))
      BY <2>1 DEF RunFull
    <3> QED  BY <3>1 DEF Inverted
  <2>7. ~Report.refused /\ Report.allGrounded =>
           \A k \in DOMAIN Report.clauses : Report.clauses[k].unresolved = {}
    BY <2>1 DEF RunFull
  <2> QED  BY <2>2, <2>3, <2>4, <2>5, <2>6, <2>7 DEF IntentSound
<1>2. IntentInv => IntentSound
  BY <1>1 DEF IntentSound
<1> QED  BY IntentInvariant, <1>2, PTL

-----------------------------------------------------------------------------
(***************************************************************************)
(* protocol-contract-agent                                                 *)
(***************************************************************************)

\* One call: an input that can be asked for, and, once there is a report, the report on it.
ContractInv ==
    /\ tool = "protocol-contract" /\ input \in ContractRequests
    /\ reports = {} \/ reports = {GenerateContract(input)}

\* The contract that is returned is the one of the request it was asked for.
LEMMA ContractInvariant == ContractSpec => []ContractInv
<1>1. ContractInit => ContractInv
  BY DEF ContractInit, Called, ContractInv
<1>2. ContractInv /\ [MakeContract]_passVars => ContractInv'
  <2>1. ASSUME ContractInv, MakeContract PROVE ContractInv'
    <3>1. reports' = {GenerateContract(input)} /\ tool' = tool /\ input' = input
      BY <2>1 DEF MakeContract, Reports
    <3> HIDE DEF GenerateContract
    <3> QED  BY <2>1, <3>1 DEF ContractInv
  <2>2. ASSUME ContractInv, UNCHANGED passVars PROVE ContractInv'
    BY <2>2 DEF ContractInv, passVars
  <2> QED  BY <2>1, <2>2
<1> QED  BY <1>1, <1>2, PTL DEF ContractSpec

LEMMA RuleHas ==
    ASSUME NEW name, NEW kind, NEW when, NEW style, NEW then,
           NEW r, r = Rule(name, kind, when, style, then)
    PROVE  /\ r.name = name /\ r.kind = kind /\ r.when = when /\ r.style = style
           /\ r.then = then /\ r.window = <<>>
BY DEF Rule

LEMMA CoverHas ==
    ASSUME NEW name, NEW literals, NEW r, r = Cover(name, literals)
    PROVE  r.kind = "cover" /\ r.style = "now" /\ r.then.form = "all" /\ r.window = <<>>
BY DEF Cover, Rule, All

LEMMA NeverHas ==
    ASSUME NEW name, NEW literals, NEW r, r = Never(name, literals)
    PROVE  /\ r.kind = "assert" /\ r.when = {} /\ r.style = "now"
           /\ r.then = NotAll(literals) /\ r.then.form = "not" /\ r.window = <<>>
BY DEF Never, Rule, NotAll

\* A window comes from the bound that was given.
LEMMA RespondHas ==
    ASSUME NEW c, NEW name, NEW from, NEW to, NEW r \in Respond(c, name, from, to)
    PROVE  /\ r.name = name /\ r.kind = "assert" /\ r.when = {High(from)} /\ r.style = "within"
           /\ r.then = All({High(to)}) /\ r.then.form = "all"
           /\ r.window = Window(c) /\ c.high # {}
<1> DEFINE base == Rule(name, "assert", {High(from)}, "within", All({High(to)}))
<1>1. c.high # {} /\ r = [base EXCEPT !.window = Window(c)]
  BY DEF Respond
<1>2. r.window = Window(c)
  BY <1>1 DEF Rule
<1>3. r.name = name /\ r.kind = "assert" /\ r.when = {High(from)} /\ r.style = "within"
      /\ r.then = All({High(to)})
  BY <1>1 DEF Rule
<1>4. r.then.form = "all"
  BY <1>3 DEF All
<1> QED  BY <1>1, <1>2, <1>3, <1>4

LEMMA InResetHas ==
    ASSUME NEW c, NEW name, NEW literal, NEW r \in InReset(c, name, literal)
    PROVE  /\ r.kind = "assert" /\ r.style = "in_reset" /\ r.then = All({literal})
           /\ r.then.form = "all" /\ r.window = <<>>
           /\ c.reset # {} /\ c.polarity # "unknown"
<1>1. c.reset # {} /\ c.polarity # "unknown" /\ r = Rule(name, "assert", {}, "in_reset", All({literal}))
  BY DEF InReset
<1>2. r.then = All({literal}) /\ r.kind = "assert" /\ r.style = "in_reset" /\ r.window = <<>>
  BY <1>1, RuleHas
<1> QED  BY <1>1, <1>2 DEF All

\* The rules of a handshake that are not covers, by name.
LEMMA ValidReadyRules ==
    ASSUME NEW c, NEW r \in ValidReady(c)
    PROVE  /\ r.window = <<>> /\ r.style # "in_reset" /\ r.then.form = "all"
           /\ \/ r.kind = "cover"
              \/ /\ r.kind = IF c.roles["valid"] = "env_input" THEN "assume" ELSE "assert"
                 /\ r.when = {High("valid"), Low("ready")}
                 /\ \/ r.style = "next" /\ r.then = All({High("valid")})
                    \/ r.style = "stable" /\ r.then = All({High("data")}) /\ "data" \in DOMAIN c.roles
<1> DEFINE stalled == {High("valid"), Low("ready")}
           kind == IF c.roles["valid"] = "env_input" THEN "assume" ELSE "assert"
<1>1. \/ r = Rule("valid_stable", kind, stalled, "next", All({High("valid")}))
      \/ \E name, literals : r = Cover(name, literals)
      \/ r = Rule("data_stable", kind, stalled, "stable", All({High("data")})) /\ "data" \in DOMAIN c.roles
  BY DEF ValidReady, With
<1> HIDE DEF stalled, kind
<1>2. CASE r = Rule("valid_stable", kind, stalled, "next", All({High("valid")}))
  BY <1>2, RuleHas DEF All, stalled, kind
<1>3. CASE \E name, literals : r = Cover(name, literals)
  BY <1>3, CoverHas
<1>4. CASE r = Rule("data_stable", kind, stalled, "stable", All({High("data")})) /\ "data" \in DOMAIN c.roles
  BY <1>4, RuleHas DEF All, stalled, kind
<1> QED  BY <1>1, <1>2, <1>3, <1>4

LEMMA ReqGrantRules ==
    ASSUME NEW c, NEW r \in ReqGrant(c)
    PROVE  /\ r.style # "in_reset" /\ r.then.form = "all"
           /\ r.window # <<>> => r.window = Window(c) /\ c.high # {}
           /\ \/ r.kind = "cover"
              \/ /\ r.kind = "assert" /\ r.when = {High("grant")} /\ r.style = "now"
                 /\ r.then = All({High("req")})
              \/ /\ r.kind = "assert" /\ r.name = "grant_latency" /\ r.window = Window(c)
                 /\ r.when = {High("req")} /\ r.style = "within" /\ r.then = All({High("grant")})
              \/ /\ r.kind = "assume" /\ c.roles["req"] = "env_input"
                 /\ r.when = {High("req"), Low("grant")} /\ r.style = "next" /\ r.then = All({High("req")})
<1> DEFINE latency == Respond(c, "grant_latency", "req", "grant")
           spurious == Rule("no_spurious_grant", "assert", {High("grant")}, "now", All({High("req")}))
           held == Rule("req_stable", "assume", {High("req"), Low("grant")}, "next", All({High("req")}))
<1>1. \/ r = spurious
      \/ \E name, literals : r = Cover(name, literals)
      \/ \E q \in latency : r = [q EXCEPT !.after = {"no_spurious_grant"}]
      \/ r = held /\ c.roles["req"] = "env_input"
  BY DEF ReqGrant
<1> HIDE DEF latency
<1>2. CASE r = spurious
  BY <1>2, RuleHas DEF All
<1>3. CASE \E name, literals : r = Cover(name, literals)
  BY <1>3, CoverHas
<1>4. CASE \E q \in latency : r = [q EXCEPT !.after = {"no_spurious_grant"}]
  <2>1. PICK q \in latency : r = [q EXCEPT !.after = {"no_spurious_grant"}]
    BY <1>4
  <2>2. /\ r.name = q.name /\ r.kind = q.kind /\ r.when = q.when /\ r.style = q.style
        /\ r.then = q.then /\ r.window = q.window
    BY <2>1 DEF latency, Respond, Rule
  <2>3. /\ q.name = "grant_latency" /\ q.kind = "assert" /\ q.when = {High("req")} /\ q.style = "within"
        /\ q.then = All({High("grant")}) /\ q.then.form = "all"
        /\ q.window = Window(c) /\ c.high # {}
    BY <2>1, RespondHas DEF latency
  <2> QED  BY <2>2, <2>3
<1>5. CASE r = held /\ c.roles["req"] = "env_input"
  BY <1>5, RuleHas DEF All
<1> QED  BY <1>1, <1>2, <1>3, <1>4, <1>5

\* The rules of a queue: what full and empty forbid, the reset, and the three of a depth.
LEMMA FifoRules ==
    ASSUME NEW c, NEW r \in Fifo(c)
    PROVE  /\ r.kind # "assume" /\ r.window = <<>>
           /\ \/ r.kind = "cover" /\ r.style = "now" /\ r.then.form = "all"
              \/ /\ r.when = {} /\ r.style = "now" /\ r.then.form = "not"
                 /\ r.then \in {NotAll({High("full"), High("push")}), NotAll({High("empty"), High("pop")})}
              \/ /\ r.style = "in_reset" /\ r.then = All({High("empty")}) /\ r.then.form = "all"
                 /\ c.reset # {} /\ c.polarity # "unknown"
              \/ /\ r.when = {} /\ r.style = "now" /\ c.depth # {}
                 /\ \/ r.then = AtMostText("count", The(c.depth))
                    \/ /\ r.then \in {IffCount("full", "count", The(c.depth)), IffCount("empty", "count", 0)}
                       /\ r.then.form = "iff"
<1> DEFINE d == The(c.depth)
           bound == Rule("count_bound", "assert", {}, "now", AtMostText("count", d))
           full == Rule("full_iff_count", "assert", {}, "now", IffCount("full", "count", d))
           empty == Rule("empty_iff_count", "assert", {}, "now", IffCount("empty", "count", 0))
<1>1. \/ \E name : r = Never(name, {High("full"), High("push")})
      \/ \E name : r = Never(name, {High("empty"), High("pop")})
      \/ \E name, literals : r = Cover(name, literals)
      \/ r \in InReset(c, "reset_empty", High("empty"))
      \/ c.depth # {} /\ r \in {bound, full, empty}
  <2>1. \/ r \in With(c, {"full"}, {Never("no_overflow", {High("full"), High("push")}), Cover("fill", {High("full")})})
        \/ r \in With(c, {"empty"}, {Never("no_underflow", {High("empty"), High("pop")}), Cover("drain", {High("empty")})}
                                    \cup InReset(c, "reset_empty", High("empty")))
        \/ /\ c.depth # {}
           /\ \/ r \in With(c, {"count"}, {bound})
              \/ r \in With(c, {"count", "full"}, {full})
              \/ r \in With(c, {"count", "empty"}, {empty})
        \/ r = Cover("concurrent", {High("push"), High("pop")})
    BY DEF Fifo
  <2> HIDE DEF bound, full, empty
  <2> QED  BY <2>1 DEF With
<1>2. CASE \E name : r = Never(name, {High("full"), High("push")})
  BY <1>2, NeverHas
<1>3. CASE \E name : r = Never(name, {High("empty"), High("pop")})
  BY <1>3, NeverHas
<1>4. CASE \E name, literals : r = Cover(name, literals)
  BY <1>4, CoverHas
<1>5. CASE r \in InReset(c, "reset_empty", High("empty"))
  BY <1>5, InResetHas
<1>6. CASE c.depth # {} /\ r = bound
  BY <1>6, RuleHas
<1>7. CASE c.depth # {} /\ r = full
  BY <1>7, RuleHas DEF IffCount
<1>8. CASE c.depth # {} /\ r = empty
  BY <1>8, RuleHas DEF IffCount
<1> QED  BY <1>1, <1>2, <1>3, <1>4, <1>5, <1>6, <1>7, <1>8

LEMMA InterruptRules ==
    ASSUME NEW c, NEW r \in Interrupt(c)
    PROVE  /\ r.kind # "assume" /\ r.then.form = "all"
           /\ r.window # <<>> => r.window = Window(c) /\ c.high # {}
           /\ \/ r.kind = "cover" /\ r.style = "now"
              \/ /\ r.when = {High("irq"), Low("clear")} /\ r.style = "next" /\ r.then = All({High("irq")})
              \/ /\ r.when = {High("clear"), Low("source")} /\ r.style = "next" /\ r.then = All({Low("irq")})
              \/ /\ r.when = {High("source")} /\ r.style = "within" /\ r.window = Window(c)
                 /\ r.then = All({High("irq")})
              \/ /\ r.style = "in_reset" /\ r.then = All({Low("irq")})
                 /\ c.reset # {} /\ c.polarity # "unknown"
<1> DEFINE sticky == Rule("irq_sticky", "assert", {High("irq"), Low("clear")}, "next", All({High("irq")}))
           clears == Rule("irq_clears", "assert", {High("clear"), Low("source")}, "next", All({Low("irq")}))
<1>1. \/ r = sticky
      \/ r = [clears EXCEPT !.after = {"irq_sticky"}]
      \/ r \in Respond(c, "irq_raise", "source", "irq")
      \/ \E name, literals : r = Cover(name, literals)
      \/ r \in InReset(c, "irq_reset_low", Low("irq"))
  <2>1. \/ r \in With(c, {"clear"}, {sticky})
        \/ r \in With(c, {"clear", "source"}, {[clears EXCEPT !.after = {"irq_sticky"}]})
        \/ r \in With(c, {"source"}, Respond(c, "irq_raise", "source", "irq"))
        \/ r = Cover("irq", {High("irq")})
        \/ r \in InReset(c, "irq_reset_low", Low("irq"))
    BY DEF Interrupt
  <2> HIDE DEF sticky, clears
  <2> QED  BY <2>1 DEF With
<1>2. CASE r = sticky
  BY <1>2, RuleHas DEF All
<1>3. CASE r = [clears EXCEPT !.after = {"irq_sticky"}]
  <2>1. /\ r.kind = clears.kind /\ r.when = clears.when /\ r.style = clears.style
        /\ r.then = clears.then /\ r.window = clears.window
    BY <1>3 DEF Rule
  <2>2. /\ clears.kind = "assert" /\ clears.when = {High("clear"), Low("source")} /\ clears.style = "next"
        /\ clears.then = All({Low("irq")}) /\ clears.window = <<>>
    BY RuleHas
  <2> HIDE DEF clears
  <2>3. /\ r.kind = "assert" /\ r.when = {High("clear"), Low("source")} /\ r.style = "next"
        /\ r.then = All({Low("irq")}) /\ r.window = <<>>
    BY <2>1, <2>2
  <2>4. r.then.form = "all"
    BY <2>3 DEF All
  <2> QED  BY <2>3, <2>4
<1>4. CASE r \in Respond(c, "irq_raise", "source", "irq")
  BY <1>4, RespondHas
<1>5. CASE \E name, literals : r = Cover(name, literals)
  BY <1>5, CoverHas
<1>6. CASE r \in InReset(c, "irq_reset_low", Low("irq"))
  BY <1>6, InResetHas
<1> QED  BY <1>1, <1>2, <1>3, <1>4, <1>5, <1>6

LEMMA CreditRules ==
    ASSUME NEW c, NEW r \in Credit(c)
    PROVE  /\ r.kind # "assume" /\ r.window = <<>>
           /\ \/ r.kind = "cover" /\ r.style = "now" /\ r.then.form = "all"
              \/ /\ r.when = {} /\ r.style = "now" /\ r.then.form = "not"
                 /\ r.then = NotAll({High("send"), <<"credit_count", 0>>})
              \/ /\ r.when = {} /\ r.style = "now"
                 /\ \E n \in c.credits : r.then = AtMostText("credit_count", n)
<1> DEFINE bound(n) == Rule("credit_bound", "assert", {}, "now", AtMostText("credit_count", n))
<1>1. \/ \E name : r = Never(name, {High("send"), <<"credit_count", 0>>})
      \/ \E name, literals : r = Cover(name, literals)
      \/ \E n \in c.credits : r = bound(n)
  BY DEF Credit, With
<1>2. CASE \E name : r = Never(name, {High("send"), <<"credit_count", 0>>})
  BY <1>2, NeverHas
<1>3. CASE \E name, literals : r = Cover(name, literals)
  BY <1>3, CoverHas
<1>4. ASSUME NEW n \in c.credits, r = bound(n)
      PROVE  r.kind = "assert" /\ r.window = <<>> /\ r.when = {} /\ r.style = "now"
             /\ r.then = AtMostText("credit_count", n)
  BY <1>4, RuleHas
<1> QED  BY <1>1, <1>2, <1>3, <1>4

\* A literal over a signal of one bit.
LEMMA HighHolds ==
    ASSUME NEW s, NEW a, s[a] \in BOOLEAN
    PROVE  LiteralsHold({High(a)}, s) <=> s[a]
<1>1. High(a)[2] = TRUE
  BY DEF High
<1>2. LiteralsHold({High(a)}, s) <=> s[a] = High(a)[2]
  BY DEF LiteralsHold, High
<1> QED  BY <1>1, <1>2

LEMMA LowHolds ==
    ASSUME NEW s, NEW a, s[a] \in BOOLEAN
    PROVE  LiteralsHold({Low(a)}, s) <=> ~s[a]
<1>1. Low(a)[2] = FALSE
  BY DEF Low
<1>2. LiteralsHold({Low(a)}, s) <=> s[a] = Low(a)[2]
  BY DEF LiteralsHold, Low
<1> QED  BY <1>1, <1>2

LEMMA BothHold ==
    ASSUME NEW s, NEW k, NEW l
    PROVE  LiteralsHold({k, l}, s) <=> LiteralsHold({k}, s) /\ LiteralsHold({l}, s)
BY DEF LiteralsHold

LEMMA FollowsForm ==
    ASSUME NEW s, NEW literals
    PROVE  /\ Follows(All(literals), s) <=> LiteralsHold(literals, s)
           /\ Follows(NotAll(literals), s) <=> ~LiteralsHold(literals, s)
BY DEF Follows, All, NotAll

LEMMA ValidReadyKept ==
    ASSUME NEW c, c.protocol = "valid_ready", NEW r \in ValidReady(c), r.kind # "cover",
           NEW p \in Ideal(c)
    PROVE  RuleHolds(r, c.polarity, p[1], p[2])
<1>1. /\ p[1]["valid"] \in BOOLEAN /\ p[1]["ready"] \in BOOLEAN /\ p[2]["valid"] \in BOOLEAN
      /\ p[1]["valid"] /\ ~p[1]["ready"] => p[2]["valid"] /\ p[2]["data"] = p[1]["data"]
  BY DEF Ideal
<1>2. LiteralsHold({High("valid"), Low("ready")}, p[1]) <=> p[1]["valid"] /\ ~p[1]["ready"]
  <2>1. LiteralsHold({High("valid")}, p[1]) <=> p[1]["valid"]
    <3> DEFINE s == p[1]
    <3>1. s["valid"] \in BOOLEAN
      BY <1>1
    <3> HIDE DEF s
    <3>2. LiteralsHold({High("valid")}, s) <=> s["valid"]
      BY <3>1, HighHolds
    <3> QED  BY <3>2 DEF s
  <2>2. LiteralsHold({Low("ready")}, p[1]) <=> ~p[1]["ready"]
    BY <1>1, LowHolds
  <2> QED  BY <2>1, <2>2, BothHold
<1>3. CASE r.when = {High("valid"), Low("ready")} /\ r.style = "next" /\ r.then = All({High("valid")})
  <2>1. Follows(r.then, p[2]) <=> p[2]["valid"]
    BY <1>1, <1>3, FollowsForm, HighHolds
  <2>2. LiteralsHold(r.when, p[1]) => Follows(r.then, p[2])
    BY <1>1, <1>2, <1>3, <2>1
  <2> QED  BY <1>3, <2>2 DEF RuleHolds
<1>4. CASE r.when = {High("valid"), Low("ready")} /\ r.style = "stable" /\ r.then = All({High("data")})
  <2>1. r.then.literals = {High("data")} /\ High("data")[1] = "data"
    BY <1>4 DEF All, High
  <2>2. LiteralsHold(r.when, p[1]) => \A l \in r.then.literals : p[2][l[1]] = p[1][l[1]]
    BY <1>1, <1>2, <1>4, <2>1
  <2> QED  BY <1>4, <2>2 DEF RuleHolds
<1> QED  BY <1>3, <1>4, ValidReadyRules

\* A rule of the cycle itself, without a condition.
LEMMA NowHolds ==
    ASSUME NEW r, NEW polarity, NEW s, NEW t, r.style = "now", r.when = {}, Follows(r.then, s)
    PROVE  RuleHolds(r, polarity, s, t)
BY DEF RuleHolds

LEMMA WindowGiven ==
    ASSUME NEW c, ~WindowRefused(c), c.low \subseteq Int, c.high \subseteq Int, c.high # {},
           c.protocol = "req_grant" \/ (c.protocol = "interrupt" /\ Has(c, "source"))
    PROVE  /\ Window(c)[1] \in Nat /\ Window(c)[2] \in Nat /\ Window(c)[1] <= Window(c)[2]
           /\ Window(c)[2] \in c.high
<1>1. The(c.high) \in c.high /\ (c.low # {} => The(c.low) \in c.low)
  BY DEF The
<1>2. Window(c)[1] \in Int /\ Window(c)[2] \in Int /\ Window(c)[2] \in c.high
  BY <1>1 DEF Window
<1>3. ~(Window(c)[1] < 0) /\ ~(Window(c)[2] < Window(c)[1])
  BY DEF WindowRefused
<1> QED  BY <1>2, <1>3

LEMMA ReqGrantKept ==
    ASSUME NEW c, c.protocol = "req_grant", NEW r \in ReqGrant(c), r.kind # "cover",
           r.window # <<>> => Window(c)[1] \in Nat /\ Window(c)[2] \in Nat /\ Window(c)[1] <= Window(c)[2],
           NEW s, NEW t, <<s, t>> \in Ideal(c)
    PROVE  \/ RuleHolds(r, c.polarity, s, t)
           \/ r.style = "within" /\ r.window[2] = 0
           \/ r.name = "grant_latency" /\ r.window[1] > 0 /\ s.grant
<1>1. /\ s["req"] \in BOOLEAN /\ s["grant"] \in BOOLEAN
      /\ t["req"] \in BOOLEAN /\ t["grant"] \in BOOLEAN
  BY DEF Ideal
<1>2. /\ s["grant"] => s["req"]
      /\ s["req"] /\ ~s["grant"] => t["req"] /\ t["grant"]
  BY DEF Ideal
<1>3. /\ LiteralsHold({High("req")}, s) <=> s["req"]
      /\ LiteralsHold({High("grant")}, s) <=> s["grant"]
      /\ LiteralsHold({High("req")}, t) <=> t["req"]
      /\ LiteralsHold({High("grant")}, t) <=> t["grant"]
      /\ LiteralsHold({Low("grant")}, s) <=> ~s["grant"]
  <2>1. LiteralsHold({High("req")}, s) <=> s["req"]
    <3>1. s["req"] \in BOOLEAN
      BY <1>1
    <3> QED  BY <3>1, HighHolds
  <2>2. LiteralsHold({High("grant")}, s) <=> s["grant"]
    BY <1>1, HighHolds
  <2>3. LiteralsHold({High("req")}, t) <=> t["req"]
    BY <1>1, HighHolds
  <2>4. LiteralsHold({High("grant")}, t) <=> t["grant"]
    BY <1>1, HighHolds
  <2>5. LiteralsHold({Low("grant")}, s) <=> ~s["grant"]
    BY <1>1, LowHolds
  <2> QED  BY <2>1, <2>2, <2>3, <2>4, <2>5
<1>4. CASE r.when = {High("grant")} /\ r.style = "now" /\ r.then = All({High("req")})
  <2>1. LiteralsHold(r.when, s) => Follows(r.then, s)
    BY <1>2, <1>3, <1>4, FollowsForm
  <2> QED  BY <1>4, <2>1 DEF RuleHolds
<1>5. CASE /\ r.name = "grant_latency" /\ r.window = Window(c)
           /\ r.when = {High("req")} /\ r.style = "within" /\ r.then = All({High("grant")})
  <2>1. (Follows(r.then, s) <=> s["grant"]) /\ (Follows(r.then, t) <=> t["grant"])
    BY <1>3, <1>5, FollowsForm
  <2>2. r.window[1] \in Nat /\ r.window[2] \in Nat /\ r.window[1] <= r.window[2]
    <3>1. r.window # <<>>
      BY <1>5 DEF Window
    <3> QED  BY <1>5, <3>1
  <2>3. CASE s["grant"] /\ r.window[1] = 0
    BY <1>5, <2>1, <2>3 DEF RuleHolds
  <2>4. CASE ~s["grant"] /\ r.window[2] >= 1
    <3>1. LiteralsHold(r.when, s) => Follows(r.then, t)
      BY <1>2, <1>3, <1>5, <2>1, <2>4
    <3> QED  BY <1>5, <2>4, <3>1 DEF RuleHolds
  <2>5. s.grant = s["grant"]
    OBVIOUS
  <2> QED  BY <1>1, <1>5, <2>2, <2>3, <2>4, <2>5
<1>6. CASE r.when = {High("req"), Low("grant")} /\ r.style = "next" /\ r.then = All({High("req")})
  <2>1. LiteralsHold(r.when, s) <=> s["req"] /\ ~s["grant"]
    <3>1. LiteralsHold({High("req"), Low("grant")}, s)
            <=> LiteralsHold({High("req")}, s) /\ LiteralsHold({Low("grant")}, s)
      BY BothHold
    <3> QED  BY <1>3, <1>6, <3>1
  <2>2. LiteralsHold(r.when, s) => Follows(r.then, t)
    BY <1>2, <1>3, <1>6, <2>1, FollowsForm
  <2> QED  BY <1>6, <2>2 DEF RuleHolds
<1> QED  BY <1>4, <1>5, <1>6, ReqGrantRules

LEMMA FifoKept ==
    ASSUME NEW c, c.protocol = "fifo", c.depth \subseteq Int, NEW r \in Fifo(c), r.kind # "cover",
           NEW s, NEW t, <<s, t>> \in Ideal(c)
    PROVE  RuleHolds(r, c.polarity, s, t)
<1> DEFINE room == IF c.depth = {} THEN 1 ELSE The(c.depth)
           at(n, push, pop, reset) ==
               [count |-> n, push |-> push, pop |-> pop, full |-> n = room, empty |-> n = 0,
                reset |-> reset]
<1>1. \E n \in 0 .. room, u \in BOOLEAN, v \in BOOLEAN, w \in BOOLEAN :
         s = at(n, u, v, w) /\ (s.push => ~s.full) /\ (s.pop => ~s.empty) /\ (s.reset => s.empty)
  <2> DEFINE all == {at(n, u, v, w) : n \in 0 .. room, u \in BOOLEAN, v \in BOOLEAN, w \in BOOLEAN}
             states == {q \in all : (q.push => ~q.full) /\ (q.pop => ~q.empty) /\ (q.reset => q.empty)}
             next(p) == p[2].count = IF p[2].reset THEN 0
                                     ELSE p[1].count + (IF p[1].push THEN 1 ELSE 0)
                                                     - (IF p[1].pop THEN 1 ELSE 0)
  <2>1. Ideal(c) = {p \in states \X states : next(p)}
    BY DEF Ideal
  <2>2. s \in states
    <3> HIDE DEF states, next
    <3> QED  BY <2>1
  <2>3. s \in all
    BY <2>2
  <2> HIDE DEF at
  <2> QED  BY <2>2, <2>3
<1> HIDE DEF room
<1>2. PICK n \in 0 .. room, u \in BOOLEAN, v \in BOOLEAN, w \in BOOLEAN :
         s = at(n, u, v, w) /\ (s.push => ~s.full) /\ (s.pop => ~s.empty) /\ (s.reset => s.empty)
  BY <1>1
<1>3. /\ s["push"] \in BOOLEAN /\ s["pop"] \in BOOLEAN /\ s["full"] \in BOOLEAN
      /\ s["empty"] \in BOOLEAN /\ s["reset"] \in BOOLEAN /\ s["count"] = n
      /\ s["full"] = (n = room) /\ s["empty"] = (n = 0)
  BY <1>2
<1>4. ~(s["full"] /\ s["push"]) /\ ~(s["empty"] /\ s["pop"]) /\ (s["reset"] => s["empty"])
  BY <1>2
<1>5. LiteralsHold({High("full"), High("push")}, s) => FALSE
  <2>1. LiteralsHold({High("full")}, s) <=> s["full"]
    <3>1. s["full"] \in BOOLEAN
      BY <1>3
    <3> QED  BY <3>1, HighHolds
  <2>2. LiteralsHold({High("push")}, s) <=> s["push"]
    <3>1. s["push"] \in BOOLEAN
      BY <1>3
    <3> QED  BY <3>1, HighHolds
  <2>3. LiteralsHold({High("full"), High("push")}, s)
          <=> LiteralsHold({High("full")}, s) /\ LiteralsHold({High("push")}, s)
    BY BothHold
  <2> QED  BY <1>4, <2>1, <2>2, <2>3
<1>6. LiteralsHold({High("empty"), High("pop")}, s) => FALSE
  <2>1. LiteralsHold({High("empty")}, s) <=> s["empty"]
    <3>1. s["empty"] \in BOOLEAN
      BY <1>3
    <3> QED  BY <3>1, HighHolds
  <2>2. LiteralsHold({High("pop")}, s) <=> s["pop"]
    <3>1. s["pop"] \in BOOLEAN
      BY <1>3
    <3> QED  BY <3>1, HighHolds
  <2>3. LiteralsHold({High("empty"), High("pop")}, s)
          <=> LiteralsHold({High("empty")}, s) /\ LiteralsHold({High("pop")}, s)
    BY BothHold
  <2> QED  BY <1>4, <2>1, <2>2, <2>3
<1>7. CASE /\ r.when = {} /\ r.style = "now"
           /\ r.then \in {NotAll({High("full"), High("push")}), NotAll({High("empty"), High("pop")})}
  <2>1. Follows(r.then, s)
    BY <1>5, <1>6, <1>7, FollowsForm
  <2> QED  BY <1>7, <2>1, NowHolds
<1>8. CASE r.style = "in_reset" /\ r.then = All({High("empty")})
  <2>1. LiteralsHold({High("empty")}, s) <=> s["empty"]
    <3>1. s["empty"] \in BOOLEAN
      BY <1>3
    <3> QED  BY <3>1, HighHolds
  <2>2. Follows(r.then, s) <=> s["empty"]
    BY <1>8, <2>1, FollowsForm
  <2>3. s.reset => Follows(r.then, s)
    BY <1>4, <2>2
  <2> QED  BY <1>8, <2>3 DEF RuleHolds
<1>9. CASE r.when = {} /\ r.style = "now" /\ c.depth # {} /\ r.then = AtMostText("count", The(c.depth))
  <2>1. The(c.depth) \in Int /\ room = The(c.depth)
    BY <1>9 DEF The, room
  <2>2. s["count"] <= The(c.depth)
    BY <1>3, <2>1
  <2>3. Follows(r.then, s)
    BY <1>9, <2>2 DEF Follows, AtMostText
  <2> QED  BY <1>9, <2>3, NowHolds
<1>10. CASE r.when = {} /\ r.style = "now" /\ c.depth # {} /\ r.then = IffCount("full", "count", The(c.depth))
  <2>1. room = The(c.depth)
    BY <1>10 DEF room
  <2>2. s["full"] = (s["count"] = The(c.depth))
    BY <1>3, <2>1
  <2>3. /\ r.then.form = "iff" /\ r.then.role = "full" /\ r.then.count = "count"
        /\ r.then.bound = The(c.depth)
    BY <1>10 DEF IffCount
  <2>4. Follows(r.then, s)
    BY <2>2, <2>3 DEF Follows
  <2> QED  BY <1>10, <2>4, NowHolds
<1>11. CASE r.when = {} /\ r.style = "now" /\ r.then = IffCount("empty", "count", 0)
  <2>1. s["empty"] = (s["count"] = 0)
    BY <1>3
  <2>2. /\ r.then.form = "iff" /\ r.then.role = "empty" /\ r.then.count = "count" /\ r.then.bound = 0
    BY <1>11 DEF IffCount
  <2>3. Follows(r.then, s)
    BY <2>1, <2>2 DEF Follows
  <2> QED  BY <1>11, <2>3, NowHolds
<1> QED  BY <1>7, <1>8, <1>9, <1>10, <1>11, FifoRules

LEMMA InterruptKept ==
    ASSUME NEW c, c.protocol = "interrupt", NEW r \in Interrupt(c), r.kind # "cover",
           r.window # <<>> => Window(c)[1] \in Nat /\ Window(c)[2] \in Nat /\ Window(c)[1] <= Window(c)[2],
           NEW s, NEW t, <<s, t>> \in Ideal(c)
    PROVE  \/ RuleHolds(r, c.polarity, s, t)
           \/ r.style = "within" /\ r.window[2] = 0
           \/ c.polarity = "unknown" /\ (s.reset \/ t.reset)
<1>1. /\ s["irq"] \in BOOLEAN /\ s["source"] \in BOOLEAN /\ s["clear"] \in BOOLEAN
      /\ s["reset"] \in BOOLEAN /\ t["irq"] \in BOOLEAN /\ t["reset"] \in BOOLEAN
  BY DEF Ideal
<1>2. /\ s["reset"] => ~s["irq"]
      /\ t["irq"] <=> ~t["reset"] /\ (s["source"] \/ (s["irq"] /\ ~s["clear"]))
  BY DEF Ideal
<1>3. LiteralsHold({High("irq")}, s) <=> s["irq"]
  <2>1. s["irq"] \in BOOLEAN
    BY <1>1
  <2> QED  BY <2>1, HighHolds
<1>4. LiteralsHold({Low("irq")}, s) <=> ~s["irq"]
  <2>1. s["irq"] \in BOOLEAN
    BY <1>1
  <2> QED  BY <2>1, LowHolds
<1>5. LiteralsHold({High("irq")}, t) <=> t["irq"]
  <2>1. t["irq"] \in BOOLEAN
    BY <1>1
  <2> QED  BY <2>1, HighHolds
<1>6. LiteralsHold({Low("irq")}, t) <=> ~t["irq"]
  <2>1. t["irq"] \in BOOLEAN
    BY <1>1
  <2> QED  BY <2>1, LowHolds
<1>7. (LiteralsHold({High("clear")}, s) <=> s["clear"]) /\ (LiteralsHold({Low("clear")}, s) <=> ~s["clear"])
  <2>1. s["clear"] \in BOOLEAN
    BY <1>1
  <2>2. LiteralsHold({High("clear")}, s) <=> s["clear"]
    BY <2>1, HighHolds
  <2>3. LiteralsHold({Low("clear")}, s) <=> ~s["clear"]
    BY <2>1, LowHolds
  <2> QED  BY <2>2, <2>3
<1>8. (LiteralsHold({High("source")}, s) <=> s["source"]) /\ (LiteralsHold({Low("source")}, s) <=> ~s["source"])
  <2>1. s["source"] \in BOOLEAN
    BY <1>1
  <2>2. LiteralsHold({High("source")}, s) <=> s["source"]
    BY <2>1, HighHolds
  <2>3. LiteralsHold({Low("source")}, s) <=> ~s["source"]
    BY <2>1, LowHolds
  <2> QED  BY <2>2, <2>3
<1>9. ASSUME ~(c.polarity = "unknown" /\ (s.reset \/ t.reset)),
             c.polarity = "unknown" \/ (~s.reset /\ ~t.reset)
      PROVE  ~s["reset"] /\ ~t["reset"]
  BY <1>9
<1>10. CASE r.when = {High("irq"), Low("clear")} /\ r.style = "next" /\ r.then = All({High("irq")})
  <2>1. LiteralsHold({High("irq"), Low("clear")}, s)
          <=> LiteralsHold({High("irq")}, s) /\ LiteralsHold({Low("clear")}, s)
    BY BothHold
  <2>2. LiteralsHold(r.when, s) /\ ~t["reset"] => t["irq"]
    BY <1>2, <1>3, <1>7, <1>10, <2>1
  <2>3. Follows(r.then, t) <=> t["irq"]
    BY <1>5, <1>10, FollowsForm
  <2> QED  BY <1>9, <1>10, <2>2, <2>3 DEF RuleHolds
<1>11. CASE r.when = {High("clear"), Low("source")} /\ r.style = "next" /\ r.then = All({Low("irq")})
  <2>1. LiteralsHold({High("clear"), Low("source")}, s)
          <=> LiteralsHold({High("clear")}, s) /\ LiteralsHold({Low("source")}, s)
    BY BothHold
  <2>2. LiteralsHold(r.when, s) => ~t["irq"]
    BY <1>2, <1>7, <1>8, <1>11, <2>1
  <2>3. Follows(r.then, t) <=> ~t["irq"]
    BY <1>6, <1>11, FollowsForm
  <2> QED  BY <1>9, <1>11, <2>2, <2>3 DEF RuleHolds
<1>12. CASE /\ r.when = {High("source")} /\ r.style = "within" /\ r.window = Window(c)
            /\ r.then = All({High("irq")})
  <2>1. r.window[1] \in Nat /\ r.window[2] \in Nat /\ r.window[1] <= r.window[2]
    <3>1. r.window # <<>>
      BY <1>12 DEF Window
    <3> QED  BY <1>12, <3>1
  <2>2. LiteralsHold(r.when, s) /\ ~t["reset"] => t["irq"]
    BY <1>2, <1>8, <1>12
  <2>3. Follows(r.then, t) <=> t["irq"]
    BY <1>5, <1>12, FollowsForm
  <2>4. r.window[2] # 0 => r.window[2] >= 1
    BY <2>1
  <2> QED  BY <1>9, <1>12, <2>2, <2>3, <2>4 DEF RuleHolds
<1>13. CASE r.style = "in_reset" /\ r.then = All({Low("irq")})
  <2>1. Follows(r.then, s) <=> ~s["irq"]
    BY <1>4, <1>13, FollowsForm
  <2>2. s.reset => Follows(r.then, s)
    BY <1>2, <2>1
  <2> QED  BY <1>13, <2>2 DEF RuleHolds
<1> QED  BY <1>10, <1>11, <1>12, <1>13, InterruptRules

LEMMA CreditKept ==
    ASSUME NEW c, c.protocol = "credit", c.credits \subseteq Int, \A v, w \in c.credits : v = w,
           NEW r \in Credit(c), r.kind # "cover", NEW s, NEW t, <<s, t>> \in Ideal(c)
    PROVE  RuleHolds(r, c.polarity, s, t)
<1> DEFINE most == IF c.credits = {} THEN 1 ELSE The(c.credits)
<1>1. /\ s["send"] \in BOOLEAN /\ s["credit_count"] \in 0 .. most
      /\ s["send"] => s["credit_count"] > 0
  BY DEF Ideal
<1>2. CASE r.when = {} /\ r.style = "now" /\ r.then = NotAll({High("send"), <<"credit_count", 0>>})
  <2>1. LiteralsHold({High("send")}, s) <=> s["send"]
    <3>1. s["send"] \in BOOLEAN
      BY <1>1
    <3> QED  BY <3>1, HighHolds
  <2>2. LiteralsHold({<<"credit_count", 0>>}, s) <=> s["credit_count"] = 0
    BY DEF LiteralsHold
  <2>3. LiteralsHold({High("send"), <<"credit_count", 0>>}, s)
          <=> LiteralsHold({High("send")}, s) /\ LiteralsHold({<<"credit_count", 0>>}, s)
    BY BothHold
  <2>4. ~(s["send"] /\ s["credit_count"] = 0)
    BY <1>1
  <2>5. ~LiteralsHold({High("send"), <<"credit_count", 0>>}, s)
    BY <2>1, <2>2, <2>3, <2>4
  <2>6. Follows(r.then, s)
    BY <1>2, <2>5, FollowsForm
  <2> QED  BY <1>2, <2>6, NowHolds
<1>3. CASE r.when = {} /\ r.style = "now" /\ \E n \in c.credits : r.then = AtMostText("credit_count", n)
  <2>1. PICK n \in c.credits : r.then = AtMostText("credit_count", n)
    BY <1>3
  <2>2. most = n /\ n \in Int
    BY DEF The
  <2>3. s["credit_count"] <= n
    BY <1>1, <2>2
  <2>4. Follows(r.then, s)
    BY <2>1, <2>3 DEF Follows, AtMostText
  <2> QED  BY <1>3, <2>4, NowHolds
<1> QED  BY <1>2, <1>3, CreditRules

LEMMA IdealPairs ==
    ASSUME NEW c, c.protocol \in {"req_grant", "fifo", "interrupt", "credit"}, NEW p \in Ideal(c)
    PROVE  p = <<p[1], p[2]>>
<1>1. CASE c.protocol = "req_grant"
  BY <1>1 DEF Ideal
<1>2. CASE c.protocol = "fifo"
  BY <1>2 DEF Ideal
<1>3. CASE c.protocol = "interrupt"
  BY <1>3 DEF Ideal
<1>4. CASE c.protocol = "credit"
  BY <1>4 DEF Ideal
<1> QED  BY <1>1, <1>2, <1>3, <1>4

\* A contract either says that it could not be made, or has all that its template gives.
LEMMA ContractMade ==
    ASSUME NEW x \in ContractRequests, GenerateContract(x).made
    PROVE  LET g == GenerateContract(x)
               c == g.context
           IN  /\ c.protocol = x.protocol /\ c.depth = x.depth /\ c.credits = x.credits
               /\ c.low = x.low /\ c.high = x.high
               /\ c.reset = ResolveReset(x).name /\ c.polarity = ResolveReset(x).polarity
               /\ \/ g.rules = {} /\ g.reset_check = "FAIL"
                  \/ /\ g.rules = Generate(c) /\ TemplateWarnings(c) \subseteq g.warnings
                     /\ g.reset_check = ResetCheck(c) /\ ~WindowRefused(c)
BY DEF GenerateContract

LEMMA GenerateByProtocol ==
    ASSUME NEW c
    PROVE  /\ c.protocol = "valid_ready" => Generate(c) = ValidReady(c)
           /\ c.protocol = "req_grant" => Generate(c) = ReqGrant(c)
           /\ c.protocol = "fifo" => Generate(c) = Fifo(c)
           /\ c.protocol = "interrupt" => Generate(c) = Interrupt(c)
           /\ c.protocol = "credit" => Generate(c) = Credit(c)
BY DEF Generate

\* The best candidate is one of the candidates.
LEMMA BestIsCandidate ==
    ASSUME NEW cs, cs \in Seq(Range(cs)), cs # <<>>, \A i \in DOMAIN cs : cs[i].confidence \in Nat
    PROVE  \E i \in DOMAIN cs : BestCandidate(cs) = cs[i]
<1> DEFINE levels == {cs[i].confidence : i \in DOMAIN cs}
           best == {i \in DOMAIN cs : \A j \in DOMAIN cs : cs[j].confidence <= cs[i].confidence}
<1>1. DOMAIN cs = 1 .. Len(cs) /\ Len(cs) \in Nat /\ Len(cs) # 0
  OBVIOUS
<1>2. levels \in SUBSET Nat /\ levels # {}
  BY <1>1
<1>3. IsFiniteSet(levels)
  <2> DEFINE f == [i \in DOMAIN cs |-> cs[i].confidence]
  <2>1. f \in Surjection(1 .. Len(cs), levels)
    BY <1>1 DEF Surjection
  <2>2. IsFiniteSet(1 .. Len(cs))
    BY <1>1, FS_Interval
  <2> QED  BY <2>1, <2>2, FS_Surjection
<1>4. Max(levels) \in levels /\ \A y \in levels : y <= Max(levels)
  BY <1>2, <1>3, MaxOfSome
<1>5. best \in SUBSET Nat /\ best # {}
  <2>1. PICK i \in DOMAIN cs : cs[i].confidence = Max(levels)
    BY <1>4
  <2>2. \A j \in DOMAIN cs : cs[j].confidence \in levels
    OBVIOUS
  <2>3. i \in best
    BY <1>4, <2>1, <2>2
  <2> QED  BY <1>1, <2>3
<1>6. Min(best) \in best
  BY <1>5, MinOfSome
<1> QED  BY <1>6 DEF BestCandidate

\* The polarity is the request's or that of a candidate of the reset that was chosen.
LEMMA PolarityStated ==
    ASSUME NEW x \in ContractRequests
    PROVE  LET name == ResolveReset(x).name
           IN  \/ ResolveReset(x).polarity \in x.polarity
               \/ ResolveReset(x).polarity = "unknown"
               \/ \E i \in DOMAIN x.module.resets :
                     /\ x.module.resets[i].signal \in name
                     /\ ResolveReset(x).polarity = x.module.resets[i].polarity
<1> DEFINE cs == x.module.resets
           best == x.reset = {} /\ cs # <<>>
           named == {i \in DOMAIN cs : cs[i].signal \in x.reset}
           candidate == IF best THEN {BestCandidate(cs)}
                        ELSE IF named # {} THEN {cs[Min(named)]} ELSE {}
           name == IF best THEN {c.signal : c \in candidate} ELSE x.reset
<1>1. cs \in Seq(Range(cs)) /\ \A i \in DOMAIN cs : cs[i].confidence \in Nat
  BY ContractAssumption DEF ContractAssumption
<1>2. /\ ResolveReset(x).name = name
      /\ ResolveReset(x).polarity = IF x.polarity # {} THEN The(x.polarity)
                                    ELSE IF candidate # {} THEN The(candidate).polarity ELSE "unknown"
  BY DEF ResolveReset
<1>3. CASE x.polarity # {}
  BY <1>2, <1>3 DEF The
<1>4. CASE x.polarity = {} /\ best
  <2>1. PICK i \in DOMAIN cs : BestCandidate(cs) = cs[i]
    BY <1>1, <1>4, BestIsCandidate
  <2>2. The(candidate) = cs[i] /\ cs[i].signal \in name
    BY <1>4, <2>1 DEF The
  <2> QED  BY <1>2, <1>4, <2>2
<1>5. CASE x.polarity = {} /\ ~best /\ named # {}
  <2>1. named \in SUBSET Nat
    BY <1>1
  <2>2. Min(named) \in named
    BY <1>5, <2>1, MinOfSome
  <2>3. The(candidate) = cs[Min(named)] /\ cs[Min(named)].signal \in name
    BY <1>5, <2>2 DEF The
  <2> QED  BY <1>2, <1>5, <2>2, <2>3
<1>6. CASE x.polarity = {} /\ ~best /\ named = {}
  BY <1>2, <1>6
<1> QED  BY <1>3, <1>4, <1>5, <1>6

\* Where a bound was given, the rule about it is there.
LEMMA BoundsUsed ==
    ASSUME NEW c, c.protocol \in {"req_grant", "fifo", "interrupt", "credit"},
           c.protocol = "fifo" => Has(c, "count"),
           c.protocol = "interrupt" => Has(c, "source"),
           TemplateWarnings(c) = {}
    PROVE  \E r \in Generate(c) : r.then.form = "at_most" \/ r.window # <<>>
<1>1. Window(c) # <<>>
  BY DEF Window
<1>2. ASSUME NEW name, NEW from, NEW to, c.high # {}
      PROVE  \E q \in Respond(c, name, from, to) : q.window = Window(c) /\ [q EXCEPT !.after = {"no_spurious_grant"}].window = Window(c)
  <2> DEFINE q == [Rule(name, "assert", {High(from)}, "within", All({High(to)})) EXCEPT !.window = Window(c)]
  <2>1. q \in Respond(c, name, from, to)
    BY <1>2 DEF Respond
  <2>2. q.window = Window(c) /\ [q EXCEPT !.after = {"no_spurious_grant"}].window = Window(c)
    BY DEF Rule
  <2> QED  BY <2>1, <2>2
<1>3. CASE c.protocol = "req_grant"
  <2>1. c.high # {}
    BY <1>3 DEF TemplateWarnings
  <2>2. PICK q \in Respond(c, "grant_latency", "req", "grant") :
           [q EXCEPT !.after = {"no_spurious_grant"}].window = Window(c)
    BY <1>2, <2>1
  <2>3. [q EXCEPT !.after = {"no_spurious_grant"}] \in ReqGrant(c)
    BY <2>2 DEF ReqGrant
  <2> QED  BY <1>1, <1>3, <2>2, <2>3, GenerateByProtocol
<1>4. CASE c.protocol = "fifo"
  <2> DEFINE bound == Rule("count_bound", "assert", {}, "now", AtMostText("count", The(c.depth)))
  <2>1. c.depth # {}
    BY <1>4 DEF TemplateWarnings
  <2>2. bound \in With(c, {"count"}, {bound})
    BY <1>4 DEF With, Has
  <2>3. bound \in Fifo(c)
    BY <2>1, <2>2 DEF Fifo
  <2>4. bound.then.form = "at_most"
    BY DEF Rule, AtMostText
  <2> QED  BY <1>4, <2>3, <2>4, GenerateByProtocol
<1>5. CASE c.protocol = "interrupt"
  <2>1. c.high # {}
    BY <1>5 DEF TemplateWarnings
  <2>2. PICK q \in Respond(c, "irq_raise", "source", "irq") : q.window = Window(c)
    BY <1>2, <2>1
  <2>3. q \in With(c, {"source"}, Respond(c, "irq_raise", "source", "irq"))
    BY <1>5 DEF With, Has
  <2>4. q \in Interrupt(c)
    BY <2>3 DEF Interrupt
  <2> QED  BY <1>1, <1>5, <2>2, <2>4, GenerateByProtocol
<1>6. CASE c.protocol = "credit"
  <2>1. Has(c, "credit_count") /\ c.credits # {}
    BY <1>6 DEF TemplateWarnings
  <2>2. PICK n : n \in c.credits
    BY <2>1
  <2> DEFINE bound == Rule("credit_bound", "assert", {}, "now", AtMostText("credit_count", n))
  <2>3. bound \in Credit(c)
    BY <2>1, <2>2 DEF Credit, With, Has
  <2>4. bound.then.form = "at_most"
    BY DEF Rule, AtMostText
  <2> QED  BY <1>6, <2>3, <2>4, GenerateByProtocol
<1> QED  BY <1>3, <1>4, <1>5, <1>6

\* An interrupt has a window only for the source it answers.
LEMMA WindowOfSource ==
    ASSUME NEW c, NEW r \in Interrupt(c), r.window # <<>>
    PROVE  Has(c, "source")
<1> DEFINE clears == Rule("irq_clears", "assert", {High("clear"), Low("source")}, "next", All({Low("irq")}))
<1>1. \/ r = Rule("irq_sticky", "assert", {High("irq"), Low("clear")}, "next", All({High("irq")}))
      \/ r = [clears EXCEPT !.after = {"irq_sticky"}]
      \/ Has(c, "source")
      \/ r = Cover("irq", {High("irq")})
      \/ r \in InReset(c, "irq_reset_low", Low("irq"))
  BY DEF Interrupt, With, Has
<1>2. r # [clears EXCEPT !.after = {"irq_sticky"}]
  BY DEF Rule
<1>3. r # Rule("irq_sticky", "assert", {High("irq"), Low("clear")}, "next", All({High("irq")}))
  BY RuleHas
<1>4. r # Cover("irq", {High("irq")})
  BY CoverHas
<1>5. ASSUME r \in InReset(c, "irq_reset_low", Low("irq")) PROVE FALSE
  <2>1. r.window = <<>>
    BY <1>5 DEF InReset, Rule
  <2> QED  BY <2>1
<1> QED  BY <1>1, <1>2, <1>3, <1>4, <1>5

\* Every rule of a contract by what the theorem needs of it.
LEMMA RulesOfContract ==
    ASSUME NEW c, NEW r \in Generate(c),
           c.protocol \in {"valid_ready", "req_grant", "fifo", "interrupt", "credit"}
    PROVE  /\ r.kind = "assume" /\ r.style = "next" =>
                \E a : r.then.literals = {High(a)} /\ c.roles[a] = "env_input"
           /\ r.style = "in_reset" => c.reset # {} /\ c.polarity # "unknown"
           /\ r.window # <<>> =>
                /\ r.window = Window(c) /\ c.high # {}
                /\ c.protocol = "req_grant" \/ (c.protocol = "interrupt" /\ Has(c, "source"))
           /\ r.window = <<>> /\ r.then.form = "at_most" =>
                \/ c.depth # {} /\ r.then.bound = The(c.depth)
                \/ r.then.bound \in c.credits
<1>1. \A a : All({High(a)}).literals = {High(a)}
  BY DEF All
<1>2. \A role, n : AtMostText(role, n).bound = n
  BY DEF AtMostText
<1>3. CASE c.protocol = "valid_ready"
  BY <1>1, <1>3, ValidReadyRules, GenerateByProtocol
<1>4. CASE c.protocol = "req_grant"
  <2>1. r \in ReqGrant(c)
    BY <1>4, GenerateByProtocol
  <2>2. /\ r.style # "in_reset" /\ r.then.form = "all"
        /\ r.window # <<>> => r.window = Window(c) /\ c.high # {}
    BY <2>1, ReqGrantRules
  <2>3. r.kind = "assume" /\ r.style = "next" => r.then = All({High("req")}) /\ c.roles["req"] = "env_input"
    BY <2>1, ReqGrantRules
  <2>4. r.kind = "assume" /\ r.style = "next" =>
           \E a : r.then.literals = {High(a)} /\ c.roles[a] = "env_input"
    BY <1>1, <2>3
  <2>5. r.then.form # "at_most"
    BY <2>2
  <2> QED  BY <1>4, <2>2, <2>4, <2>5
<1>5. CASE c.protocol = "fifo"
  BY <1>2, <1>5, FifoRules, GenerateByProtocol
<1>6. CASE c.protocol = "interrupt"
  <2>1. r.window # <<>> => Has(c, "source")
    BY <1>6, GenerateByProtocol, WindowOfSource
  <2> QED  BY <1>6, <2>1, InterruptRules, GenerateByProtocol
<1>7. CASE c.protocol = "credit"
  BY <1>2, <1>7, CreditRules, GenerateByProtocol
<1> QED  BY <1>3, <1>4, <1>5, <1>6, <1>7

\* For every binding, ownership, bound, clock and reset a request can give: a well-behaved
\* interface keeps the contract, an assumption that could oblige the design says so, and
\* neither the polarity of a reset nor a bound is invented.
THEOREM ContractSoundAlways == ContractSpec => []ContractSound
<1>1. ASSUME ContractInv, Reported("protocol-contract"), Report.made
      PROVE  IdealKeepsContract /\ AssumptionsOfInputs /\ PolarityNeverGuessed /\ NoInventedBounds
  <2> DEFINE c == Report.context
  <2>1. Report = GenerateContract(input) /\ input \in ContractRequests
    BY <1>1 DEF Report, Reported, ContractInv
  <2>2. /\ c.protocol = input.protocol /\ c.depth = input.depth /\ c.credits = input.credits
        /\ c.low = input.low /\ c.high = input.high
        /\ c.reset = ResolveReset(input).name /\ c.polarity = ResolveReset(input).polarity
        /\ \/ Report.rules = {} /\ Report.reset_check = "FAIL"
           \/ /\ Report.rules = Generate(c) /\ TemplateWarnings(c) \subseteq Report.warnings
              /\ Report.reset_check = ResetCheck(c) /\ ~WindowRefused(c)
    BY <1>1, <2>1, ContractMade
  <2>3. /\ c.protocol \in {"valid_ready", "req_grant", "fifo", "interrupt", "credit"}
        /\ c.depth \subseteq Int /\ c.credits \subseteq Int /\ c.low \subseteq Int /\ c.high \subseteq Int
        /\ \A v, w \in c.credits : v = w
    BY <2>1, <2>2, ContractAssumption DEF ContractAssumption
  <2> HIDE DEF c
  <2>4. ASSUME NEW r \in Report.rules
        PROVE  r \in Generate(c) /\ Report.rules = Generate(c) /\ ~WindowRefused(c)
    BY <2>2, <2>4
  <2>5. ASSUME NEW r \in Report.rules, r.window # <<>>
        PROVE  /\ Window(c)[1] \in Nat /\ Window(c)[2] \in Nat /\ Window(c)[1] <= Window(c)[2]
               /\ r.window = Window(c) /\ r.window[2] \in c.high
    <3>1. /\ r.window = Window(c) /\ c.high # {}
          /\ c.protocol = "req_grant" \/ (c.protocol = "interrupt" /\ Has(c, "source"))
      BY <2>3, <2>4, <2>5, RulesOfContract
    <3> QED  BY <2>3, <2>4, <3>1, WindowGiven
  <2>6. IdealKeepsContract
    <3> SUFFICES ASSUME NEW r \in Report.rules, r.kind # "cover", NEW p \in Ideal(c)
                 PROVE  \/ RuleHolds(r, c.polarity, p[1], p[2])
                        \/ r.style = "within" /\ r.window[2] = 0
                        \/ r.name = "grant_latency" /\ r.window[1] > 0 /\ p[1].grant
                        \/ c.polarity = "unknown" /\ (p[1].reset \/ p[2].reset)
      BY DEF IdealKeepsContract, c
    <3>1. r \in Generate(c)
      BY <2>4
    <3>2. r.window # <<>> => Window(c)[1] \in Nat /\ Window(c)[2] \in Nat /\ Window(c)[1] <= Window(c)[2]
      BY <2>5
    <3>3. c.protocol # "valid_ready" => p = <<p[1], p[2]>> /\ <<p[1], p[2]>> \in Ideal(c)
      BY <2>3, IdealPairs
    <3>4. CASE c.protocol = "valid_ready"
      <4>1. r \in ValidReady(c)
        BY <3>1, <3>4, GenerateByProtocol
      <4> QED  BY <3>4, <4>1, ValidReadyKept
    <3>5. CASE c.protocol = "req_grant"
      <4>1. r \in ReqGrant(c)
        BY <3>1, <3>5, GenerateByProtocol
      <4> QED  BY <3>2, <3>3, <3>5, <4>1, ReqGrantKept
    <3>6. CASE c.protocol = "fifo"
      <4>1. r \in Fifo(c)
        BY <3>1, <3>6, GenerateByProtocol
      <4> QED  BY <2>3, <3>3, <3>6, <4>1, FifoKept
    <3>7. CASE c.protocol = "interrupt"
      <4>1. r \in Interrupt(c)
        BY <3>1, <3>7, GenerateByProtocol
      <4> QED  BY <3>2, <3>3, <3>7, <4>1, InterruptKept
    <3>8. CASE c.protocol = "credit"
      <4>1. r \in Credit(c)
        BY <3>1, <3>8, GenerateByProtocol
      <4> QED  BY <2>3, <3>3, <3>8, <4>1, CreditKept
    <3> QED  BY <2>3, <3>4, <3>5, <3>6, <3>7, <3>8
  <2>7. AssumptionsOfInputs
    <3> SUFFICES ASSUME NEW r \in Report.rules, r.kind = "assume"
                 PROVE  /\ OwnershipOk(c, r) \/ "assume_on_output" \in Report.warnings
                        /\ \A l \in r.then.literals : r.style = "next" => c.roles[l[1]] = "env_input"
      BY DEF AssumptionsOfInputs, c
    <3>1. OwnershipOk(c, r) \/ "assume_on_output" \in TemplateWarnings(c)
      BY <2>4 DEF TemplateWarnings
    <3>2. OwnershipOk(c, r) \/ "assume_on_output" \in Report.warnings
      BY <2>2, <3>1
    <3>3. ASSUME NEW l \in r.then.literals, r.style = "next" PROVE c.roles[l[1]] = "env_input"
      <4>1. PICK a : r.then.literals = {High(a)} /\ c.roles[a] = "env_input"
        BY <2>3, <2>4, <3>3, RulesOfContract
      <4>2. l[1] = a
        BY <4>1 DEF High
      <4> QED  BY <4>1, <4>2
    <3> QED  BY <3>2, <3>3
  <2>8. PolarityNeverGuessed
    <3> DEFINE stated == input.polarity \cup {input.module.resets[i].polarity :
                             i \in {i \in DOMAIN input.module.resets : input.module.resets[i].signal \in c.reset}}
    <3>1. c.polarity \in stated \cup {"unknown"}
      BY <2>1, <2>2, PolarityStated
    <3>2. (\E r \in Report.rules : r.style = "in_reset") => c.polarity # "unknown" /\ c.reset # {}
      BY <2>3, <2>4, RulesOfContract
    <3>3. c.reset # {} /\ c.polarity = "unknown" => Report.reset_check = "FAIL"
      BY <2>2 DEF ResetCheck
    <3> QED  BY <3>1, <3>2, <3>3 DEF PolarityNeverGuessed, c
  <2>9. NoInventedBounds
    <3> DEFINE bounds == {r \in Report.rules : r.then.form = "at_most" \/ r.window # <<>>}
    <3>1. ASSUME NEW r \in bounds
          PROVE  IF r.window # <<>> THEN r.window[2] \in c.high ELSE r.then.bound \in c.depth \cup c.credits
      <4>1. CASE r.window # <<>>
        BY <2>5, <4>1
      <4>2. CASE r.window = <<>>
        <5>1. (c.depth # {} /\ r.then.bound = The(c.depth)) \/ r.then.bound \in c.credits
          BY <2>3, <2>4, <4>2, RulesOfContract
        <5> QED  BY <4>2, <5>1 DEF The
      <4> QED  BY <4>1, <4>2
    <3>2. ASSUME Report.rules # {}, bounds = {}
          PROVE  \/ Report.warnings # {}
                 \/ c.protocol = "valid_ready"
                 \/ c.protocol = "fifo" /\ ~Has(c, "count")
                 \/ c.protocol = "interrupt" /\ ~Has(c, "source")
      <4>1. Report.rules = Generate(c) /\ TemplateWarnings(c) \subseteq Report.warnings
        BY <2>2, <3>2
      <4>2. ~\E r \in Generate(c) : r.then.form = "at_most" \/ r.window # <<>>
        BY <3>2, <4>1
      <4> QED  BY <2>3, <4>1, <4>2, BoundsUsed
    <3> QED  BY <3>1, <3>2 DEF NoInventedBounds, c
  <2> QED  BY <2>6, <2>7, <2>8, <2>9
<1>2. ContractInv => ContractSound
  BY <1>1 DEF ContractSound
<1> QED  BY ContractInvariant, <1>2, PTL

-----------------------------------------------------------------------------
(***************************************************************************)
(* constraint-hygiene-agent                                                *)
(***************************************************************************)

\* One call: an input that can be asked for, and, once there is a report, the report on it.
HygieneInv ==
    /\ tool = "constraint-hygiene" /\ input \in HygieneInputs
    /\ reports = {} \/ reports = {HygieneReport(input)}

\* The report of analyze is the report on the directives it was called with.
LEMMA HygieneInvariant == HygieneSpec => []HygieneInv
<1>1. HygieneInit => HygieneInv
  BY DEF HygieneInit, Called, HygieneInv
<1>2. HygieneInv /\ [AnalyzeConstraints]_passVars => HygieneInv'
  BY DEF HygieneInv, AnalyzeConstraints, Computing, Reports, passVars, HygieneReport
<1> QED  BY <1>1, <1>2, PTL DEF HygieneSpec

Body(x, d) == x \in HygieneInputs /\ d \in Range(x.directives)

LEMMA BodyShape ==
    ASSUME NEW x, NEW d, Body(x, d)
    PROVE  /\ Len(d.literals) \in Nat /\ DOMAIN d.literals = 1 .. Len(d.literals)
           /\ Len(d.operators) \in Nat /\ DOMAIN d.operators = 1 .. Len(d.operators)
           /\ d.literals # <<>> => Len(d.literals) = Len(d.operators) + 1
           /\ Range(d.operators) \subseteq {"&&", "||", "|->"}
<1>1. d.literals \in Seq(Range(d.literals)) /\ d.operators \in Seq({"&&", "||", "|->"})
  BY HygieneAssumption DEF HygieneAssumption, Body
<1>2. Len(d.literals) = Len(d.operators) + 1 \/ (d.literals = <<>> /\ d.operators = <<>>)
  BY HygieneAssumption DEF HygieneAssumption, Body
<1>3. Range(d.operators) \subseteq {"&&", "||", "|->"}
  BY <1>1 DEF Range
<1> QED  BY <1>1, <1>2, <1>3

\* A body without mixed operators that states a fact is a conjunction.
LEMMA FactMeansConjunction ==
    ASSUME NEW x, NEW d, Body(x, d), Unmixed(d), Conjuncts(d) # {}
    PROVE  Range(d.operators) \subseteq {"&&"}
<1>1. PICK i \in DOMAIN d.literals : /\ i = 1 \/ d.operators[i - 1] = "&&"
                                     /\ i = Len(d.literals) \/ d.operators[i] = "&&"
  BY DEF Conjuncts
<1>2. d.literals # <<>> /\ Len(d.literals) = Len(d.operators) + 1
  <2>1. d.literals # <<>>
    BY BodyShape
  <2> QED  BY <2>1, BodyShape
<1>3. ASSUME NEW o \in Range(d.operators), o # "&&" PROVE FALSE
  <2>1. DOMAIN d.operators # {}
    BY DEF Range
  <2>2. "&&" \in Range(d.operators)
    <3>1. CASE i = 1
      <4>1. i \in DOMAIN d.operators /\ d.operators[i] = "&&"
        BY <1>1, <1>2, <2>1, <3>1, BodyShape
      <4> QED  BY <4>1 DEF Range
    <3>2. CASE i # 1
      <4>1. i - 1 \in DOMAIN d.operators /\ d.operators[i - 1] = "&&"
        BY <1>1, <1>2, <3>2, BodyShape
      <4> QED  BY <4>1 DEF Range
    <3> QED  BY <3>1, <3>2
  <2>3. IsFiniteSet({"&&", "||", "|->"})
    <3>1. IsFiniteSet({"&&"}) /\ IsFiniteSet({"||"}) /\ IsFiniteSet({"|->"})
      BY FS_Singleton
    <3>2. IsFiniteSet({"&&"} \cup {"||"})
      BY <3>1, FS_Union
    <3>3. IsFiniteSet(({"&&"} \cup {"||"}) \cup {"|->"})
      BY <3>1, <3>2, FS_Union
    <3>4. {"&&", "||", "|->"} = ({"&&"} \cup {"||"}) \cup {"|->"}
      OBVIOUS
    <3> QED  BY <3>3, <3>4
  <2>4. IsFiniteSet(Range(d.operators))
    BY <2>3, BodyShape, FS_Subset
  <2>5. Cardinality(Range(d.operators)) \in Nat /\ Cardinality(Range(d.operators)) # 0
    BY <2>2, <2>4, FS_CardinalityType, FS_EmptySet
  <2>6. Cardinality(Range(d.operators)) # 1
    BY <1>3, <2>2, <2>4, FS_Singleton
  <2> QED  BY <2>5, <2>6 DEF Unmixed
<1> QED  BY <1>3

\* In a conjunction every literal stands alone.
LEMMA AllConjuncts ==
    ASSUME NEW x, NEW d, Body(x, d), Range(d.operators) \subseteq {"&&"}
    PROVE  Conjuncts(d) = DOMAIN d.literals
<1>1. ASSUME NEW i \in DOMAIN d.literals
      PROVE  (i = 1 \/ d.operators[i - 1] = "&&") /\ (i = Len(d.literals) \/ d.operators[i] = "&&")
  <2>1. d.literals # <<>> /\ Len(d.literals) = Len(d.operators) + 1
    <3>1. d.literals # <<>>
      BY BodyShape
    <3> QED  BY <3>1, BodyShape
  <2>2. \A j \in DOMAIN d.operators : d.operators[j] = "&&"
    BY DEF Range
  <2>3. i # 1 => i - 1 \in DOMAIN d.operators
    BY <2>1, BodyShape
  <2>4. i # Len(d.literals) => i \in DOMAIN d.operators
    BY <2>1, BodyShape
  <2> QED  BY <2>2, <2>3, <2>4
<1> QED  BY <1>1 DEF Conjuncts

\* The fact about a signal is what one of the literals that stand alone states of it.
LEMMA FactIsStated ==
    ASSUME NEW x, NEW d, Body(x, d), NEW s \in DOMAIN FactsOf(d)
    PROVE  \E k \in Conjuncts(d) : /\ d.literals[k].signal = s
                                   /\ d.literals[k].form \in {"is", "not", "equals"}
                                   /\ FactsOf(d)[s] = StatedValue(d.literals[k])
<1> DEFINE stating(forms) == {i \in Conjuncts(d) : /\ d.literals[i].signal = s
                                                   /\ d.literals[i].form \in forms}
           chosen == IF stating({"equals"}) # {} THEN stating({"equals"})
                     ELSE stating({"is", "not", "equals"})
<1>1. chosen # {} /\ FactsOf(d)[s] = StatedValue(d.literals[Max(chosen)])
  BY DEF FactsOf
<1>2. chosen \subseteq stating({"is", "not", "equals"})
  OBVIOUS
<1>3. Conjuncts(d) \subseteq DOMAIN d.literals
  BY DEF Conjuncts
<1>4. chosen \in SUBSET Nat /\ IsFiniteSet(chosen)
  <2>1. chosen \in SUBSET (1 .. Len(d.literals)) /\ Len(d.literals) \in Nat
    BY <1>2, <1>3, BodyShape
  <2> HIDE DEF chosen
  <2>2. IsFiniteSet(1 .. Len(d.literals))
    BY <2>1, FS_Interval
  <2>3. IsFiniteSet(chosen)
    BY <2>1, <2>2, FS_Subset
  <2>4. chosen \in SUBSET Nat
    BY <2>1
  <2> QED  BY <2>3, <2>4
<1>5. Max(chosen) \in chosen
  <2> HIDE DEF chosen
  <2> QED  BY <1>1, <1>4, MaxOfSome
<1>6. Max(chosen) \in stating({"is", "not", "equals"})
  BY <1>2, <1>5
<1> HIDE DEF chosen
<1> QED  BY <1>1, <1>6

LEMMA FactsFor ==
    ASSUME NEW d, NEW k \in Conjuncts(d), d.literals[k].form \in {"is", "not", "equals"}
    PROVE  d.literals[k].signal \in DOMAIN FactsOf(d)
BY DEF Conjuncts, FactsOf, SignalsIn

\* In a conjunction that holds, a signal has the value the body states of it.
LEMMA FactHolds ==
    ASSUME NEW x, NEW d, Body(x, d), Range(d.operators) \subseteq {"&&"},
           NEW env, Holds(d, env), NEW s \in DOMAIN FactsOf(d)
    PROVE  env[s] = FactsOf(d)[s]
<1>1. PICK k \in Conjuncts(d) : /\ d.literals[k].signal = s
                                /\ d.literals[k].form \in {"is", "not", "equals"}
                                /\ FactsOf(d)[s] = StatedValue(d.literals[k])
  BY FactIsStated
<1>2. k \in DOMAIN d.literals
  BY DEF Conjuncts
<1>3. LiteralHolds(d.literals[k], env)
  BY <1>2 DEF Holds
<1> QED  BY <1>1, <1>3 DEF LiteralHolds
LEMMA DirectiveBody ==
    ASSUME NEW x \in HygieneInputs, NEW i \in DOMAIN x.directives
    PROVE  Body(x, x.directives[i])
BY DEF Body, Range

\* What it means that two assumptions contradict each other.
LEMMA ContradictionOf ==
    ASSUME NEW x, NEW f \in FindContradictions(x), NEW i, NEW j, f.directives = <<i, j>>
    PROVE  \E s : /\ s \in DOMAIN FactsOf(x.directives[i]) \cap DOMAIN FactsOf(x.directives[j])
                  /\ FactsOf(x.directives[i])[s] # FactsOf(x.directives[j])[s]
BY DEF FindContradictions, FindingAbout

LEMMA ContradictionFound ==
    ASSUME NEW x, NEW i \in Kind(x, "assume"), NEW j \in Kind(x, "assume"), i < j,
           NEW s \in DOMAIN FactsOf(x.directives[i]) \cap DOMAIN FactsOf(x.directives[j]),
           FactsOf(x.directives[i])[s] # FactsOf(x.directives[j])[s],
           FactsOf(x.directives[i])[s] \in Bits, FactsOf(x.directives[j])[s] \in Bits
    PROVE  \E f \in FindContradictions(x) : f.directives = <<i, j>>
<1>1. s \in SignalsIn(x.directives[i])
  BY DEF FactsOf
<1>2. -1 \notin {FactsOf(x.directives[i])[s], FactsOf(x.directives[j])[s]}
  BY DEF Bits
<1> DEFINE code == IF s \in Booleans(x.directives[i]) \cap Booleans(x.directives[j])
                     THEN "CONTRADICTION" ELSE "CONSTANT_CONFLICT"
           f == FindingAbout(code, <<i, j>>, {s})
           fact(p) == FactsOf(x.directives[p])
           conflict(p, q, t) == /\ p < q
                                /\ t \in DOMAIN fact(p) \cap DOMAIN fact(q)
                                /\ -1 \notin {fact(p)[t], fact(q)[t]}
                                /\ fact(p)[t] # fact(q)[t]
           named(p, q, t) == IF t \in Booleans(x.directives[p]) \cap Booleans(x.directives[q])
                             THEN "CONTRADICTION" ELSE "CONSTANT_CONFLICT"
           between(p, q) == {FindingAbout(named(p, q, t), <<p, q>>, {t}) :
                                t \in {t \in SignalsIn(x.directives[p]) : conflict(p, q, t)}}
<1>3. f \in FindContradictions(x)
  <2>1. FindContradictions(x) = UNION {between(p, q) : p \in Kind(x, "assume"), q \in Kind(x, "assume")}
    BY DEF FindContradictions
  <2>2. f \in between(i, j)
    <3>1. conflict(i, j, s) /\ f = FindingAbout(named(i, j, s), <<i, j>>, {s})
      BY <1>2
    <3> HIDE DEF conflict, named, f
    <3> QED  BY <1>1, <3>1
  <2> HIDE DEF between, f
  <2> QED  BY <2>1, <2>2
<1>4. f.directives = <<i, j>>
  BY DEF FindingAbout
<1> QED  BY <1>3, <1>4

\* Two bodies that do not mix operators and are in conflict have no common values.
LEMMA ConflictIsReal ==
    ASSUME NEW x \in HygieneInputs,
           NEW i \in Kind(x, "assume"), NEW j \in Kind(x, "assume"),
           Unmixed(x.directives[i]), Unmixed(x.directives[j]),
           NEW f \in FindContradictions(x), f.directives = <<i, j>>
    PROVE  ~ Together(x, i, j)
<1>1. i \in DOMAIN x.directives /\ j \in DOMAIN x.directives
  BY DEF Kind
<1>2. Body(x, x.directives[i]) /\ Body(x, x.directives[j])
  BY <1>1, DirectiveBody
<1>3. PICK s : /\ s \in DOMAIN FactsOf(x.directives[i]) \cap DOMAIN FactsOf(x.directives[j])
               /\ FactsOf(x.directives[i])[s] # FactsOf(x.directives[j])[s]
  BY ContradictionOf
<1>4. Conjuncts(x.directives[i]) # {} /\ Conjuncts(x.directives[j]) # {}
  <2>1. Conjuncts(x.directives[i]) # {}
    BY <1>2, <1>3, FactIsStated
  <2>2. Conjuncts(x.directives[j]) # {}
    BY <1>2, <1>3, FactIsStated
  <2> QED  BY <2>1, <2>2
<1>5. Range(x.directives[i].operators) \subseteq {"&&"}
  BY <1>2, <1>4, FactMeansConjunction
<1>6. Range(x.directives[j].operators) \subseteq {"&&"}
  BY <1>2, <1>4, FactMeansConjunction
<1>7. SUFFICES ASSUME NEW env, Holds(x.directives[i], env), Holds(x.directives[j], env)
               PROVE  FALSE
  BY DEF Together
<1>8. env[s] = FactsOf(x.directives[i])[s]
  BY <1>2, <1>3, <1>5, <1>7, FactHolds
<1>9. env[s] = FactsOf(x.directives[j])[s]
  BY <1>2, <1>3, <1>6, <1>7, FactHolds
<1> QED  BY <1>3, <1>8, <1>9

\* A conjunction of known facts.
KnownFacts(d) ==
    /\ Range(d.operators) \subseteq {"&&"}
    /\ \A k \in DOMAIN d.literals :
          d.literals[k].form # "other" /\ StatedValue(d.literals[k]) \in Bits

\* The forms of a literal: StatedValue is for the first three.
LEMMA KnownForms ==
    ASSUME NEW x, NEW d, Body(x, d), KnownFacts(d), NEW k \in DOMAIN d.literals
    PROVE  d.literals[k].form \in {"is", "not", "equals"}
BY HygieneAssumption DEF HygieneAssumption, Body, KnownFacts, Range

\* Two conjunctions of known facts that state nothing different of a signal hold together
\* if each can hold.
LEMMA AgreeingFacts ==
    ASSUME NEW x \in HygieneInputs, NEW i \in DOMAIN x.directives, NEW j \in DOMAIN x.directives,
           KnownFacts(x.directives[i]), KnownFacts(x.directives[j]),
           Together(x, i, i), Together(x, j, j),
           \A s \in DOMAIN FactsOf(x.directives[i]) \cap DOMAIN FactsOf(x.directives[j]) :
               FactsOf(x.directives[i])[s] = FactsOf(x.directives[j])[s]
    PROVE  Together(x, i, j)
<1> DEFINE a == x.directives[i]
           b == x.directives[j]
<1>1. Body(x, a) /\ Body(x, b)
  BY DirectiveBody
<1>2. PICK u \in [SignalsIn(a) -> Bits] : Holds(a, u)
  BY DEF Together
<1>3. PICK v \in [SignalsIn(b) -> Bits] : Holds(b, v)
  BY DEF Together
<1> DEFINE env == [s \in SignalsIn(a) \cup SignalsIn(b) |-> IF s \in SignalsIn(a) THEN u[s] ELSE v[s]]
<1>4. env \in [SignalsIn(a) \cup SignalsIn(b) -> Bits]
  BY <1>2, <1>3
<1>5. Range(a.operators) \subseteq {"&&"} /\ Range(b.operators) \subseteq {"&&"}
  BY DEF KnownFacts
<1>6. ASSUME NEW k \in DOMAIN a.literals PROVE LiteralHolds(a.literals[k], env)
  <2>1. LiteralHolds(a.literals[k], u)
    BY <1>2, <1>5 DEF Holds
  <2>2. a.literals[k].signal \in SignalsIn(a)
    BY DEF SignalsIn
  <2>3. env[a.literals[k].signal] = u[a.literals[k].signal]
    BY <2>2
  <2> HIDE DEF env, a
  <2> QED  BY <2>1, <2>3 DEF LiteralHolds
<1>7. ASSUME NEW k \in DOMAIN b.literals PROVE LiteralHolds(b.literals[k], env)
  <2> DEFINE s == b.literals[k].signal
  <2>1. LiteralHolds(b.literals[k], v)
    BY <1>3, <1>5 DEF Holds
  <2>2. s \in SignalsIn(b)
    BY DEF SignalsIn
  <2>3. env[s] = v[s]
    <3>1. CASE s \in SignalsIn(a)
      <4>1. PICK l \in DOMAIN a.literals : a.literals[l].signal = s
        BY <3>1 DEF SignalsIn
      <4>2. l \in Conjuncts(a) /\ a.literals[l].form \in {"is", "not", "equals"}
        BY <1>1, <1>5, <4>1, AllConjuncts, KnownForms
      <4>3. k \in Conjuncts(b) /\ b.literals[k].form \in {"is", "not", "equals"}
        BY <1>1, <1>5, AllConjuncts, KnownForms
      <4>4. s \in DOMAIN FactsOf(a)
        BY <4>1, <4>2, FactsFor
      <4>5. s \in DOMAIN FactsOf(b)
        BY <4>3, FactsFor
      <4>6. u[s] = FactsOf(a)[s]
        BY <1>1, <1>2, <1>5, <4>4, FactHolds
      <4>7. v[s] = FactsOf(b)[s]
        BY <1>1, <1>3, <1>5, <4>5, FactHolds
      <4>8. u[s] = v[s]
        BY <4>4, <4>5, <4>6, <4>7
      <4> QED  BY <3>1, <4>8
    <3>2. CASE s \notin SignalsIn(a)
      BY <2>2, <3>2
    <3> QED  BY <3>1, <3>2
  <2> HIDE DEF env, b
  <2> QED  BY <2>1, <2>3 DEF LiteralHolds
<1>8. Holds(a, env) /\ Holds(b, env)
  <2> HIDE DEF env, a, b
  <2>1. Holds(a, env)
    BY <1>5, <1>6 DEF Holds
  <2>2. Holds(b, env)
    BY <1>5, <1>7 DEF Holds
  <2> QED  BY <2>1, <2>2
<1> HIDE DEF env
<1> QED  BY <1>4, <1>8 DEF Together
-----------------------------------------------------------------------------
\* The queue.

LEMMA PriorityOf ==
    /\ \A c \in {"CONTRADICTION", "CONSTANT_CONFLICT", "OUTPUT_CONSTRAINT", "VACUITY_RISK"} : Priority(c) = 1
    /\ \A c \in {"INTERNAL_STATE_CONSTRAINT", "UNKNOWN_SIGNAL"} : Priority(c) = 2
    /\ \A c \in {"UNUSED_ASSUMPTION", "REACHABILITY_RISK"} : Priority(c) = 3
BY DEF Priority

FindingCodes == {"CONTRADICTION", "CONSTANT_CONFLICT", "OUTPUT_CONSTRAINT", "VACUITY_RISK",
                 "INTERNAL_STATE_CONSTRAINT", "UNKNOWN_SIGNAL", "UNUSED_ASSUMPTION", "REACHABILITY_RISK"}

LEMMA PriorityRange == \A c \in FindingCodes : Priority(c) \in 1 .. 3
BY DEF Priority, FindingCodes

\* The finding about an assumption of what the environment does not drive.
LEMMA CodeOfOwnership ==
    ASSUME NEW m, NEW s, Classified(m, s) # "environment_input"
    PROVE  /\ ConstraintCode(Classified(m, s)) \in
                {"OUTPUT_CONSTRAINT", "INTERNAL_STATE_CONSTRAINT", "UNKNOWN_SIGNAL"}
           /\ Classified(m, s) = "dut_output" => ConstraintCode(Classified(m, s)) = "OUTPUT_CONSTRAINT"
BY DEF Classified, ConstraintCode

LEMMA CodesOfContradictions ==
    ASSUME NEW x, NEW f \in FindContradictions(x)
    PROVE  f.code \in {"CONTRADICTION", "CONSTANT_CONFLICT"} /\ f.directives # <<>>
BY DEF FindContradictions, FindingAbout

LEMMA CodesOfUnused ==
    ASSUME NEW x, NEW f \in FindUnused(x)
    PROVE  f.code \in FindingCodes
BY DEF FindUnused, FindingAbout, FindingCodes

LEMMA CodesOfOutputs ==
    ASSUME NEW x, NEW f \in FindOutputConstraints(x)
    PROVE  f.code \in FindingCodes
BY CodeOfOwnership DEF FindOutputConstraints, FindingAbout, FindingCodes

LEMMA CodesOfVacuity ==
    ASSUME NEW x, NEW c, NEW f \in VacuityRecommendations(x, c)
    PROVE  f.code \in FindingCodes
BY DEF VacuityRecommendations, FindingAbout, FindingCodes

AllFindings(x) ==
    FindContradictions(x) \cup FindUnused(x) \cup FindOutputConstraints(x)
        \cup VacuityRecommendations(x, FindContradictions(x))

LEMMA CodesOfFindings ==
    ASSUME NEW x, NEW f \in AllFindings(x)
    PROVE  f.code \in FindingCodes
BY CodesOfContradictions, CodesOfUnused, CodesOfOutputs, CodesOfVacuity DEF AllFindings, FindingCodes

SubjectOf(f) == IF f.directives = <<>> THEN 0 ELSE f.directives[1]

CodesFor(F, t) == {g.code : g \in {g \in F : SubjectOf(g) = t}}

ItemOf(F, t) ==
    [subject |-> t, priority |-> Min({Priority(c) : c \in CodesFor(F, t)}), codes |-> CodesFor(F, t)]

LEMMA QueueOfItems ==
    ASSUME NEW F
    PROVE  ReviewQueue(F) = {ItemOf(F, t) : t \in {SubjectOf(g) : g \in F}}
BY DEF ReviewQueue, ItemOf, CodesFor, SubjectOf

\* A finding puts its first directive in the queue, at its priority or a more urgent one.
LEMMA FindingQueued ==
    ASSUME NEW F, \A g \in F : g.code \in FindingCodes, NEW f \in F
    PROVE  \E q \in ReviewQueue(F) : /\ q.subject = SubjectOf(f)
                                     /\ q.priority \in 1 .. Priority(f.code)
<1> DEFINE s == SubjectOf(f)
           codes == CodesFor(F, s)
           priorities == {Priority(c) : c \in codes}
           q == [subject |-> s, priority |-> Min(priorities), codes |-> codes]
<1>1. f.code \in codes /\ codes \subseteq FindingCodes
  BY DEF CodesFor
<1>2. Priority(f.code) \in priorities
  BY <1>1
<1>3. priorities \subseteq 1 .. 3
  <2> HIDE DEF codes
  <2> QED  BY <1>1, PriorityRange
<1>4. Min(priorities) \in priorities /\ \A y \in priorities : Min(priorities) <= y
  <2>1. priorities \in SUBSET Nat /\ priorities # {}
    <3> HIDE DEF priorities
    <3> QED  BY <1>2, <1>3
  <2> HIDE DEF priorities
  <2> QED  BY <2>1, MinOfSome
<1>5. Min(priorities) \in 1 .. Priority(f.code)
  <2>1. Min(priorities) \in 1 .. 3 /\ Priority(f.code) \in 1 .. 3
    BY <1>2, <1>3, <1>4
  <2>2. Min(priorities) <= Priority(f.code)
    BY <1>2, <1>4
  <2> HIDE DEF priorities
  <2> QED  BY <2>1, <2>2
<1>6. q \in ReviewQueue(F)
  <2>1. ReviewQueue(F) = {ItemOf(F, t) : t \in {SubjectOf(g) : g \in F}}
    BY QueueOfItems
  <2>2. q = ItemOf(F, s)
    BY DEF ItemOf
  <2> HIDE DEF q, s
  <2>3. s \in {SubjectOf(g) : g \in F}
    BY DEF s
  <2> QED  BY <2>1, <2>2, <2>3
<1>7. q.subject = SubjectOf(f) /\ q.priority = Min(priorities)
  OBVIOUS
<1> HIDE DEF q, priorities
<1> QED  BY <1>5, <1>6, <1>7

LEMMA QueueOnce ==
    ASSUME NEW F, NEW p \in ReviewQueue(F), NEW q \in ReviewQueue(F), p.subject = q.subject
    PROVE  p = q
<1>1. PICK t : p = ItemOf(F, t)
  BY QueueOfItems
<1>2. PICK u : q = ItemOf(F, u)
  BY QueueOfItems
<1>3. p.subject = t /\ q.subject = u
  BY <1>1, <1>2 DEF ItemOf
<1> QED  BY <1>1, <1>2, <1>3

LEMMA UrgentFinding ==
    ASSUME NEW x, NEW f \in AllFindings(x), Priority(f.code) = 1
    PROVE  SubjectOf(f) \in {q.subject : q \in {q \in ReviewQueue(AllFindings(x)) : q.priority = 1}}
<1>1. \A g \in AllFindings(x) : g.code \in FindingCodes
  BY CodesOfFindings
<1>2. PICK q \in ReviewQueue(AllFindings(x)) : q.subject = SubjectOf(f) /\ q.priority \in 1 .. Priority(f.code)
  BY <1>1, FindingQueued
<1>3. q.priority = 1
  BY <1>2
<1> QED  BY <1>2, <1>3

LEMMA AssumptionFinding ==
    ASSUME NEW x, NEW i \in Kind(x, "assume"), NEW s \in SignalsIn(x.directives[i]),
           Classified(x.manifest, s) # "environment_input"
    PROVE  \E f \in AllFindings(x) : /\ SubjectOf(f) = i
                                     /\ f.code = ConstraintCode(Classified(x.manifest, s))
<1> DEFINE f == FindingAbout(ConstraintCode(Classified(x.manifest, s)), <<i>>, {s})
           about(k) == {FindingAbout(ConstraintCode(Classified(x.manifest, t)), <<k>>, {t}) :
                           t \in {t \in SignalsIn(x.directives[k]) :
                                    Classified(x.manifest, t) # "environment_input"}}
<1>1. f \in FindOutputConstraints(x)
  <2>1. FindOutputConstraints(x) = UNION {about(k) : k \in Kind(x, "assume")}
    BY DEF FindOutputConstraints
  <2>2. f \in about(i)
    OBVIOUS
  <2> HIDE DEF f, about
  <2> QED  BY <2>1, <2>2
<1>2. SubjectOf(f) = i /\ f.code = ConstraintCode(Classified(x.manifest, s))
  BY DEF SubjectOf, FindingAbout
<1> QED  BY <1>1, <1>2 DEF AllFindings

\* constraint-hygiene-agent's report: for every body of literals and operators, a conflict is
\* unsatisfiable over bits and the other way round, and it is the first thing people are
\* asked about, with every assumption of what the design drives.
THEOREM HygieneSoundAlways == HygieneSpec => []HygieneSound
<1>1. ASSUME HygieneInv, Reported("constraint-hygiene") PROVE ContradictionsReal /\ QueueComplete
  <2>1. input \in HygieneInputs /\ Report = HygieneReport(input)
    BY <1>1 DEF HygieneInv, Reported, Report
  <2>2. /\ Report.contradictions = FindContradictions(input)
        /\ Report.queue = ReviewQueue(AllFindings(input))
    BY <2>1 DEF HygieneReport, AllFindings
  <2>3. ASSUME NEW i \in Kind(input, "assume"), NEW j \in Kind(input, "assume"), i < j,
               NEW f \in Report.contradictions, f.directives = <<i, j>>,
               Unmixed(input.directives[i]), Unmixed(input.directives[j])
        PROVE  ~ Together(input, i, j)
    BY <2>1, <2>2, <2>3, ConflictIsReal
  <2>4. ASSUME NEW i \in Kind(input, "assume"), NEW j \in Kind(input, "assume"), i < j,
               KnownFacts(input.directives[i]), KnownFacts(input.directives[j]),
               Together(input, i, i), Together(input, j, j), ~ Together(input, i, j)
        PROVE  \E f \in Report.contradictions : f.directives = <<i, j>>
    <3>1. i \in DOMAIN input.directives /\ j \in DOMAIN input.directives
      BY DEF Kind
    <3>2. PICK s \in DOMAIN FactsOf(input.directives[i]) \cap DOMAIN FactsOf(input.directives[j]) :
                 FactsOf(input.directives[i])[s] # FactsOf(input.directives[j])[s]
      BY <2>1, <2>4, <3>1, AgreeingFacts
    <3>3. Body(input, input.directives[i]) /\ Body(input, input.directives[j])
      BY <2>1, <3>1, DirectiveBody
    <3>4. FactsOf(input.directives[i])[s] \in Bits
      BY <2>4, <3>2, <3>3, FactIsStated DEF KnownFacts, Conjuncts
    <3>5. FactsOf(input.directives[j])[s] \in Bits
      BY <2>4, <3>2, <3>3, FactIsStated DEF KnownFacts, Conjuncts
    <3> QED  BY <2>2, <2>4, <3>2, <3>4, <3>5, ContradictionFound
  <2>5. ContradictionsReal
    BY <2>3, <2>4 DEF ContradictionsReal, KnownFacts
  <2>6. ASSUME NEW f \in Report.contradictions
        PROVE  /\ f.directives[1] \in {q.subject : q \in {q \in Report.queue : q.priority = 1}}
               /\ 0 \in {q.subject : q \in {q \in Report.queue : q.priority = 1}}
    <3>1. f \in AllFindings(input) /\ Priority(f.code) = 1 /\ SubjectOf(f) = f.directives[1]
      BY <2>2, CodesOfContradictions, PriorityOf DEF AllFindings, SubjectOf
    <3> DEFINE g == FindingAbout("VACUITY_RISK", <<>>, {})
    <3>2. g \in VacuityRecommendations(input, FindContradictions(input))
      BY <2>2 DEF VacuityRecommendations
    <3>3. g \in AllFindings(input)
      BY <3>2 DEF AllFindings
    <3>4. Priority(g.code) = 1 /\ SubjectOf(g) = 0
      BY PriorityOf DEF FindingAbout, SubjectOf
    <3> HIDE DEF g
    <3> QED  BY <2>2, <3>1, <3>3, <3>4, UrgentFinding
  <2>7. ASSUME NEW i \in Kind(input, "assume"), NEW s \in SignalsIn(input.directives[i])
        PROVE  /\ Classified(input.manifest, s) = "dut_output" =>
                    i \in {q.subject : q \in {q \in Report.queue : q.priority = 1}}
               /\ Classified(input.manifest, s) # "environment_input" =>
                    \E q \in Report.queue : q.subject = i /\ q.priority <= 2
    <3>1. CASE Classified(input.manifest, s) = "environment_input"
      BY <3>1
    <3>2. CASE Classified(input.manifest, s) # "environment_input"
      <4>1. PICK f \in AllFindings(input) : /\ SubjectOf(f) = i
                                            /\ f.code = ConstraintCode(Classified(input.manifest, s))
        BY <3>2, AssumptionFinding
      <4>2. Priority(f.code) \in {1, 2}
        BY <3>2, <4>1, CodeOfOwnership, PriorityOf
      <4>3. Classified(input.manifest, s) = "dut_output" => Priority(f.code) = 1
        BY <3>2, <4>1, CodeOfOwnership, PriorityOf
      <4>4. \A g \in AllFindings(input) : g.code \in FindingCodes
        BY CodesOfFindings
      <4>5. PICK q \in ReviewQueue(AllFindings(input)) : /\ q.subject = i
                                                         /\ q.priority \in 1 .. Priority(f.code)
        BY <4>1, <4>4, FindingQueued
      <4>6. q.priority <= 2
        BY <4>2, <4>5
      <4> QED  BY <2>2, <4>1, <4>3, <4>5, <4>6, UrgentFinding
    <3> QED  BY <3>1, <3>2
  <2>8. \A p, q \in Report.queue : p.subject = q.subject => p = q
    BY <2>2, QueueOnce
  <2>9. QueueComplete
    BY <2>6, <2>7, <2>8 DEF QueueComplete
  <2> QED  BY <2>5, <2>9
<1>2. HygieneInv => HygieneSound
  BY <1>1 DEF HygieneSound
<1> QED  BY HygieneInvariant, <1>2, PTL

-----------------------------------------------------------------------------
(***************************************************************************)
(* Register maps                                                           *)
(***************************************************************************)

\* While the tool runs, and when it has reported.
RegisterInv ==
    /\ tool = "register-csr"
    /\ \E x \in RegisterInputs : input = x /\ reports \in {{}, {Package(x)}}

\* The package is that of the map it was called with.
LEMMA RegisterInvariant == RegisterSpec => []RegisterInv
<1>1. RegisterInit => RegisterInv
  BY DEF RegisterInit, RegisterInv, Called
<1>2. RegisterInv /\ [BuildPackage]_passVars => RegisterInv'
  BY DEF RegisterInv, BuildPackage, Computing, Reports, passVars
<1> QED  BY <1>1, <1>2, PTL DEF RegisterSpec

LEMMA RegisterOfRowsForm ==
    ASSUME NEW rows \in Seq(RowForms), NEW name, \E i \in DOMAIN rows : rows[i].register = name
    PROVE  name \in STRING => RegisterOfRows(rows, name) \in RegisterForms
<1> SUFFICES ASSUME name \in STRING PROVE RegisterOfRows(rows, name) \in RegisterForms
  OBVIOUS
<1> DEFINE mine == {i \in DOMAIN rows : rows[i].register = name}
           own == Picked(rows, mine)
           scoped == {i \in DOMAIN own : own[i].field = {} /\ own[i].access # "none"}
           with == {i \in DOMAIN own : own[i].field # {}}
           declaring == Picked(own, with)
           access == IF scoped = {} THEN "RW" ELSE own[Max(scoped)].access
           one(k) == CHOOSE f \in declaring[k].field : TRUE
           fields == [k \in DOMAIN declaring |-> one(k)]
<1>1. mine \subseteq DOMAIN rows /\ mine # {}
  OBVIOUS
<1> HIDE DEF mine
<1>2. own \in Seq(RowForms) /\ Range(own) = {rows[i] : i \in mine}
  BY <1>1, PickedElements
<1>3. scoped \subseteq DOMAIN own /\ with \subseteq DOMAIN own
      /\ \A i \in with : own[i].field # {}
  OBVIOUS
<1>9. RegisterOfRows(rows, name) =
         [name |-> name, address |-> own[1].address, width |-> own[1].width,
          reset |-> own[1].reset, access |-> access, fields |-> fields]
  BY DEF RegisterOfRows, mine
<1> HIDE DEF own, scoped, with
<1>4. own[1] \in RowForms
  <2>1. Range(own) # {}
    BY <1>1, <1>2
  <2>2. own # <<>>
    BY <2>1 DEF Range
  <2> QED  BY <1>2, <2>2
<1>5. access \in AccessWords
  <2>1. CASE scoped = {}
    BY <2>1 DEF AccessWords, AccessTypes
  <2>2. CASE scoped # {}
    <3>1. scoped \in SUBSET (1 .. Len(own)) /\ Len(own) \in Nat
      BY <1>2, <1>3
    <3>2. Max(scoped) \in scoped
      BY <2>2, <3>1, LastPosition
    <3>3. own[Max(scoped)] \in RowForms
      BY <1>2, <1>3, <3>2
    <3> QED  BY <2>2, <3>3 DEF RowForms
  <2> QED  BY <2>1, <2>2
<1>6. fields \in Seq(FieldForms)
  <2>1. PICK at : PickedAt(own, with, at)
    BY <1>2, <1>3, PickedPositions
  <2>2. Cardinality(with) \in Nat
    BY <1>2, <1>3, PickedPositions
  <2>3. DOMAIN declaring = 1 .. Cardinality(with)
        /\ \A k \in DOMAIN declaring : at[k] \in with /\ declaring[k] = own[at[k]]
    BY <2>1 DEF PickedAt
  <2> HIDE DEF declaring
  <2>4. ASSUME NEW k \in DOMAIN declaring
        PROVE  one(k) \in FieldForms
    <3>1. declaring[k] \in RowForms /\ declaring[k].field # {}
      BY <1>2, <1>3, <2>3
    <3>2. declaring[k].field \subseteq FieldForms
      BY <3>1 DEF RowForms
    <3> QED  BY <3>1, <3>2
  <2> HIDE DEF with, one
  <2>5. DOMAIN declaring = 1 .. Cardinality(with)
    BY <2>3
  <2> QED  BY <2>2, <2>4, <2>5
<1> HIDE DEF access, fields
<1>7. own[1].address \in Nat /\ own[1].width \in Nat \ {0} /\ own[1].reset \in SUBSET Nat
  BY <1>4 DEF RowForms
<1>8. [name |-> name, address |-> own[1].address, width |-> own[1].width,
       reset |-> own[1].reset, access |-> access, fields |-> fields] \in RegisterForms
  BY <1>5, <1>6, <1>7 DEF RegisterForms
<1> QED  BY <1>8, <1>9

\* What a source is read into.
LEMMA RegistersFormed ==
    ASSUME NEW x \in RegisterInputs
    PROVE  RegistersOf(x) \in Seq(RegisterForms) /\ Unit(x) \in Nat \ {0}
<1>1. /\ x.rows \in Seq(RowForms) /\ x.registers \in Seq(RegisterForms) /\ x.unit \in Nat \ {0}
  BY RegisterAssumption
<1>2. CASE x.format = "csv"
  <2> DEFINE keep == {i \in DOMAIN x.rows :
                        \A j \in 1 .. (i - 1) : x.rows[j].register # x.rows[i].register}
             first == FirstRows(x.rows)
  <2>1. first = Picked(x.rows, keep) /\ keep \subseteq DOMAIN x.rows
    BY DEF FirstRows
  <2> HIDE DEF keep, first
  <2>2. first \in Seq(RowForms) /\ Range(first) = {x.rows[i] : i \in keep}
    BY <1>1, <2>1, PickedElements
  <2>3. ASSUME NEW i \in DOMAIN first
        PROVE  RegisterOfRows(x.rows, first[i].register) \in RegisterForms
    <3>1. first[i] \in Range(first) /\ first[i] \in RowForms
      BY <2>2 DEF Range
    <3>2. PICK j \in keep : first[i] = x.rows[j]
      BY <2>2, <3>1
    <3>3. \E k \in DOMAIN x.rows : x.rows[k].register = first[i].register
      BY <2>1, <3>2
    <3>4. first[i].register \in STRING
      BY <3>1 DEF RowForms
    <3> QED  BY <1>1, <3>3, <3>4, RegisterOfRowsForm
  <2>4. RegistersOf(x) = [i \in DOMAIN first |-> RegisterOfRows(x.rows, first[i].register)]
    BY <1>2 DEF RegistersOf, first
  <2>5. DOMAIN first = 1 .. Len(first) /\ Len(first) \in Nat
    BY <2>2
  <2>6. RegistersOf(x) \in Seq(RegisterForms)
    BY <2>3, <2>4, <2>5
  <2> QED  BY <1>2, <2>6 DEF Unit
<1>3. CASE x.format # "csv"
  BY <1>1, <1>3 DEF RegistersOf, Unit
<1> QED  BY <1>2, <1>3

\* The registers in the order of their addresses: at says where each of them is in the map.
AddressOrder(registers, at) ==
    /\ at \in [DOMAIN registers -> DOMAIN registers]
    /\ ByAddress(registers) = [m \in DOMAIN registers |-> registers[at[m]]]
    /\ \A l, m \in DOMAIN registers : at[l] = at[m] => l = m
    /\ \A i \in DOMAIN registers : \E m \in DOMAIN registers : at[m] = i
    /\ \A l, m \in DOMAIN registers :
          l < m => registers[at[l]].address <= registers[at[m]].address

LEMMA SortedByAddress ==
    ASSUME NEW registers \in Seq(RegisterForms)
    PROVE  \E at : AddressOrder(registers, at)
<1> DEFINE S == DOMAIN registers
           Earlier(i, j) == \/ registers[i].address < registers[j].address
                            \/ registers[i].address = registers[j].address /\ i < j
           R == {p \in S \X S : Earlier(p[1], p[2])}
<1>1. S = 1 .. Len(registers) /\ Len(registers) \in Nat /\ IsFiniteSet(S) /\ Cardinality(S) = Len(registers)
  <2>1. S = 1 .. Len(registers) /\ Len(registers) \in Nat
    OBVIOUS
  <2> HIDE DEF S
  <2> QED  BY <2>1, FS_Interval
<1>2. \A i \in S : registers[i].address \in Nat /\ i \in Nat
  <2> TAKE i \in S
  <2>1. registers[i] \in RegisterForms /\ i \in Nat
    OBVIOUS
  <2> QED  BY <2>1 DEF RegisterForms
<1>3. \A i, j \in S : <<i, j>> \in R <=> Earlier(i, j)
  OBVIOUS
<1> HIDE DEF S, R
<1>4. Orders(R, S)
  <2>1. \A i \in S : ~ Earlier(i, i)
    BY <1>2
  <2>2. \A i, j \in S : i = j \/ Earlier(i, j) \/ Earlier(j, i)
    BY <1>2
  <2>3. \A i, j, k \in S : Earlier(i, j) /\ Earlier(j, k) => Earlier(i, k)
    BY <1>2
  <2> HIDE DEF Earlier
  <2> QED  BY <1>3, <2>1, <2>2, <2>3 DEF Orders
<1>5. PICK at : Ranked(at, R, S)
  BY <1>1, <1>4, RanksTaken
<1>6. at \in [S -> S] /\ DOMAIN at = S
  BY <1>1, <1>5 DEF Ranked
<1>7. ASSUME NEW m \in S
      PROVE  (CHOOSE i \in S : Cardinality({j \in S : Earlier(j, i)}) = m - 1) = at[m]
  <2>1. at[m] = CHOOSE i \in S : Cardinality(Predecessors(R, S, i)) = m - 1
    BY <1>5, <1>6 DEF Ranked
  <2>2. \A i \in S : Predecessors(R, S, i) = {j \in S : Earlier(j, i)}
    BY <1>3 DEF Predecessors
  <2> HIDE DEF Earlier
  <2> QED  BY <2>1, <2>2
<1>8. ByAddress(registers) = [m \in S |-> registers[at[m]]]
  <2>1. ByAddress(registers) =
           [m \in S |-> registers[CHOOSE i \in S : Cardinality({j \in S : Earlier(j, i)}) = m - 1]]
    BY DEF ByAddress, InOrder, S
  <2> HIDE DEF Earlier
  <2> QED  BY <1>7, <2>1
<1>9. \A l, m \in S : l < m => registers[at[l]].address <= registers[at[m]].address
  <2> SUFFICES ASSUME NEW l \in S, NEW m \in S, l < m
               PROVE  registers[at[l]].address <= registers[at[m]].address
    OBVIOUS
  <2>1. <<at[l], at[m]>> \in R /\ at[l] \in S /\ at[m] \in S
    BY <1>5, <1>6 DEF Ranked
  <2>2. Earlier(at[l], at[m])
    BY <1>3, <2>1
  <2> QED  BY <1>2, <2>1, <2>2
<1>10. /\ \A l, m \in S : at[l] = at[m] => l = m
       /\ \A i \in S : \E m \in S : at[m] = i
  BY <1>5, <1>6 DEF Ranked
<1> QED  BY <1>6, <1>8, <1>9, <1>10 DEF AddressOrder, S

LEMMA ProductGrows ==
    ASSUME NEW a \in Nat, NEW b \in Nat, NEW u \in Nat, a <= b
    PROVE  a * u \in Nat /\ b * u \in Nat /\ a * u <= b * u
<1>1. PICK d \in Nat : b = a + d
  <2>1. b - a \in Nat /\ b = a + (b - a)
    OBVIOUS
  <2> QED  BY <2>1
<1>2. (a + d) * u = a * u + d * u /\ a * u \in Nat /\ d * u \in Nat
  OBVIOUS
<1> QED  BY <1>1, <1>2

LEMMA ProductApart ==
    ASSUME NEW a \in Nat, NEW b \in Nat, NEW u \in Nat \ {0}, a < b
    PROVE  a * u < b * u
<1>1. a + 1 \in Nat /\ a + 1 <= b
  OBVIOUS
<1>2. (a + 1) * u <= b * u /\ b * u \in Nat
  BY <1>1, ProductGrows
<1>3. (a + 1) * u = a * u + u /\ a * u \in Nat
  OBVIOUS
<1> QED  BY <1>2, <1>3

\* The bytes of a register begin where it is and are one at least.
LEMMA BytesOf ==
    ASSUME NEW r \in RegisterForms, NEW unit \in Nat \ {0}
    PROVE  /\ FirstByte(r, unit) \in Nat /\ LastByte(r, unit) \in Nat
           /\ FirstByte(r, unit) <= LastByte(r, unit)
           /\ Bytes(r, unit) = FirstByte(r, unit) .. LastByte(r, unit)
<1>1. r.address \in Nat /\ r.width \in Nat \ {0}
  BY DEF RegisterForms
<1>2. r.address * unit \in Nat
  BY <1>1, ProductGrows
<1>3. ByteSize(r) \in Nat /\ ByteSize(r) >= 1
  BY <1>1 DEF ByteSize
<1> QED  BY <1>2, <1>3 DEF FirstByte, LastByte, Bytes

\* What is found: by comparing addresses, by the checks of one register, by grounding.
LEMMA FoundByChecks ==
    ASSUME NEW registers, NEW unit, NEW rtl
    PROVE  \A d : d \in RunAllChecks(registers, unit, rtl) <=>
              \/ d \in CheckAddresses(registers, unit)
              \/ \E r \in Range(registers) :
                    d \in CheckBitRanges(r) \cup CheckResets(r) \cup CheckAccess(r) \cup CheckAnnotations(r)
              \/ d \in CheckGrounding(registers, rtl)
  BY DEF RunAllChecks

LEMMA GroundingErrors ==
    ASSUME NEW registers, NEW rtl, NEW d \in CheckGrounding(registers, rtl)
    PROVE  d.code \in {"RTL_UNMAPPED", "RTL_WIDTH_MISMATCH", "RTL_RESET_MISMATCH", "RTL_ACCESS_MISMATCH"}
<1> DEFINE differs(r, code, said, value) ==
             IF said \in {{}, {value}} THEN {} ELSE {Discrepancy(code, {r.name}, {})}
           against(r, s) == differs(r, "RTL_WIDTH_MISMATCH", s.width, r.width)
                            \cup differs(r, "RTL_RESET_MISMATCH", s.reset, r.reset)
                            \cup differs(r, "RTL_ACCESS_MISMATCH", s.access, r.access)
<1>1. \A r, s : \A e \in against(r, s) : e.code \in {"RTL_UNMAPPED", "RTL_WIDTH_MISMATCH", "RTL_RESET_MISMATCH", "RTL_ACCESS_MISMATCH"}
  BY DEF Discrepancy
<1>2. \E n : \/ d = Discrepancy("RTL_UNMAPPED", {n}, {})
             \/ \E s : d \in against(LastNamed(registers, n), LastNamed(rtl, s))
  <2> DEFINE names == {r.name : r \in Range(registers)}
             of(n) == UNION {against(LastNamed(registers, n), LastNamed(rtl, s)) : s \in Grounded(rtl, n)}
             said(n) == IF Grounded(rtl, n) = {} THEN {Discrepancy("RTL_UNMAPPED", {n}, {})} ELSE of(n)
  <2>1. CheckGrounding(registers, rtl) = IF rtl = <<>> THEN {} ELSE UNION {said(n) : n \in names}
    BY DEF CheckGrounding
  <2> HIDE DEF against, names, said
  <2>2. PICK n \in names : d \in said(n)
    BY <2>1
  <2>3. d = Discrepancy("RTL_UNMAPPED", {n}, {}) \/ d \in of(n)
    BY <2>2 DEF said
  <2> QED  BY <2>3
<1> HIDE DEF against
<1> QED  BY <1>1, <1>2 DEF Discrepancy

\* Only the check of addresses says anything of two registers.
LEMMA AddressErrors ==
    ASSUME NEW registers, NEW unit, NEW rtl
    PROVE  \A d : /\ d \in RunAllChecks(registers, unit, rtl)
                  /\ d.code \in {"ADDR_DUP", "ADDR_OVERLAP"}
                  <=> d \in CheckAddresses(registers, unit) /\ d.code \in {"ADDR_DUP", "ADDR_OVERLAP"}
<1> DEFINE own(r) == CheckBitRanges(r) \cup CheckResets(r) \cup CheckAccess(r) \cup CheckAnnotations(r)
<1>1. ASSUME NEW r, NEW d \in own(r) PROVE d.code \notin {"ADDR_DUP", "ADDR_OVERLAP"}
  <2>1. CASE d \in CheckBitRanges(r)
    BY <2>1 DEF CheckBitRanges, Discrepancy
  <2>2. CASE d \in CheckResets(r)
    BY <2>2 DEF CheckResets, Discrepancy
  <2>3. CASE d \in CheckAccess(r)
    BY <2>3 DEF CheckAccess, Discrepancy
  <2>4. CASE d \in CheckAnnotations(r)
    <3>1. PICK f \in Range(r.fields) :
             d \in (IF f.interrupt /\ f.access \notin {"W1C", "RC", "RO", "W1S"}
                      THEN {Discrepancy("IRQ_STATUS_ACCESS", {r.name}, {f.name})} ELSE {})
                   \cup (IF f.effect THEN {Discrepancy("SIDE_EFFECT_UNREVIEWED", {r.name}, {f.name})} ELSE {})
                   \cup IF f.privileged THEN {Discrepancy("PRIV_ACCESS_DECLARED", {r.name}, {f.name})} ELSE {}
      BY <2>4 DEF CheckAnnotations
    <3> QED  BY <3>1 DEF Discrepancy
  <2> QED  BY <2>1, <2>2, <2>3, <2>4
<1>2. \A d \in CheckGrounding(registers, rtl) : d.code \notin {"ADDR_DUP", "ADDR_OVERLAP"}
  BY GroundingErrors
<1> QED  BY <1>1, <1>2, FoundByChecks

LEMMA TwoAtLeast ==
    ASSUME NEW S, IsFiniteSet(S)
    PROVE  Cardinality(S) > 1 <=> \E i, j \in S : i # j
<1>1. Cardinality(S) \in Nat
  BY FS_CardinalityType
<1>2. ASSUME NEW i \in S, NEW j \in S, i # j PROVE Cardinality(S) > 1
  <2>1. Cardinality(S) # 0
    BY FS_EmptySet
  <2>2. Cardinality(S) # 1
    BY <1>2, FS_Singleton
  <2> QED  BY <1>1, <2>1, <2>2
<1>3. ASSUME Cardinality(S) > 1 PROVE \E i, j \in S : i # j
  <2>1. S # {}
    BY <1>3, FS_EmptySet
  <2>2. PICK i : i \in S
    BY <2>1
  <2>3. S # {i}
    BY <1>3, FS_Singleton
  <2> QED  BY <2>2, <2>3
<1> QED  BY <1>2, <1>3

LEMMA NoByteSharedOf ==
    ASSUME NEW x \in RegisterInputs, input = x, reports = {Package(x)}, Loads(RegistersOf(x))
    PROVE  NoByteShared
<1> DEFINE registers == RegistersOf(x)
           unit == Unit(x)
           found == RunAllChecks(registers, unit, x.rtl)
           same(i) == {j \in DOMAIN registers : registers[j].address = registers[i].address}
           first(i) == FirstByte(registers[i], unit)
           last(i) == LastByte(registers[i], unit)
           shares(i, j) == Bytes(registers[i], unit) \cap Bytes(registers[j], unit) # {}
<1>1. Report.registers = registers /\ Report.discrepancies = found
  <2> DEFINE made == [loaded |-> TRUE, registers |-> registers, discrepancies |-> found,
                      unmatched |-> UnmatchedRtl(registers, x.rtl),
                      coverage |-> BuildCoverage(registers), checklist |-> BuildChecklist(registers)]
  <2>1. Package(x) = made
    BY DEF Package
  <2>2. Report = made
    BY <2>1 DEF Report
  <2>3. made.registers = registers /\ made.discrepancies = found
    OBVIOUS
  <2> QED  BY <2>2, <2>3
<1>2. registers \in Seq(RegisterForms) /\ unit \in Nat \ {0}
  BY RegistersFormed
<1> HIDE DEF registers, unit
<1>3. PICK at : AddressOrder(registers, at)
  BY <1>2, SortedByAddress
<1>4. \A d : /\ d \in found /\ d.code \in {"ADDR_DUP", "ADDR_OVERLAP"}
             <=> d \in CheckAddresses(registers, unit) /\ d.code \in {"ADDR_DUP", "ADDR_OVERLAP"}
  BY AddressErrors
<1>5. /\ DOMAIN registers = 1 .. Len(registers) /\ Len(registers) \in Nat
      /\ \A i \in DOMAIN registers : registers[i] \in RegisterForms /\ registers[i].address \in Nat
  <2>1. \A i \in DOMAIN registers : registers[i] \in RegisterForms
    BY <1>2
  <2> QED  BY <1>2, <2>1 DEF RegisterForms
<1>6. \A i \in DOMAIN registers : /\ first(i) \in Nat /\ last(i) \in Nat /\ first(i) <= last(i)
                                  /\ Bytes(registers[i], unit) = first(i) .. last(i)
                                  /\ first(i) = registers[i].address * unit
  BY <1>2, <1>5, BytesOf DEF FirstByte
<1>7. \A i \in DOMAIN registers : Cardinality(same(i)) > 1
         <=> \E j, k \in same(i) : j # k
  <2> TAKE i \in DOMAIN registers
  <2>1. same(i) \subseteq DOMAIN registers
    OBVIOUS
  <2>3. IsFiniteSet(DOMAIN registers)
    <3> DEFINE D == DOMAIN registers
    <3>1. D = 1 .. Len(registers) /\ Len(registers) \in Nat
      BY <1>5
    <3> HIDE DEF D
    <3>2. IsFiniteSet(D)
      BY <3>1, FS_Interval
    <3> QED  BY <3>2 DEF D
  <2> HIDE DEF same
  <2>2. IsFiniteSet(same(i))
    BY <2>1, <2>3, FS_Subset
  <2> QED  BY <2>2, TwoAtLeast
<1> DEFINE sorted == ByAddress(registers)
<1>8. /\ \A d : d \in CheckAddresses(registers, unit) /\ d.code = "ADDR_DUP" <=>
            \E i \in DOMAIN registers :
               /\ Cardinality(same(i)) > 1
               /\ d = Discrepancy("ADDR_DUP", {registers[j].name : j \in same(i)}, {})
      /\ \A d : d \in CheckAddresses(registers, unit) /\ d.code = "ADDR_OVERLAP" <=>
            \E m \in 1 .. (Len(sorted) - 1) :
               /\ OverlapsNext(sorted[m], sorted[m + 1], unit)
               /\ d = Discrepancy("ADDR_OVERLAP", {sorted[m].name, sorted[m + 1].name}, {})
  <2> DEFINE misaligned == {r \in Range(registers) : FirstByte(r, unit) % ByteSize(r) # 0}
             twice == {i \in DOMAIN registers : Cardinality(same(i)) > 1}
             over == {m \in 1 .. (Len(sorted) - 1) : OverlapsNext(sorted[m], sorted[m + 1], unit)}
             A == {Discrepancy("ADDR_MISALIGN", {r.name}, {}) : r \in misaligned}
             dup(i) == Discrepancy("ADDR_DUP", {registers[j].name : j \in same(i)}, {})
             lap(m) == Discrepancy("ADDR_OVERLAP", {sorted[m].name, sorted[m + 1].name}, {})
  <2>1. CheckAddresses(registers, unit) =
           A \cup {dup(i) : i \in twice} \cup {lap(m) : m \in over}
    BY DEF CheckAddresses
  <2>2. /\ \A d \in A : d.code = "ADDR_MISALIGN"
        /\ \A i : dup(i).code = "ADDR_DUP"
        /\ \A m : lap(m).code = "ADDR_OVERLAP"
    BY DEF Discrepancy
  <2> HIDE DEF A, dup, lap
  <2>3. \A d : d \in CheckAddresses(registers, unit) /\ d.code = "ADDR_DUP" <=>
               \E i \in twice : d = dup(i)
    <3> HIDE DEF twice, over
    <3> QED  BY <2>1, <2>2
  <2>4. \A d : d \in CheckAddresses(registers, unit) /\ d.code = "ADDR_OVERLAP" <=>
               \E m \in over : d = lap(m)
    <3> HIDE DEF twice, over
    <3> QED  BY <2>1, <2>2
  <2> HIDE DEF sorted, same
  <2>5. \A d : d \in CheckAddresses(registers, unit) /\ d.code = "ADDR_DUP" <=>
               \E i \in DOMAIN registers : Cardinality(same(i)) > 1 /\ d = dup(i)
    BY <2>3
  <2>6. \A d : d \in CheckAddresses(registers, unit) /\ d.code = "ADDR_OVERLAP" <=>
               \E m \in 1 .. (Len(sorted) - 1) :
                  OverlapsNext(sorted[m], sorted[m + 1], unit) /\ d = lap(m)
    BY <2>4
  <2> QED  BY <2>5, <2>6 DEF dup, lap
<1>9. /\ Len(sorted) = Len(registers)
      /\ \A m \in DOMAIN registers : sorted[m] = registers[at[m]] /\ at[m] \in DOMAIN registers
  BY <1>3, <1>5 DEF AddressOrder
<1> HIDE DEF sorted
<1>10. ASSUME {"ADDR_DUP", "ADDR_OVERLAP"} \cap {d.code : d \in found} = {},
              NEW i \in DOMAIN registers, NEW j \in DOMAIN registers, i # j
       PROVE  ~ shares(i, j)
  <2>1. \A k, l \in DOMAIN registers : k # l => registers[k].address # registers[l].address
    <3> SUFFICES ASSUME NEW k \in DOMAIN registers, NEW l \in DOMAIN registers, k # l,
                        registers[k].address = registers[l].address
                 PROVE  FALSE
      OBVIOUS
    <3>1. Cardinality(same(k)) > 1
      BY <1>7
    <3> DEFINE d == Discrepancy("ADDR_DUP", {registers[h].name : h \in same(k)}, {})
    <3>2. d.code = "ADDR_DUP"
      BY DEF Discrepancy
    <3>3. d \in found
      <4> HIDE DEF d, same, found
      <4>1. d \in CheckAddresses(registers, unit)
        BY <1>8, <3>1 DEF d
      <4> QED  BY <1>4, <3>2, <4>1
    <3> HIDE DEF d, found
    <3> QED  BY <1>10, <3>2, <3>3
  <2>2. \A m \in 1 .. (Len(registers) - 1) : ~ OverlapsNext(sorted[m], sorted[m + 1], unit)
    <3> SUFFICES ASSUME NEW m \in 1 .. (Len(registers) - 1), OverlapsNext(sorted[m], sorted[m + 1], unit)
                 PROVE  FALSE
      OBVIOUS
    <3> DEFINE d == Discrepancy("ADDR_OVERLAP", {sorted[m].name, sorted[m + 1].name}, {})
    <3>2. d.code = "ADDR_OVERLAP"
      BY DEF Discrepancy
    <3>3. d \in found
      <4> HIDE DEF d, found
      <4>1. d \in CheckAddresses(registers, unit)
        BY <1>8, <1>9 DEF d
      <4> QED  BY <1>4, <3>2, <4>1
    <3> HIDE DEF d, found
    <3> QED  BY <1>10, <3>2, <3>3
  <2>3. ASSUME NEW k \in DOMAIN registers, NEW m \in DOMAIN registers, k < m
        PROVE  last(at[k]) < first(at[m])
    <3>1. k \in 1 .. (Len(registers) - 1) /\ k + 1 \in DOMAIN registers /\ k + 1 <= m
      BY <1>5, <2>3
    <3>2. at[k] \in DOMAIN registers /\ at[k + 1] \in DOMAIN registers /\ at[m] \in DOMAIN registers
          /\ at[k] # at[k + 1]
      <4>1. k # k + 1
        BY <1>5
      <4> QED  BY <1>3, <1>9, <3>1, <4>1 DEF AddressOrder
    <3>3. registers[at[k]].address # registers[at[k + 1]].address
      BY <2>1, <3>2
    <3>4. last(at[k]) < first(at[k + 1])
      <4>1. ~ OverlapsNext(registers[at[k]], registers[at[k + 1]], unit)
        BY <1>9, <2>2, <3>1
      <4>2. ~ (first(at[k + 1]) <= last(at[k]))
        BY <3>3, <4>1 DEF OverlapsNext
      <4> HIDE DEF first, last
      <4> QED  BY <1>6, <3>2, <4>2
    <3>5. registers[at[k + 1]].address <= registers[at[m]].address
      <4>1. CASE k + 1 = m
        BY <1>5, <3>2, <4>1
      <4>2. CASE k + 1 # m
        <5>1. k + 1 < m
          BY <1>5, <3>1, <4>2
        <5> QED  BY <1>3, <3>1, <5>1 DEF AddressOrder
      <4> QED  BY <4>1, <4>2
    <3>6. first(at[k + 1]) <= first(at[m])
      <4>1. registers[at[k + 1]].address * unit <= registers[at[m]].address * unit
        BY <1>2, <1>5, <3>2, <3>5, ProductGrows
      <4> QED  BY <1>6, <3>2, <4>1
    <3> HIDE DEF first, last
    <3> QED  BY <1>6, <3>2, <3>4, <3>6
  <2>4. PICK k \in DOMAIN registers, m \in DOMAIN registers : at[k] = i /\ at[m] = j
    BY <1>3 DEF AddressOrder
  <2>5. k < m \/ m < k
    BY <1>5, <1>10, <2>4
  <2>6. last(i) < first(j) \/ last(j) < first(i)
    BY <2>3, <2>4, <2>5
  <2> HIDE DEF first, last
  <2>7. \A n : ~ (n \in first(i) .. last(i) /\ n \in first(j) .. last(j))
    BY <1>6, <2>6
  <2>8. Bytes(registers[i], unit) = first(i) .. last(i) /\ Bytes(registers[j], unit) = first(j) .. last(j)
    BY <1>6
  <2> QED  BY <2>7, <2>8
<1>11. ASSUME NEW d \in found, d.code \in {"ADDR_DUP", "ADDR_OVERLAP"}
       PROVE  \E i, j \in DOMAIN registers :
                 i # j /\ shares(i, j) /\ {registers[i].name, registers[j].name} \subseteq d.register
  <2> HIDE DEF found
  <2>1. d \in CheckAddresses(registers, unit)
    BY <1>4, <1>11
  <2>2. CASE d.code = "ADDR_DUP"
    <3>1. PICK i \in DOMAIN registers :
             /\ Cardinality(same(i)) > 1
             /\ d = Discrepancy("ADDR_DUP", {registers[j].name : j \in same(i)}, {})
      <4> HIDE DEF same
      <4> QED  BY <1>8, <2>1, <2>2
    <3>2. PICK j \in same(i), k \in same(i) : j # k
      <4> HIDE DEF same
      <4> QED  BY <1>7, <3>1
    <3>3. j \in DOMAIN registers /\ k \in DOMAIN registers /\ registers[j].address = registers[k].address
      BY <3>2
    <3>4. first(j) = first(k)
      BY <3>3 DEF FirstByte
    <3>5. first(j) \in Bytes(registers[j], unit) /\ first(j) \in Bytes(registers[k], unit)
      <4> HIDE DEF first, last
      <4> QED  BY <1>6, <3>3, <3>4
    <3>6. d.register = {registers[h].name : h \in same(i)}
      BY <3>1 DEF Discrepancy
    <3>7. {registers[j].name, registers[k].name} \subseteq d.register
      BY <3>2, <3>6
    <3> QED  BY <3>2, <3>3, <3>5, <3>7
  <2>3. CASE d.code = "ADDR_OVERLAP"
    <3>1. PICK m \in 1 .. (Len(sorted) - 1) :
             /\ OverlapsNext(sorted[m], sorted[m + 1], unit)
             /\ d = Discrepancy("ADDR_OVERLAP", {sorted[m].name, sorted[m + 1].name}, {})
      BY <1>8, <2>1, <2>3
    <3>2. m \in DOMAIN registers /\ m + 1 \in DOMAIN registers /\ m < m + 1
      BY <1>5, <1>9, <3>1
    <3> DEFINE i == at[m]
               j == at[m + 1]
    <3>3. i \in DOMAIN registers /\ j \in DOMAIN registers /\ sorted[m] = registers[i]
          /\ sorted[m + 1] = registers[j] /\ registers[i].address <= registers[j].address
      BY <1>3, <1>9, <3>2 DEF AddressOrder
    <3> HIDE DEF i, j
    <3>4. registers[i].address # registers[j].address /\ first(j) <= last(i)
      BY <3>1, <3>3 DEF OverlapsNext
    <3>5. first(i) <= first(j)
      <4>1. registers[i].address * unit <= registers[j].address * unit
        BY <1>2, <1>5, <3>3, ProductGrows
      <4> QED  BY <1>6, <3>3, <4>1
    <3>6. first(j) \in Bytes(registers[i], unit) /\ first(j) \in Bytes(registers[j], unit)
      <4>1. first(j) \in first(i) .. last(i) /\ first(j) \in first(j) .. last(j)
        <5> HIDE DEF first, last
        <5> QED  BY <1>6, <3>3, <3>4, <3>5
      <4>2. Bytes(registers[i], unit) = first(i) .. last(i) /\ Bytes(registers[j], unit) = first(j) .. last(j)
        BY <1>6, <3>3
      <4> QED  BY <4>1, <4>2
    <3>7. d.register = {registers[i].name, registers[j].name}
      BY <3>1, <3>3 DEF Discrepancy
    <3> QED  BY <3>3, <3>4, <3>6, <3>7
  <2> QED  BY <1>11, <2>2, <2>3
<1>12. Unit(input) = unit
  BY DEF unit
<1> HIDE DEF found, same
<1> QED  BY <1>1, <1>10, <1>11, <1>12 DEF NoByteShared

LEMMA ResetsAgreeOf ==
    ASSUME NEW x \in RegisterInputs, Loads(RegistersOf(x)),
           Report.registers = RegistersOf(x),
           Report.discrepancies = RunAllChecks(RegistersOf(x), Unit(x), x.rtl)
    PROVE  ResetsAgree
<1> DEFINE registers == RegistersOf(x)
           found == RunAllChecks(registers, Unit(x), x.rtl)
<1>1. registers \in Seq(RegisterForms) /\ Loads(registers)
  BY RegistersFormed
<1>2. \A r \in Range(registers) : \A d \in CheckBitRanges(r) \cup CheckResets(r) : d \in found
  BY FoundByChecks
<1> HIDE DEF registers, found
<1>0. Report.registers = registers /\ Report.discrepancies = found
  BY DEF registers, found
<1> SUFFICES ASSUME NEW r \in Range(Report.registers),
                    \A code \in {"FIELD_OOB", "FIELD_OVERLAP", "RESET_OOB", "RESET_FIELD_SUM"} :
                       ~ Told(code, {r.name})
             PROVE  /\ r.reset \subseteq 0 .. (r.width - 1)
                    /\ \A i, j \in DOMAIN r.fields :
                          i # j => BitsOf(r.fields[i]) \cap BitsOf(r.fields[j]) = {}
                    /\ \A f \in Range(r.fields) :
                          {f.offset + b : b \in f.reset} = r.reset \cap BitsOf(f)
  BY DEF ResetsAgree
<1>3. PICK k \in DOMAIN registers : r = registers[k]
  BY <1>0 DEF Range
<1>4. r \in RegisterForms
  BY <1>1, <1>3
<1>5. /\ r.width \in Nat /\ r.reset \in SUBSET Nat /\ r.fields \in Seq(FieldForms)
      /\ DOMAIN r.fields = 1 .. Len(r.fields) /\ Len(r.fields) \in Nat
  BY <1>4 DEF RegisterForms
<1>6. ASSUME NEW i \in DOMAIN r.fields
      PROVE  /\ r.fields[i].offset \in Nat /\ r.fields[i].width \in Nat \ {0}
             /\ r.fields[i].reset \subseteq 0 .. (r.fields[i].width - 1)
  <2>1. r.fields[i] \in FieldForms /\ r.fields[i] \in Range(r.fields)
    BY <1>5 DEF Range
  <2>2. r.fields[i].reset \subseteq 0 .. (r.fields[i].width - 1)
    BY <1>1, <1>3, <2>1 DEF Loads
  <2> QED  BY <2>1, <2>2 DEF FieldForms
<1>7. \A d \in CheckBitRanges(r) \cup CheckResets(r) :
         d.register = {r.name} => d.code \notin {"FIELD_OOB", "FIELD_OVERLAP", "RESET_OOB", "RESET_FIELD_SUM"}
  <2> SUFFICES ASSUME NEW d \in CheckBitRanges(r) \cup CheckResets(r), d.register = {r.name},
                      d.code \in {"FIELD_OOB", "FIELD_OVERLAP", "RESET_OOB", "RESET_FIELD_SUM"}
               PROVE  FALSE
    OBVIOUS
  <2>1. d \in found
    BY <1>0, <1>2
  <2> QED  BY <1>0, <2>1 DEF Told
<1>8. \A i \in DOMAIN r.fields : Occupied(r, i) \cap BitsOf(r.fields[i]) = {}
  <2> SUFFICES ASSUME NEW i \in DOMAIN r.fields, Occupied(r, i) \cap BitsOf(r.fields[i]) # {}
               PROVE  FALSE
    OBVIOUS
  <2> DEFINE d == Discrepancy("FIELD_OVERLAP", {r.name}, {r.fields[i].name})
  <2>1. d \in CheckBitRanges(r)
    BY DEF CheckBitRanges
  <2>2. d.register = {r.name} /\ d.code = "FIELD_OVERLAP"
    BY DEF Discrepancy
  <2> HIDE DEF d
  <2> QED  BY <1>7, <2>1, <2>2
<1>9. r.reset \subseteq 0 .. (r.width - 1)
  <2> SUFFICES ASSUME ~ (r.reset \subseteq 0 .. (r.width - 1)) PROVE FALSE
    OBVIOUS
  <2> DEFINE d == Discrepancy("RESET_OOB", {r.name}, {})
  <2>1. d \in CheckResets(r)
    BY DEF CheckResets
  <2>2. d.register = {r.name} /\ d.code = "RESET_OOB"
    BY DEF Discrepancy
  <2> HIDE DEF d
  <2> QED  BY <1>7, <2>1, <2>2
<1>10. r.fields # <<>> => Composed(r) = r.reset \cap Declared(r)
  <2> SUFFICES ASSUME r.fields # <<>>, Composed(r) # r.reset \cap Declared(r) PROVE FALSE
    OBVIOUS
  <2> DEFINE d == Discrepancy("RESET_FIELD_SUM", {r.name}, {})
  <2>1. d \in CheckResets(r)
    BY DEF CheckResets
  <2>2. d.register = {r.name} /\ d.code = "RESET_FIELD_SUM"
    BY DEF Discrepancy
  <2> HIDE DEF d
  <2> QED  BY <1>7, <2>1, <2>2
<1>11. ASSUME NEW i \in DOMAIN r.fields, NEW j \in DOMAIN r.fields, i < j
       PROVE  BitsOf(r.fields[i]) \cap BitsOf(r.fields[j]) = {}
  <2>1. i \in 1 .. (j - 1)
    BY <1>5, <1>11
  <2>2. BitsOf(r.fields[i]) \subseteq Occupied(r, j)
    BY <2>1 DEF Occupied
  <2> QED  BY <1>8, <2>2
<1>12. \A i, j \in DOMAIN r.fields : i # j => BitsOf(r.fields[i]) \cap BitsOf(r.fields[j]) = {}
  <2> SUFFICES ASSUME NEW i \in DOMAIN r.fields, NEW j \in DOMAIN r.fields, i # j
               PROVE  BitsOf(r.fields[i]) \cap BitsOf(r.fields[j]) = {}
    OBVIOUS
  <2>1. i < j \/ j < i
    BY <1>5
  <2> QED  BY <1>11, <2>1
<1> DEFINE placed(i) == {r.fields[i].offset + b : b \in r.fields[i].reset}
<1>13. \A i \in DOMAIN r.fields : placed(i) \subseteq BitsOf(r.fields[i])
  <2> SUFFICES ASSUME NEW i \in DOMAIN r.fields, NEW b \in r.fields[i].reset
               PROVE  r.fields[i].offset + b \in BitsOf(r.fields[i])
    OBVIOUS
  <2>1. b \in Nat /\ b <= r.fields[i].width - 1
    BY <1>6
  <2> QED  BY <1>6, <2>1 DEF BitsOf
<1>14. /\ \A n : n \in Composed(r) <=> \E i \in DOMAIN r.fields : n \in placed(i)
       /\ \A n : n \in Declared(r) <=> \E i \in DOMAIN r.fields : n \in BitsOf(r.fields[i])
  <2>1. Range(r.fields) = {r.fields[i] : i \in DOMAIN r.fields}
    BY DEF Range
  <2>2. 1 .. ((Len(r.fields) + 1) - 1) = DOMAIN r.fields
    BY <1>5
  <2>3. \A n : n \in Composed(r) <=> \E i \in DOMAIN r.fields : n \in placed(i)
    BY <2>1 DEF Composed
  <2>4. \A n : n \in Declared(r) <=> \E i \in DOMAIN r.fields : n \in BitsOf(r.fields[i])
    BY <2>2 DEF Declared, Occupied
  <2> QED  BY <2>3, <2>4
<1> HIDE DEF placed
<1>15. ASSUME NEW i \in DOMAIN r.fields PROVE placed(i) = r.reset \cap BitsOf(r.fields[i])
  <2>1. r.fields # <<>>
    BY <1>15
  <2>2. Composed(r) = r.reset \cap Declared(r)
    BY <1>10, <2>1
  <2>3. ASSUME NEW n \in placed(i) PROVE n \in r.reset \cap BitsOf(r.fields[i])
    BY <1>13, <1>14, <2>2, <2>3
  <2>4. ASSUME NEW n \in r.reset \cap BitsOf(r.fields[i]) PROVE n \in placed(i)
    <3>1. PICK j \in DOMAIN r.fields : n \in placed(j)
      BY <1>14, <2>2, <2>4
    <3>2. n \in BitsOf(r.fields[j])
      BY <1>13, <3>1
    <3> QED  BY <1>12, <2>4, <3>1, <3>2
  <2> QED  BY <2>3, <2>4
<1>16. \A f \in Range(r.fields) : {f.offset + b : b \in f.reset} = r.reset \cap BitsOf(f)
  BY <1>15 DEF placed, Range
<1> QED  BY <1>9, <1>12, <1>16

\* Which symbol a name is grounded on, and which one is of a name.
LEMMA GroundedOf ==
    ASSUME NEW rtl \in Seq(SymbolForms), NEW name, NEW s \in Grounded(rtl, name)
    PROVE  /\ Normalized[s] = Normalized[name]
           /\ LastNamed(rtl, s) \in Range(rtl) /\ LastNamed(rtl, s).name = s
<1> DEFINE same == {i \in DOMAIN rtl : rtl[i].name = name}
           close == {i \in DOMAIN rtl : Normalized[rtl[i].name] = Normalized[name]}
           named == {i \in DOMAIN rtl : rtl[i].name = s}
<1>1. DOMAIN rtl = 1 .. Len(rtl) /\ Len(rtl) \in Nat
  OBVIOUS
<1>2. Grounded(rtl, name) = IF same # {} THEN {name} ELSE IF close # {} THEN {rtl[Min(close)].name} ELSE {}
  BY DEF Grounded
<1>3. close # {} => Min(close) \in close
  <2>1. close \in SUBSET Nat
    BY <1>1
  <2> HIDE DEF close
  <2> QED  BY <2>1, MinOfSome
<1>4. Normalized[s] = Normalized[name] /\ named # {}
  <2>1. CASE same # {}
    <3>1. s = name
      BY <1>2, <2>1
    <3> QED  BY <2>1, <3>1
  <2>2. CASE same = {}
    <3>1. close # {} /\ s = rtl[Min(close)].name
      <4> HIDE DEF same, close
      <4> QED  BY <1>2, <2>2
    <3> DEFINE m == Min(close)
    <3>2. m \in close /\ s = rtl[m].name
      BY <1>3, <3>1
    <3> HIDE DEF m
    <3> QED  BY <3>2
  <2> QED  BY <2>1, <2>2
<1>5. LastNamed(rtl, s) = rtl[Max(named)]
  BY DEF LastNamed
<1>6. Max(named) \in named
  <2>1. named \in SUBSET (1 .. Len(rtl))
    BY <1>1
  <2> HIDE DEF named
  <2> QED  BY <1>1, <1>4, <2>1, LastPosition
<1> QED  BY <1>4, <1>5, <1>6 DEF Range

LEMMA NothingUngroundedOf ==
    ASSUME NEW x \in RegisterInputs, input = x,
           Report.registers = RegistersOf(x),
           Report.discrepancies = RunAllChecks(RegistersOf(x), Unit(x), x.rtl),
           Report.unmatched = UnmatchedRtl(RegistersOf(x), x.rtl)
    PROVE  NothingUngrounded
<1> DEFINE registers == RegistersOf(x)
           rtl == x.rtl
           found == RunAllChecks(registers, Unit(x), rtl)
           names == {r.name : r \in Range(registers)}
           differs(r, code, said, value) ==
              IF said \in {{}, {value}} THEN {} ELSE {Discrepancy(code, {r.name}, {})}
           against(r, s) == differs(r, "RTL_WIDTH_MISMATCH", s.width, r.width)
                            \cup differs(r, "RTL_RESET_MISMATCH", s.reset, r.reset)
                            \cup differs(r, "RTL_ACCESS_MISMATCH", s.access, r.access)
           of(n) == UNION {against(LastNamed(registers, n), LastNamed(rtl, s)) : s \in Grounded(rtl, n)}
           said(n) == IF Grounded(rtl, n) = {} THEN {Discrepancy("RTL_UNMAPPED", {n}, {})} ELSE of(n)
<1>1. registers \in Seq(RegisterForms) /\ rtl \in Seq(SymbolForms)
      /\ DOMAIN registers = 1 .. Len(registers) /\ Len(registers) \in Nat
  BY RegistersFormed, RegisterAssumption
<1> HIDE DEF registers
<1>2. rtl # <<>> => CheckGrounding(registers, rtl) = UNION {said(n) : n \in names}
  BY DEF CheckGrounding
<1>3. CheckGrounding(registers, rtl) \subseteq found
  BY FoundByChecks
<1> HIDE DEF rtl, found
<1>4. ASSUME rtl # <<>>, NEW n \in names, NEW d \in said(n) PROVE d \in found
  <2> HIDE DEF said
  <2> QED  BY <1>2, <1>3, <1>4
<1>5. ASSUME rtl # <<>>, NEW i \in DOMAIN registers,
             \A j \in DOMAIN registers : j > i => registers[j].name # registers[i].name
      PROVE  LET r == registers[i] IN
             \/ \E d \in found : d.code = "RTL_UNMAPPED" /\ {r.name} \subseteq d.register
             \/ \E s \in Range(rtl) :
                   /\ Normalized[s.name] = Normalized[r.name]
                   /\ \/ s.width \in {{}, {r.width}}
                      \/ \E d \in found : d.code = "RTL_WIDTH_MISMATCH" /\ {r.name} \subseteq d.register
                   /\ \/ s.reset \in {{}, {r.reset}}
                      \/ \E d \in found : d.code = "RTL_RESET_MISMATCH" /\ {r.name} \subseteq d.register
  <2> DEFINE r == registers[i]
             n == registers[i].name
             own == {j \in DOMAIN registers : registers[j].name = n}
  <2>1. n \in names
    BY DEF Range
  <2>2. LastNamed(registers, n) = r
    <3>1. own \in SUBSET (1 .. Len(registers)) /\ i \in own /\ \A j \in own : ~ (j > i)
      BY <1>1, <1>5
    <3>2. LastNamed(registers, n) = registers[Max(own)]
      BY DEF LastNamed
    <3> HIDE DEF own
    <3>3. Max(own) \in own /\ i <= Max(own)
      BY <1>1, <3>1, LastPosition
    <3>4. Max(own) = i
      BY <1>1, <3>1, <3>3
    <3> QED  BY <3>2, <3>4
  <2> HIDE DEF own, n
  <2>3. CASE Grounded(rtl, n) = {}
    <3> DEFINE d == Discrepancy("RTL_UNMAPPED", {n}, {})
    <3>1. d \in said(n)
      BY <2>3
    <3>2. d.code = "RTL_UNMAPPED" /\ d.register = {n}
      BY DEF Discrepancy
    <3> HIDE DEF d, said
    <3>3. d \in found
      BY <1>4, <1>5, <2>1, <3>1
    <3> QED  BY <3>2, <3>3 DEF n
  <2>4. CASE Grounded(rtl, n) # {}
    <3>1. PICK m \in Grounded(rtl, n) : TRUE
      BY <2>4
    <3> DEFINE s == LastNamed(rtl, m)
    <3>2. Normalized[m] = Normalized[n] /\ s \in Range(rtl) /\ s.name = m
      BY <1>1, <3>1, GroundedOf
    <3>3. against(r, s) \subseteq said(n)
      <4> HIDE DEF against, s, r
      <4> QED  BY <2>2, <2>4, <3>1 DEF s
    <3>4. \A d \in against(r, s) : d \in found
      <4> HIDE DEF against, said, s, r
      <4> QED  BY <1>4, <1>5, <2>1, <3>3
    <3> HIDE DEF s
    <3>5. ASSUME s.width \notin {{}, {r.width}}
          PROVE  \E d \in found : d.code = "RTL_WIDTH_MISMATCH" /\ {r.name} \subseteq d.register
      <4> DEFINE d == Discrepancy("RTL_WIDTH_MISMATCH", {r.name}, {})
      <4>1. d \in against(r, s)
        BY <3>5
      <4>2. d.code = "RTL_WIDTH_MISMATCH" /\ d.register = {r.name}
        BY DEF Discrepancy
      <4> HIDE DEF d, against, r
      <4> QED  BY <3>4, <4>1, <4>2
    <3>6. ASSUME s.reset \notin {{}, {r.reset}}
          PROVE  \E d \in found : d.code = "RTL_RESET_MISMATCH" /\ {r.name} \subseteq d.register
      <4> DEFINE d == Discrepancy("RTL_RESET_MISMATCH", {r.name}, {})
      <4>1. d \in against(r, s)
        BY <3>6
      <4>2. d.code = "RTL_RESET_MISMATCH" /\ d.register = {r.name}
        BY DEF Discrepancy
      <4> HIDE DEF d, against, r
      <4> QED  BY <3>4, <4>1, <4>2
    <3> HIDE DEF against, said
    <3>7. Normalized[s.name] = Normalized[r.name]
      BY <3>2 DEF n
    <3> QED  BY <3>2, <3>5, <3>6, <3>7
  <2> QED  BY <2>3, <2>4
<1>6. ASSUME NEW s \in Range(rtl), s.kind = "register"
      PROVE  \/ s.name \in UnmatchedRtl(registers, rtl)
             \/ \E r \in Range(registers) : Normalized[r.name] = Normalized[s.name]
  <2> SUFFICES ASSUME s.name \notin UnmatchedRtl(registers, rtl)
               PROVE  \E r \in Range(registers) : Normalized[r.name] = Normalized[s.name]
    OBVIOUS
  <2>1. PICK r \in Range(registers) : s.name \in Grounded(rtl, r.name)
    BY <1>6 DEF UnmatchedRtl
  <2> QED  BY <1>1, <2>1, GroundedOf
<1> HIDE DEF names, said
<1>7. /\ Report.registers = registers /\ Report.discrepancies = found
      /\ Report.unmatched = UnmatchedRtl(registers, rtl) /\ input.rtl = rtl
  BY DEF registers, rtl, found
<1>8. ASSUME rtl # <<>>, NEW i \in DOMAIN registers
      PROVE  LET r == registers[i] IN
             \/ \E j \in DOMAIN registers : j > i /\ registers[j].name = r.name
             \/ Told("RTL_UNMAPPED", {r.name})
             \/ \E s \in Range(rtl) :
                   /\ Normalized[s.name] = Normalized[r.name]
                   /\ s.width \in {{}, {r.width}} \/ Told("RTL_WIDTH_MISMATCH", {r.name})
                   /\ s.reset \in {{}, {r.reset}} \/ Told("RTL_RESET_MISMATCH", {r.name})
  <2>1. CASE \E j \in DOMAIN registers : j > i /\ registers[j].name = registers[i].name
    BY <2>1
  <2>2. CASE \A j \in DOMAIN registers : j > i => registers[j].name # registers[i].name
    BY <1>5, <1>7, <1>8, <2>2 DEF Told
  <2> QED  BY <2>1, <2>2
<1> HIDE DEF registers, rtl, found
<1> QED  BY <1>6, <1>7, <1>8 DEF NothingUngrounded

\* What a function makes of a finite set is finite.
LEMMA FiniteMade ==
    ASSUME NEW S, IsFiniteSet(S), NEW T, NEW f \in [S -> T], \A y \in T : \E x \in S : f[x] = y
    PROVE  IsFiniteSet(T)
<1>1. f \in Surjection(S, T)
  BY DEF Surjection
<1> QED  BY <1>1, FS_Surjection

LEMMA PlacesFinite ==
    ASSUME NEW registers \in Seq(RegisterForms)
    PROVE  IsFiniteSet(Places(registers))
<1> DEFINE S == DOMAIN registers
           at(i) == {0} \cup DOMAIN registers[i].fields
           of(i) == {<<i, j>> : j \in at(i)}
           f == [i \in S |-> of(i)]
<1>1. IsFiniteSet(S)
  <2>1. S = 1 .. Len(registers) /\ Len(registers) \in Nat
    OBVIOUS
  <2> QED  BY <2>1, FS_Interval
<1>2. ASSUME NEW i \in S PROVE IsFiniteSet(f[i])
  <2>1. registers[i].fields \in Seq(FieldForms)
    <3>1. registers[i] \in RegisterForms
      OBVIOUS
    <3> QED  BY <3>1 DEF RegisterForms
  <2>2. IsFiniteSet(DOMAIN registers[i].fields)
    <3> DEFINE D == DOMAIN registers[i].fields
               n == Len(registers[i].fields)
    <3>1. D = 1 .. n /\ n \in Nat
      BY <2>1
    <3> HIDE DEF D, n
    <3>2. IsFiniteSet(D)
      BY <3>1, FS_Interval
    <3> QED  BY <3>2 DEF D
  <2>3. IsFiniteSet(at(i))
    <3>1. at(i) = DOMAIN registers[i].fields \cup {0}
      OBVIOUS
    <3> QED  BY <2>2, <3>1, FS_AddElement
  <2> DEFINE g == [j \in at(i) |-> <<i, j>>]
  <2>4. g \in [at(i) -> of(i)] /\ \A y \in of(i) : \E j \in at(i) : g[j] = y
    <3> HIDE DEF at
    <3> QED  OBVIOUS
  <2>5. f[i] = of(i)
    BY DEF f
  <2> HIDE DEF g, at, of, f
  <2> QED  BY <2>3, <2>4, <2>5, FiniteMade
<1> DEFINE parts == {f[i] : i \in S}
<1>3. IsFiniteSet(parts)
  <2>1. f \in [S -> parts] /\ \A y \in parts : \E i \in S : f[i] = y
    OBVIOUS
  <2> HIDE DEF f, S, parts
  <2> QED  BY <1>1, <2>1, FiniteMade
<1>4. Places(registers) = UNION parts
  BY DEF Places
<1>5. \A t \in parts : IsFiniteSet(t)
  <2> HIDE DEF f
  <2> QED  BY <1>2
<1> HIDE DEF parts
<1> QED  BY <1>3, <1>4, <1>5, FS_UNION

LEMMA TestsFinite ==
    ASSUME NEW registers \in Seq(RegisterForms)
    PROVE  IsFiniteSet(GenerateTests(registers))
<1> DEFINE checks == {"reset_value", "illegal_write", "readback", "side_effects"}
           places == Places(registers)
           named(p) == IF p[2] = 0 THEN "reset" ELSE FieldAt(registers, p).name
           f == [e \in places \X checks |->
                   [at |-> e[1], register |-> registers[e[1][1]].name, name |-> named(e[1]),
                    check |-> e[2]]]
           all == {f[e] : e \in places \X checks}
<1>1. IsFiniteSet(checks)
  <2>1. IsFiniteSet({"reset_value"})
    BY FS_Singleton
  <2>2. IsFiniteSet({"reset_value"} \cup {"illegal_write"})
    BY <2>1, FS_AddElement
  <2>3. IsFiniteSet({"reset_value"} \cup {"illegal_write"} \cup {"readback"})
    BY <2>2, FS_AddElement
  <2>4. IsFiniteSet({"reset_value"} \cup {"illegal_write"} \cup {"readback"} \cup {"side_effects"})
    BY <2>3, FS_AddElement
  <2>5. checks = {"reset_value"} \cup {"illegal_write"} \cup {"readback"} \cup {"side_effects"}
    OBVIOUS
  <2> QED  BY <2>4, <2>5
<1>2. IsFiniteSet(places \X checks)
  BY <1>1, PlacesFinite, FS_Product
<1>3. f \in [places \X checks -> all] /\ \A y \in all : \E e \in places \X checks : f[e] = y
  OBVIOUS
<1>4. IsFiniteSet(all)
  <2> HIDE DEF f, places, checks, all
  <2> QED  BY <1>2, <1>3, FiniteMade
<1>5. \A access : CheckOf(access) \cap checks = CheckOf(access) \/ access \notin AccessTypes
  BY DEF CheckOf, AccessTypes
<1>6. ASSUME NEW p \in places, NEW t \in TestsAt(registers, p) PROVE t \in all
  <2> DEFINE record(name, c) == [at |-> p, register |-> registers[p[1]].name, name |-> name, check |-> c]
             a == FieldAt(registers, p).access
  <2>1. PICK c \in checks : t = record(named(p), c)
    <3>1. CASE p[2] = 0
      <4>1. TestsAt(registers, p) = {record("reset", c) : c \in {"reset_value"}}
        BY <3>1 DEF TestsAt
      <4> QED  BY <3>1, <4>1
    <3>2. CASE p[2] # 0
      <4>1. a \in {"RW", "RO", "W1C", "RC"} /\ t \in {record(FieldAt(registers, p).name, c) : c \in CheckOf(a)}
        BY <3>2 DEF TestsAt
      <4>2. CheckOf(a) \subseteq checks
        BY <1>5, <4>1 DEF AccessTypes
      <4> HIDE DEF checks
      <4> QED  BY <3>2, <4>1, <4>2
    <3> QED  BY <3>1, <3>2
  <2>2. <<p, c>> \in places \X checks
    OBVIOUS
  <2>3. f[<<p, c>>] = record(named(p), c)
    <3> HIDE DEF places, checks, named
    <3> QED  BY <2>2
  <2> HIDE DEF f, places, checks, record
  <2> QED  BY <2>1, <2>2, <2>3
<1>7. GenerateTests(registers) \subseteq all
  <2> HIDE DEF all
  <2> QED  BY <1>6 DEF GenerateTests
<1> HIDE DEF all
<1> QED  BY <1>4, <1>7, FS_Subset

\* Every access but one has one check of its own.
LEMMA OneCheckEach ==
    ASSUME NEW a \in AccessTypes, a # "WO"
    PROVE  \E c : CheckOf(a) = {c} /\ c # "reset_value"
<1>1. CASE a = "RO"
  <2>1. CheckOf(a) = {"illegal_write"}
    BY <1>1 DEF CheckOf
  <2> QED  BY <2>1
<1>2. CASE a \in {"RW", "RESERVED"}
  <2>1. CheckOf(a) = {"readback"}
    BY <1>2 DEF CheckOf
  <2> QED  BY <2>1
<1>3. CASE a \in {"W1C", "W1S", "RC"}
  <2>1. CheckOf(a) = {"side_effects"}
    BY <1>3 DEF CheckOf
  <2> QED  BY <2>1
<1> QED  BY <1>1, <1>2, <1>3 DEF AccessTypes

\* What the row of a field counts.
LEMMA RowOf ==
    ASSUME NEW registers \in Seq(RegisterForms), Loads(registers),
           NEW i \in DOMAIN registers, NEW j \in DOMAIN registers[i].fields,
           NEW row, row = CoverageRow(registers, registers[i].name, {registers[i].fields[j].name},
                                      registers[i].fields[j].access)
    PROVE  LET f == registers[i].fields[j] IN
           /\ NamesGivenOnce(registers) => row.assertions = IF row.access = "WO" THEN 1 ELSE 2
           /\ row.tests = 0 => \/ row.access \in {"WO", "W1S", "RESERVED"}
                               \/ <<f.name, row.register, f.name>> \notin OccursIn
<1> DEFINE r == registers[i]
           f == r.fields[j]
           p == <<i, j>>
           assertions == {s \in GenerateSva(registers) : s.register = r.name /\ s.field = {f.name}}
           tests == {t \in GenerateTests(registers) :
                        t.register = r.name /\ \A e \in {f.name} : <<e, r.name, t.name>> \in OccursIn}
<1>1. /\ row.register = r.name /\ row.access = f.access
      /\ row.assertions = Cardinality(assertions) /\ row.tests = Cardinality(tests)
  BY DEF CoverageRow
<1>2. r \in RegisterForms /\ r.fields \in Seq(FieldForms) /\ j # 0 /\ r.fields # <<>>
  <2>1. r \in RegisterForms
    OBVIOUS
  <2>2. r.fields \in Seq(FieldForms)
    BY <2>1 DEF RegisterForms
  <2> QED  BY <2>1, <2>2
<1>3. f.access \in AccessTypes
  <2>1. f \in Range(r.fields)
    BY DEF Range
  <2> QED  BY <2>1 DEF Loads
<1>4. p \in Places(registers) /\ FieldAt(registers, p) = f /\ p[1] = i /\ p[2] = j
  <2>1. p \in {<<i, k>> : k \in {0} \cup DOMAIN registers[i].fields}
    OBVIOUS
  <2>2. p \in Places(registers)
    BY <2>1 DEF Places
  <2> QED  BY <2>2 DEF FieldAt
<1>5. ASSUME NEW q \in Places(registers)
      PROVE  /\ q = <<q[1], q[2]>> /\ q[1] \in DOMAIN registers
             /\ q[2] # 0 => q[2] \in DOMAIN registers[q[1]].fields
  <2>1. PICK k \in DOMAIN registers : q \in {<<k, l>> : l \in {0} \cup DOMAIN registers[k].fields}
    BY DEF Places
  <2>2. PICK l \in {0} \cup DOMAIN registers[k].fields : q = <<k, l>>
    BY <2>1
  <2> QED  BY <2>2
<1> HIDE DEF p
<1>6. ASSUME NamesGivenOnce(registers)
      PROVE  Cardinality(assertions) = IF f.access = "WO" THEN 1 ELSE 2
  <2> DEFINE record(c) == [at |-> p, register |-> r.name, field |-> {f.name}, check |-> c]
             checks == {"reset_value"} \cup CheckOf(f.access)
  <2>1. SvaAt(registers, p) = {record(c) : c \in checks}
    BY <1>2, <1>4 DEF SvaAt
  <2>2. ASSUME NEW s \in assertions PROVE s \in SvaAt(registers, p)
    <3>1. PICK q \in Places(registers) : s \in SvaAt(registers, q)
      BY DEF GenerateSva
    <3>2. s.register = r.name /\ s.field = {f.name}
      OBVIOUS
    <3> HIDE DEF assertions
    <3>3. q[1] \in DOMAIN registers /\ (q[2] # 0 => q[2] \in DOMAIN registers[q[1]].fields)
          /\ q = <<q[1], q[2]>>
      BY <1>5, <3>1
    <3>4. CASE q[2] # 0
      <4>1. s.register = registers[q[1]].name /\ s.field = {FieldAt(registers, q).name}
        BY <3>1, <3>4 DEF SvaAt
      <4>2. q[1] = i
        BY <1>6, <3>2, <3>3, <4>1 DEF NamesGivenOnce
      <4>3. FieldAt(registers, q) = r.fields[q[2]] /\ q[2] \in DOMAIN r.fields
        BY <3>3, <3>4, <4>2 DEF FieldAt
      <4>4. r.fields[q[2]].name = f.name
        BY <3>2, <4>1, <4>3
      <4>5. q[2] = j
        BY <1>6, <4>3, <4>4 DEF NamesGivenOnce
      <4>6. q = p
        BY <3>3, <4>2, <4>5 DEF p
      <4> QED  BY <3>1, <4>6
    <3>5. CASE q[2] = 0
      <4>1. registers[q[1]].fields = <<>>
        BY <3>1, <3>5 DEF SvaAt
      <4>2. s.register = registers[q[1]].name
        BY <3>1, <3>5, <4>1 DEF SvaAt
      <4>3. q[1] = i
        BY <1>6, <3>2, <3>3, <4>2 DEF NamesGivenOnce
      <4> QED  BY <1>2, <4>1, <4>3
    <3> QED  BY <3>4, <3>5
  <2>3. ASSUME NEW s \in SvaAt(registers, p) PROVE s \in assertions
    <3>1. s.register = r.name /\ s.field = {f.name}
      BY <2>1
    <3>2. s \in GenerateSva(registers)
      BY <1>4 DEF GenerateSva
    <3> QED  BY <3>1, <3>2
  <2>4. assertions = {record(c) : c \in checks}
    <3> HIDE DEF assertions, record, checks
    <3> QED  BY <2>1, <2>2, <2>3
  <2>5. \A c, d : record(c) = record(d) => c = d
    <3>1. \A c : record(c).check = c
      OBVIOUS
    <3> HIDE DEF record
    <3> QED  BY <3>1
  <2>6. CASE f.access = "WO"
    <3>1. checks = {"reset_value"}
      BY <2>6 DEF CheckOf
    <3> HIDE DEF record, checks, assertions
    <3>2. assertions = {record("reset_value")}
      BY <2>4, <3>1
    <3> QED  BY <2>6, <3>2, FS_Singleton
  <2>7. CASE f.access # "WO"
    <3>1. PICK c : checks = {"reset_value", c} /\ c # "reset_value"
      <4>1. PICK c : CheckOf(f.access) = {c} /\ c # "reset_value"
        BY <1>3, <2>7, OneCheckEach
      <4> QED  BY <4>1
    <3> HIDE DEF record, checks, assertions
    <3>2. assertions = {record("reset_value")} \cup {record(c)} /\ record("reset_value") # record(c)
      BY <2>4, <2>5, <3>1
    <3> DEFINE one == {record("reset_value")}
    <3>3. IsFiniteSet(one) /\ Cardinality(one) = 1 /\ record(c) \notin one
      BY <3>2, FS_Singleton
    <3>4. assertions = one \cup {record(c)}
      BY <3>2
    <3> HIDE DEF one
    <3>5. Cardinality(assertions) = 1 + 1
      BY <3>3, <3>4, FS_AddElement
    <3> QED  BY <2>7, <3>5
  <2> QED  BY <2>6, <2>7
<1>7. ASSUME f.access \notin {"WO", "W1S", "RESERVED"}, <<f.name, r.name, f.name>> \in OccursIn
      PROVE  Cardinality(tests) # 0
  <2>1. f.access \in {"RW", "RO", "W1C", "RC"}
    BY <1>3, <1>7 DEF AccessTypes
  <2>2. PICK c : c \in CheckOf(f.access)
    BY <2>1 DEF CheckOf
  <2> DEFINE t == [at |-> p, register |-> registers[p[1]].name, name |-> f.name, check |-> c]
  <2>3. t \in TestsAt(registers, p)
    BY <1>2, <1>4, <2>1, <2>2 DEF TestsAt
  <2>4. t.register = r.name /\ t.name = f.name
    BY <1>4
  <2> HIDE DEF t
  <2>5. t \in GenerateTests(registers)
    BY <1>4, <2>3 DEF GenerateTests
  <2>6. t \in tests
    BY <1>7, <2>4, <2>5
  <2>7. IsFiniteSet(tests)
    BY TestsFinite, FS_Subset
  <2> HIDE DEF tests
  <2> QED  BY <2>6, <2>7, FS_EmptySet
<1> HIDE DEF assertions, tests
<1> QED  BY <1>1, <1>6, <1>7

LEMMA CoverageHonest ==
    ASSUME NEW registers \in Seq(RegisterForms), Loads(registers),
           NEW row \in BuildCoverage(registers), NEW e \in row.field
    PROVE  /\ NamesGivenOnce(registers) => row.assertions = IF row.access = "WO" THEN 1 ELSE 2
           /\ row.tests = 0 => \/ row.access \in {"WO", "W1S", "RESERVED"}
                               \/ <<e, row.register, e>> \notin OccursIn
<1>1. PICK r \in Range(registers) :
         row \in IF r.fields = <<>> THEN {CoverageRow(registers, r.name, {}, r.access)}
                ELSE {CoverageRow(registers, r.name, {f.name}, f.access) : f \in Range(r.fields)}
  BY DEF BuildCoverage
<1>2. \A name, field, access : CoverageRow(registers, name, field, access).field = field
  BY DEF CoverageRow
<1>3. r.fields # <<>>
  <2> SUFFICES ASSUME r.fields = <<>> PROVE FALSE
    OBVIOUS
  <2>1. row = CoverageRow(registers, r.name, {}, r.access)
    BY <1>1
  <2> QED  BY <1>2, <2>1
<1>4. PICK f \in Range(r.fields) : row = CoverageRow(registers, r.name, {f.name}, f.access)
  BY <1>1, <1>3
<1>5. e = f.name
  <2>1. row.field = {f.name}
    BY <1>2, <1>4
  <2> QED  BY <2>1
<1>6. PICK i \in DOMAIN registers : r = registers[i]
  BY DEF Range
<1>7. PICK j \in DOMAIN registers[i].fields : f = registers[i].fields[j]
  BY <1>6 DEF Range
<1> QED  BY <1>4, <1>5, <1>6, <1>7, RowOf

\* What is declared of a field is asked on the checklist.
LEMMA ChecklistComplete ==
    ASSUME NEW registers \in Seq(RegisterForms),
           NEW i \in DOMAIN registers, NEW j \in DOMAIN registers[i].fields,
           registers[i].fields[j].effect \/ registers[i].fields[j].interrupt
    PROVE  \E n \in DOMAIN BuildChecklist(registers) :
              /\ BuildChecklist(registers)[n].register = registers[i].name
              /\ BuildChecklist(registers)[n].field = registers[i].fields[j].name
<1> DEFINE asked(f) == (IF f.effect THEN <<"effect">> ELSE <<>>)
                       \o (IF f.interrupt THEN <<"interrupt">> ELSE <<>>)
           item(r, f, k) == [about |-> asked(f)[k], register |-> r.name, field |-> f.name]
           of(r, f) == [k \in DOMAIN asked(f) |-> item(r, f, k)]
           parts(r) == [m \in DOMAIN r.fields |-> of(r, r.fields[m])]
           items(r) == FlattenSeq(parts(r))
           all == [m \in DOMAIN registers |-> items(registers[m])]
           specific == FlattenSeq(all)
           T == [about : {"effect", "interrupt"}, register : STRING, field : STRING]
<1>1. BuildChecklist(registers) = [n \in 4 .. (3 + Len(specific)) |-> specific[n - 3]]
  BY DEF BuildChecklist
<1>2. \A r \in RegisterForms : r.fields \in Seq(FieldForms) /\ r.name \in STRING
  BY DEF RegisterForms
<1>3. \A f \in FieldForms : f.name \in STRING
  BY DEF FieldForms
<1>4. ASSUME NEW f PROVE asked(f) \in Seq({"effect", "interrupt"})
                         /\ (f.effect \/ f.interrupt => asked(f) # <<>>)
  <2> DEFINE a == IF f.effect THEN <<"effect">> ELSE <<>>
             b == IF f.interrupt THEN <<"interrupt">> ELSE <<>>
  <2>1. a \in Seq({"effect", "interrupt"}) /\ b \in Seq({"effect", "interrupt"})
        /\ (f.effect \/ f.interrupt => Len(a) # 0 \/ Len(b) # 0)
    <3>1. /\ a \in Seq({"effect", "interrupt"}) /\ (f.effect => Len(a) # 0)
      <4>1. CASE f.effect
        BY <4>1
      <4>2. CASE ~ f.effect
        BY <4>2
      <4> QED  BY <4>1, <4>2
    <3>2. /\ b \in Seq({"effect", "interrupt"}) /\ (f.interrupt => Len(b) # 0)
      <4>1. CASE f.interrupt
        BY <4>1
      <4>2. CASE ~ f.interrupt
        BY <4>2
      <4> QED  BY <4>1, <4>2
    <3> QED  BY <3>1, <3>2
  <2>2. asked(f) = a \o b
    OBVIOUS
  <2> HIDE DEF a, b, asked
  <2>3. a \o b \in Seq({"effect", "interrupt"}) /\ Len(a \o b) = Len(a) + Len(b)
        /\ Len(a) \in Nat /\ Len(b) \in Nat
    BY <2>1
  <2>4. f.effect \/ f.interrupt => Len(a \o b) # 0
    BY <2>1, <2>3
  <2>5. Len(a \o b) # 0 => a \o b # <<>>
    OBVIOUS
  <2> QED  BY <2>2, <2>3, <2>4, <2>5
<1> HIDE DEF asked
<1>5. ASSUME NEW r \in RegisterForms, NEW f \in FieldForms PROVE of(r, f) \in Seq(T)
  <2>1. DOMAIN asked(f) = 1 .. Len(asked(f)) /\ Len(asked(f)) \in Nat
        /\ \A k \in DOMAIN asked(f) : asked(f)[k] \in {"effect", "interrupt"}
    <3> DEFINE q == asked(f)
    <3>1. q \in Seq({"effect", "interrupt"})
      BY <1>4
    <3> HIDE DEF q
    <3>2. DOMAIN q = 1 .. Len(q) /\ Len(q) \in Nat
      BY <3>1
    <3>3. \A k \in DOMAIN q : q[k] \in {"effect", "interrupt"}
      BY <3>1
    <3> QED  BY <3>2, <3>3 DEF q
  <2>2. \A k \in DOMAIN asked(f) : item(r, f, k) \in T
    BY <1>2, <1>3, <2>1
  <2> HIDE DEF item, T
  <2> QED  BY <2>1, <2>2
<1> HIDE DEF of, T
<1>6. ASSUME NEW r \in RegisterForms PROVE parts(r) \in Seq(Seq(T))
  <2>1. /\ DOMAIN r.fields = 1 .. Len(r.fields) /\ Len(r.fields) \in Nat
        /\ \A m \in DOMAIN r.fields : r.fields[m] \in FieldForms
    BY <1>2
  <2> QED  BY <1>5, <2>1
<1>7. ASSUME NEW r \in RegisterForms, NEW m \in DOMAIN r.fields
      PROVE  items(r) \in Seq(T) /\ Range(of(r, r.fields[m])) \subseteq Range(items(r))
  <2>1. parts(r)[m] = of(r, r.fields[m]) /\ m \in DOMAIN parts(r)
    OBVIOUS
  <2> HIDE DEF parts
  <2> QED  BY <1>6, <2>1, FlattenedSequence
<1>8. ASSUME NEW r \in RegisterForms PROVE items(r) \in Seq(T)
  <2> HIDE DEF parts
  <2> QED  BY <1>6, FlattenedSequence
<1> HIDE DEF items, parts
<1>9. all \in Seq(Seq(T))
  <2>1. /\ DOMAIN registers = 1 .. Len(registers) /\ Len(registers) \in Nat
        /\ \A m \in DOMAIN registers : registers[m] \in RegisterForms
    OBVIOUS
  <2> QED  BY <1>8, <2>1
<1> DEFINE r == registers[i]
           f == registers[i].fields[j]
<1>10. specific \in Seq(T) /\ Range(items(r)) \subseteq Range(specific)
  <2>1. all[i] = items(r) /\ i \in DOMAIN all
    OBVIOUS
  <2> HIDE DEF all, r
  <2> QED  BY <1>9, <2>1, FlattenedSequence
<1>11. r \in RegisterForms /\ j \in DOMAIN r.fields /\ f = r.fields[j]
  OBVIOUS
<1> HIDE DEF all, specific, r
<1>12. of(r, f)[1] \in Range(specific)
       /\ of(r, f)[1].register = r.name /\ of(r, f)[1].field = f.name
  <2>1. 1 \in DOMAIN asked(f)
    <3>1. asked(f) # <<>> /\ asked(f) \in Seq({"effect", "interrupt"})
      BY <1>4
    <3> HIDE DEF f
    <3> QED  BY <3>1
  <2> HIDE DEF f
  <2>2. of(r, f)[1] = item(r, f, 1) /\ 1 \in DOMAIN of(r, f)
    BY <2>1 DEF of
  <2>3. of(r, f)[1] \in Range(of(r, f))
    BY <2>2 DEF Range
  <2>4. of(r, f)[1] \in Range(specific)
    BY <1>7, <1>10, <1>11, <2>3
  <2> QED  BY <2>2, <2>4
<1>13. PICK k \in DOMAIN specific : specific[k] = of(r, f)[1]
  BY <1>12 DEF Range
<1>14. k \in 1 .. Len(specific) /\ Len(specific) \in Nat
  BY <1>10
<1> DEFINE n == k + 3
<1>15. n \in 4 .. (3 + Len(specific)) /\ n - 3 = k
  BY <1>14
<1> HIDE DEF n
<1>16. n \in DOMAIN BuildChecklist(registers) /\ BuildChecklist(registers)[n] = specific[k]
  BY <1>1, <1>15
<1> QED  BY <1>12, <1>13, <1>16 DEF r

LEMMA DeclaredOf ==
    ASSUME NEW r, NEW d \in CheckAnnotations(r),
           d.code \in {"SIDE_EFFECT_UNREVIEWED", "IRQ_STATUS_ACCESS"}
    PROVE  \E f \in Range(r.fields) : /\ f.effect \/ f.interrupt
                                     /\ d.register = {r.name} /\ d.field = {f.name}
<1>1. PICK f \in Range(r.fields) :
         d \in (IF f.interrupt /\ f.access \notin {"W1C", "RC", "RO", "W1S"}
                  THEN {Discrepancy("IRQ_STATUS_ACCESS", {r.name}, {f.name})} ELSE {})
               \cup (IF f.effect THEN {Discrepancy("SIDE_EFFECT_UNREVIEWED", {r.name}, {f.name})} ELSE {})
               \cup IF f.privileged THEN {Discrepancy("PRIV_ACCESS_DECLARED", {r.name}, {f.name})} ELSE {}
  BY DEF CheckAnnotations
<1>2. \/ f.interrupt /\ d = Discrepancy("IRQ_STATUS_ACCESS", {r.name}, {f.name})
      \/ f.effect /\ d = Discrepancy("SIDE_EFFECT_UNREVIEWED", {r.name}, {f.name})
      \/ d = Discrepancy("PRIV_ACCESS_DECLARED", {r.name}, {f.name})
  BY <1>1
<1>3. CASE d = Discrepancy("PRIV_ACCESS_DECLARED", {r.name}, {f.name})
  <2>1. d.code = "PRIV_ACCESS_DECLARED"
    BY <1>3 DEF Discrepancy
  <2> QED  BY <2>1
<1>4. CASE f.interrupt /\ d = Discrepancy("IRQ_STATUS_ACCESS", {r.name}, {f.name})
  <2>1. d.register = {r.name} /\ d.field = {f.name}
    BY <1>4 DEF Discrepancy
  <2> QED  BY <1>4, <2>1
<1>5. CASE f.effect /\ d = Discrepancy("SIDE_EFFECT_UNREVIEWED", {r.name}, {f.name})
  <2>1. d.register = {r.name} /\ d.field = {f.name}
    BY <1>5 DEF Discrepancy
  <2> QED  BY <1>5, <2>1
<1> QED  BY <1>2, <1>3, <1>4, <1>5

\* Only the check of annotations says what is to be reviewed.
LEMMA DeclaredErrors ==
    ASSUME NEW registers, NEW unit, NEW rtl, NEW d \in RunAllChecks(registers, unit, rtl),
           d.code \in {"SIDE_EFFECT_UNREVIEWED", "IRQ_STATUS_ACCESS"}
    PROVE  \E r \in Range(registers) : d \in CheckAnnotations(r)
<1>1. d \notin CheckAddresses(registers, unit)
  <2> DEFINE sorted == ByAddress(registers)
             same(i) == {j \in DOMAIN registers : registers[j].address = registers[i].address}
             A == {Discrepancy("ADDR_MISALIGN", {r.name}, {}) :
                      r \in {r \in Range(registers) : FirstByte(r, unit) % ByteSize(r) # 0}}
             B == {Discrepancy("ADDR_DUP", {registers[j].name : j \in same(i)}, {}) :
                      i \in {i \in DOMAIN registers : Cardinality(same(i)) > 1}}
             C == {Discrepancy("ADDR_OVERLAP", {sorted[i].name, sorted[i + 1].name}, {}) :
                      i \in {i \in 1 .. (Len(sorted) - 1) : OverlapsNext(sorted[i], sorted[i + 1], unit)}}
  <2>1. CheckAddresses(registers, unit) = A \cup B \cup C
    BY DEF CheckAddresses
  <2>2. /\ \A e \in A : e.code = "ADDR_MISALIGN"
        /\ \A e \in B : e.code = "ADDR_DUP"
        /\ \A e \in C : e.code = "ADDR_OVERLAP"
    <3>1. \A code, register, field : Discrepancy(code, register, field).code = code
      BY DEF Discrepancy
    <3>2. /\ \A e \in A : \E x : e = Discrepancy("ADDR_MISALIGN", x, {})
          /\ \A e \in B : \E x : e = Discrepancy("ADDR_DUP", x, {})
          /\ \A e \in C : \E x : e = Discrepancy("ADDR_OVERLAP", x, {})
      <4> HIDE DEF sorted, same
      <4> QED  OBVIOUS
    <3> HIDE DEF A, B, C
    <3> QED  BY <3>1, <3>2
  <2> HIDE DEF A, B, C
  <2> QED  BY <2>1, <2>2
<1>2. \A r : d \notin CheckBitRanges(r)
  BY DEF CheckBitRanges, Discrepancy
<1>3. \A r : d \notin CheckResets(r)
  BY DEF CheckResets, Discrepancy
<1>4. \A r : d \notin CheckAccess(r)
  BY DEF CheckAccess, Discrepancy
<1>5. d \notin CheckGrounding(registers, rtl)
  BY GroundingErrors
<1> QED  BY <1>1, <1>2, <1>3, <1>4, <1>5, FoundByChecks

LEMMA MatrixHonestOf ==
    ASSUME NEW x \in RegisterInputs, Loads(RegistersOf(x)),
           Report.registers = RegistersOf(x),
           Report.discrepancies = RunAllChecks(RegistersOf(x), Unit(x), x.rtl),
           Report.coverage = BuildCoverage(RegistersOf(x)),
           Report.checklist = BuildChecklist(RegistersOf(x))
    PROVE  MatrixHonest
<1> DEFINE registers == RegistersOf(x)
<1>1. registers \in Seq(RegisterForms) /\ Loads(registers)
  BY RegistersFormed
<1>2. ASSUME NEW d \in RunAllChecks(registers, Unit(x), x.rtl),
             d.code \in {"SIDE_EFFECT_UNREVIEWED", "IRQ_STATUS_ACCESS"}
      PROVE  \E n \in DOMAIN BuildChecklist(registers) :
                /\ {BuildChecklist(registers)[n].register} = d.register
                /\ {BuildChecklist(registers)[n].field} = d.field
  <2> HIDE DEF registers
  <2>1. PICK r \in Range(registers) : d \in CheckAnnotations(r)
    BY <1>2, DeclaredErrors
  <2>2. PICK f \in Range(r.fields) :
           /\ f.effect \/ f.interrupt
           /\ d.register = {r.name} /\ d.field = {f.name}
    BY <1>2, <2>1, DeclaredOf
  <2>3. PICK i \in DOMAIN registers : r = registers[i]
    BY DEF Range
  <2>4. PICK j \in DOMAIN registers[i].fields : f = registers[i].fields[j]
    BY <2>3 DEF Range
  <2>5. PICK n \in DOMAIN BuildChecklist(registers) :
           /\ BuildChecklist(registers)[n].register = registers[i].name
           /\ BuildChecklist(registers)[n].field = registers[i].fields[j].name
    BY <1>1, <2>2, <2>4, ChecklistComplete
  <2> QED  BY <2>2, <2>3, <2>4, <2>5
<1>3. ASSUME NEW row \in Report.coverage, NEW f \in row.field
      PROVE  /\ NamesGivenOnce(Report.registers) =>
                   row.assertions = IF row.access = "WO" THEN 1 ELSE 2
             /\ row.tests = 0 => \/ row.access \in {"WO", "W1S", "RESERVED"}
                                 \/ <<f, row.register, f>> \notin OccursIn
  <2>1. Report.registers = registers /\ row \in BuildCoverage(registers)
    OBVIOUS
  <2> HIDE DEF registers
  <2> QED  BY <1>1, <2>1, CoverageHonest
<1>4. \A d \in Report.discrepancies :
         d.code \in {"SIDE_EFFECT_UNREVIEWED", "IRQ_STATUS_ACCESS"} =>
            \E n \in DOMAIN Report.checklist :
               {Report.checklist[n].register} = d.register /\ {Report.checklist[n].field} = d.field
  BY <1>2
<1> QED  BY <1>3, <1>4 DEF MatrixHonest

\* What a package reports holds whatever the map and whatever the RTL says: a map without an
\* address error has no byte in two registers, resets agree, nothing is left ungrounded.
THEOREM RegistersSoundAlways == RegisterSpec => []RegistersSound
<1>1. ASSUME RegisterInv PROVE RegistersSound
  <2> SUFFICES ASSUME Reported("register-csr"), Report.loaded
               PROVE  NoByteShared /\ ResetsAgree /\ NothingUngrounded /\ MatrixHonest
    BY DEF RegistersSound
  <2>1. PICK x \in RegisterInputs : input = x /\ reports \in {{}, {Package(x)}}
    BY <1>1 DEF RegisterInv
  <2>2. reports = {Package(x)}
    BY <2>1 DEF Reported
  <2> DEFINE registers == RegistersOf(x)
             made == [loaded |-> TRUE, registers |-> registers,
                      discrepancies |-> RunAllChecks(registers, Unit(x), x.rtl),
                      unmatched |-> UnmatchedRtl(registers, x.rtl),
                      coverage |-> BuildCoverage(registers), checklist |-> BuildChecklist(registers)]
  <2>3. Report = Package(x)
    BY <2>2 DEF Report
  <2>4. Loads(registers) /\ Package(x) = made
    <3>1. CASE ~ Loads(registers)
      <4>1. Package(x) = [loaded |-> FALSE]
        BY <3>1 DEF Package
      <4>2. ~ Report.loaded
        BY <2>3, <4>1
      <4> QED  BY <4>2
    <3>2. CASE Loads(registers)
      BY <3>2 DEF Package
    <3> QED  BY <3>1, <3>2
  <2>5. /\ Report.registers = registers
        /\ Report.discrepancies = RunAllChecks(registers, Unit(x), x.rtl)
        /\ Report.unmatched = UnmatchedRtl(registers, x.rtl)
        /\ Report.coverage = BuildCoverage(registers)
        /\ Report.checklist = BuildChecklist(registers)
    BY <2>3, <2>4
  <2>6. NoByteShared
    BY <2>1, <2>2, <2>4, NoByteSharedOf
  <2>7. ResetsAgree
    BY <2>4, <2>5, ResetsAgreeOf
  <2>8. NothingUngrounded
    BY <2>1, <2>5, NothingUngroundedOf
  <2>9. MatrixHonest
    BY <2>4, <2>5, MatrixHonestOf
  <2> QED  BY <2>6, <2>7, <2>8, <2>9
<1> QED  BY <1>1, RegisterInvariant, PTL

=============================================================================
