------------------------------- MODULE DataLemmas -------------------------------
(***************************************************************************)
(* Facts about numbers, finite sets, sequences and repeated steps that the *)
(* proofs share.                                                           *)
(***************************************************************************)
EXTENDS OnePass, Integers, FiniteSetsExt, SequencesExt, FiniteSetTheorems, SequenceTheorems,
        WellFoundedInduction, TLAPS

\* A set of numbers that is not empty has a least one.
LEMMA LeastNatural ==
    ASSUME NEW S \in SUBSET Nat, S # {}
    PROVE  \E x \in S : \A y \in S : x <= y
<1> DEFINE R == OpToRel(<, Nat)
<1>1. R = {ss \in Nat \X Nat : ss[1] < ss[2]}
  BY DEF OpToRel
<1>2. PICK x \in S : \A y \in S : ~ (<<y, x>> \in R)
  BY NatLessThanWellFounded, WFMin
<1> HIDE DEF R
<1>3. ASSUME NEW y \in S PROVE x <= y
  <2>1. y \in Nat /\ x \in Nat /\ <<y, x>> \in Nat \X Nat
    OBVIOUS
  <2>2. ~ (y < x)
    BY <1>1, <1>2, <2>1
  <2> QED  BY <2>1, <2>2
<1> QED  BY <1>3

LEMMA MinOfSome ==
    ASSUME NEW S \in SUBSET Nat, S # {}
    PROVE  Min(S) \in S /\ \A y \in S : Min(S) <= y
<1>1. PICK x \in S : \A y \in S : x <= y
  BY LeastNatural
<1> QED  BY <1>1 DEF Min

\* In a finite set of numbers, one has the fewest others above it: none.
LEMMA MaxOfSome ==
    ASSUME NEW S \in SUBSET Nat, S # {}, IsFiniteSet(S)
    PROVE  Max(S) \in S /\ \A y \in S : y <= Max(S)
<1> DEFINE above == [x \in S |-> {y \in S : y > x}]
           counts == {Cardinality(above[x]) : x \in S}
<1>1. \A x \in S : above[x] = {y \in S : y > x}
  OBVIOUS
<1> HIDE DEF above
<1>2. \A x \in S : IsFiniteSet(above[x]) /\ Cardinality(above[x]) \in Nat
  <2> TAKE x \in S
  <2>1. above[x] \in SUBSET S
    BY <1>1
  <2> QED  BY <2>1, FS_Subset, FS_CardinalityType
<1>3. counts \in SUBSET Nat /\ counts # {}
  BY <1>2
<1>4. Min(counts) \in counts /\ \A k \in counts : Min(counts) <= k
  BY <1>3, MinOfSome
<1>5. PICK x \in S : Cardinality(above[x]) = Min(counts)
  BY <1>4
<1>6. \A y \in S : Cardinality(above[y]) \in counts
  OBVIOUS
<1> HIDE DEF counts
<1>7. ASSUME NEW y \in S, y > x PROVE FALSE
  <2>1. above[y] \in SUBSET above[x] /\ y \in above[x] /\ y \notin above[y]
    <3>1. x \in Nat /\ y \in Nat
      OBVIOUS
    <3>2. \A z \in S : z \in Nat /\ (z > y => z > x)
      BY <1>7, <3>1
    <3>3. y \in above[x] /\ y \notin above[y]
      BY <1>1, <1>7, <3>1
    <3>4. \A z \in above[y] : z \in S /\ z > y
      BY <1>1
    <3>5. \A z \in above[y] : z \in above[x]
      BY <1>1, <3>2, <3>4
    <3> QED  BY <3>3, <3>5
  <2>2. Cardinality(above[y]) <= Cardinality(above[x])
        /\ (Cardinality(above[x]) = Cardinality(above[y]) => above[x] = above[y])
    BY <1>2, <2>1, FS_Subset
  <2>3. Cardinality(above[x]) <= Cardinality(above[y])
    BY <1>4, <1>5, <1>6
  <2>4. Cardinality(above[x]) = Cardinality(above[y])
    BY <1>2, <2>2, <2>3
  <2> QED  BY <2>1, <2>2, <2>4
<1>8. \A y \in S : y <= x
  BY <1>7
<1>9. \A y \in S : x >= y
  BY <1>8
<1>10. Max(S) \in S /\ \A y \in S : Max(S) >= y
  BY <1>9 DEF Max
<1> QED  BY <1>10

\* The last of some positions of a list.
LEMMA LastPosition ==
    ASSUME NEW n \in Nat, NEW S \in SUBSET (1 .. n), S # {}
    PROVE  Max(S) \in S /\ \A y \in S : y <= Max(S)
<1>1. IsFiniteSet(1 .. n)
  BY FS_Interval
<1>2. IsFiniteSet(S)
  BY <1>1, FS_Subset
<1>3. S \in SUBSET Nat
  OBVIOUS
<1> QED  BY <1>2, <1>3, MaxOfSome

LEMMA SequenceRange ==
    ASSUME NEW S, NEW s \in Seq(S)
    PROVE  s \in Seq(Range(s)) /\ Range(s) \subseteq S
BY DEF Range

\* The elements of two sequences are in their concatenation.
LEMMA RangeOfJoined ==
    ASSUME NEW S, NEW s \in Seq(S), NEW t \in Seq(S)
    PROVE  s \o t \in Seq(S) /\ Range(s \o t) = Range(s) \cup Range(t)
<1>1. /\ s \o t \in Seq(S) /\ Len(s \o t) = Len(s) + Len(t)
      /\ \A i \in 1 .. Len(s) + Len(t) :
            (s \o t)[i] = IF i <= Len(s) THEN s[i] ELSE t[i - Len(s)]
  BY ConcatProperties
<1>2. DOMAIN (s \o t) = 1 .. Len(s) + Len(t) /\ Len(s) \in Nat /\ Len(t) \in Nat
  BY <1>1
<1>3. DOMAIN s = 1 .. Len(s) /\ DOMAIN t = 1 .. Len(t)
  OBVIOUS
<1>4. ASSUME NEW i \in DOMAIN s PROVE s[i] \in Range(s \o t)
  <2>1. i \in 1 .. Len(s) + Len(t) /\ i <= Len(s)
    BY <1>2, <1>3
  <2>2. (s \o t)[i] = s[i]
    BY <1>1, <2>1
  <2> QED  BY <1>2, <2>1, <2>2 DEF Range
<1>5. ASSUME NEW i \in DOMAIN t PROVE t[i] \in Range(s \o t)
  <2>1. /\ Len(s) + i \in 1 .. Len(s) + Len(t) /\ ~ (Len(s) + i <= Len(s))
        /\ (Len(s) + i) - Len(s) = i
    BY <1>2, <1>3
  <2>2. (s \o t)[Len(s) + i] = t[i]
    BY <1>1, <2>1
  <2> QED  BY <1>2, <2>1, <2>2 DEF Range
<1>6. ASSUME NEW i \in DOMAIN (s \o t) PROVE (s \o t)[i] \in Range(s) \cup Range(t)
  <2>1. CASE i <= Len(s)
    BY <1>1, <1>2, <1>3, <2>1 DEF Range
  <2>2. CASE ~ (i <= Len(s))
    <3>1. i - Len(s) \in DOMAIN t
      BY <1>2, <1>3, <2>2
    <3>2. (s \o t)[i] = t[i - Len(s)]
      BY <1>1, <1>2, <2>2
    <3> QED  BY <3>1, <3>2 DEF Range
  <2> QED  BY <2>1, <2>2
<1>7. Range(s \o t) = Range(s) \cup Range(t)
  <2>1. Range(s) \cup Range(t) \subseteq Range(s \o t)
    BY <1>4, <1>5 DEF Range
  <2>2. Range(s \o t) \subseteq Range(s) \cup Range(t)
    BY <1>6 DEF Range
  <2> QED  BY <2>1, <2>2
<1> QED  BY <1>1, <1>7

\* The sequence of the elements of many sequences, one after the other.
LEMMA FlattenedSequence ==
    ASSUME NEW T, NEW seqs \in Seq(Seq(T))
    PROVE  /\ FlattenSeq(seqs) \in Seq(T)
           /\ \A i \in DOMAIN seqs : Range(seqs[i]) \subseteq Range(FlattenSeq(seqs))
<1> DEFINE n == Len(seqs)
           f == CHOOSE g : g = [i \in 1 .. Len(seqs) |->
                                  IF i = 1 THEN seqs[i] ELSE g[i - 1] \o seqs[i]]
           Solves(g, k) == /\ g \in [1 .. k -> Seq(T)]
                           /\ \A i \in 1 .. k :
                                g[i] = IF i = 1 THEN seqs[i] ELSE g[i - 1] \o seqs[i]
<1>1. n \in Nat /\ \A i \in 1 .. n : seqs[i] \in Seq(T)
  OBVIOUS
<1>2. CASE n = 0
  <2>1. seqs = <<>>
    BY <1>2
  <2> QED  BY <2>1 DEF FlattenSeq
<1>3. CASE n # 0
  <2>1. FlattenSeq(seqs) = f[n]
    BY <1>3 DEF FlattenSeq
  <2>2. ASSUME NEW k \in 0 .. n PROVE \E g : Solves(g, k)
    <3> DEFINE Bad == {j \in 0 .. n : ~ \E g : Solves(g, j)}
    <3>1. SUFFICES ASSUME Bad # {} PROVE FALSE
      BY <2>2
    <3>2. PICK j \in Bad : \A i \in Bad : j <= i
      <4>1. Bad \in SUBSET Nat
        BY <1>1
      <4> HIDE DEF Bad
      <4> QED  BY <3>1, <4>1, LeastNatural
    <3>3. CASE j = 0
      <4> DEFINE g == [i \in 1 .. 0 |-> <<>>]
      <4>1. g \in [1 .. 0 -> Seq(T)]
        OBVIOUS
      <4>2. Solves(g, 0)
        <5> HIDE DEF g
        <5> QED  BY <4>1
      <4> HIDE DEF Solves
      <4> QED  BY <3>2, <3>3, <4>2
    <3>4. CASE j # 0
      <4>1. j - 1 \in 0 .. n /\ j \in 1 .. n
        BY <1>1, <3>4
      <4>2. PICK g : Solves(g, j - 1)
        <5> HIDE DEF Solves
        <5>1. j - 1 \notin Bad
          <6> HIDE DEF Bad
          <6> QED  BY <3>2, <4>1
        <5> QED  BY <4>1, <5>1
      <4> DEFINE last == IF j = 1 THEN seqs[j] ELSE g[j - 1] \o seqs[j]
                 h == [i \in 1 .. j |-> IF i = j THEN last ELSE g[i]]
      <4>3. last \in Seq(T)
        <5>1. CASE j = 1
          BY <1>1, <4>1, <5>1
        <5>2. CASE j # 1
          <6>1. j - 1 \in 1 .. j - 1 /\ g[j - 1] \in Seq(T)
            BY <1>1, <4>1, <4>2, <5>2
          <6> QED  BY <1>1, <4>1, <5>2, <6>1
        <5> QED  BY <5>1, <5>2
      <4>4. h \in [1 .. j -> Seq(T)] /\ h[j] = last /\ \A i \in 1 .. j - 1 : h[i] = g[i]
        <5>1. \A i \in 1 .. j : (i # j => g[i] \in Seq(T))
          BY <1>1, <4>1, <4>2
        <5> HIDE DEF last
        <5> QED  BY <1>1, <4>1, <4>3, <5>1
      <4>5. ASSUME NEW i \in 1 .. j
            PROVE  h[i] = IF i = 1 THEN seqs[i] ELSE h[i - 1] \o seqs[i]
        <5> HIDE DEF h
        <5>1. CASE i = j
          <6>1. i # 1 => i - 1 \in 1 .. j - 1 /\ h[i - 1] = g[i - 1]
            BY <4>1, <4>4, <5>1
          <6> QED  BY <4>4, <5>1, <6>1
        <5>2. CASE i # j
          <6>1. i \in 1 .. j - 1 /\ (i # 1 => i - 1 \in 1 .. j - 1)
            BY <4>1, <5>2
          <6> QED  BY <4>2, <4>4, <6>1
        <5> QED  BY <5>1, <5>2
      <4>6. Solves(h, j)
        BY <4>4, <4>5
      <4> HIDE DEF Solves, h
      <4> QED  BY <3>2, <4>6
    <3> QED  BY <3>3, <3>4
  <2>3. PICK g : Solves(g, n)
    <3>1. n \in 0 .. n
      BY <1>1
    <3> HIDE DEF Solves
    <3> QED  BY <2>2, <3>1
  <2>4. g = [i \in 1 .. Len(seqs) |-> IF i = 1 THEN seqs[i] ELSE g[i - 1] \o seqs[i]]
    <3>1. g \in [1 .. n -> Seq(T)]
      BY <2>3
    <3>2. \A i \in 1 .. n : g[i] = IF i = 1 THEN seqs[i] ELSE g[i - 1] \o seqs[i]
      BY <2>3
    <3> DEFINE v(i) == IF i = 1 THEN seqs[i] ELSE g[i - 1] \o seqs[i]
    <3>3. \A i \in 1 .. n : g[i] = v(i)
      BY <3>2
    <3> HIDE DEF v, Solves, f
    <3>4. g = [i \in 1 .. n |-> v(i)]
      BY <3>1, <3>3
    <3> QED  BY <3>4 DEF v
  <2>5. f = [i \in 1 .. Len(seqs) |-> IF i = 1 THEN seqs[i] ELSE f[i - 1] \o seqs[i]]
    BY <2>4, Zenon
  <2> HIDE DEF f
  <2>6. \A i \in 1 .. n : f[i] = IF i = 1 THEN seqs[i] ELSE f[i - 1] \o seqs[i]
    BY <2>5
  <2> DEFINE Holds(i) == /\ f[i] \in Seq(T)
                         /\ \A k \in 1 .. i : Range(seqs[k]) \subseteq Range(f[i])
  <2>7. ASSUME ~ Holds(n) PROVE FALSE
    <3> DEFINE Bad == {i \in 1 .. n : ~ Holds(i)}
    <3>1. Bad \in SUBSET Nat /\ Bad # {}
      <4>1. n \in 1 .. n
        BY <1>1, <1>3
      <4> HIDE DEF Holds, n
      <4> QED  BY <1>1, <2>7, <4>1
    <3>2. PICK i \in Bad : \A j \in Bad : i <= j
      <4> HIDE DEF Bad
      <4> QED  BY <3>1, LeastNatural
    <3>3. i \in 1 .. n /\ ~ Holds(i)
      OBVIOUS
    <3>4. i # 1 => i - 1 \in 1 .. n /\ Holds(i - 1)
      <4> HIDE DEF Holds
      <4> QED  BY <1>1, <3>2, <3>3
    <3>5. CASE i = 1
      <4>1. f[1] = seqs[1] /\ seqs[1] \in Seq(T)
        BY <1>1, <2>6, <3>3, <3>5
      <4>2. \A k \in 1 .. 1 : k = 1
        OBVIOUS
      <4> QED  BY <3>3, <3>5, <4>1, <4>2
    <3>6. CASE i # 1
      <4>1. f[i] = f[i - 1] \o seqs[i] /\ seqs[i] \in Seq(T)
        BY <1>1, <2>6, <3>3, <3>6
      <4>2. f[i - 1] \in Seq(T) /\ \A k \in 1 .. (i - 1) : Range(seqs[k]) \subseteq Range(f[i - 1])
        BY <3>4, <3>6
      <4>3. f[i] \in Seq(T) /\ Range(f[i]) = Range(f[i - 1]) \cup Range(seqs[i])
        BY <4>1, <4>2, RangeOfJoined
      <4>4. \A k \in 1 .. i : k \in 1 .. (i - 1) \/ k = i
        BY <1>1, <3>3
      <4>5. Holds(i)
        BY <4>2, <4>3, <4>4
      <4> QED  BY <3>3, <4>5
    <3> QED  BY <3>5, <3>6
  <2>8. DOMAIN seqs = 1 .. n
    OBVIOUS
  <2> QED  BY <2>1, <2>7, <2>8
<1> QED  BY <1>2, <1>3

\* A sequence of elements of a set is one of elements of a larger set.
LEMMA WidenedSequence ==
    ASSUME NEW S, NEW T, S \subseteq T, NEW s \in Seq(S)
    PROVE  s \in Seq(T)
OBVIOUS

\* The elements of a finite set can be put into a sequence.
LEMMA SequenceOfSet ==
    ASSUME NEW S, IsFiniteSet(S)
    PROVE  SetToSeq(S) \in Seq(S)
<1> DEFINE n == Cardinality(S)
<1>1. n \in Nat /\ ExistsBijection(1 .. n, S)
  BY FS_CardinalityType
<1>2. PICK f : f \in Bijection(1 .. n, S)
  BY <1>1 DEF ExistsBijection
<1>3. f \in [1 .. n -> S] /\ IsInjective(f)
  BY <1>2 DEF Bijection, Injection, IsInjective
<1>4. SetToSeq(S) \in [1 .. n -> S]
  BY <1>3 DEF SetToSeq
<1> HIDE DEF n
<1> QED  BY <1>1, <1>4

\* What holds for 0 and with every number for the next one holds up to n.
LEMMA StepByStep ==
    ASSUME NEW n \in Nat, NEW S, 0 \in S, \A k \in 1 .. n : k - 1 \in S => k \in S
    PROVE  0 .. n \subseteq S
<1> DEFINE Bad == {k \in 0 .. n : k \notin S}
<1> SUFFICES ASSUME Bad # {} PROVE FALSE
  OBVIOUS
<1>1. Bad \in SUBSET Nat
  OBVIOUS
<1>2. PICK k \in Bad : \A j \in Bad : k <= j
  <2> HIDE DEF Bad
  <2> QED  BY <1>1, LeastNatural
<1>3. k \in 1 .. n /\ k - 1 \in 0 .. n
  OBVIOUS
<1>4. k - 1 \notin Bad
  <2> HIDE DEF Bad
  <2> QED  BY <1>1, <1>2, <1>3
<1> QED  BY <1>3, <1>4

\* A computation in n steps: each is a function of its number and of the last result.
StepsWithin(n, E, first, Result) ==
    n \in Nat /\ first \in E /\ Result \in [1 .. n -> [E -> E]]
Iterates(g, n, E, first, Result) ==
    /\ g \in [0 .. n -> E]
    /\ g[0] = first
    /\ \A k \in 1 .. n : g[k] = Result[k][g[k - 1]]

LEMMA IteratedSteps ==
    ASSUME NEW n, NEW E, NEW first, NEW Result, StepsWithin(n, E, first, Result)
    PROVE  \E g : Iterates(g, n, E, first, Result)
<1>n. n \in Nat /\ first \in E /\ Result \in [1 .. n -> [E -> E]]
  BY DEF StepsWithin
<1> DEFINE Solves(g, k) == /\ g \in [0 .. k -> E] /\ g[0] = first
                           /\ \A i \in 1 .. k : g[i] = Result[i][g[i - 1]]
           S == {k \in 0 .. n : \E g : Solves(g, k)}
<1>1. 0 \in S
  <2> DEFINE g == [i \in 0 .. 0 |-> first]
  <2>1. g \in [0 .. 0 -> E] /\ g[0] = first
    BY <1>n
  <2> HIDE DEF g
  <2>2. Solves(g, 0)
    BY <2>1
  <2> QED  BY <1>n, <2>2
<1>2. ASSUME NEW k \in 1 .. n, k - 1 \in S PROVE k \in S
  <2>1. PICK g : Solves(g, k - 1)
    BY <1>2
  <2> DEFINE next == Result[k][g[k - 1]]
             h == [i \in 0 .. k |-> IF i = k THEN next ELSE g[i]]
  <2>2. next \in E
    <3>1. g[k - 1] \in E
      BY <2>1
    <3> QED  BY <1>n, <3>1
  <2>3. \A i \in 0 .. k - 1 : g[i] \in E
    BY <2>1
  <2> HIDE DEF next
  <2>4. h \in [0 .. k -> E] /\ h[k] = next /\ \A i \in 0 .. k - 1 : h[i] = g[i]
    BY <1>n, <2>2, <2>3
  <2> HIDE DEF h
  <2>5. h[0] = first
    BY <2>1, <2>4
  <2>6. ASSUME NEW i \in 1 .. k PROVE h[i] = Result[i][h[i - 1]]
    <3>1. h[i - 1] = g[i - 1]
      BY <1>n, <2>4
    <3>2. CASE i = k
      BY <1>n, <2>4, <3>1, <3>2 DEF next
    <3>3. CASE i # k
      BY <1>n, <2>1, <2>4, <3>1, <3>3
    <3> QED  BY <3>2, <3>3
  <2>7. Solves(h, k)
    BY <2>4, <2>5, <2>6
  <2> HIDE DEF Solves
  <2> QED  BY <2>7
<1> HIDE DEF S
<1>3. \A k \in 1 .. n : k - 1 \in S => k \in S
  BY <1>2
<1>4. 0 .. n \subseteq S
  BY <1>n, <1>1, <1>3, StepByStep
<1>5. n \in S
  BY <1>n, <1>4
<1> QED  BY <1>5 DEF S, Iterates

\* R orders the elements of S, no two of them alike.
Orders(R, S) ==
    /\ \A i \in S : <<i, i>> \notin R
    /\ \A i, j \in S : i = j \/ <<i, j>> \in R \/ <<j, i>> \in R
    /\ \A i, j, k \in S : <<i, j>> \in R /\ <<j, k>> \in R => <<i, k>> \in R

Predecessors(R, S, i) == {j \in S : <<j, i>> \in R}

\* The elements of S by the number of those before them.
Ranked(at, R, S) ==
    /\ at \in [1 .. Cardinality(S) -> S]
    /\ \A m \in DOMAIN at : at[m] = CHOOSE i \in S : Cardinality(Predecessors(R, S, i)) = m - 1
    /\ \A l, m \in DOMAIN at : l < m <=> <<at[l], at[m]>> \in R
    /\ \A l, m \in DOMAIN at : at[l] = at[m] => l = m
    /\ \A i \in S : \E m \in DOMAIN at : at[m] = i

\* In an order of a finite set every rank is taken, by one element.
LEMMA RanksTaken ==
    ASSUME NEW S, IsFiniteSet(S), NEW R, Orders(R, S)
    PROVE  Cardinality(S) \in Nat /\ \E at : Ranked(at, R, S)
<1> DEFINE n == Cardinality(S)
           rank(i) == Cardinality(Predecessors(R, S, i))
<1>1. n \in Nat
  BY FS_CardinalityType
<1>2. ASSUME NEW i \in S
      PROVE  /\ IsFiniteSet(Predecessors(R, S, i)) /\ rank(i) \in Nat
             /\ IsFiniteSet(Predecessors(R, S, i) \cup {i})
             /\ Cardinality(Predecessors(R, S, i) \cup {i}) = rank(i) + 1
  <2>1. Predecessors(R, S, i) \in SUBSET S /\ i \notin Predecessors(R, S, i)
    BY DEF Predecessors, Orders
  <2>2. IsFiniteSet(Predecessors(R, S, i))
    BY <2>1, FS_Subset
  <2> QED  BY <2>1, <2>2, FS_CardinalityType, FS_AddElement
<1>3. ASSUME NEW i \in S PROVE rank(i) + 1 \in 1 .. n
  <2>1. Predecessors(R, S, i) \cup {i} \in SUBSET S
    BY DEF Predecessors
  <2>2. Cardinality(Predecessors(R, S, i) \cup {i}) <= n
    BY <2>1, FS_Subset
  <2> HIDE DEF n, rank
  <2> QED  BY <1>1, <1>2, <2>2
<1>4. ASSUME NEW i \in S, NEW j \in S, <<i, j>> \in R PROVE rank(i) < rank(j)
  <2>1. Predecessors(R, S, i) \cup {i} \in SUBSET Predecessors(R, S, j)
    BY <1>4 DEF Predecessors, Orders
  <2>2. Cardinality(Predecessors(R, S, i) \cup {i}) <= rank(j)
    BY <1>2, <2>1, FS_Subset
  <2>3. rank(i) \in Nat /\ rank(j) \in Nat /\ rank(i) + 1 <= rank(j)
    BY <1>2, <2>2
  <2> HIDE DEF rank
  <2> QED  BY <2>3
<1> DEFINE f == [i \in S |-> rank(i) + 1]
<1>5. \A i \in S : f[i] = rank(i) + 1
  OBVIOUS
<1>6. f \in [S -> 1 .. n]
  BY <1>3
<1> HIDE DEF f, rank
<1>7. ASSUME NEW i \in S, NEW j \in S, rank(i) = rank(j) PROVE i = j
  <2>1. rank(i) \in Nat /\ rank(j) \in Nat
    BY <1>2
  <2>2. ~ (<<i, j>> \in R) /\ ~ (<<j, i>> \in R)
    BY <1>4, <1>7, <2>1
  <2> QED  BY <2>2 DEF Orders
<1>8. \A i, j \in S : f[i] = f[j] => i = j
  <2> TAKE i, j \in S
  <2>1. rank(i) \in Nat /\ rank(j) \in Nat
    BY <1>2
  <2> QED  BY <1>5, <1>7, <2>1
<1>9. f \in Injection(S, 1 .. n)
  BY <1>6, <1>8 DEF Injection, IsInjective
<1>10. f \in Surjection(S, 1 .. n)
  <2>1. IsFiniteSet(1 .. n) /\ Cardinality(1 .. n) = n
    BY <1>1, FS_Interval
  <2> QED  BY <1>9, <2>1, FS_Injection
<1>11. \A m \in 1 .. n : \E i \in S : rank(i) = m - 1
  <2> TAKE m \in 1 .. n
  <2>1. PICK i \in S : f[i] = m
    BY <1>10 DEF Surjection
  <2>2. rank(i) \in Nat /\ rank(i) + 1 = m
    BY <1>2, <1>5, <2>1
  <2> QED  BY <1>1, <2>2
<1> DEFINE at == [m \in 1 .. n |-> CHOOSE i \in S : rank(i) = m - 1]
<1>12. ASSUME NEW m \in 1 .. n
       PROVE  at[m] \in S /\ rank(at[m]) = m - 1 /\ at[m] = CHOOSE i \in S : rank(i) = m - 1
  BY <1>11
<1>13. at \in [1 .. n -> S] /\ DOMAIN at = 1 .. n
  BY <1>12
<1> HIDE DEF at
<1>14. ASSUME NEW l \in 1 .. n, NEW m \in 1 .. n PROVE l < m <=> <<at[l], at[m]>> \in R
  <2>1. at[l] \in S /\ at[m] \in S /\ rank(at[l]) = l - 1 /\ rank(at[m]) = m - 1
    BY <1>12
  <2>2. <<at[l], at[m]>> \in R => rank(at[l]) < rank(at[m])
    BY <1>4, <2>1
  <2>3. <<at[m], at[l]>> \in R => rank(at[m]) < rank(at[l])
    BY <1>4, <2>1
  <2>4. at[l] = at[m] \/ <<at[l], at[m]>> \in R \/ <<at[m], at[l]>> \in R
    BY <2>1 DEF Orders
  <2> HIDE DEF n
  <2> QED  BY <1>1, <2>1, <2>2, <2>3, <2>4
<1>15. ASSUME NEW l \in 1 .. n, NEW m \in 1 .. n, at[l] = at[m] PROVE l = m
  <2>1. l - 1 = m - 1
    BY <1>12, <1>15
  <2> HIDE DEF n
  <2> QED  BY <1>1, <2>1
<1>16. ASSUME NEW i \in S PROVE \E m \in 1 .. n : at[m] = i
  <2>1. rank(i) + 1 \in 1 .. n /\ rank(i) \in Nat
    BY <1>2, <1>3 DEF rank
  <2>2. at[rank(i) + 1] \in S /\ rank(at[rank(i) + 1]) = (rank(i) + 1) - 1
    BY <1>12, <2>1
  <2>3. (rank(i) + 1) - 1 = rank(i)
    BY <2>1
  <2>4. at[rank(i) + 1] = i
    BY <1>7, <2>2, <2>3
  <2> QED  BY <2>1, <2>4
<1>17. \A m \in 1 .. n : at[m] = CHOOSE i \in S : Cardinality(Predecessors(R, S, i)) = m - 1
  BY <1>12 DEF rank
<1> QED  BY <1>1, <1>13, <1>14, <1>15, <1>16, <1>17 DEF Ranked

\* The elements at certain positions: at says which position each of them was at.
PickedAt(s, keep, at) ==
    /\ Picked(s, keep) = [m \in DOMAIN at |-> s[at[m]]]
    /\ at \in [1 .. Cardinality(keep) -> keep]
    /\ \A l, m \in DOMAIN at : at[l] = at[m] => l = m
    /\ \A l, m \in DOMAIN at : l < m <=> at[l] < at[m]
    /\ \A i \in keep : \E m \in DOMAIN at : at[m] = i

\* The positions to keep in their order, each by the number of those before it.
InTheirOrder(keep, at) ==
    /\ at \in [1 .. Cardinality(keep) -> keep]
    /\ \A m \in DOMAIN at : at[m] = CHOOSE i \in keep : Cardinality({j \in keep : j < i}) = m - 1
    /\ \A l, m \in DOMAIN at : at[l] = at[m] => l = m
    /\ \A l, m \in DOMAIN at : l < m <=> at[l] < at[m]
    /\ \A i \in keep : \E m \in DOMAIN at : at[m] = i

LEMMA PositionsInOrder ==
    ASSUME NEW n \in Nat, NEW keep \in SUBSET (1 .. n)
    PROVE  IsFiniteSet(keep) /\ Cardinality(keep) \in Nat /\ \E at : InTheirOrder(keep, at)
<1> DEFINE R == {p \in keep \X keep : p[1] < p[2]}
<1>1. keep \in SUBSET Nat /\ IsFiniteSet(keep)
  <2>1. IsFiniteSet(1 .. n)
    BY FS_Interval
  <2>2. IsFiniteSet(keep)
    BY <2>1, FS_Subset
  <2>3. \A i \in 1 .. n : i \in Nat
    OBVIOUS
  <2> QED  BY <2>2, <2>3
<1>2. \A i, j \in keep : <<i, j>> \in R <=> i < j
  OBVIOUS
<1> HIDE DEF R
<1>3. Orders(R, keep)
  <2>1. \A i, j, k \in keep : /\ i \in Nat /\ j \in Nat /\ k \in Nat
                              /\ ~ (i < i) /\ (i = j \/ i < j \/ j < i)
                              /\ (i < j /\ j < k => i < k)
    BY <1>1
  <2>2. \A i \in keep : <<i, i>> \notin R
    BY <1>2, <2>1
  <2>3. \A i, j \in keep : i = j \/ <<i, j>> \in R \/ <<j, i>> \in R
    BY <1>2, <2>1
  <2>4. \A i, j, k \in keep : <<i, j>> \in R /\ <<j, k>> \in R => <<i, k>> \in R
    BY <1>2, <2>1
  <2> QED  BY <2>2, <2>3, <2>4 DEF Orders
<1>4. Cardinality(keep) \in Nat /\ \E at : Ranked(at, R, keep)
  BY <1>1, <1>3, RanksTaken
<1>5. PICK at : Ranked(at, R, keep)
  BY <1>4
<1>6. \A i \in keep : Predecessors(R, keep, i) = {j \in keep : j < i}
  BY <1>2 DEF Predecessors
<1>7. at \in [1 .. Cardinality(keep) -> keep]
  BY <1>5 DEF Ranked
<1>8. ASSUME NEW m \in 1 .. Cardinality(keep)
      PROVE  at[m] = CHOOSE i \in keep : Cardinality({j \in keep : j < i}) = m - 1
  <2>1. at[m] = CHOOSE i \in keep : Cardinality(Predecessors(R, keep, i)) = m - 1
    BY <1>5, <1>7 DEF Ranked
  <2>2. \A i : (i \in keep /\ Cardinality(Predecessors(R, keep, i)) = m - 1)
               <=> (i \in keep /\ Cardinality({j \in keep : j < i}) = m - 1)
    BY <1>6
  <2> QED  BY <2>1, <2>2
<1>9. \A l, m \in DOMAIN at : l < m <=> at[l] < at[m]
  BY <1>2, <1>5, <1>7 DEF Ranked
<1>10. InTheirOrder(keep, at)
  BY <1>5, <1>7, <1>8, <1>9 DEF Ranked, InTheirOrder
<1> QED  BY <1>1, <1>4, <1>10

LEMMA PickedInOrder ==
    ASSUME NEW s, NEW keep, NEW at, InTheirOrder(keep, at)
    PROVE  PickedAt(s, keep, at)
<1>1. DOMAIN at = 1 .. Cardinality(keep)
  BY DEF InTheirOrder
<1>2. ASSUME NEW m \in 1 .. Cardinality(keep)
      PROVE  s[CHOOSE i \in keep : Cardinality({j \in keep : j < i}) = m - 1] = s[at[m]]
  <2>1. at[m] = CHOOSE i \in keep : Cardinality({j \in keep : j < i}) = m - 1
    BY <1>1 DEF InTheirOrder
  <2> QED  BY <2>1
<1>3. Picked(s, keep) = [m \in DOMAIN at |-> s[at[m]]]
  BY <1>1, <1>2 DEF Picked
<1> QED  BY <1>3 DEF InTheirOrder, PickedAt

LEMMA PickedPositions ==
    ASSUME NEW T, NEW s \in Seq(T), NEW keep \in SUBSET (DOMAIN s)
    PROVE  IsFiniteSet(keep) /\ Cardinality(keep) \in Nat /\ \E at : PickedAt(s, keep, at)
<1>1. Len(s) \in Nat /\ keep \in SUBSET (1 .. Len(s))
  OBVIOUS
<1>2. IsFiniteSet(keep) /\ Cardinality(keep) \in Nat /\ \E at : InTheirOrder(keep, at)
  BY <1>1, PositionsInOrder
<1> QED  BY <1>2, PickedInOrder

LEMMA PickedElements ==
    ASSUME NEW T, NEW s \in Seq(T), NEW keep \in SUBSET (DOMAIN s)
    PROVE  /\ Picked(s, keep) \in Seq(T)
           /\ Range(Picked(s, keep)) = {s[i] : i \in keep}
<1>1. Cardinality(keep) \in Nat
  BY PickedPositions
<1>2. PICK at : PickedAt(s, keep, at)
  BY PickedPositions
<1>3. /\ DOMAIN at = 1 .. Cardinality(keep) /\ \A m \in DOMAIN at : at[m] \in keep
      /\ \A i \in keep : \E m \in DOMAIN at : at[m] = i
      /\ DOMAIN Picked(s, keep) = DOMAIN at /\ \A m \in DOMAIN at : Picked(s, keep)[m] = s[at[m]]
      /\ Picked(s, keep) = [m \in DOMAIN at |-> s[at[m]]]
  BY <1>2 DEF PickedAt
<1>4. Picked(s, keep) \in Seq(T)
  <2>1. \A m \in DOMAIN at : s[at[m]] \in T
    BY <1>3
  <2> QED  BY <1>1, <1>3, <2>1
<1>5. Range(Picked(s, keep)) = {s[i] : i \in keep}
  BY <1>3 DEF Range
<1> QED  BY <1>4, <1>5

=============================================================================
