---------------------------- MODULE SchedulerProofs ----------------------------
(***************************************************************************)
(* Theorems about Scheduler, for any inputs.                               *)
(*                                                                         *)
(* The shares are summed, the failover clusters are concatenated, and      *)
(* those not online are collected, by recursion.  What such definitions    *)
(* compute is proved here by induction in its first-order form: a set of   *)
(* finite sets, or of numbers, that is closed under one step contains all. *)
(* That scheduling ends is proved with a rank that every step lowers.      *)
(***************************************************************************)
EXTENDS Scheduler, FiniteSetTheorems, SequenceTheorems, WellFoundedInduction, TLAPS

-----------------------------------------------------------------------------
(* Induction *)

LEMMA SubsetInduction ==
  ASSUME NEW S, IsFiniteSet(S), NEW G,
         \A T \in SUBSET S : (\A U \in SUBSET T : U # T => U \in G) => T \in G
  PROVE  S \in G
<1> DEFINE Bad == {T \in SUBSET S : T \notin G}
<1> SUFFICES ASSUME S \notin G PROVE FALSE
  OBVIOUS
<1>1. IsWellFoundedOn(StrictSubsetOrdering(S), SUBSET S)
  <2>1. IsWellFoundedOn(StrictSubsetOrdering(S), FiniteSubsetsOf(S))
    BY FS_StrictSubsetOrderingWellFounded
  <2>2. FiniteSubsetsOf(S) = SUBSET S
    BY FS_FiniteSubsetsOfFinite
  <2> QED BY <2>1, <2>2
<1>2. S \in Bad /\ Bad \subseteq SUBSET S /\ Bad # {}
  OBVIOUS
<1>3. PICK T \in Bad : \A U \in Bad : ~(<<U, T>> \in StrictSubsetOrdering(S))
  <2> HIDE DEF Bad
  <2> QED BY <1>1, <1>2, WFMin
<1>4. \A U \in SUBSET T : U # T => U \in G
  BY <1>3 DEF StrictSubsetOrdering
<1> QED BY <1>4

First(s) == CHOOSE x \in s : TRUE

\* The same for numbers.
LEMMA NumberInduction ==
  ASSUME NEW G, 0 \in G, \A n \in Nat : n \in G => n + 1 \in G
  PROVE  \A n \in Nat : n \in G
<1> DEFINE Bad == {n \in Nat : n \notin G}
           R == OpToRel(<, Nat)
<1> SUFFICES ASSUME Bad # {} PROVE FALSE
  OBVIOUS
<1>1. IsWellFoundedOn(R, Nat)
  BY NatLessThanWellFounded
<1>2. PICK m \in Bad : \A n \in Bad : ~(<<n, m>> \in R)
  <2>1. Bad \subseteq Nat
    OBVIOUS
  <2> HIDE DEF Bad, R
  <2> QED BY <1>1, <2>1, WFMin
<1>3. m \in Nat /\ m # 0
  OBVIOUS
<1>4. m - 1 \in Nat /\ m - 1 < m
  BY <1>3
<1>5. m - 1 \notin Bad
  BY <1>2, <1>4 DEF OpToRel
<1> QED BY <1>3, <1>4, <1>5


-----------------------------------------------------------------------------
(* Sums *)

Step(f, g, s) == IF s = {} THEN 0 ELSE f[First(s)] + g[s \ {First(s)}]

Sums(f, S, g) == g = [s \in SUBSET S |-> Step(f, g, s)]

Partial(f) == CHOOSE g : Sums(f, DOMAIN f, g)

LEMMA SumIsPartial ==
  ASSUME NEW f
  PROVE  SumFunction(f) = Partial(f)[DOMAIN f]
BY DEF SumFunction, SumFunctionOnSet, FoldFunctionOnSet, MapThenFoldSet, Partial, Sums, Step, First

LEMMA SumsAgree ==
  ASSUME NEW f, NEW A, NEW B, NEW g, NEW h, Sums(f, A, g), Sums(f, B, h),
         NEW T, T \subseteq A, T \subseteq B, IsFiniteSet(T)
  PROVE  g[T] = h[T]
<1> DEFINE G == {U \in SUBSET T : g[U] = h[U]}
<1>1. ASSUME NEW U \in SUBSET T, \A V \in SUBSET U : V # U => V \in G
      PROVE  U \in G
  <2>1. g[U] = Step(f, g, U) /\ h[U] = Step(f, h, U)
    <3>1. U \in SUBSET A /\ U \in SUBSET B
      OBVIOUS
    <3> QED BY <3>1 DEF Sums
  <2>2. U # {} => (U \ {First(U)}) \in G
    BY <1>1 DEF First
  <2> QED BY <2>1, <2>2 DEF Step
<1>2. T \in G
  <2> HIDE DEF G
  <2> QED BY <1>1, SubsetInduction
<1> QED BY <1>2

LEMMA SumsExist ==
  ASSUME NEW f, NEW S, IsFiniteSet(S)
  PROVE  \E g : Sums(f, S, g)
<1> DEFINE G == {T \in SUBSET S : \E g : Sums(f, T, g)}
<1>1. ASSUME NEW T \in SUBSET S, \A U \in SUBSET T : U # T => U \in G
      PROVE  T \in G
  <2> DEFINE below(U) == CHOOSE g : Sums(f, U, g)
             low == [U \in SUBSET T |-> below(U)[U]]
             h == [U \in SUBSET T |-> Step(f, low, U)]
  <2>1. \A U \in SUBSET T : U # T => Sums(f, U, below(U))
    BY <1>1
  <2>2. \A U \in SUBSET T : U # T => low[U] = h[U]
    <3> SUFFICES ASSUME NEW U \in SUBSET T, U # T
                 PROVE  low[U] = h[U]
      OBVIOUS
    <3>1. Sums(f, U, below(U))
      BY <2>1
    <3>2. low[U] = Step(f, below(U), U)
      BY <3>1 DEF Sums
    <3>3. ASSUME NEW V \in SUBSET U, V # U PROVE below(U)[V] = low[V]
      <4>1. Sums(f, V, below(V)) /\ V \subseteq U /\ V \in SUBSET T
        BY <2>1, <3>3
      <4>2. IsFiniteSet(V)
        BY FS_Subset, <4>1
      <4>3. below(U)[V] = below(V)[V]
        <5> HIDE DEF below
        <5> QED BY <3>1, <4>1, <4>2, SumsAgree
      <4> QED BY <4>1, <4>3
    <3>4. U # {} => LET V == U \ {First(U)} IN V \in SUBSET U /\ V # U
      BY DEF First
    <3>5. Step(f, below(U), U) = Step(f, low, U)
      <4> HIDE DEF below, low
      <4> QED BY <3>3, <3>4 DEF Step
    <3> QED BY <3>2, <3>5
  <2>3. Sums(f, T, h)
    <3>1. ASSUME NEW U \in SUBSET T PROVE Step(f, low, U) = Step(f, h, U)
      <4>1. U # {} => LET V == U \ {First(U)} IN V \in SUBSET T /\ V # T
        BY DEF First
      <4> HIDE DEF low, h
      <4> QED BY <4>1, <2>2 DEF Step
    <3> QED BY <3>1 DEF Sums
  <2> QED BY <2>3
<1> QED
  <2>1. S \in G
    <3> HIDE DEF G
    <3> QED BY <1>1, SubsetInduction
  <2> QED BY <2>1

LEMMA PartialSums ==
  ASSUME NEW f, IsFiniteSet(DOMAIN f)
  PROVE  Sums(f, DOMAIN f, Partial(f))
BY SumsExist DEF Partial

LEMMA PartialEmpty ==
  ASSUME NEW f, IsFiniteSet(DOMAIN f)
  PROVE  Partial(f)[{}] = 0
BY PartialSums DEF Sums, Step

LEMMA PartialStep ==
  ASSUME NEW f, IsFiniteSet(DOMAIN f), NEW T, T \subseteq DOMAIN f, T # {}
  PROVE  /\ First(T) \in T
         /\ Partial(f)[T] = f[First(T)] + Partial(f)[T \ {First(T)}]
<1>1. First(T) \in T
  BY DEF First
<1> HIDE DEF First
<1>2. QED
  BY <1>1, PartialSums DEF Sums, Step

LEMMA FirstInduction ==
  ASSUME NEW S, IsFiniteSet(S), NEW G, {} \in G,
         \A T \in SUBSET S : T # {} /\ T \ {First(T)} \in G => T \in G
  PROVE  S \in G
<1>1. ASSUME NEW T \in SUBSET S, \A U \in SUBSET T : U # T => U \in G
      PROVE  T \in G
  <2>1. T # {} => T \ {First(T)} \in SUBSET T /\ T \ {First(T)} # T
    BY DEF First
  <2> QED BY <1>1, <2>1
<1> QED BY <1>1, SubsetInduction

LEMMA SumType ==
  ASSUME NEW D, IsFiniteSet(D), NEW V, V \in {Nat, Int}, NEW f \in [D -> V]
  PROVE  SumFunction(f) \in V
<1> DEFINE G == {T \in SUBSET D : Partial(f)[T] \in V}
<1>1. DOMAIN f = D
  OBVIOUS
<1>2. {} \in G
  BY <1>1, PartialEmpty
<1>3. ASSUME NEW T \in SUBSET D, T # {}, T \ {First(T)} \in G
      PROVE  T \in G
  <2>1. First(T) \in T /\ Partial(f)[T] = f[First(T)] + Partial(f)[T \ {First(T)}]
    BY <1>1, <1>3, PartialStep
  <2>2. f[First(T)] \in V /\ Partial(f)[T \ {First(T)}] \in V
    BY <1>3, <2>1
  <2> QED BY <2>1, <2>2
<1>4. D \in G
  <2> HIDE DEF G
  <2> QED BY <1>2, <1>3, FirstInduction
<1> QED BY <1>1, <1>4, SumIsPartial

\* h is f plus g.
Added(D, f, g, h) ==
  /\ {f, g, h} \subseteq [D -> Int]
  /\ \A x \in D : h[x] = f[x] + g[x]

LEMMA SumPlus ==
  ASSUME NEW D, IsFiniteSet(D), NEW f, NEW g, NEW h, Added(D, f, g, h)
  PROVE  SumFunction(h) = SumFunction(f) + SumFunction(g)
<1> USE DEF Added
<1> DEFINE G == {T \in SUBSET D : /\ Partial(f)[T] \in Int
                                 /\ Partial(g)[T] \in Int
                                 /\ Partial(h)[T] = Partial(f)[T] + Partial(g)[T]}
<1>1. DOMAIN f = D /\ DOMAIN g = D /\ DOMAIN h = D
  OBVIOUS
<1>2. {} \in G
  BY <1>1, PartialEmpty
<1>3. ASSUME NEW T \in SUBSET D, T # {}, T \ {First(T)} \in G
      PROVE  T \in G
  <2> DEFINE x == First(T)
             U == T \ {x}
  <2>1. x \in T /\ Partial(f)[T] = f[x] + Partial(f)[U]
    BY <1>1, <1>3, PartialStep
  <2>2. Partial(g)[T] = g[x] + Partial(g)[U]
    BY <1>1, <1>3, PartialStep
  <2>3. Partial(h)[T] = h[x] + Partial(h)[U]
    BY <1>1, <1>3, PartialStep
  <2>4. f[x] \in Int /\ g[x] \in Int /\ h[x] = f[x] + g[x]
    BY <2>1
  <2>5. /\ Partial(f)[U] \in Int /\ Partial(g)[U] \in Int
        /\ Partial(h)[U] = Partial(f)[U] + Partial(g)[U]
    BY <1>3
  <2> HIDE DEF x, U
  <2> QED BY <2>1, <2>2, <2>3, <2>4, <2>5
<1>4. D \in G
  <2> HIDE DEF G
  <2> QED BY <1>2, <1>3, FirstInduction
<1> QED BY <1>1, <1>4, SumIsPartial

\* All but one of the values are 0.
LEMMA SumOfOne ==
  ASSUME NEW D, IsFiniteSet(D), NEW f \in [D -> Int], NEW j \in D,
         \A x \in D \ {j} : f[x] = 0
  PROVE  SumFunction(f) = f[j]
<1> DEFINE G == {T \in SUBSET D : Partial(f)[T] = IF j \in T THEN f[j] ELSE 0}
<1>1. DOMAIN f = D
  OBVIOUS
<1>2. {} \in G
  BY <1>1, PartialEmpty
<1>3. ASSUME NEW T \in SUBSET D, T # {}, T \ {First(T)} \in G
      PROVE  T \in G
  <2>1. First(T) \in T /\ Partial(f)[T] = f[First(T)] + Partial(f)[T \ {First(T)}]
    BY <1>1, <1>3, PartialStep
  <2>2. f[First(T)] \in Int /\ f[j] \in Int
    BY <2>1
  <2>3. CASE First(T) = j
    <3>1. Partial(f)[T \ {First(T)}] = 0
      BY <1>3, <2>3
    <3> QED BY <2>1, <2>2, <2>3, <3>1
  <2>4. CASE First(T) # j
    <3>1. f[First(T)] = 0
      BY <2>1, <2>4
    <3>2. Partial(f)[T \ {First(T)}] = IF j \in T THEN f[j] ELSE 0
      BY <1>3, <2>4
    <3> QED BY <2>1, <2>2, <3>1, <3>2
  <2> QED BY <2>3, <2>4
<1>4. D \in G
  <2> HIDE DEF G
  <2> QED BY <1>2, <1>3, FirstInduction
<1> QED BY <1>1, <1>4, SumIsPartial

LEMMA SumOfSame ==
  ASSUME NEW D, IsFiniteSet(D), NEW c \in Int, NEW f \in [D -> {c}]
  PROVE  SumFunction(f) = c * Cardinality(D)
<1> DEFINE G == {T \in SUBSET D : Partial(f)[T] = c * Cardinality(T)}
<1>1. DOMAIN f = D
  OBVIOUS
<1>2. {} \in G
  BY <1>1, PartialEmpty, FS_EmptySet
<1>3. ASSUME NEW T \in SUBSET D, T # {}, T \ {First(T)} \in G
      PROVE  T \in G
  <2>1. First(T) \in T /\ Partial(f)[T] = f[First(T)] + Partial(f)[T \ {First(T)}]
    BY <1>1, <1>3, PartialStep
  <2>2. f[First(T)] = c
    BY <2>1
  <2>3. IsFiniteSet(T)
    BY FS_Subset
  <2>4. Cardinality(T) \in Nat /\ Cardinality(T \ {First(T)}) = Cardinality(T) - 1
    BY <2>1, <2>3, FS_CardinalityType, FS_RemoveElement
  <2> DEFINE n == Cardinality(T)
  <2>5. Partial(f)[T] = c + c * (n - 1)
    BY <1>3, <2>1, <2>2, <2>4
  <2>6. n \in Int
    BY <2>4
  <2> HIDE DEF n
  <2>7. c + c * (n - 1) = c * n
    BY <2>6
  <2> QED BY <2>5, <2>7 DEF n
<1>4. D \in G
  <2> HIDE DEF G
  <2> QED BY <1>2, <1>3, FirstInduction
<1> QED BY <1>1, <1>4, SumIsPartial

-----------------------------------------------------------------------------
(* Sums of the scheduler's kind *)

\* One value changes.
LEMMA SumChange ==
  ASSUME NEW D, IsFiniteSet(D), NEW f \in [D -> Int], NEW h \in [D -> Int], NEW j \in D,
         \A x \in D \ {j} : h[x] = f[x]
  PROVE  SumOf(h) = SumOf(f) + (h[j] - f[j])
<1> DEFINE g == [x \in D |-> h[x] - f[x]]
<1>1. g \in [D -> Int] /\ g[j] = h[j] - f[j] /\ \A x \in D \ {j} : g[x] = 0
  OBVIOUS
<1>2. Added(D, f, g, h)
  BY DEF Added
<1> HIDE DEF g
<1>3. SumFunction(h) = SumFunction(f) + SumFunction(g)
  BY <1>1, <1>2, SumPlus
<1>4. SumFunction(g) = g[j]
  BY <1>1, SumOfOne
<1> QED BY <1>1, <1>3, <1>4 DEF SumOf

\* A sum with a positive part is positive.
LEMMA SumPositive ==
  ASSUME NEW D, IsFiniteSet(D), NEW f \in [D -> Nat], NEW j \in D, f[j] > 0
  PROVE  SumOf(f) \in Nat /\ SumOf(f) > 0
<1> DEFINE h == [f EXCEPT ![j] = 0]
<1>1. h \in [D -> Nat] /\ h \in [D -> Int] /\ f \in [D -> Int] /\ h[j] = 0
      /\ \A x \in D \ {j} : h[x] = f[x]
  OBVIOUS
<1>2. SumFunction(h) \in Nat /\ SumFunction(f) \in Nat
  BY <1>1, SumType
<1> HIDE DEF h
<1>3. SumOf(h) = SumOf(f) + (h[j] - f[j])
  BY <1>1, SumChange
<1> QED BY <1>1, <1>2, <1>3 DEF SumOf

\* The same is added everywhere, but for what does not fit.
Spread(n, even, f, g, h) ==
  /\ {f, g, h} \subseteq [1..n -> Int]
  /\ \A j \in 1..n : h[j] + g[j] = f[j] + even

LEMMA SumSpread ==
  ASSUME NEW n \in Nat, NEW even \in Nat, NEW f, NEW g, NEW h, Spread(n, even, f, g, h)
  PROVE  /\ SumOf(h) + SumOf(g) = SumOf(f) + even * n
         /\ {SumOf(f), SumOf(g), SumOf(h)} \subseteq Int
<1> DEFINE D == 1..n
           k == [j \in D |-> even]
           m == [j \in D |-> f[j] + even]
<1>1. IsFiniteSet(D) /\ Cardinality(D) = n
  BY FS_Interval
<1>2. k \in [D -> {even}] /\ Added(D, f, k, m) /\ Added(D, h, g, m)
  BY DEF Added, Spread
<1>3. f \in [D -> Int] /\ g \in [D -> Int] /\ h \in [D -> Int] /\ even \in Int
  BY DEF Spread
<1> HIDE DEF D, k, m
<1>4. SumFunction(k) = even * n
  BY <1>1, <1>2, <1>3, SumOfSame
<1>5. SumFunction(f) \in Int /\ SumFunction(g) \in Int /\ SumFunction(h) \in Int
  BY <1>1, <1>3, SumType
<1>6. SumFunction(m) = SumFunction(f) + SumFunction(k)
  BY <1>1, <1>2, SumPlus
<1>7. SumFunction(m) = SumFunction(h) + SumFunction(g)
  BY <1>1, <1>2, SumPlus
<1> QED BY <1>4, <1>5, <1>6, <1>7 DEF SumOf

\* Division with rest.
LEMMA Division ==
  ASSUME NEW a \in Nat, NEW n \in Nat, n > 0
  PROVE  a \div n \in Nat /\ a % n \in 0..(n - 1) /\ a = (a \div n) * n + (a % n)
<1>1. a \div n \in Nat /\ a % n \in 0..(n - 1)
  OBVIOUS
<1>2. a = n * (a \div n) + (a % n)
  OBVIOUS
<1> QED BY <1>1, <1>2

-----------------------------------------------------------------------------
(* The inductive invariant: types, phases and limits *)

\* Before the loop over the clusters nothing is placed; after it, everything.
\* The second round comes only with a difference, which there is none without
\* weights, and goes on while there is an entry that can change.
Phases ==
  /\ pc \in {"check", "weigh", "error"} => placed = <<>> /\ diff = 0
  /\ pc \notin {"check", "weigh", "error"} => Len(share) = N
  /\ pc \in {"fill", "add", "done"} => Len(placed) = N
  /\ pc \in {"check", "weigh", "error", "place", "fill"} => left = 0 /\ visit = 0
  /\ pc \in {"fill", "add"} => diff # 0
  /\ pc = "add" => order # <<>>
  /\ input.kind \notin Shared => diff = 0 /\ pc \notin {"fill", "add"}

IInv == TypeOK /\ Phases /\ WithinBounds

\* What the code may rely on in a policy.
LEMMA InputFacts ==
  ASSUME input \in Input, WellFormed(input)
  PROVE  /\ N \in Nat
         /\ input.targets \in Seq(Clusters)
         /\ input.replicas \in Nat
         /\ input.failover \in Seq(Failover)
         /\ Len(input.policy) \in Nat
         /\ DOMAIN input.policy = 1..Len(input.policy)
         /\ input.kind \in Kinds
         /\ \A j \in 1..N : /\ input.entry[j] \in 0..Len(input.policy)
                           /\ Entry(j) \in PolicyEntry
                           /\ Entry(j).min <= Entry(j).max
<1>1. /\ input.targets \in Seq(Clusters) /\ input.entry \in Seq(Nat)
      /\ input.policy \in Seq(PolicyEntry) /\ input.failover \in Seq(Failover)
      /\ input.replicas \in Nat /\ input.kind \in Kinds
  BY DEF Input
<1>2. N \in Nat /\ DOMAIN input.entry = 1..N /\ DOMAIN input.policy = 1..Len(input.policy)
      /\ Len(input.policy) \in Nat
  BY <1>1 DEF WellFormed, N
<1>3. ASSUME NEW j \in 1..N
      PROVE  /\ input.entry[j] \in 0..Len(input.policy)
             /\ Entry(j) \in PolicyEntry
             /\ Entry(j).min <= Entry(j).max
  <2>1. input.entry[j] \in 0..Len(input.policy)
    BY <1>2 DEF WellFormed
  <2>2. CASE input.entry[j] = 0
    BY <2>1, <2>2 DEF Entry, NoEntry, PolicyEntry
  <2>3. CASE input.entry[j] # 0
    <3>1. input.entry[j] \in DOMAIN input.policy
      BY <1>2, <2>1, <2>3
    <3>2. Entry(j) = input.policy[input.entry[j]]
      BY <2>3 DEF Entry
    <3> QED BY <1>1, <2>1, <3>1, <3>2 DEF WellFormed
  <2> QED BY <2>2, <2>3
<1> QED BY <1>1, <1>2, <1>3

\* Weights are shared among some clusters, and do not add up to 0.
LEMMA WeightPositive ==
  ASSUME input \in Input, WellFormed(input), input.kind \in Shared
  PROVE  /\ N > 0
         /\ SumOf([j \in 1..N |-> Entry(j).weight]) \in Nat
         /\ SumOf([j \in 1..N |-> Entry(j).weight]) > 0
<1> DEFINE f == [j \in 1..N |-> Entry(j).weight]
<1>1. PICK j \in DOMAIN input.entry : input.entry[j] # 0 /\ input.policy[input.entry[j]].weight > 0
  BY DEF WellFormed
<1>2. DOMAIN input.entry = 1..N /\ N \in Nat
  BY InputFacts DEF Input, WellFormed, N
<1>3. f \in [1..N -> Nat] /\ f[j] > 0
  BY <1>1, <1>2, InputFacts DEF Entry, PolicyEntry
<1>4. IsFiniteSet(1..N)
  BY <1>2, FS_Interval
<1>5. j \in 1..N
  BY <1>1, <1>2
<1> HIDE DEF f
<1>6. SumOf(f) \in Nat /\ SumOf(f) > 0
  BY <1>3, <1>4, <1>5, SumPositive
<1> QED BY <1>2, <1>5, <1>6 DEF f

\* The policy does not change.
LEMMA SameInput ==
  ASSUME input' = input
  PROVE  N' = N /\ \A j : Entry(j)' = Entry(j)
BY DEF N, Entry, NoEntry

-----------------------------------------------------------------------------
(* The failover clusters *)

LEMMA SecondPart ==
  ASSUME NEW V, NEW a \in Seq(V), NEW b \in Seq(V)
  PROVE  /\ Len(a \o b) = Len(a) + Len(b)
         /\ \A i \in 1..Len(b) : (a \o b)[Len(a) + i] = b[i]
<1>1. Len(a) \in Nat /\ Len(b) \in Nat
  OBVIOUS
<1>2. ASSUME NEW i \in 1..Len(b) PROVE (a \o b)[Len(a) + i] = b[i]
  <2>1. Len(a) + i \in 1..(Len(a) + Len(b)) /\ ~(Len(a) + i <= Len(a)) /\ Len(a) + i - Len(a) = i
    BY <1>1
  <2> QED BY <2>1, ConcatProperties
<1> QED BY <1>2, ConcatProperties

\* a begins with c.
Extends(a, c) ==
  /\ Len(c) <= Len(a)
  /\ \A i \in 1..Len(c) : a[i] = c[i]

LEMMA FirstPart ==
  ASSUME NEW V, NEW a \in Seq(V), NEW b \in Seq(V), NEW c \in Seq(V), Extends(a, c)
  PROVE  Extends(a \o b, c)
<1>1. Len(a) \in Nat /\ Len(b) \in Nat /\ Len(c) \in Nat /\ Len(c) <= Len(a)
  BY DEF Extends
<1>2. ASSUME NEW i \in 1..Len(c) PROVE (a \o b)[i] = c[i]
  <2>1. i <= Len(a) /\ i \in 1..(Len(a) + Len(b)) /\ a[i] = c[i]
    BY <1>1 DEF Extends
  <2> QED BY <2>1, ConcatProperties
<1>3. Len(a \o b) = Len(a) + Len(b)
  BY ConcatProperties
<1> QED BY <1>1, <1>2, <1>3 DEF Extends

\* The first n lists of s, one after the other.
Joined(s, n, g) == g = [i \in 1..n |-> IF i = 1 THEN s[i] ELSE g[i - 1] \o s[i]]

Joining(s) == CHOOSE g : Joined(s, Len(s), g)

LEMMA FlattenIsJoining ==
  ASSUME NEW s
  PROVE  FlattenSeq(s) = IF Len(s) = 0 THEN s ELSE Joining(s)[Len(s)]
BY DEF FlattenSeq, Joining, Joined

LEMMA JoiningExists ==
  ASSUME NEW s, Len(s) \in Nat
  PROVE  Joined(s, Len(s), Joining(s))
<1> DEFINE G == {n \in Nat : \E g : Joined(s, n, g)}
<1>1. 0 \in G
  <2>1. Joined(s, 0, [i \in 1..0 |-> 0])
    BY DEF Joined
  <2> QED BY <2>1
<1>2. ASSUME NEW n \in Nat, n \in G PROVE n + 1 \in G
  <2>1. PICK g : Joined(s, n, g)
    BY <1>2
  <2> DEFINE h == [i \in 1..(n + 1) |->
                     IF i <= n THEN g[i] ELSE IF i = 1 THEN s[i] ELSE g[i - 1] \o s[i]]
  <2>2. Joined(s, n + 1, h)
    <3>1. ASSUME NEW i \in 1..(n + 1)
          PROVE  h[i] = IF i = 1 THEN s[i] ELSE h[i - 1] \o s[i]
      <4>1. CASE i <= n
        <5>1. g[i] = IF i = 1 THEN s[i] ELSE g[i - 1] \o s[i]
          <6>1. i \in 1..n
            BY <4>1
          <6> QED BY <2>1, <6>1 DEF Joined
        <5> QED BY <4>1, <5>1
      <4>2. CASE i = n + 1
        BY <4>2
      <4> QED BY <4>1, <4>2
    <3>2. h = [i \in 1..(n + 1) |-> h[i]]
      OBVIOUS
    <3> HIDE DEF h
    <3>3. [i \in 1..(n + 1) |-> h[i]] =
            [i \in 1..(n + 1) |-> IF i = 1 THEN s[i] ELSE h[i - 1] \o s[i]]
      BY <3>1
    <3> QED BY <3>2, <3>3 DEF Joined
  <2> QED BY <2>2
<1>3. Len(s) \in G
  <2> HIDE DEF G
  <2> QED BY <1>1, <1>2, NumberInduction
<1>4. \E g : Joined(s, Len(s), g)
  BY <1>3
<1> QED BY <1>4 DEF Joining

\* Where a list begins.
Before(s, n) == IF n = 1 THEN 0 ELSE Len(Joining(s)[n - 1])

LEMMA JoiningFacts ==
  ASSUME NEW V, NEW s \in Seq(Seq(V)), NEW n \in 1..Len(s)
  PROVE  /\ Joining(s)[n] \in Seq(V)
         /\ Before(s, n) \in Nat
         /\ Len(Joining(s)[n]) = Before(s, n) + Len(s[n])
         /\ \A i \in 1..Len(s[n]) : Joining(s)[n][Before(s, n) + i] = s[n][i]
<1> DEFINE J == Joining(s)
           G == {k \in Nat : k \in 1..Len(s) => J[k] \in Seq(V)}
<1>1. ASSUME NEW k \in 1..Len(s)
      PROVE  J[k] = IF k = 1 THEN s[k] ELSE J[k - 1] \o s[k]
  <2>1. Joined(s, Len(s), J)
    BY JoiningExists
  <2> HIDE DEF J
  <2> QED BY <2>1 DEF Joined
<1>2. 0 \in G
  OBVIOUS
<1>3. ASSUME NEW k \in Nat, k \in G PROVE k + 1 \in G
  <2> SUFFICES ASSUME k + 1 \in 1..Len(s) PROVE J[k + 1] \in Seq(V)
    OBVIOUS
  <2>1. s[k + 1] \in Seq(V)
    OBVIOUS
  <2>2. J[k + 1] = IF k + 1 = 1 THEN s[k + 1] ELSE J[k] \o s[k + 1]
    BY <1>1
  <2>3. k # 0 => J[k] \in Seq(V)
    BY <1>3
  <2> HIDE DEF J
  <2> QED BY <2>1, <2>2, <2>3
<1>4. \A k \in 1..Len(s) : J[k] \in Seq(V)
  <2>1. \A k \in Nat : k \in G
    <3> HIDE DEF G
    <3> QED BY <1>2, <1>3, NumberInduction
  <2> QED BY <2>1
<1>5. J[n] \in Seq(V) /\ s[n] \in Seq(V) /\ (n # 1 => J[n - 1] \in Seq(V))
  BY <1>4
<1>6. J[n] = IF n = 1 THEN s[n] ELSE J[n - 1] \o s[n]
  BY <1>1
<1>7. Before(s, n) = IF n = 1 THEN 0 ELSE Len(J[n - 1])
  BY DEF Before
<1> HIDE DEF J
<1>8. CASE n = 1
  BY <1>5, <1>6, <1>7, <1>8 DEF J
<1>9. CASE n # 1
  <2>1. J[n] = J[n - 1] \o s[n] /\ Before(s, n) = Len(J[n - 1])
    BY <1>6, <1>7, <1>9
  <2>2. /\ Len(J[n - 1] \o s[n]) = Len(J[n - 1]) + Len(s[n])
        /\ \A i \in 1..Len(s[n]) : (J[n - 1] \o s[n])[Len(J[n - 1]) + i] = s[n][i]
    <3>1. J[n - 1] \in Seq(V) /\ s[n] \in Seq(V)
      BY <1>5, <1>9
    <3> QED BY <3>1, SecondPart
  <2>3. Len(J[n - 1]) \in Nat
    BY <1>5, <1>9
  <2> QED BY <1>5, <2>1, <2>2, <2>3 DEF J
<1> QED BY <1>8, <1>9

LEMMA JoiningStep ==
  ASSUME NEW s, Len(s) \in Nat, NEW q \in 1..Len(s), NEW p \in 1..Len(s), p = q + 1
  PROVE  Joining(s)[p] = Joining(s)[q] \o s[p]
<1> DEFINE J == Joining(s)
<1>1. Joined(s, Len(s), J)
  BY JoiningExists
<1> HIDE DEF J
<1>2. J[p] = IF p = 1 THEN s[p] ELSE J[p - 1] \o s[p]
  BY <1>1 DEF Joined
<1>3. p # 1 /\ p - 1 = q
  OBVIOUS
<1> QED BY <1>2, <1>3 DEF J

\* What is joined stays where it is.
LEMMA JoiningGrows ==
  ASSUME NEW V, NEW s \in Seq(Seq(V)), NEW n \in 1..Len(s), NEW m \in n..Len(s)
  PROVE  Extends(Joining(s)[m], Joining(s)[n])
<1> DEFINE J == Joining(s)
           G == {k \in Nat : n + k <= Len(s) => Extends(J[n + k], J[n])}
<1>1. \A k \in 1..Len(s) : J[k] \in Seq(V) /\ s[k] \in Seq(V)
  <2>1. \A k \in 1..Len(s) : J[k] \in Seq(V)
    BY JoiningFacts
  <2> HIDE DEF J
  <2> QED BY <2>1
<1>2. 0 \in G
  <2>1. J[n] \in Seq(V) /\ n + 0 = n
    BY <1>1
  <2> HIDE DEF J
  <2>2. Extends(J[n], J[n])
    BY <2>1 DEF Extends
  <2> QED BY <2>1, <2>2
<1>3. ASSUME NEW k \in Nat, k \in G PROVE k + 1 \in G
  <2> SUFFICES ASSUME n + (k + 1) <= Len(s) PROVE Extends(J[n + (k + 1)], J[n])
    OBVIOUS
  <2>1. n + k \in 1..Len(s) /\ n + (k + 1) \in 1..Len(s) /\ n + (k + 1) # 1 /\ n + (k + 1) - 1 = n + k
    OBVIOUS
  <2>2. J[n + (k + 1)] = J[n + k] \o s[n + (k + 1)]
    <3> DEFINE q == n + k
               p == n + (k + 1)
    <3>1. Len(s) \in Nat /\ p \in 1..Len(s) /\ q \in 1..Len(s) /\ p = q + 1
      BY <2>1
    <3> HIDE DEF p, q
    <3>2. J[p] = J[q] \o s[p]
      BY <3>1, JoiningStep
    <3> QED BY <3>2 DEF p, q
  <2>3. Extends(J[n + k], J[n])
    BY <1>3, <2>1
  <2>4. J[n + k] \in Seq(V) /\ s[n + (k + 1)] \in Seq(V) /\ J[n] \in Seq(V)
    BY <1>1, <2>1
  <2> HIDE DEF J
  <2> QED BY <2>2, <2>3, <2>4, FirstPart
<1>4. m - n \in G
  <2>1. m - n \in Nat
    OBVIOUS
  <2> HIDE DEF G
  <2> QED BY <1>2, <1>3, <2>1, NumberInduction
<1>5. n + (m - n) = m
  OBVIOUS
<1> QED BY <1>4, <1>5

\* The clusters of each list, in the order of the lists.
LEMMA Flattened ==
  ASSUME NEW V, NEW s \in Seq(Seq(V))
  PROVE  /\ FlattenSeq(s) \in Seq(V)
         /\ \A n \in 1..Len(s) :
              /\ Before(s, n) \in Nat
              /\ Before(s, n) + Len(s[n]) <= Len(FlattenSeq(s))
              /\ Before(s, n + 1) = Before(s, n) + Len(s[n])
              /\ \A i \in 1..Len(s[n]) : FlattenSeq(s)[Before(s, n) + i] = s[n][i]
<1>1. CASE Len(s) = 0
  <2>1. s = <<>> /\ FlattenSeq(s) = s
    BY <1>1, FlattenIsJoining
  <2>2. <<>> \in Seq(V)
    OBVIOUS
  <2>3. 1..Len(s) = {}
    BY <1>1
  <2> QED BY <2>1, <2>2, <2>3
<1>2. CASE Len(s) # 0
  <2> DEFINE J == Joining(s)
             l == Len(s)
  <2>1. l \in 1..l /\ FlattenSeq(s) = J[l]
    BY <1>2, FlattenIsJoining
  <2>2. J[l] \in Seq(V)
    BY <2>1, JoiningFacts
  <2>3. ASSUME NEW n \in 1..l
        PROVE  /\ Before(s, n) \in Nat
               /\ Before(s, n) + Len(s[n]) <= Len(J[l])
               /\ Before(s, n + 1) = Before(s, n) + Len(s[n])
               /\ \A i \in 1..Len(s[n]) : J[l][Before(s, n) + i] = s[n][i]
    <3>1. /\ J[n] \in Seq(V)
          /\ Before(s, n) \in Nat
          /\ Len(J[n]) = Before(s, n) + Len(s[n])
          /\ \A i \in 1..Len(s[n]) : J[n][Before(s, n) + i] = s[n][i]
      BY JoiningFacts
    <3>2. /\ Len(J[n]) <= Len(J[l])
          /\ \A i \in 1..Len(J[n]) : J[l][i] = J[n][i]
      <4>1. l \in n..Len(s)
        BY <2>1
      <4> QED BY <4>1, JoiningGrows DEF Extends
    <3>3. Before(s, n + 1) = Len(J[n])
      <4>1. n + 1 # 1 /\ n + 1 - 1 = n
        OBVIOUS
      <4> QED BY <4>1 DEF Before
    <3>4. s[n] \in Seq(V) /\ Len(s[n]) \in Nat
      OBVIOUS
    <3> HIDE DEF J
    <3>5. \A i \in 1..Len(s[n]) : Before(s, n) + i \in 1..Len(J[n])
      BY <3>1, <3>4
    <3> QED BY <3>1, <3>2, <3>3, <3>5
  <2> QED BY <2>1, <2>2, <2>3
<1> QED BY <1>1, <1>2

-----------------------------------------------------------------------------
(* Those that are not online *)

\* Of the first n of c, those that are not in on.
Collected(c, on, n, g) ==
  g = [i \in 0..n |-> IF i = 0 THEN <<>>
                      ELSE IF c[i] \in on THEN g[i - 1]
                      ELSE Append(g[i - 1], c[i])]

LEMMA CollectedExists ==
  ASSUME NEW c, NEW on, NEW l \in Nat
  PROVE  \E g : Collected(c, on, l, g)
<1> DEFINE G == {n \in Nat : \E g : Collected(c, on, n, g)}
<1>1. 0 \in G
  <2> DEFINE g == [i \in 0..0 |-> <<>>]
  <2>1. g = [i \in 0..0 |-> IF i = 0 THEN <<>>
                      ELSE IF c[i] \in on THEN g[i - 1]
                      ELSE Append(g[i - 1], c[i])]
    OBVIOUS
  <2> HIDE DEF g
  <2>2. Collected(c, on, 0, g)
    BY <2>1 DEF Collected
  <2> QED BY <2>2
<1>2. ASSUME NEW n \in Nat, n \in G PROVE n + 1 \in G
  <2>1. PICK g : Collected(c, on, n, g)
    BY <1>2
  <2> DEFINE h == [i \in 0..(n + 1) |->
                     IF i <= n THEN g[i]
                     ELSE IF c[i] \in on THEN g[i - 1]
                     ELSE Append(g[i - 1], c[i])]
  <2>2. ASSUME NEW i \in 0..(n + 1)
        PROVE  h[i] = IF i = 0 THEN <<>>
                      ELSE IF c[i] \in on THEN h[i - 1]
                      ELSE Append(h[i - 1], c[i])
    <3>1. CASE i = 0
      BY <2>1, <3>1 DEF Collected
    <3>2. CASE i # 0 /\ i <= n
      <4>1. h[i] = g[i] /\ h[i - 1] = g[i - 1] /\ i \in 0..n
        BY <3>2
      <4> HIDE DEF h
      <4>2. g[i] = IF c[i] \in on THEN g[i - 1] ELSE Append(g[i - 1], c[i])
        BY <2>1, <3>2, <4>1 DEF Collected
      <4> QED BY <3>2, <4>1, <4>2
    <3>3. CASE i = n + 1
      <4>1. i # 0 /\ h[i - 1] = g[i - 1]
        BY <3>3
      <4>2. h[i] = IF c[i] \in on THEN g[i - 1] ELSE Append(g[i - 1], c[i])
        BY <3>3
      <4> HIDE DEF h
      <4> QED BY <4>1, <4>2
    <3> QED BY <3>1, <3>2, <3>3
  <2>3. h = [i \in 0..(n + 1) |-> h[i]]
    OBVIOUS
  <2> HIDE DEF h
  <2>4. Collected(c, on, n + 1, h)
    BY <2>2, <2>3 DEF Collected
  <2> QED BY <2>4
<1>3. l \in G
  <2> HIDE DEF G
  <2> QED BY <1>1, <1>2, NumberInduction
<1> QED BY <1>3

Lists == [f \in DOMAIN input.failover |-> input.failover[f].members]

LEMMA ListFacts ==
  ASSUME input \in Input, WellFormed(input)
  PROVE  /\ Lists \in Seq(Seq(Clusters))
         /\ Len(Lists) = Len(input.failover)
         /\ FailoverClusters = FlattenSeq(Lists)
         /\ FailoverClusters \in Seq(Clusters)
         /\ Len(FailoverClusters) \in Nat
<1>1. input.failover \in Seq(Failover) /\ Len(input.failover) \in Nat
      /\ DOMAIN input.failover = 1..Len(input.failover)
  BY InputFacts
<1>2. Lists \in [1..Len(input.failover) -> Seq(Clusters)]
  <2>1. ASSUME NEW f \in 1..Len(input.failover)
        PROVE  input.failover[f].members \in Seq(Clusters)
    <3>1. input.failover[f] \in Failover
      BY <1>1
    <3> QED BY <3>1 DEF Failover
  <2> QED BY <1>1, <2>1 DEF Lists
<1>3. Lists \in Seq(Seq(Clusters)) /\ Len(Lists) = Len(input.failover)
  BY <1>1, <1>2
<1>4. FailoverClusters = FlattenSeq(Lists)
  BY DEF FailoverClusters, Lists
<1>5. FlattenSeq(Lists) \in Seq(Clusters)
  BY <1>3, Flattened
<1> QED BY <1>3, <1>4, <1>5

LEMMA UnavailableStep ==
  ASSUME input \in Input, WellFormed(input), NEW n \in 0..Len(FailoverClusters)
  PROVE  Unavailable[n] =
           IF n = 0 THEN <<>>
           ELSE IF FailoverClusters[n] \in input.online THEN Unavailable[n - 1]
           ELSE Append(Unavailable[n - 1], FailoverClusters[n])
<1> DEFINE c == FailoverClusters
           l == Len(c)
           on == input.online
<1>1. l \in Nat
  BY ListFacts
<1>2. Unavailable = CHOOSE g : Collected(c, on, l, g)
  BY DEF Unavailable, Collected
<1> HIDE DEF c
<1>3. \E g : Collected(c, on, l, g)
  BY <1>1, CollectedExists
<1>4. Collected(c, on, l, Unavailable)
  BY <1>2, <1>3
<1>5. n \in 0..l
  BY DEF c
<1>6. Unavailable[n] = IF n = 0 THEN <<>>
                       ELSE IF c[n] \in on THEN Unavailable[n - 1]
                       ELSE Append(Unavailable[n - 1], c[n])
  BY <1>4, <1>5 DEF Collected
<1> QED BY <1>6 DEF c

Down == Clusters \ input.online

LEMMA UnavailableType ==
  ASSUME input \in Input, WellFormed(input), NEW n \in 0..Len(FailoverClusters)
  PROVE  Unavailable[n] \in Seq(Down)
<1> DEFINE l == Len(FailoverClusters)
           G == {k \in Nat : k <= l => Unavailable[k] \in Seq(Down)}
<1>1. l \in Nat /\ FailoverClusters \in Seq(Clusters)
  BY ListFacts
<1>2. 0 \in G
  <2>1. 0 \in 0..Len(FailoverClusters)
    BY <1>1
  <2>2. Unavailable[0] = <<>>
    BY <2>1, UnavailableStep
  <2>3. Unavailable[0] \in Seq(Down)
    BY <2>2
  <2> QED BY <2>3
<1>3. ASSUME NEW k \in Nat, k \in G PROVE k + 1 \in G
  <2> SUFFICES ASSUME k + 1 <= l PROVE Unavailable[k + 1] \in Seq(Down)
    OBVIOUS
  <2> DEFINE m == k + 1
  <2>1. m \in 0..l /\ m # 0 /\ m - 1 = k /\ m \in 1..l
    BY <1>1
  <2>2. Unavailable[k] \in Seq(Down)
    BY <1>1, <1>3, <2>1
  <2> HIDE DEF m
  <2>3. FailoverClusters[m] \in Clusters
    BY <1>1, <2>1
  <2>4. Unavailable[m] = IF FailoverClusters[m] \in input.online THEN Unavailable[m - 1]
                         ELSE Append(Unavailable[m - 1], FailoverClusters[m])
    BY <2>1, UnavailableStep
  <2>5. Unavailable[m] \in Seq(Down)
    <3>1. Unavailable[m - 1] \in Seq(Down)
      BY <2>1, <2>2
    <3>2. CASE FailoverClusters[m] \in input.online
      BY <2>4, <3>1, <3>2
    <3>3. CASE FailoverClusters[m] \notin input.online
      <4>1. FailoverClusters[m] \in Down
        BY <2>3, <3>3 DEF Down
      <4> QED BY <2>4, <3>1, <3>3, <4>1
    <3> QED BY <3>2, <3>3
  <2> QED BY <2>5 DEF m
<1>4. n \in G
  <2> HIDE DEF G
  <2> QED BY <1>1, <1>2, <1>3, NumberInduction
<1> QED BY <1>1, <1>4

LEMMA UnavailableGrows ==
  ASSUME input \in Input, WellFormed(input), NEW n \in 0..Len(FailoverClusters),
         NEW m \in n..Len(FailoverClusters)
  PROVE  Extends(Unavailable[m], Unavailable[n])
<1> DEFINE l == Len(FailoverClusters)
           G == {k \in Nat : n + k <= l => Extends(Unavailable[n + k], Unavailable[n])}
<1>1. l \in Nat /\ n \in 0..l /\ m \in n..l
  BY ListFacts
<1>2. 0 \in G
  <2>1. Unavailable[n] \in Seq(Down) /\ n + 0 = n
    BY <1>1, UnavailableType
  <2>2. Extends(Unavailable[n], Unavailable[n])
    BY <2>1 DEF Extends
  <2> QED BY <2>1, <2>2
<1>3. ASSUME NEW k \in Nat, k \in G PROVE k + 1 \in G
  <2> SUFFICES ASSUME n + (k + 1) <= l PROVE Extends(Unavailable[n + (k + 1)], Unavailable[n])
    OBVIOUS
  <2> DEFINE q == n + k
             p == n + (k + 1)
  <2>1. /\ p \in 0..Len(FailoverClusters) /\ q \in 0..Len(FailoverClusters)
        /\ p # 0 /\ p - 1 = q /\ q <= l
    BY <1>1
  <2>2. Extends(Unavailable[q], Unavailable[n])
    BY <1>3, <2>1
  <2> HIDE DEF p, q
  <2>3. Unavailable[q] \in Seq(Down) /\ Unavailable[n] \in Seq(Down) /\ Unavailable[p] \in Seq(Down)
    BY <2>1, UnavailableType
  <2>4. \/ Unavailable[p] = Unavailable[q]
        \/ Unavailable[p] = Append(Unavailable[q], FailoverClusters[p])
    BY <2>1, UnavailableStep
  <2>5. ASSUME Unavailable[p] = Append(Unavailable[q], FailoverClusters[p])
        PROVE  Extends(Unavailable[p], Unavailable[n])
    <3> DEFINE a == Unavailable[q]
               c == Unavailable[n]
               x == FailoverClusters[p]
    <3>1. a \in Seq(Down) /\ c \in Seq(Down) /\ Extends(a, c)
      BY <2>2, <2>3
    <3> HIDE DEF a, c, x
    <3>2. Len(Append(a, x)) = Len(a) + 1 /\ \A i \in 1..Len(a) : Append(a, x)[i] = a[i]
      BY <3>1
    <3>3. Len(a) \in Nat /\ Len(c) \in Nat
      BY <3>1
    <3>4. Extends(Append(a, x), c)
      BY <3>1, <3>2, <3>3 DEF Extends
    <3> QED BY <2>5, <3>4 DEF a, c, x
  <2>6. Extends(Unavailable[p], Unavailable[n])
    BY <2>2, <2>4, <2>5
  <2> QED BY <2>6 DEF p
<1>4. m - n \in G
  <2>1. m - n \in Nat
    BY <1>1
  <2> HIDE DEF G
  <2> QED BY <1>2, <1>3, <2>1, NumberInduction
<1>5. n + (m - n) = m
  BY <1>1
<1> QED BY <1>1, <1>4, <1>5

LEMMA DownStep ==
  ASSUME input \in Input, WellFormed(input), NEW n \in 1..Len(FailoverClusters),
         NEW u, u = Unavailable[Len(FailoverClusters)],
         NEW k, k = Len(Unavailable[n - 1])
  PROVE  /\ k \in Nat /\ k <= Len(u)
         /\ FailoverClusters[n] \in Clusters
         /\ FailoverClusters[n] \in input.online => Len(Unavailable[n]) = k
         /\ FailoverClusters[n] \notin input.online =>
              Len(Unavailable[n]) = k + 1 /\ k < Len(u) /\ u[k + 1] = FailoverClusters[n]
<1> DEFINE l == Len(FailoverClusters)
           m == n - 1
           a == Unavailable[m]
           x == FailoverClusters[n]
<1>1. /\ l \in Nat /\ FailoverClusters \in Seq(Clusters)
      /\ n \in 0..l /\ m \in 0..l /\ l \in n..l /\ l \in m..l /\ l \in 0..l /\ n # 0
  BY ListFacts
<1>2. x \in Clusters
  BY <1>1
<1>3. Unavailable[n] = IF x \in input.online THEN a ELSE Append(a, x)
  BY <1>1, UnavailableStep
<1> HIDE DEF m
<1>4. a \in Seq(Down) /\ u \in Seq(Down) /\ Unavailable[n] \in Seq(Down)
  BY <1>1, UnavailableType
<1>5. Extends(u, Unavailable[n]) /\ Extends(u, a)
  BY <1>1, UnavailableGrows
<1>6. k = Len(a)
  BY DEF m
<1> HIDE DEF a, x
<1>7. Len(a) \in Nat /\ Len(u) \in Nat /\ Len(a) <= Len(u)
  BY <1>4, <1>5 DEF Extends
<1>8. Len(Append(a, x)) = Len(a) + 1 /\ Append(a, x)[Len(a) + 1] = x
  BY <1>4
<1>9. ASSUME x \notin input.online
      PROVE  Len(Unavailable[n]) = k + 1 /\ k < Len(u) /\ u[k + 1] = x
  <2>1. Unavailable[n] = Append(a, x)
    BY <1>3, <1>9
  <2>2. Extends(u, Append(a, x))
    BY <1>5, <2>1
  <2>3. Len(a) + 1 \in 1..Len(Append(a, x))
    BY <1>7, <1>8
  <2>4. Len(a) + 1 <= Len(u) /\ u[Len(a) + 1] = x
    BY <1>8, <2>2, <2>3 DEF Extends
  <2> QED BY <1>6, <1>7, <1>8, <2>1, <2>4
<1> QED BY <1>2, <1>3, <1>6, <1>7, <1>9 DEF x

-----------------------------------------------------------------------------
(* The steps keep types, phases and limits *)

LEMMA Initial ==
  ASSUME Init
  PROVE  IInv
<1>1. input \in Input /\ WellFormed(input)
  BY InputsAssumption DEF Init
<1>2. N \in Nat
  BY <1>1, InputFacts
<1>3. TypeOK
  BY <1>1, <1>2 DEF Init, TypeOK
<1>4. Phases
  BY DEF Init, Phases
<1>5. WithinBounds
  BY DEF Init, WithinBounds
<1> QED BY <1>3, <1>4, <1>5 DEF IInv

LEMMA CheckClustersKeeps ==
  ASSUME IInv, CheckClusters
  PROVE  IInv'
<1> USE DEF IInv, CheckClusters, rounds
<1>1. input' = input /\ N' = N /\ N \in Nat /\ input \in Input /\ WellFormed(input)
  BY SameInput, InputFacts DEF TypeOK
<1>2. unavailable' \in Seq(Clusters)
  <2> DEFINE l == Len(FailoverClusters)
  <2>1. l \in 0..l
    BY <1>1, ListFacts
  <2>2. Unavailable[l] \in Seq(Down)
    BY <1>1, <2>1, UnavailableType
  <2> HIDE DEF l
  <2>3. Unavailable[l] \in Seq(Clusters)
    BY <2>2 DEF Down
  <2> QED BY <2>3 DEF l
<1>3. TypeOK'
  BY <1>1, <1>2 DEF TypeOK
<1>4. Phases'
  BY <1>1 DEF Phases
<1>5. WithinBounds'
  <2>1. replicas' = replicas /\ \A j : Entry(j)' = Entry(j)
    BY <1>1, SameInput
  <2> QED BY <1>1, <2>1 DEF WithinBounds
<1> QED BY <1>3, <1>4, <1>5

\* A share is a natural number: one is lost only of a quotient that is positive.
LEMMA ShareType ==
  ASSUME input \in Input, WellFormed(input), Weigh
  PROVE  /\ share' \in [1..N -> Nat]
         /\ input.kind \in Shared => diff' \in Int /\ SumOf(share') + diff' = input.replicas
         /\ input.kind \notin Shared => diff' = 0
<1> DEFINE total == SumOf([j \in 1..N |-> Entry(j).weight])
           exact(w) == (input.replicas * w) \div total
           lossy == {w \in {Entry(j).weight : j \in 1..N} :
                       exact(w) > 0 /\ (input.replicas * w) % total = 0}
           given(loses, j) == exact(Entry(j).weight) - (IF Entry(j).weight \in loses THEN 1 ELSE 0)
<1>1. PICK loses \in SUBSET lossy :
        /\ share' = [j \in 1..N |-> IF input.kind \notin Shared THEN input.replicas
                                    ELSE given(loses, j)]
        /\ diff' = IF input.kind \in Shared THEN input.replicas - SumOf(share') ELSE 0
  BY DEF Weigh
<1>2. N \in Nat /\ input.replicas \in Nat /\ \A j \in 1..N : Entry(j).weight \in Nat
  BY InputFacts DEF PolicyEntry
<1>3. input.kind \in Shared => total \in Nat /\ total > 0
  BY WeightPositive
<1>4. ASSUME input.kind \in Shared, NEW j \in 1..N
      PROVE  given(loses, j) \in Nat
  <2> DEFINE w == Entry(j).weight
             a == input.replicas * w
  <2>1. w \in Nat
    BY <1>2
  <2>2. w \in loses => exact(w) > 0
    OBVIOUS
  <2> HIDE DEF w, total
  <2>3. a \in Nat
    BY <1>2, <2>1
  <2> HIDE DEF a
  <2>4. a \div total \in Nat
    BY <1>3, <1>4, <2>3
  <2>5. exact(w) \in Nat
    BY <2>4 DEF a
  <2> HIDE DEF exact
  <2>6. exact(w) - (IF w \in loses THEN 1 ELSE 0) \in Nat
    BY <2>2, <2>5
  <2> QED BY <2>6 DEF w
<1>5. share' \in [1..N -> Nat]
  <2> HIDE DEF given
  <2> QED BY <1>1, <1>2, <1>4
<1>6. SumOf(share') \in Nat
  <2>1. IsFiniteSet(1..N)
    BY <1>2, FS_Interval
  <2> QED BY <1>5, <2>1, SumType DEF SumOf
<1>7. diff' = IF input.kind \in Shared THEN input.replicas - SumOf(share') ELSE 0
  BY <1>1
<1> QED BY <1>2, <1>5, <1>6, <1>7

LEMMA WeighKeeps ==
  ASSUME IInv, Weigh
  PROVE  IInv'
<1> USE DEF IInv, choice, rounds
<1>1. /\ input' = input /\ pc' = "place" /\ pc = "weigh"
      /\ UNCHANGED <<fails, unavailable, cursor, placed, replicas, left, order, pos, visit>>
  BY DEF Weigh
<1>2. input \in Input /\ WellFormed(input) /\ N' = N /\ N \in Nat /\ \A j : Entry(j)' = Entry(j)
  BY <1>1, SameInput, InputFacts DEF TypeOK
<1>3. /\ share' \in [1..N -> Nat]
      /\ diff' \in Int
      /\ input.kind \notin Shared => diff' = 0
  <2>1. /\ share' \in [1..N -> Nat]
        /\ input.kind \in Shared => diff' \in Int
        /\ input.kind \notin Shared => diff' = 0
    BY <1>2, ShareType
  <2> QED BY <2>1
<1>4. share' \in Seq(Nat) /\ Len(share') = N
  BY <1>2, <1>3
<1>5. TypeOK'
  BY <1>1, <1>2, <1>3, <1>4 DEF TypeOK
<1>6. Phases'
  BY <1>1, <1>2, <1>3, <1>4 DEF Phases
<1>7. WithinBounds'
  BY <1>1, <1>2 DEF WithinBounds
<1> QED BY <1>5, <1>6, <1>7

\* One more target is placed, within its limits.
LEMMA Placing ==
  ASSUME IInv, pc = "place", Target \in 1..N, NEW cluster \in Clusters, Place(cluster),
         input' = input
  PROVE  /\ Clamped(Target) \in Nat /\ share[Target] \in Nat
         /\ placed' \in Seq(Clusters) /\ Len(placed') = Target
         /\ replicas' \in Seq(Nat) /\ Len(replicas') = Target
         /\ diff' \in Int
         /\ input.kind \notin Shared => diff' = diff
         /\ WithinBounds'
<1> USE DEF IInv, Target
<1>1. /\ input \in Input /\ WellFormed(input) /\ placed \in Seq(Clusters)
      /\ replicas \in Seq(Nat) /\ Len(replicas) = Len(placed) /\ diff \in Int
      /\ share \in Seq(Nat) /\ Len(share) = N
  BY DEF TypeOK, Phases
<1>2. /\ N \in Nat
      /\ Entry(Target) \in PolicyEntry
      /\ Entry(Target).min <= Entry(Target).max
  BY <1>1, InputFacts
<1>3. share[Target] \in Nat
  BY <1>1
<1>4. /\ Clamped(Target) \in Nat
      /\ input.kind \notin Shared => Clamped(Target) = share[Target]
      /\ input.kind \in Shared => Clamped(Target) \in Entry(Target).min..Entry(Target).max
  BY <1>2, <1>3 DEF Clamped, PolicyEntry
<1>5. Len(placed) \in Nat /\ Len(replicas) \in Nat
  BY <1>1
<1> DEFINE c == Clamped(Target)
<1>6. replicas' = Append(replicas, c) /\ placed' = Append(placed, cluster)
  BY DEF Place
<1>7. diff' = diff + share[Target] - c
  BY DEF Place
<1> HIDE DEF c
<1>8. /\ placed' \in Seq(Clusters) /\ Len(placed') = Target
      /\ replicas' \in Seq(Nat) /\ Len(replicas') = Target
  BY <1>1, <1>4, <1>6 DEF c
<1>9. diff' \in Int /\ (input.kind \notin Shared => diff' = diff)
  BY <1>1, <1>3, <1>4, <1>7 DEF c
<1>10. WithinBounds'
  <2> SUFFICES ASSUME input.kind \in Shared, NEW j \in DOMAIN (replicas')
               PROVE  replicas'[j] \in Entry(j).min..Entry(j).max
    <3>1. \A j : Entry(j)' = Entry(j)
      BY SameInput
    <3> QED BY <3>1 DEF WithinBounds
  <2>1. j \in 1..(Len(replicas) + 1)
    BY <1>1, <1>8
  <2>2. CASE j = Len(replicas) + 1
    <3>1. replicas'[j] = c /\ j = Target
      BY <1>1, <1>6, <2>2
    <3> QED BY <1>4, <3>1 DEF c
  <2>3. CASE j # Len(replicas) + 1
    <3>1. j \in DOMAIN replicas /\ replicas'[j] = replicas[j]
      BY <1>1, <1>6, <2>1, <2>3
    <3> QED BY <3>1 DEF WithinBounds
  <2> QED BY <2>2, <2>3
<1> QED BY <1>3, <1>4, <1>8, <1>9, <1>10

LEMMA PlaceTargetKeeps ==
  ASSUME IInv, PlaceTarget
  PROVE  IInv'
<1> USE DEF IInv, rounds
<1>1. /\ input' = input /\ pc' = pc /\ pc = "place" /\ Target \in 1..N
      /\ UNCHANGED <<fails, unavailable, cursor, share, left, order, pos, visit>>
      /\ Place(input.targets[Target])
  BY DEF PlaceTarget
<1>2. /\ input \in Input /\ WellFormed(input) /\ N' = N /\ N \in Nat
      /\ input.targets \in Seq(Clusters)
  BY <1>1, SameInput, InputFacts DEF TypeOK
<1>3. input.targets[Target] \in Clusters
  BY <1>1, <1>2 DEF N
<1>4. /\ placed' \in Seq(Clusters) /\ Len(placed') = Target
      /\ replicas' \in Seq(Nat) /\ Len(replicas') = Target
      /\ diff' \in Int
      /\ input.kind \notin Shared => diff' = diff
      /\ WithinBounds'
  BY <1>1, <1>3, Placing
<1>5. TypeOK'
  BY <1>1, <1>2, <1>4 DEF TypeOK
<1>6. Phases'
  BY <1>1, <1>2, <1>4 DEF Phases
<1> QED BY <1>4, <1>5, <1>6

\* The cluster the cursor is at, if it is within the policy.
Inside ==
  /\ cursor.failover <= Len(input.failover)
  /\ cursor.set <= Len(input.failover[cursor.failover].members)

List      == input.failover[cursor.failover]
Candidate == List.members[cursor.set]

LEMMA CandidateType ==
  ASSUME TypeOK, Inside
  PROVE  /\ cursor.failover \in 1..Len(input.failover) /\ cursor.set \in 1..Len(List.members)
         /\ List \in Failover
         /\ List.members \in Seq(Clusters) /\ Len(List.members) \in Nat
         /\ Candidate \in Clusters
<1>1. /\ input.failover \in Seq(Failover)
      /\ cursor.failover \in Nat \ {0} /\ cursor.set \in Nat \ {0}
      /\ Len(input.failover) \in Nat
  BY InputFacts DEF TypeOK
<1>2. cursor.failover \in 1..Len(input.failover)
  BY <1>1 DEF Inside
<1>3. List \in Failover
  BY <1>1, <1>2 DEF List
<1>4. List.members \in Seq(Clusters) /\ Len(List.members) \in Nat
  BY <1>3 DEF Failover
<1>5. cursor.set \in 1..Len(List.members)
  BY <1>1, <1>4 DEF Inside, List
<1> QED BY <1>2, <1>3, <1>4, <1>5 DEF Candidate

\* The three ways PlaceFailover can go.
Leave ==
  /\ ~Inside
  /\ pc' = "panic"
  /\ UNCHANGED <<cursor, placed, replicas, diff>>

Take ==
  /\ Inside
  /\ unavailable # <<>> => Candidate # unavailable[cursor.down]
  /\ Place(Candidate)
  /\ cursor' = IF cursor.set < Len(List.members)
                 THEN [cursor EXCEPT !.set = @ + 1]
                 ELSE [cursor EXCEPT !.set = 1, !.failover = @ + 1]
  /\ pc' = pc

SkipIt ==
  /\ Inside
  /\ unavailable # <<>> /\ Candidate = unavailable[cursor.down]
  /\ cursor' = IF List.type = "clusterset"
                 THEN [cursor EXCEPT !.set = @ + 1, !.down = Skip(cursor)]
                 ELSE [cursor EXCEPT !.failover = @ + 1, !.down = Skip(cursor)]
  /\ UNCHANGED <<pc, placed, replicas, diff>>

LEMMA ThreeWays ==
  ASSUME TypeOK, PlaceFailover
  PROVE  /\ pc = "place" /\ Target \in 1..N /\ Target \in fails
         /\ UNCHANGED <<input, fails, unavailable, share, left, order, pos, visit>>
         /\ Leave \/ Take \/ SkipIt
<1>1. /\ cursor.failover \in Nat /\ cursor.set \in Nat /\ Len(input.failover) \in Nat
      /\ pc = "place" /\ Target \in 1..N /\ Target \in fails
      /\ UNCHANGED <<input, fails, unavailable, share, left, order, pos, visit>>
  BY InputFacts DEF TypeOK, PlaceFailover, rounds
<1>2. CASE ~Inside
  <2>1. \/ cursor.failover > Len(input.failover)
        \/ cursor.set > Len(input.failover[cursor.failover].members)
    <3>1. CASE cursor.failover <= Len(input.failover)
      <4>1. input.failover[cursor.failover] \in Failover
        BY <1>1, <3>1, InputFacts DEF TypeOK
      <4>2. Len(input.failover[cursor.failover].members) \in Nat
        BY <4>1 DEF Failover
      <4> QED BY <1>1, <1>2, <3>1, <4>2 DEF Inside
    <3> QED BY <1>1, <3>1
  <2> QED BY <1>1, <1>2, <2>1 DEF PlaceFailover, Leave
<1>3. CASE Inside
  <2>1. ~(\/ cursor.failover > Len(input.failover)
          \/ cursor.set > Len(input.failover[cursor.failover].members))
    BY <1>1, <1>3, CandidateType DEF Inside, List
  <2> QED BY <1>1, <1>3, <2>1 DEF PlaceFailover, Take, SkipIt, List, Candidate
<1> QED BY <1>1, <1>2, <1>3

Cursors == [failover: Nat \ {0}, set: Nat \ {0}, down: Nat \ {0}]

\* Where the cursor goes: on in the list, or to the next list.
Along ==
  /\ cursor'.failover = cursor.failover
  /\ cursor'.set = cursor.set + 1

Onward ==
  /\ cursor'.failover = cursor.failover + 1
  /\ \/ cursor'.set = 1 /\ ~(cursor.set < Len(List.members))
     \/ cursor'.set = cursor.set /\ List.type # "clusterset"

LEMMA CursorMoves ==
  ASSUME NEW c \in Cursors, NEW d \in Nat \ {0}
  PROVE  /\ LET r == [c EXCEPT !.set = @ + 1]
            IN r \in Cursors /\ r.failover = c.failover /\ r.set = c.set + 1 /\ r.down = c.down
         /\ LET r == [c EXCEPT !.set = 1, !.failover = @ + 1]
            IN r \in Cursors /\ r.failover = c.failover + 1 /\ r.set = 1 /\ r.down = c.down
         /\ LET r == [c EXCEPT !.set = @ + 1, !.down = d]
            IN r \in Cursors /\ r.failover = c.failover /\ r.set = c.set + 1 /\ r.down = d
         /\ LET r == [c EXCEPT !.failover = @ + 1, !.down = d]
            IN r \in Cursors /\ r.failover = c.failover + 1 /\ r.set = c.set /\ r.down = d
<1>1. c.failover + 1 \in Nat \ {0} /\ c.set + 1 \in Nat \ {0} /\ 1 \in Nat \ {0}
  BY DEF Cursors
<1> DEFINE f == c.failover + 1
           s == c.set + 1
<1> HIDE DEF f, s
<1>2. f \in Nat \ {0} /\ s \in Nat \ {0} /\ 1 \in Nat \ {0}
  BY <1>1 DEF f, s
<1>3. LET r == [c EXCEPT !.set = s]
      IN r \in Cursors /\ r.failover = c.failover /\ r.set = s /\ r.down = c.down
  BY <1>2 DEF Cursors
<1>4. LET r == [c EXCEPT !.set = 1, !.failover = f]
      IN r \in Cursors /\ r.failover = f /\ r.set = 1 /\ r.down = c.down
  BY <1>2 DEF Cursors
<1>5. LET r == [c EXCEPT !.set = s, !.down = d]
      IN r \in Cursors /\ r.failover = c.failover /\ r.set = s /\ r.down = d
  BY <1>2 DEF Cursors
<1>6. LET r == [c EXCEPT !.failover = f, !.down = d]
      IN r \in Cursors /\ r.failover = f /\ r.set = c.set /\ r.down = d
  BY <1>2 DEF Cursors
<1> QED BY <1>3, <1>4, <1>5, <1>6, Zenon DEF f, s

LEMMA CursorStep ==
  ASSUME TypeOK, Take \/ SkipIt
  PROVE  /\ cursor' \in Cursors
         /\ Along \/ Onward
         /\ Take => cursor'.down = cursor.down
         /\ SkipIt => cursor'.down = Skip(cursor)
<1>1. cursor \in Cursors /\ Len(unavailable) \in Nat
  BY DEF TypeOK, Cursors
<1>2. Skip(cursor) \in Nat \ {0}
  BY <1>1 DEF Skip, Cursors
<1>3. ~(Take /\ SkipIt)
  BY DEF Take, SkipIt
<1> DEFINE s == Skip(cursor)
<1> HIDE DEF s
<1>4. CASE Take
  <2>1. CASE cursor.set < Len(List.members)
    <3>1. cursor' = [cursor EXCEPT !.set = @ + 1]
      BY <1>4, <2>1 DEF Take
    <3> QED BY <1>1, <1>2, <1>3, <1>4, <3>1, CursorMoves DEF Along
  <2>2. CASE ~(cursor.set < Len(List.members))
    <3>1. cursor' = [cursor EXCEPT !.set = 1, !.failover = @ + 1]
      BY <1>4, <2>2 DEF Take
    <3> QED BY <1>1, <1>2, <1>3, <1>4, <2>2, <3>1, CursorMoves DEF Onward
  <2> QED BY <2>1, <2>2
<1>5. CASE SkipIt
  <2>1. CASE List.type = "clusterset"
    <3>1. cursor' = [cursor EXCEPT !.set = @ + 1, !.down = s]
      BY <1>5, <2>1 DEF SkipIt, s
    <3>2. s \in Nat \ {0}
      BY <1>2 DEF s
    <3> QED BY <1>1, <1>3, <1>5, <3>1, <3>2, CursorMoves DEF Along, s
  <2>2. CASE List.type # "clusterset"
    <3>1. cursor' = [cursor EXCEPT !.failover = @ + 1, !.down = s]
      BY <1>5, <2>2 DEF SkipIt, s
    <3>2. s \in Nat \ {0}
      BY <1>2 DEF s
    <3> QED BY <1>1, <1>3, <1>5, <2>2, <3>1, <3>2, CursorMoves DEF Onward, s
  <2> QED BY <2>1, <2>2
<1> QED BY <1>4, <1>5

LEMMA PlaceFailoverKeeps ==
  ASSUME IInv, PlaceFailover
  PROVE  IInv'
<1> USE DEF IInv
<1>1. /\ pc = "place" /\ Target \in 1..N
      /\ UNCHANGED <<input, fails, unavailable, share, left, order, pos, visit>>
      /\ Leave \/ Take \/ SkipIt
  BY ThreeWays
<1>2. input \in Input /\ WellFormed(input) /\ N' = N /\ N \in Nat /\ \A j : Entry(j)' = Entry(j)
  BY <1>1, SameInput, InputFacts DEF TypeOK
<1>3. CASE Leave
  <2>1. TypeOK'
    BY <1>1, <1>2, <1>3 DEF TypeOK, Leave
  <2>2. Phases'
    BY <1>1, <1>2, <1>3 DEF Phases, Leave
  <2>3. WithinBounds'
    BY <1>1, <1>2, <1>3 DEF WithinBounds, Leave
  <2> QED BY <2>1, <2>2, <2>3
<1>4. CASE Take
  <2>1. /\ placed' \in Seq(Clusters) /\ Len(placed') = Target
        /\ replicas' \in Seq(Nat) /\ Len(replicas') = Target
        /\ diff' \in Int
        /\ input.kind \notin Shared => diff' = diff
        /\ WithinBounds'
    <3>1. Candidate \in Clusters
      BY <1>4, CandidateType DEF Take
    <3> QED BY <1>1, <1>4, <3>1, Placing DEF Take
  <2>2. cursor' \in Cursors
    BY <1>4, CursorStep
  <2>3. TypeOK'
    BY <1>1, <1>2, <1>4, <2>1, <2>2 DEF TypeOK, Take, Cursors
  <2>4. Phases'
    BY <1>1, <1>2, <1>4, <2>1 DEF Phases, Take
  <2> QED BY <2>1, <2>3, <2>4
<1>5. CASE SkipIt
  <2>1. cursor' \in Cursors
    BY <1>5, CursorStep
  <2>2. TypeOK'
    BY <1>1, <1>2, <1>5, <2>1 DEF TypeOK, SkipIt, Cursors
  <2>3. Phases'
    BY <1>1, <1>2, <1>5 DEF Phases, SkipIt
  <2>4. WithinBounds'
    BY <1>1, <1>2, <1>5 DEF WithinBounds, SkipIt
  <2> QED BY <2>2, <2>3, <2>4
<1> QED BY <1>1, <1>3, <1>4, <1>5

LEMMA PlacedKeeps ==
  ASSUME IInv, Placed
  PROVE  IInv'
<1> USE DEF IInv, Placed, choice, rounds
<1>1. input \in Input /\ WellFormed(input) /\ N' = N /\ N \in Nat /\ \A j : Entry(j)' = Entry(j)
  BY SameInput, InputFacts DEF TypeOK
<1>2. TypeOK'
  BY <1>1 DEF TypeOK
<1>3. Phases'
  BY <1>1 DEF Phases, TypeOK
<1>4. WithinBounds'
  BY <1>1 DEF WithinBounds
<1> QED BY <1>2, <1>3, <1>4

\* What the second round starts from.
LEMMA SecondRound ==
  ASSUME IInv, pc \in {"fill", "add"}
  PROVE  /\ input \in Input /\ WellFormed(input) /\ input.kind \in Shared
         /\ N \in Nat /\ N > 0 /\ Len(input.policy) > 0
         /\ replicas \in [1..N -> Nat] /\ Len(replicas) = N
         /\ diff \in Int /\ diff # 0
         /\ Sign = IF diff > 0 THEN 1 ELSE -1
         /\ \A j \in 1..N : /\ Entry(j).min \in Nat /\ Entry(j).max \in Nat
                           /\ replicas[j] \in Entry(j).min..Entry(j).max
                           /\ Room(j) \in Nat
                           /\ Limit(j) = replicas[j] + Sign * Room(j)
                           /\ Limit(j) \in Entry(j).min..Entry(j).max
<1> USE DEF IInv
<1>1. /\ input \in Input /\ WellFormed(input) /\ input.kind \in Shared
      /\ diff \in Int /\ diff # 0 /\ Len(placed) = N
      /\ replicas \in Seq(Nat) /\ Len(replicas) = Len(placed)
  BY DEF TypeOK, Phases
<1>2. N \in Nat /\ N > 0 /\ Len(input.policy) \in Nat
  BY <1>1, InputFacts, WeightPositive
<1>3. replicas \in [1..N -> Nat] /\ Len(replicas) = N
  BY <1>1, <1>2
<1>4. Len(input.policy) > 0
  <2>1. PICK j \in DOMAIN input.entry : input.entry[j] # 0
    BY <1>1 DEF WellFormed
  <2>2. input.entry[j] \in 0..Len(input.policy)
    BY <1>1, <2>1 DEF WellFormed
  <2> QED BY <1>2, <2>1, <2>2
<1>5. Sign = IF diff > 0 THEN 1 ELSE -1
  BY DEF Sign
<1>6. ASSUME NEW j \in 1..N
      PROVE  /\ Entry(j).min \in Nat /\ Entry(j).max \in Nat
             /\ replicas[j] \in Entry(j).min..Entry(j).max
             /\ Room(j) \in Nat
             /\ Limit(j) = replicas[j] + Sign * Room(j)
             /\ Limit(j) \in Entry(j).min..Entry(j).max
  <2>1. Entry(j).min \in Nat /\ Entry(j).max \in Nat
    BY <1>1, InputFacts DEF PolicyEntry
  <2>2. replicas[j] \in Entry(j).min..Entry(j).max
    BY <1>1, <1>3 DEF WithinBounds
  <2>3. CASE diff > 0
    BY <2>1, <2>2, <2>3 DEF Room, Limit, Sign
  <2>4. CASE ~(diff > 0)
    BY <2>1, <2>2, <2>4 DEF Room, Limit, Sign
  <2> QED BY <2>1, <2>2, <2>3, <2>4
<1> QED BY <1>1, <1>2, <1>3, <1>4, <1>5, <1>6

\* A target with r replicas is given e of them, or as many as fit.
LEMMA PartGiven ==
  ASSUME NEW r \in Nat, NEW lo \in Nat, NEW hi \in Nat, NEW e \in Nat, r \in lo..hi,
         NEW fits, fits <=> hi - r >= e,
         NEW u, u = IF fits THEN 0 ELSE e - (hi - r),
         NEW h, h = IF fits THEN r + e ELSE hi
  PROVE  u \in Nat /\ h \in Nat /\ h \in lo..hi /\ h + u = r + e
OBVIOUS

\* What target j is given or what is taken from it.
Part(j) ==
  /\ Unfit(j) \in Nat
  /\ replicas'[j] \in Nat
  /\ replicas'[j] \in Entry(j).min..Entry(j).max
  /\ diff > 0 => replicas'[j] + Unfit(j) = replicas[j] + Even
  /\ ~(diff > 0) => replicas[j] + Unfit(j) = replicas'[j] + Even

\* An equal part: what does not fit is left.
LEMMA Filling ==
  ASSUME IInv, Fill
  PROVE  /\ Even \in Nat /\ Rest \in Nat /\ diff * Sign = Even * N + Rest
         /\ replicas' \in [1..N -> Nat]
         /\ \A j \in 1..N : Part(j)
         /\ SumOf([j \in 1..N |-> Unfit(j)]) \in Nat
         /\ left' \in Nat
<1>1. /\ N \in Nat /\ N > 0
      /\ replicas \in [1..N -> Nat]
      /\ diff \in Int /\ diff # 0
      /\ Sign = IF diff > 0 THEN 1 ELSE -1
      /\ \A j \in 1..N : /\ Entry(j).min \in Nat /\ Entry(j).max \in Nat
                        /\ replicas[j] \in Entry(j).min..Entry(j).max
                        /\ Room(j) \in Nat
                        /\ Limit(j) = replicas[j] + Sign * Room(j)
                        /\ Limit(j) \in Entry(j).min..Entry(j).max
  <2>1. pc \in {"fill", "add"}
    BY DEF Fill
  <2> QED BY <2>1, SecondRound
<1>2. diff * Sign \in Nat
  BY <1>1
<1>3. Even \in Nat /\ Rest \in Nat /\ diff * Sign = Even * N + Rest
  <2> DEFINE a == diff * Sign
  <2>1. a \in Nat
    BY <1>2
  <2> HIDE DEF a
  <2>2. a \div N \in Nat /\ a % N \in 0..(N - 1) /\ a = (a \div N) * N + (a % N)
    BY <1>1, <2>1, Division
  <2>3. Even = a \div N /\ Rest = a % N
    BY DEF Even, Rest, a
  <2> QED BY <1>1, <2>2, <2>3 DEF a
<1>4. replicas' = [j \in 1..N |-> IF Fits(j) THEN replicas[j] + Sign * Even ELSE Limit(j)]
      /\ left' = Rest + SumOf([j \in 1..N |-> Unfit(j)])
  BY DEF Fill
<1>5. ASSUME NEW j \in 1..N
      PROVE  Part(j)
  <2>0. /\ Entry(j).min \in Nat /\ Entry(j).max \in Nat /\ replicas[j] \in Nat
        /\ replicas[j] \in Entry(j).min..Entry(j).max
    BY <1>1
  <2>1. replicas'[j] = IF Fits(j) THEN replicas[j] + Sign * Even ELSE Limit(j)
    BY <1>4
  <2>2. Fits(j) <=> Room(j) >= Even
    BY DEF Fits
  <2>3. Unfit(j) = IF Fits(j) THEN 0 ELSE Even - Room(j)
    BY DEF Unfit
  <2>4. CASE diff > 0
    <3>1. Sign * Even = Even /\ Room(j) = Entry(j).max - replicas[j] /\ Limit(j) = Entry(j).max
      BY <1>1, <1>3, <2>4 DEF Room, Limit
    <3>2. replicas'[j] = IF Fits(j) THEN replicas[j] + Even ELSE Entry(j).max
      BY <2>1, <3>1
    <3>3. /\ Unfit(j) \in Nat /\ replicas'[j] \in Nat
          /\ replicas'[j] \in Entry(j).min..Entry(j).max
          /\ replicas'[j] + Unfit(j) = replicas[j] + Even
      BY <1>3, <2>0, <2>2, <2>3, <3>1, <3>2, PartGiven
    <3> QED BY <2>4, <3>3 DEF Part
  <2>5. CASE ~(diff > 0)
    <3>1. Sign * Even = 0 - Even /\ Room(j) = replicas[j] - Entry(j).min /\ Limit(j) = Entry(j).min
      BY <1>1, <1>3, <2>5 DEF Room, Limit
    <3>2. replicas'[j] = IF Fits(j) THEN replicas[j] - Even ELSE Entry(j).min
      BY <1>3, <2>0, <2>1, <3>1
    <3>3. /\ Unfit(j) \in Nat /\ replicas'[j] \in Nat
          /\ replicas'[j] \in Entry(j).min..Entry(j).max
          /\ replicas[j] + Unfit(j) = replicas'[j] + Even
      <4>1. Fits(j) <=> replicas[j] - Entry(j).min >= Even
        BY <2>2, <3>1
      <4>2. Unfit(j) = IF Fits(j) THEN 0 ELSE Even - (replicas[j] - Entry(j).min)
        BY <2>3, <3>1
      <4>3. Even \in Nat
        BY <1>3
      <4> DEFINE r == replicas[j]
                 u == Unfit(j)
                 h == replicas'[j]
                 lo == Entry(j).min
                 hi == Entry(j).max
      <4>4. r \in Nat /\ lo \in Nat /\ hi \in Nat /\ r \in lo..hi
        BY <2>0
      <4>5. Fits(j) <=> r - lo >= Even
        BY <4>1
      <4>6. u = IF Fits(j) THEN 0 ELSE Even - (r - lo)
        BY <4>2
      <4>7. h = IF Fits(j) THEN r - Even ELSE lo
        BY <3>2
      <4> HIDE DEF r, u, h, lo, hi
      <4>8. u \in Nat /\ h \in Nat /\ h \in lo..hi /\ r + u = h + Even
        BY <4>3, <4>4, <4>5, <4>6, <4>7
      <4> QED BY <4>8 DEF r, u, h, lo, hi
    <3> QED BY <2>5, <3>3 DEF Part
  <2> QED BY <2>4, <2>5
<1>6. replicas' \in [1..N -> Nat]
  BY <1>4, <1>5 DEF Part
<1>7. SumOf([j \in 1..N |-> Unfit(j)]) \in Nat
  <2> DEFINE g == [j \in 1..N |-> Unfit(j)]
  <2>1. g \in [1..N -> Nat]
    BY <1>5 DEF Part
  <2>3. IsFiniteSet(1..N)
    BY <1>1, FS_Interval
  <2> HIDE DEF g
  <2>2. SumOf(g) \in Nat
    BY <2>1, <2>3, SumType DEF SumOf
  <2> QED BY <2>2 DEF g
<1> QED BY <1>3, <1>4, <1>5, <1>6, <1>7

LEMMA FillKeeps ==
  ASSUME IInv, Fill
  PROVE  IInv'
<1> USE DEF IInv, choice
<1>1. /\ input' = input /\ pc' = "add" /\ pc = "fill"
      /\ UNCHANGED <<fails, unavailable, cursor, placed, share, diff, visit>>
      /\ pos' = IF input.kind = "weighted" THEN 1 ELSE 0
  BY DEF Fill
<1>2. /\ input \in Input /\ WellFormed(input) /\ N' = N /\ N \in Nat
      /\ Len(input.policy) > 0 /\ Len(placed) = N /\ \A j : Entry(j)' = Entry(j)
  BY <1>1, SameInput, SecondRound DEF Phases
<1>3. order' \in Seq(DOMAIN input.policy) /\ Len(order') = Len(input.policy)
      /\ Len(input.policy) \in Nat
  <2>1. order' \in [1..Len(input.policy) -> 1..Len(input.policy)]
    BY DEF Fill
  <2>2. Len(input.policy) \in Nat /\ DOMAIN input.policy = 1..Len(input.policy)
    BY <1>2, InputFacts
  <2> QED BY <2>1, <2>2
<1>4. /\ replicas' \in [1..N -> Nat] /\ left' \in Nat
      /\ \A j \in 1..N : replicas'[j] \in Entry(j).min..Entry(j).max
  <2>1. replicas' \in [1..N -> Nat] /\ left' \in Nat
    BY Filling
  <2>2. ASSUME NEW j \in 1..N PROVE replicas'[j] \in Entry(j).min..Entry(j).max
    BY Filling DEF Part
  <2> QED BY <2>1, <2>2
<1>5. replicas' \in Seq(Nat) /\ Len(replicas') = N
  BY <1>2, <1>4
<1>6. TypeOK'
  BY <1>1, <1>2, <1>3, <1>4, <1>5 DEF TypeOK
<1>7. Phases'
  BY <1>1, <1>2, <1>3 DEF Phases
<1>8. WithinBounds'
  BY <1>1, <1>2, <1>4 DEF WithinBounds
<1> QED BY <1>6, <1>7, <1>8

LEMMA StartPassKeeps ==
  ASSUME IInv, StartPass
  PROVE  IInv'
<1> USE DEF IInv, choice
<1>1. /\ input' = input /\ pc = "add" /\ pc' \in {"done", "add"}
      /\ UNCHANGED <<fails, unavailable, cursor, placed, share, replicas, diff, left, order>>
      /\ visit' \in {visit, 1}
      /\ \/ pos' = pos
         \/ pos' = 1
         \/ pos # Len(order) /\ pos' = pos + 1
  BY DEF StartPass
<1>2. /\ input \in Input /\ WellFormed(input) /\ N' = N /\ N \in Nat /\ N > 0
      /\ \A j : Entry(j)' = Entry(j)
  BY <1>1, SameInput, SecondRound
<1>3. order \in Seq(DOMAIN input.policy) /\ Len(order) \in Nat /\ Len(order) > 0
      /\ pos \in 0..Len(order)
  BY <1>1 DEF TypeOK, Phases
<1>4. pos' \in 0..Len(order)
  BY <1>1, <1>3
<1>5. TypeOK'
  BY <1>1, <1>2, <1>4 DEF TypeOK
<1>6. Phases'
  BY <1>1, <1>2 DEF Phases
<1>7. WithinBounds'
  BY <1>1, <1>2 DEF WithinBounds
<1> QED BY <1>5, <1>6, <1>7

LEMMA NextVisitType ==
  ASSUME N \in Nat, visit \in 0..N
  PROVE  NextVisit \in 0..N
BY DEF NextVisit

LEMMA PassByKeeps ==
  ASSUME IInv, PassBy
  PROVE  IInv'
<1> USE DEF IInv, choice
<1>1. /\ input' = input /\ pc = "add" /\ pc' \in {"panic", "add"}
      /\ UNCHANGED <<fails, unavailable, cursor, placed, share, replicas, diff, left, order, pos>>
      /\ visit' \in {visit, 0, NextVisit}
  BY DEF PassBy
<1>2. /\ input \in Input /\ WellFormed(input) /\ N' = N /\ N \in Nat
      /\ \A j : Entry(j)' = Entry(j)
  BY <1>1, SameInput, SecondRound
<1>3. visit' \in 0..N
  <2>1. visit \in 0..N
    BY DEF TypeOK
  <2> QED BY <1>1, <1>2, <2>1, NextVisitType
<1>4. TypeOK'
  BY <1>1, <1>2, <1>3 DEF TypeOK
<1>5. Phases'
  BY <1>1, <1>2 DEF Phases
<1>6. WithinBounds'
  BY <1>1, <1>2 DEF WithinBounds
<1> QED BY <1>4, <1>5, <1>6

\* Where a turn is, and what a target with room left gets.
LEMMA TurnFacts ==
  ASSUME IInv, Turn
  PROVE  /\ pc = "add" /\ visit \in 1..N /\ pos \in 1..Len(order) /\ Len(order) \in Nat
         /\ order \in Seq(DOMAIN input.policy)
         /\ input.entry[visit] = order[pos]
<1>1. N \in Nat /\ pc = "add" /\ visit > 0 /\ pos # 0
  BY SecondRound DEF Turn
<1>2. visit \in 0..N /\ pos \in 0..Len(order) /\ order \in Seq(DOMAIN input.policy)
  BY DEF IInv, TypeOK
<1>3. Len(order) \in Nat
  BY <1>2
<1> QED BY <1>1, <1>2, <1>3 DEF Turn

LEMMA Adding ==
  ASSUME IInv, AddOne
  PROVE  /\ replicas' \in [1..N -> Nat]
         /\ replicas'[visit] = replicas[visit] + Sign
         /\ \A j \in 1..N \ {visit} : replicas'[j] = replicas[j]
         /\ \A j \in 1..N : replicas'[j] \in Entry(j).min..Entry(j).max
<1>1. /\ N \in Nat /\ replicas \in [1..N -> Nat] /\ Sign \in {1, -1} /\ diff \in Int
      /\ Sign = IF diff > 0 THEN 1 ELSE -1
      /\ \A j \in 1..N : /\ Entry(j).min \in Nat /\ Entry(j).max \in Nat
                        /\ replicas[j] \in Entry(j).min..Entry(j).max
  <2>1. pc \in {"fill", "add"}
    BY DEF AddOne, Turn
  <2> QED BY <2>1, SecondRound
<1>2. visit \in 1..N
  BY TurnFacts DEF AddOne
<1>3. replicas' = [replicas EXCEPT ![visit] = @ + Sign] /\ Room(visit) > 0
  BY DEF AddOne
<1>4. replicas[visit] + Sign \in Entry(visit).min..Entry(visit).max
      /\ replicas[visit] + Sign \in Nat
  <2> DEFINE r == replicas[visit]
             lo == Entry(visit).min
             hi == Entry(visit).max
  <2>1. r \in lo..hi /\ lo \in Nat /\ hi \in Nat
    BY <1>1, <1>2
  <2>2. IF diff > 0 THEN hi - r > 0 ELSE r - lo > 0
    BY <1>3 DEF Room
  <2> HIDE DEF r, lo, hi
  <2>3. r + Sign \in lo..hi /\ r + Sign \in Nat
    BY <1>1, <2>1, <2>2
  <2> QED BY <2>3 DEF r, lo, hi
<1>5. /\ replicas' \in [1..N -> Nat]
      /\ replicas'[visit] = replicas[visit] + Sign
      /\ \A j \in 1..N \ {visit} : replicas'[j] = replicas[j]
  BY <1>1, <1>2, <1>3, <1>4
<1>6. ASSUME NEW j \in 1..N PROVE replicas'[j] \in Entry(j).min..Entry(j).max
  BY <1>1, <1>4, <1>5
<1> QED BY <1>5, <1>6

LEMMA AddOneKeeps ==
  ASSUME IInv, AddOne
  PROVE  IInv'
<1> USE DEF IInv, choice
<1>1. /\ input' = input /\ pc' = pc /\ pc = "add"
      /\ UNCHANGED <<fails, unavailable, cursor, placed, share, diff, order>>
      /\ left' = left - 1 /\ visit' = NextVisit
      /\ \/ pos' = pos
         \/ pos' = 1
         \/ pos # Len(order) /\ pos' = pos + 1
  BY DEF AddOne, Turn
<1>2. /\ input \in Input /\ WellFormed(input) /\ N' = N /\ N \in Nat
      /\ \A j : Entry(j)' = Entry(j)
  BY <1>1, SameInput, SecondRound
<1>3. /\ replicas' \in [1..N -> Nat]
      /\ \A j \in 1..N : replicas'[j] \in Entry(j).min..Entry(j).max
  BY Adding
<1>4. replicas' \in Seq(Nat) /\ Len(replicas') = N
  BY <1>2, <1>3
<1>5. pos' \in 0..Len(order)
  <2>1. pos \in 1..Len(order) /\ Len(order) \in Nat
    BY TurnFacts DEF AddOne
  <2> QED BY <1>1, <2>1
<1>6. visit' \in 0..N
  BY <1>1, <1>2, NextVisitType DEF TypeOK
<1>7. left' \in Int /\ Len(placed) = N
  BY <1>1 DEF TypeOK, Phases
<1>8. TypeOK'
  BY <1>1, <1>2, <1>4, <1>5, <1>6, <1>7 DEF TypeOK
<1>9. Phases'
  BY <1>1, <1>2 DEF Phases
<1>10. WithinBounds'
  BY <1>2, <1>3 DEF WithinBounds
<1> QED BY <1>8, <1>9, <1>10

\* A sequence without its i-th element.
LEMMA Removed ==
  ASSUME NEW V, NEW s \in Seq(V), NEW i \in 1..Len(s)
  PROVE  /\ RemoveAt(s, i) \in Seq(V) /\ Len(RemoveAt(s, i)) = Len(s) - 1
         /\ \A k \in 1..(Len(s) - 1) : RemoveAt(s, i)[k] = IF k < i THEN s[k] ELSE s[k + 1]
<1> DEFINE a == SubSeq(s, 1, i - 1)
           b == SubSeq(s, i + 1, Len(s))
<1>1. Len(s) \in Nat
  OBVIOUS
<1>2. /\ a \in Seq(V) /\ Len(a) = i - 1 /\ \A k \in 1..(i - 1) : a[k] = s[k]
  <2>1. \A k \in 1..(i - 1) : s[k] \in V
    BY <1>1
  <2> QED BY <1>1, <2>1
<1>3. /\ b \in Seq(V) /\ Len(b) = Len(s) - i /\ \A k \in 1..(Len(s) - i) : b[k] = s[k + i]
  <2>1. \A k \in (i + 1)..Len(s) : s[k] \in V
    BY <1>1
  <2> QED BY <1>1, <2>1
<1>4. RemoveAt(s, i) = a \o b
  BY DEF RemoveAt
<1> HIDE DEF a, b
<1>5. a \o b \in Seq(V) /\ Len(a \o b) = Len(s) - 1
  <2>1. a \in Seq(V) /\ b \in Seq(V)
    BY <1>2, <1>3
  <2>2. a \o b \in Seq(V) /\ Len(a \o b) = Len(a) + Len(b)
    BY <2>1
  <2>3. Len(a) = i - 1 /\ Len(b) = Len(s) - i
    BY <1>2, <1>3
  <2> QED BY <1>1, <2>2, <2>3
<1>6. ASSUME NEW k \in 1..(Len(s) - 1)
      PROVE  (a \o b)[k] = IF k < i THEN s[k] ELSE s[k + 1]
  <2>1. CASE k < i
    <3>1. (a \o b)[k] = a[k]
      BY <1>1, <1>2, <1>3, <2>1
    <3> QED BY <1>1, <1>2, <2>1, <3>1
  <2>2. CASE ~(k < i)
    <3> DEFINE m == k - (i - 1)
    <3>1. m \in 1..(Len(s) - i) /\ m + i = k + 1 /\ Len(a) + m = k
      BY <1>1, <1>2, <2>2
    <3> HIDE DEF m
    <3>2. (a \o b)[Len(a) + m] = b[m]
      BY <1>2, <1>3, <3>1, SecondPart
    <3> QED BY <1>3, <2>2, <3>1, <3>2
  <2> QED BY <2>1, <2>2
<1> QED BY <1>4, <1>5, <1>6

LEMMA ExhaustKeeps ==
  ASSUME IInv, Exhaust
  PROVE  IInv'
<1> USE DEF IInv, choice
<1>1. /\ input' = input /\ pc = "add" /\ pc' \in {"done", "add"}
      /\ UNCHANGED <<fails, unavailable, cursor, placed, share, replicas, diff, left>>
      /\ order' = RemoveAt(order, pos)
      /\ visit' \in {visit, NextVisit}
      /\ \/ pos' = pos /\ pos <= Len(order')
         \/ pos' = 1 /\ order' # <<>>
         \/ pos' = 0
      /\ pc' = "add" => order' # <<>>
  BY DEF Exhaust, Turn
<1>2. /\ input \in Input /\ WellFormed(input) /\ N' = N /\ N \in Nat
      /\ \A j : Entry(j)' = Entry(j)
  BY <1>1, SameInput, SecondRound
<1>3. order \in Seq(DOMAIN input.policy) /\ pos \in 1..Len(order) /\ Len(order) \in Nat
  BY TurnFacts DEF Exhaust
<1>4. order' \in Seq(DOMAIN input.policy) /\ Len(order') \in Nat
  <2>1. order' \in Seq(DOMAIN input.policy)
    BY <1>1, <1>3, Removed
  <2> QED BY <2>1
<1>5. pos' \in 0..Len(order')
  <2>1. order' # <<>> => Len(order') > 0
    BY <1>4
  <2> QED BY <1>1, <1>3, <1>4, <2>1
<1>6. visit' \in 0..N
  BY <1>1, <1>2, NextVisitType DEF TypeOK
<1>7. TypeOK'
  BY <1>1, <1>2, <1>4, <1>5, <1>6 DEF TypeOK
<1>8. Phases'
  BY <1>1, <1>2 DEF Phases
<1>9. WithinBounds'
  BY <1>1, <1>2 DEF WithinBounds
<1> QED BY <1>7, <1>8, <1>9

LEMMA StutterKeeps ==
  ASSUME IInv, UNCHANGED vars
  PROVE  IInv'
<1> USE DEF IInv, vars
<1>1. N' = N /\ \A j : Entry(j)' = Entry(j)
  BY SameInput
<1>2. TypeOK'
  BY <1>1 DEF TypeOK
<1>3. Phases'
  BY <1>1 DEF Phases
<1>4. WithinBounds'
  BY <1>1 DEF WithinBounds
<1> QED BY <1>2, <1>3, <1>4

\* The inductive invariant: in every state of every scheduling the variables
\* have their types, the phases what they need, and the targets their limits.
THEOREM Inductive == Spec => []IInv
<1>1. Init => IInv
  BY Initial
<1>2. IInv /\ [Next]_vars => IInv'
  <2> SUFFICES ASSUME IInv, [Next]_vars PROVE IInv'
    OBVIOUS
  <2> QED BY CheckClustersKeeps, WeighKeeps, PlaceTargetKeeps, PlaceFailoverKeeps, PlacedKeeps,
             FillKeeps, StartPassKeeps, PassByKeeps, AddOneKeeps, ExhaustKeeps, StutterKeeps
          DEF Next
<1> QED BY <1>1, <1>2, PTL DEF Spec

\* Every index into the policy, the failover clusters and the order of the
\* entries that doSchedule keeps stays within its slice, or the step that would
\* use it is a panic.
THEOREM TypeCorrect == Spec => []TypeOK
<1>1. IInv => TypeOK
  BY DEF IInv
<1> QED BY <1>1, Inductive, PTL

\* No target ever gets fewer than its Min or more than its Max, in either
\* round, whatever the weights, the limits and the order of equal weights.
THEOREM BoundsKept == Spec => []WithinBounds
<1>1. IInv => WithinBounds
  BY DEF IInv
<1> QED BY <1>1, Inductive, PTL

-----------------------------------------------------------------------------
(* Replacements: the three positions of the cursor stay in step *)

\* How many of the failover clusters before the cursor are not online.
Position == Before(Lists, cursor.failover) + cursor.set
Passed   == Len(Unavailable[Position - 1])

\* The next of them, or the last when there is none.
Pointer(k) ==
  IF k < Len(unavailable) THEN k + 1
  ELSE IF unavailable = <<>> THEN 1
  ELSE Len(unavailable)

InStep == Inside => cursor.down = Pointer(Passed)

Known ==
  /\ fails = {j \in 1..N : input.targets[j] \notin input.online}
  /\ unavailable = Unavailable[Len(FailoverClusters)]

Walk ==
  /\ pc = "check" => cursor.failover = 1 /\ cursor.set = 1 /\ cursor.down = 1 /\ placed = <<>>
  /\ pc # "check" => Known /\ InStep

LEMMA SameFailover ==
  ASSUME input' = input
  PROVE  /\ FailoverClusters' = FailoverClusters
         /\ Lists' = Lists
         /\ Unavailable' = Unavailable
<1>1. FailoverClusters' = FailoverClusters /\ Lists' = Lists
  BY DEF FailoverClusters, Lists
<1> QED BY <1>1 DEF Unavailable

\* What the cursor is at.
LEMMA AtCursor ==
  ASSUME TypeOK, Inside, Known
  PROVE  /\ Position \in 1..Len(FailoverClusters)
         /\ Before(Lists, cursor.failover) \in Nat
         /\ Before(Lists, cursor.failover + 1)
              = Before(Lists, cursor.failover) + Len(List.members)
         /\ FailoverClusters[Position] = Candidate
         /\ Len(unavailable) \in Nat
         /\ Passed \in Nat /\ Passed <= Len(unavailable)
         /\ Candidate \in input.online => Len(Unavailable[Position]) = Passed
         /\ Candidate \notin input.online =>
              Len(Unavailable[Position]) = Passed + 1 /\ Passed < Len(unavailable)
                /\ unavailable[Passed + 1] = Candidate
<1> DEFINE f == cursor.failover
<1>1. input \in Input /\ WellFormed(input) /\ unavailable \in Seq(Clusters)
  BY DEF TypeOK
<1>2. /\ f \in 1..Len(input.failover) /\ cursor.set \in 1..Len(List.members)
      /\ Len(List.members) \in Nat
  BY CandidateType
<1>3. /\ Lists \in Seq(Seq(Clusters))
      /\ Len(Lists) = Len(input.failover)
      /\ FailoverClusters = FlattenSeq(Lists)
      /\ Len(FailoverClusters) \in Nat
  BY <1>1, ListFacts
<1>4. Lists[f] = List.members
  <2>1. f \in DOMAIN input.failover
    BY <1>1, <1>2, InputFacts
  <2> QED BY <2>1 DEF Lists, List
<1>5. f \in 1..Len(Lists)
  BY <1>2, <1>3
<1>6. /\ Before(Lists, f) \in Nat
      /\ Before(Lists, f) + Len(Lists[f]) <= Len(FailoverClusters)
      /\ Before(Lists, f + 1) = Before(Lists, f) + Len(Lists[f])
      /\ \A i \in 1..Len(Lists[f]) : FailoverClusters[Before(Lists, f) + i] = Lists[f][i]
  BY <1>3, <1>5, Flattened
<1>7. Position \in 1..Len(FailoverClusters)
  BY <1>2, <1>3, <1>4, <1>6 DEF Position
<1>8. FailoverClusters[Position] = Candidate
  BY <1>2, <1>4, <1>6 DEF Position, Candidate
<1>9. /\ Passed \in Nat /\ Passed <= Len(unavailable)
      /\ FailoverClusters[Position] \in input.online => Len(Unavailable[Position]) = Passed
      /\ FailoverClusters[Position] \notin input.online =>
           Len(Unavailable[Position]) = Passed + 1 /\ Passed < Len(unavailable)
             /\ unavailable[Passed + 1] = FailoverClusters[Position]
  BY <1>1, <1>7, DownStep DEF Known, Passed
<1> QED BY <1>1, <1>4, <1>6, <1>7, <1>8, <1>9

\* Of those not online, none is taken, and no other is passed over.
LEMMA SkipsDown ==
  ASSUME TypeOK, Inside, Known, InStep
  PROVE  /\ Candidate \notin input.online =>
              unavailable # <<>> /\ Candidate = unavailable[cursor.down]
         /\ unavailable # <<>> /\ Candidate = unavailable[cursor.down] =>
              Candidate \notin input.online
<1>1. /\ Len(unavailable) \in Nat
      /\ Passed \in Nat /\ Passed <= Len(unavailable)
      /\ Candidate \notin input.online =>
           Passed < Len(unavailable) /\ unavailable[Passed + 1] = Candidate
  BY AtCursor
<1>2. cursor.down = Pointer(Passed)
  BY DEF InStep
<1>3. unavailable \in Seq(Down)
  <2>1. Len(FailoverClusters) \in 0..Len(FailoverClusters)
    BY ListFacts DEF TypeOK
  <2> QED BY <2>1, UnavailableType DEF TypeOK, Known
<1>4. ASSUME Candidate \notin input.online
      PROVE  unavailable # <<>> /\ Candidate = unavailable[cursor.down]
  <2>1. cursor.down = Passed + 1
    BY <1>1, <1>2, <1>4 DEF Pointer
  <2>2. unavailable # <<>>
    BY <1>1, <1>4
  <2> QED BY <1>1, <1>4, <2>1, <2>2
<1>5. ASSUME unavailable # <<>>, Candidate = unavailable[cursor.down]
      PROVE  Candidate \notin input.online
  <2>1. cursor.down \in 1..Len(unavailable)
    BY <1>1, <1>2, <1>3, <1>5 DEF Pointer
  <2>2. unavailable[cursor.down] \in Down
    BY <1>3, <2>1
  <2> QED BY <1>5, <2>2 DEF Down
<1> QED BY <1>4, <1>5

\* The cursor goes to the next failover cluster.
LEMMA NextPosition ==
  ASSUME TypeOK, Known, Take \/ SkipIt, input' = input
  PROVE  Position' = Position + 1
<1>1. Inside
  BY DEF Take, SkipIt
<1>2. /\ Before(Lists, cursor.failover) \in Nat
      /\ Before(Lists, cursor.failover + 1)
           = Before(Lists, cursor.failover) + Len(List.members)
  BY <1>1, AtCursor
<1>3. /\ cursor.failover \in 1..Len(input.failover) /\ cursor.set \in 1..Len(List.members)
      /\ List \in Failover /\ Len(List.members) \in Nat
  BY <1>1, CandidateType
<1>4. Position' = Before(Lists, cursor'.failover) + cursor'.set
  BY SameFailover DEF Position
<1>5. CASE Along
  BY <1>2, <1>3, <1>4, <1>5 DEF Along, Position
<1>6. CASE Onward
  <2>1. cursor'.failover = cursor.failover + 1
    BY <1>6 DEF Onward
  <2>2. cursor'.set = 1 /\ cursor.set = Len(List.members)
    <3>1. CASE cursor'.set = 1 /\ ~(cursor.set < Len(List.members))
      BY <1>3, <3>1
    <3>2. CASE cursor'.set = cursor.set /\ List.type # "clusterset"
      <4>1. List.type = "clusters"
        BY <1>3, <3>2 DEF Failover
      <4>2. cursor.failover \in DOMAIN input.failover
        BY <1>3, InputFacts DEF TypeOK
      <4>3. Len(List.members) = 1
        BY <4>1, <4>2 DEF TypeOK, WellFormed, List
      <4> QED BY <1>3, <3>2, <4>3
    <3> QED BY <1>6, <3>1, <3>2 DEF Onward
  <2>3. Position' = Before(Lists, cursor.failover + 1) + 1
    BY <1>4, <2>1, <2>2
  <2> QED BY <1>2, <1>3, <2>2, <2>3 DEF Position
<1> QED BY <1>5, <1>6, CursorStep

LEMMA StaysInStep ==
  ASSUME TypeOK, Known, InStep, Take \/ SkipIt, UNCHANGED <<input, unavailable>>
  PROVE  InStep'
<1>1. Inside
  BY DEF Take, SkipIt
<1>2. /\ Position \in 1..Len(FailoverClusters)
      /\ Len(unavailable) \in Nat
      /\ Passed \in Nat /\ Passed <= Len(unavailable)
      /\ Candidate \in input.online => Len(Unavailable[Position]) = Passed
      /\ Candidate \notin input.online =>
           Len(Unavailable[Position]) = Passed + 1 /\ Passed < Len(unavailable)
  BY <1>1, AtCursor
<1>3. Passed' = Len(Unavailable[Position])
  <2>1. Position' = Position + 1
    BY NextPosition
  <2>2. Passed' = Len(Unavailable'[Position' - 1])
    BY DEF Passed
  <2>3. Position' - 1 = Position
    BY <1>2, <2>1, ListFacts DEF TypeOK
  <2> QED BY <2>2, <2>3, SameFailover
<1>4. cursor.down = Pointer(Passed)
  BY <1>1 DEF InStep
<1>5. \A k : Pointer(k)' = Pointer(k)
  BY DEF Pointer
<1> SUFFICES ASSUME Inside' PROVE cursor'.down = Pointer(Passed')
  BY <1>5 DEF InStep
<1>6. CASE Take
  <2>1. Candidate \in input.online
    BY <1>1, <1>6, SkipsDown DEF Take
  <2>2. cursor'.down = cursor.down
    BY <1>6, CursorStep
  <2> QED BY <1>2, <1>3, <1>4, <2>1, <2>2
<1>7. CASE SkipIt
  <2>1. Candidate \notin input.online
    BY <1>1, <1>7, SkipsDown DEF SkipIt
  <2>2. cursor'.down = Skip(cursor)
    BY <1>7, CursorStep
  <2>3. Passed' = Passed + 1 /\ cursor.down = Passed + 1 /\ unavailable # <<>>
    BY <1>2, <1>3, <1>4, <1>7, <2>1 DEF Pointer, SkipIt
  <2>4. Passed \in Nat /\ Len(unavailable) \in Nat /\ Passed < Len(unavailable)
    BY <1>2, <2>1
  <2>5. Skip(cursor) = IF Passed + 1 < Len(unavailable) THEN Passed + 2 ELSE Passed + 1
    BY <2>3, <2>4 DEF Skip
  <2>6. Pointer(Passed + 1) = IF Passed + 1 < Len(unavailable) THEN Passed + 2 ELSE Passed + 1
    BY <2>3, <2>4 DEF Pointer
  <2> QED BY <2>2, <2>3, <2>5, <2>6
<1> QED BY <1>6, <1>7

\* Where the cursor and the clusters placed stay as they are.
LEMMA ChoiceKeeps ==
  ASSUME Walk, ReplacementOnline, pc # "check", pc' # "check", UNCHANGED <<input, choice>>
  PROVE  Walk' /\ ReplacementOnline'
<1> USE DEF choice
<1>1. Unavailable' = Unavailable /\ FailoverClusters' = FailoverClusters /\ Lists' = Lists /\ N' = N
  BY SameFailover, SameInput
<1>2. Inside' = Inside
  BY DEF Inside
<1>3. Passed' = Passed
  BY <1>1 DEF Passed, Position
<1>4. InStep'
  BY <1>2, <1>3 DEF Walk, InStep, Pointer
<1>5. Known'
  BY <1>1 DEF Walk, Known
<1>6. ReplacementOnline'
  BY DEF ReplacementOnline
<1> QED BY <1>4, <1>5, <1>6 DEF Walk

LEMMA CheckClustersWalk ==
  ASSUME IInv, Walk, CheckClusters
  PROVE  Walk' /\ ReplacementOnline'
<1> USE DEF CheckClusters, rounds
<1>1. /\ input \in Input /\ WellFormed(input)
      /\ cursor.failover = 1 /\ cursor.set = 1 /\ cursor.down = 1 /\ placed = <<>>
      /\ cursor' = cursor /\ placed' = placed /\ pc' # "check" /\ input' = input
  BY DEF IInv, TypeOK, Walk
<1>2. Unavailable' = Unavailable /\ FailoverClusters' = FailoverClusters /\ Lists' = Lists /\ N' = N
  BY SameFailover, SameInput
<1>3. Known'
  BY <1>1, <1>2 DEF Known
<1>4. Passed' = 0
  <2>1. Position' = 1
    BY <1>1 DEF Position, Before
  <2>2. 0 \in 0..Len(FailoverClusters)
    BY <1>1, ListFacts
  <2>3. Unavailable[0] = <<>>
    BY <1>1, <2>2, UnavailableStep
  <2>4. Passed' = Len(Unavailable'[Position' - 1])
    BY DEF Passed
  <2> QED BY <1>2, <2>1, <2>3, <2>4
<1>5. unavailable' \in Seq(Down)
  <2>1. Len(FailoverClusters) \in 0..Len(FailoverClusters)
    BY <1>1, ListFacts
  <2> QED BY <1>1, <2>1, UnavailableType
<1>6. InStep'
  <2>1. Pointer(0)' = 1
    BY <1>5 DEF Pointer
  <2>2. Pointer(Passed)' = 1
    BY <1>4, <2>1 DEF Pointer
  <2> QED BY <1>1, <2>2 DEF InStep
<1>7. ReplacementOnline'
  BY <1>1 DEF ReplacementOnline
<1> QED BY <1>1, <1>3, <1>6, <1>7 DEF Walk

\* What is placed is placed at the end.
LEMMA PlaceOnline ==
  ASSUME TypeOK, ReplacementOnline, NEW cluster \in Clusters, Place(cluster),
         cluster \in input.online,
         Target \notin fails => cluster = input.targets[Target],
         UNCHANGED <<input, fails>>
  PROVE  ReplacementOnline'
<1>1. placed \in Seq(Clusters) /\ Len(placed) \in Nat
  BY DEF TypeOK
<1>2. placed' = Append(placed, cluster)
  BY DEF Place
<1> SUFFICES ASSUME NEW j \in DOMAIN (placed')
             PROVE  /\ placed'[j] \in input.online
                    /\ j \notin fails => placed'[j] = input.targets[j]
  BY DEF ReplacementOnline
<1>3. j \in 1..(Len(placed) + 1)
  BY <1>1, <1>2
<1>4. CASE j = Len(placed) + 1
  <2>1. placed'[j] = cluster
    BY <1>1, <1>2, <1>4
  <2> QED BY <1>4, <2>1 DEF Target
<1>5. CASE j # Len(placed) + 1
  <2>1. j \in DOMAIN placed /\ placed'[j] = placed[j]
    BY <1>1, <1>2, <1>3, <1>5
  <2> QED BY <2>1 DEF ReplacementOnline
<1> QED BY <1>4, <1>5

LEMMA PlaceTargetWalk ==
  ASSUME IInv, Walk, ReplacementOnline, PlaceTarget
  PROVE  Walk' /\ ReplacementOnline'
<1>1. /\ input' = input /\ pc = "place" /\ pc' = pc /\ Target \in 1..N /\ Target \notin fails
      /\ UNCHANGED <<fails, unavailable, cursor>>
      /\ Place(input.targets[Target])
  BY DEF PlaceTarget
<1>2. Known /\ InStep
  BY <1>1 DEF Walk
<1>3. TypeOK /\ input.targets \in Seq(Clusters)
  BY InputFacts DEF IInv, TypeOK
<1>4. input.targets[Target] \in Clusters /\ input.targets[Target] \in input.online
  BY <1>1, <1>2, <1>3 DEF Known, N
<1>5. ReplacementOnline'
  BY <1>1, <1>3, <1>4, PlaceOnline
<1>6. Unavailable' = Unavailable /\ FailoverClusters' = FailoverClusters /\ Lists' = Lists /\ N' = N
  BY <1>1, SameFailover, SameInput
<1>7. Inside' = Inside /\ Passed' = Passed
  BY <1>1, <1>6 DEF Inside, Passed, Position
<1>8. InStep' /\ Known'
  BY <1>1, <1>2, <1>6, <1>7 DEF InStep, Known, Pointer
<1> QED BY <1>1, <1>5, <1>8 DEF Walk

LEMMA PlaceFailoverWalk ==
  ASSUME IInv, Walk, ReplacementOnline, PlaceFailover
  PROVE  Walk' /\ ReplacementOnline'
<1>1. /\ pc = "place" /\ Target \in fails
      /\ UNCHANGED <<input, fails, unavailable>>
      /\ Leave \/ Take \/ SkipIt
  BY ThreeWays DEF IInv
<1>2. TypeOK /\ Known /\ InStep
  BY <1>1 DEF IInv, Walk
<1>3. CASE Leave
  <2>1. UNCHANGED <<input, choice>> /\ pc # "check" /\ pc' # "check"
    BY <1>1, <1>3 DEF choice, Leave
  <2> QED BY <2>1, ChoiceKeeps
<1>4. CASE Take \/ SkipIt
  <2>1. InStep'
    BY <1>1, <1>2, <1>4, StaysInStep
  <2>2. Unavailable' = Unavailable /\ FailoverClusters' = FailoverClusters /\ N' = N
    BY <1>1, SameFailover, SameInput
  <2>3. Known'
    BY <1>1, <1>2, <2>2 DEF Known
  <2>4. pc' = pc
    BY <1>4 DEF Take, SkipIt
  <2>5. Walk'
    BY <1>1, <2>1, <2>3, <2>4 DEF Walk
  <2>6. CASE Take
    <3>1. Candidate \in Clusters /\ Candidate \in input.online
      BY <1>2, <2>6, CandidateType, SkipsDown DEF Take
    <3>2. ReplacementOnline'
      BY <1>1, <1>2, <2>6, <3>1, PlaceOnline DEF Take
    <3> QED BY <2>5, <3>2
  <2>7. CASE SkipIt
    <3>1. ReplacementOnline'
      BY <1>1, <2>7 DEF SkipIt, ReplacementOnline
    <3> QED BY <2>5, <3>1
  <2> QED BY <1>4, <2>6, <2>7
<1> QED BY <1>1, <1>3, <1>4

\* A cluster that is bound was online when the clusters were checked, and an
\* online target is bound itself: no failover cluster that is not online gets by
\* the three positions the code keeps, and none that is online is mistaken.
THEOREM ReplacedByOnline == Spec => []ReplacementOnline
<1>1. Init => Walk /\ ReplacementOnline
  BY DEF Init, Walk, ReplacementOnline
<1>2. ASSUME IInv, Walk, ReplacementOnline, [Next]_vars
      PROVE  Walk' /\ ReplacementOnline'
  <2>1. CASE CheckClusters
    BY <1>2, <2>1, CheckClustersWalk
  <2>2. CASE PlaceTarget
    BY <1>2, <2>2, PlaceTargetWalk
  <2>3. CASE PlaceFailover
    BY <1>2, <2>3, PlaceFailoverWalk
  <2>4. CASE \/ Weigh \/ Placed \/ Fill
             \/ StartPass \/ PassBy \/ AddOne \/ Exhaust
    <3>1. UNCHANGED <<input, choice>> /\ pc # "check" /\ pc' # "check"
      BY <2>4 DEF Weigh, Placed, Fill, StartPass, PassBy, AddOne, Exhaust, Turn
    <3> QED BY <1>2, <3>1, ChoiceKeeps
  <2>5. CASE UNCHANGED vars
    <3>1. UNCHANGED <<input, choice>> /\ pc' = pc
      BY <2>5 DEF vars, choice
    <3>2. CASE pc # "check"
      BY <1>2, <3>1, <3>2, ChoiceKeeps
    <3>3. CASE pc = "check"
      BY <1>2, <3>1, <3>3 DEF Walk, ReplacementOnline, choice
    <3> QED BY <3>2, <3>3
  <2> QED BY <1>2, <2>1, <2>2, <2>3, <2>4, <2>5 DEF Next
<1>3. IInv /\ Walk /\ ReplacementOnline /\ [Next]_vars => (Walk /\ ReplacementOnline)'
  BY <1>2
<1> QED BY <1>1, <1>3, Inductive, PTL DEF Spec

-----------------------------------------------------------------------------
(* Nothing is lost *)

\* What the targets have, or will be given.
Mixed == [j \in 1..N |-> IF j <= Len(placed) THEN replicas[j] ELSE share[j]]

LEMMA MixedType ==
  ASSUME IInv, pc \in {"place", "fill"}
  PROVE  /\ N \in Nat /\ IsFiniteSet(1..N)
         /\ Mixed \in [1..N -> Nat] /\ Mixed \in [1..N -> Int]
         /\ SumOf(Mixed) \in Nat
         /\ Len(placed) = N => Mixed = replicas
<1>1. /\ N \in Nat
      /\ replicas \in Seq(Nat) /\ Len(replicas) = Len(placed) /\ Len(placed) \in Nat
      /\ share \in Seq(Nat) /\ Len(share) = N
  BY InputFacts DEF IInv, TypeOK, Phases
<1>2. \A j \in 1..N : Mixed[j] \in Nat
  BY <1>1 DEF Mixed
<1>3. Mixed \in [1..N -> Nat]
  BY <1>2 DEF Mixed
<1>4. IsFiniteSet(1..N)
  BY <1>1, FS_Interval
<1>5. SumOf(Mixed) \in Nat
  BY <1>3, <1>4, SumType DEF SumOf
<1>6. ASSUME Len(placed) = N PROVE Mixed = replicas
  <2>1. \A j \in 1..N : j <= Len(placed)
    BY <1>1, <1>6
  <2>2. Mixed = [j \in 1..N |-> replicas[j]]
    BY <2>1 DEF Mixed
  <2>3. replicas \in [1..N -> Nat]
    BY <1>1, <1>6
  <2> QED BY <2>2, <2>3
<1> QED BY <1>1, <1>3, <1>4, <1>5, <1>6

LEMMA WeighLosesNothing ==
  ASSUME IInv, Weigh
  PROVE  NothingLost'
<1>1. /\ input' = input /\ pc = "weigh" /\ pc' = "place" /\ placed' = placed
  BY DEF Weigh, choice
<1>2. /\ input \in Input /\ WellFormed(input) /\ placed = <<>> /\ N' = N /\ N \in Nat
  BY <1>1, SameInput, InputFacts DEF IInv, TypeOK, Phases
<1>3. /\ share' \in [1..N -> Nat]
      /\ input.kind \in Shared => SumOf(share') + diff' = input.replicas
  BY <1>2, ShareType
<1>4. Mixed' = share'
  <2>1. Mixed' = [j \in 1..N |-> share'[j]]
    BY <1>1, <1>2 DEF Mixed
  <2> QED BY <1>3, <2>1
<1>5. input.kind \in Shared => SumOf(Mixed') + diff' = input.replicas
  BY <1>3, <1>4
<1> QED BY <1>1, <1>5 DEF NothingLost, Mixed

LEMMA PlaceLosesNothing ==
  ASSUME IInv, NothingLost, pc = "place", Target \in 1..N, NEW cluster \in Clusters,
         Place(cluster), UNCHANGED <<input, pc, share>>
  PROVE  NothingLost'
<1> SUFFICES ASSUME input.kind \in Shared PROVE SumOf(Mixed') + diff' = input.replicas
  BY DEF NothingLost, Mixed
<1>1. N' = N /\ N \in Nat /\ IsFiniteSet(1..N) /\ Mixed \in [1..N -> Int] /\ SumOf(Mixed) \in Nat
  BY SameInput, MixedType
<1>2. /\ Len(placed) \in Nat /\ Len(replicas) = Len(placed) /\ replicas \in Seq(Nat)
      /\ share \in Seq(Nat) /\ Len(share) = N
      /\ diff \in Int
  BY DEF IInv, TypeOK, Phases
<1>3. /\ Clamped(Target) \in Nat /\ share[Target] \in Nat
      /\ replicas' \in Seq(Nat) /\ Len(replicas') = Target /\ Len(placed') = Target
  BY Placing
<1>4. replicas' = Append(replicas, Clamped(Target)) /\ diff' = diff + share[Target] - Clamped(Target)
  BY DEF Place
<1> DEFINE t == Target
           c == Clamped(t)
<1>5. t = Len(placed) + 1 /\ t \in 1..N
  BY DEF Target
<1>6. Mixed' = [j \in 1..N |-> IF j <= t THEN replicas'[j] ELSE share[j]]
  BY <1>1, <1>3 DEF Mixed
<1>7. c \in Nat /\ replicas' = Append(replicas, c)
  BY <1>3, <1>4
<1> HIDE DEF t, c
<1>8. ASSUME NEW j \in 1..N
      PROVE  Mixed'[j] = IF j = t THEN c ELSE Mixed[j]
  <2>1. CASE j < t
    <3>1. j \in 1..Len(replicas) /\ j <= Len(placed)
      BY <1>2, <1>5, <2>1
    <3>2. replicas'[j] = replicas[j]
      BY <1>2, <1>7, <3>1
    <3>3. j <= t /\ j # t
      BY <1>1, <1>5, <2>1
    <3> QED BY <1>6, <3>1, <3>2, <3>3 DEF Mixed
  <2>2. CASE j = t
    <3>1. replicas'[t] = c
      BY <1>2, <1>5, <1>7
    <3> QED BY <1>5, <1>6, <2>2, <3>1
  <2>3. CASE j > t
    <3>1. ~(j <= t) /\ ~(j <= Len(placed)) /\ j # t
      BY <1>2, <1>5, <2>3
    <3> QED BY <1>6, <3>1 DEF Mixed
  <2> QED BY <1>5, <2>1, <2>2, <2>3
<1>9. Mixed' \in [1..N -> Int]
  <2>1. \A j \in 1..N : Mixed'[j] \in Int
    BY <1>1, <1>7, <1>8
  <2> QED BY <1>6, <2>1
<1>10. Mixed[t] = share[t] /\ share[t] \in Nat
  BY <1>2, <1>5 DEF Mixed
<1>11. SumOf(Mixed') = SumOf(Mixed) + (c - share[t])
  <2> DEFINE D == 1..N
             f == Mixed
             h == Mixed'
  <2>1. IsFiniteSet(D) /\ f \in [D -> Int] /\ h \in [D -> Int] /\ t \in D
        /\ \A x \in D \ {t} : h[x] = f[x]
    BY <1>1, <1>5, <1>8, <1>9
  <2>2. h[t] = c /\ f[t] = share[t]
    BY <1>5, <1>8, <1>10
  <2> HIDE DEF D, f, h
  <2>3. SumOf(h) = SumOf(f) + (h[t] - f[t])
    BY <2>1, SumChange
  <2> QED BY <2>2, <2>3 DEF f, h
<1>12. SumOf(Mixed) + diff = input.replicas
  BY DEF NothingLost, Mixed
<1>13. diff' = diff + share[t] - c
  BY <1>4 DEF t, c
<1> QED
  <2> DEFINE a == SumOf(Mixed)
             b == SumOf(Mixed')
             d == share[t]
  <2>1. a \in Nat /\ d \in Nat /\ c \in Nat /\ diff \in Int
    BY <1>1, <1>2, <1>7, <1>10
  <2>2. b = a + (c - d) /\ a + diff = input.replicas /\ diff' = diff + d - c
    BY <1>11, <1>12, <1>13
  <2> HIDE DEF a, b, d
  <2>3. b + diff' = input.replicas
    BY <2>1, <2>2
  <2> QED BY <2>3 DEF b

LEMMA FillLosesNothing ==
  ASSUME IInv, NothingLost, Fill
  PROVE  NothingLost'
<1>1. /\ input' = input /\ pc = "fill" /\ pc' = "add" /\ diff' = diff /\ placed' = placed
  BY DEF Fill, choice
<1>2. /\ N \in Nat /\ input.kind \in Shared /\ replicas \in [1..N -> Nat] /\ diff \in Int
      /\ Sign = IF diff > 0 THEN 1 ELSE -1
  BY <1>1, SecondRound
<1>3. /\ Even \in Nat /\ Rest \in Nat /\ diff * Sign = Even * N + Rest
      /\ replicas' \in [1..N -> Nat]
      /\ \A j \in 1..N : Part(j)
  BY Filling
<1> DEFINE u == [j \in 1..N |-> Unfit(j)]
<1>4. u \in [1..N -> Int] /\ \A j \in 1..N : u[j] = Unfit(j)
  BY <1>3 DEF Part
<1>5. left' = Rest + SumOf(u)
  BY DEF Fill
<1>6. replicas \in [1..N -> Int] /\ replicas' \in [1..N -> Int]
  BY <1>2, <1>3
<1> DEFINE s == SumOf(replicas)
           h == SumOf(replicas')
           v == SumOf(u)
           e == Even * N
<1>7. s + diff = input.replicas
  <2>1. Mixed = replicas
    BY <1>1, MixedType DEF IInv, Phases
  <2> QED BY <1>1, <1>2, <2>1 DEF NothingLost, Mixed
<1> HIDE DEF u
<1>10. e \in Int /\ Rest \in Int /\ diff \in Int
  BY <1>2, <1>3
<1>8. CASE diff > 0
  <2>1. \A j \in 1..N : replicas'[j] + u[j] = replicas[j] + Even
    BY <1>3, <1>4, <1>8 DEF Part
  <2>2. h + v = s + e /\ {s, v, h} \subseteq Int
    <3>1. Spread(N, Even, replicas, u, replicas')
      BY <1>4, <1>6, <2>1 DEF Spread
    <3> QED BY <1>2, <1>3, <3>1, SumSpread
  <2>3. diff = e + Rest /\ Sign * left' = left' /\ left' = Rest + v
    BY <1>2, <1>3, <1>5, <1>8, <2>2
  <2> HIDE DEF s, h, v, e
  <2>4. h + left' = input.replicas
    BY <1>7, <1>10, <2>2, <2>3
  <2> QED BY <1>1, <2>3, <2>4 DEF NothingLost, Sign, h
<1>9. CASE ~(diff > 0)
  <2>1. \A j \in 1..N : replicas[j] + u[j] = replicas'[j] + Even
    BY <1>3, <1>4, <1>9 DEF Part
  <2>2. s + v = h + e /\ {s, v, h} \subseteq Int
    <3>1. Spread(N, Even, replicas', u, replicas)
      BY <1>4, <1>6, <2>1 DEF Spread
    <3> QED BY <1>2, <1>3, <3>1, SumSpread
  <2>3. 0 - diff = e + Rest /\ Sign * left' = 0 - left' /\ left' = Rest + v
    BY <1>2, <1>3, <1>5, <1>9, <2>2
  <2> HIDE DEF s, h, v, e
  <2>4. h + (0 - left') = input.replicas
    <3>1. /\ s \in Int /\ v \in Int /\ h \in Int /\ left' \in Int
          /\ s + v = h + e /\ 0 - diff = e + Rest /\ left' = Rest + v
      BY <1>10, <2>2, <2>3
    <3>2. h + (0 - left') = s + diff
      BY <1>10, <3>1
    <3> QED BY <1>7, <3>2
  <2> QED BY <1>1, <2>3, <2>4 DEF NothingLost, Sign, h
<1> QED BY <1>8, <1>9

LEMMA AddLosesNothing ==
  ASSUME IInv, NothingLost, AddOne
  PROVE  NothingLost'
<1>1. /\ input' = input /\ pc = "add" /\ pc' = pc /\ diff' = diff /\ left' = left - 1
      /\ left \in Int
  BY DEF AddOne, Turn, choice, IInv, TypeOK
<1>2. /\ N \in Nat /\ replicas \in [1..N -> Nat] /\ Sign \in {1, -1} /\ input.kind \in Shared
  BY <1>1, SecondRound
<1>3. visit \in 1..N
  BY TurnFacts DEF AddOne
<1>4. /\ replicas' \in [1..N -> Nat]
      /\ replicas'[visit] = replicas[visit] + Sign
      /\ \A j \in 1..N \ {visit} : replicas'[j] = replicas[j]
  BY Adding
<1>5. SumOf(replicas') = SumOf(replicas) + Sign /\ SumOf(replicas) \in Nat
  <2> DEFINE D == 1..N
             f == replicas
             h == replicas'
  <2>1. IsFiniteSet(D)
    BY <1>2, FS_Interval
  <2>2. f \in [D -> Int] /\ h \in [D -> Int] /\ f \in [D -> Nat] /\ visit \in D
        /\ \A x \in D \ {visit} : h[x] = f[x]
    BY <1>2, <1>3, <1>4
  <2>3. h[visit] - f[visit] = Sign
    BY <1>2, <1>3, <1>4
  <2> HIDE DEF D, f, h
  <2>4. SumOf(h) = SumOf(f) + (h[visit] - f[visit])
    BY <2>1, <2>2, SumChange
  <2>5. SumOf(f) \in Nat
    BY <2>1, <2>2, SumType DEF SumOf
  <2> QED BY <2>3, <2>4, <2>5 DEF f, h
<1>6. SumOf(replicas) + Sign * left = input.replicas
  BY <1>1, <1>2 DEF NothingLost
<1>7. Sign' = Sign
  BY <1>1 DEF Sign
<1> DEFINE a == SumOf(replicas)
           b == SumOf(replicas')
<1> HIDE DEF a, b
<1>8. a \in Int /\ b = a + Sign /\ a + Sign * left = input.replicas
  BY <1>5, <1>6 DEF a, b
<1>9. b + Sign * (left - 1) = input.replicas
  <2>1. CASE Sign = 1
    BY <1>1, <1>8, <2>1
  <2>2. CASE Sign = -1
    BY <1>1, <1>8, <2>2
  <2> QED BY <1>2, <2>1, <2>2
<1> QED BY <1>1, <1>7, <1>9 DEF NothingLost, b

\* Nothing that the sums speak of changes.
LEMMA SumsKeep ==
  ASSUME NothingLost, UNCHANGED <<input, placed, share, replicas, diff, left>>,
         pc' = pc \/ pc' \notin {"place", "fill", "add", "done"} \/ (pc = "add" /\ pc' = "done")
  PROVE  NothingLost'
<1>1. N' = N /\ Sign' = Sign
  BY SameInput DEF Sign
<1> QED BY <1>1 DEF NothingLost

LEMMA PlacedLosesNothing ==
  ASSUME IInv, NothingLost, Placed
  PROVE  NothingLost'
<1>1. /\ input' = input /\ pc = "place" /\ Len(placed) = N
      /\ pc' = (IF diff = 0 THEN "done" ELSE "fill")
      /\ UNCHANGED <<placed, share, replicas, diff, left>> /\ left = 0
  BY DEF Placed, choice, rounds, IInv, Phases
<1>2. N' = N
  BY <1>1, SameInput
<1>3. Mixed' = Mixed /\ Mixed = replicas /\ SumOf(Mixed) \in Nat
  BY <1>1, <1>2, MixedType DEF Mixed
<1>4. Sign' \in {1, -1}
  BY DEF Sign
<1> SUFFICES ASSUME input.kind \in Shared
             PROVE  /\ pc' \in {"place", "fill"} => SumOf(Mixed') + diff' = input.replicas
                    /\ pc' \in {"add", "done"} => SumOf(replicas') + Sign' * left' = input.replicas
  BY <1>1 DEF NothingLost, Mixed
<1>5. SumOf(Mixed) + diff = input.replicas
  BY <1>1 DEF NothingLost, Mixed
<1>6. CASE diff # 0
  BY <1>1, <1>3, <1>5, <1>6
<1>7. CASE diff = 0
  <2>1. left' = 0
    BY <1>1
  <2>2. Sign' * left' = 0
    <3>1. CASE Sign' = 1
      BY <2>1, <3>1
    <3>2. CASE Sign' = -1
      BY <2>1, <3>2
    <3> QED BY <1>4, <3>1, <3>2
  <2> QED BY <1>1, <1>3, <1>5, <1>7, <2>2
<1> QED BY <1>6, <1>7

\* What is cut off or added at a limit, in either round, is carried over: what
\* the targets have and what is still to be given, or taken, always make the
\* replicas of the policy.
THEOREM NothingIsLost == Spec => []NothingLost
<1>1. Init => NothingLost
  BY DEF Init, NothingLost
<1>2. ASSUME IInv, NothingLost, [Next]_vars
      PROVE  NothingLost'
  <2>1. CASE CheckClusters
    <3>1. pc' \notin {"place", "fill", "add", "done"}
      BY <2>1 DEF CheckClusters
    <3> QED BY <3>1 DEF NothingLost
  <2>2. CASE Weigh
    BY <1>2, <2>2, WeighLosesNothing
  <2>3. CASE PlaceTarget
    <3>1. /\ Target \in 1..N /\ pc = "place" /\ UNCHANGED <<input, pc, share>>
          /\ Place(input.targets[Target])
      BY <2>3 DEF PlaceTarget
    <3>2. input.targets[Target] \in Clusters
      BY <1>2, <3>1, InputFacts DEF IInv, TypeOK, N
    <3> QED BY <1>2, <3>1, <3>2, PlaceLosesNothing
  <2>4. CASE PlaceFailover
    <3>1. /\ pc = "place" /\ Target \in 1..N
          /\ UNCHANGED <<input, share, left>>
          /\ Leave \/ Take \/ SkipIt
      BY <1>2, <2>4, ThreeWays DEF IInv
    <3>2. CASE Leave
      BY <1>2, <3>1, <3>2 DEF Leave, NothingLost
    <3>3. CASE Take
      BY <1>2, <3>1, <3>3, CandidateType, PlaceLosesNothing DEF Take, IInv
    <3>4. CASE SkipIt
      BY <1>2, <3>1, <3>4, SumsKeep DEF SkipIt
    <3> QED BY <3>1, <3>2, <3>3, <3>4
  <2>5. CASE Placed
    BY <1>2, <2>5, PlacedLosesNothing
  <2>6. CASE Fill
    BY <1>2, <2>6, FillLosesNothing
  <2>7. CASE StartPass
    BY <1>2, <2>7, SumsKeep DEF StartPass, choice
  <2>8. CASE PassBy
    BY <1>2, <2>8, SumsKeep DEF PassBy, choice
  <2>9. CASE AddOne
    BY <1>2, <2>9, AddLosesNothing
  <2>10. CASE Exhaust
    BY <1>2, <2>10, SumsKeep DEF Exhaust, Turn, choice
  <2>11. CASE UNCHANGED vars
    BY <1>2, <2>11, SumsKeep DEF vars
  <2> QED BY <1>2, <2>1, <2>2, <2>3, <2>4, <2>5, <2>6, <2>7, <2>8, <2>9, <2>10, <2>11 DEF Next
<1>3. IInv /\ NothingLost /\ [Next]_vars => NothingLost'
  BY <1>2
<1> QED BY <1>1, <1>3, Inductive, PTL DEF Spec

-----------------------------------------------------------------------------
(* The second round ends with the exact number, or at the limits *)

InOrder(p)   == \E k \in 1..Len(order) : order[k] = p
Exhausted(j) == replicas[j] = Limit(j)

\* Where no two targets share an entry, the targets whose entry is out of the
\* order are at their limit.
Ending ==
  input.kind \in Shared /\ Apart =>
    /\ pc = "add"  => \A j \in 1..N : Exhausted(j) \/ InOrder(input.entry[j])
    /\ pc = "done" => left = 0 \/ \A j \in 1..N : Exhausted(j)

LEMMA SameLimits ==
  ASSUME UNCHANGED <<input, diff>>
  PROVE  N' = N /\ Apart' = Apart /\ \A j : Limit(j)' = Limit(j)
<1>1. N' = N /\ \A j : Entry(j)' = Entry(j)
  BY SameInput
<1>2. Apart' = Apart
  BY <1>1 DEF Apart
<1> QED BY <1>1, <1>2 DEF Limit

\* An order of all entries has each of them.
LEMMA OrderIsComplete ==
  ASSUME NEW n \in Nat, NEW s \in [1..n -> 1..n], IsInjective(s), NEW p \in 1..n
  PROVE  \E k \in 1..n : s[k] = p
<1>1. IsFiniteSet(1..n)
  BY FS_Interval
<1>2. s \in Injection(1..n, 1..n)
  BY DEF Injection
<1>3. s \in Surjection(1..n, 1..n)
  BY <1>1, <1>2, FS_Injection
<1> QED BY <1>3 DEF Surjection

LEMMA FillEnding ==
  ASSUME IInv, Fill
  PROVE  Ending'
<1>1. input' = input /\ pc = "fill" /\ pc' = "add" /\ diff' = diff
  BY DEF Fill
<1>2. N' = N /\ \A j : Limit(j)' = Limit(j)
  BY <1>1, SameLimits
<1>3. /\ input \in Input /\ WellFormed(input) /\ diff \in Int /\ Len(input.policy) \in Nat
      /\ \A j \in 1..N : input.entry[j] \in 0..Len(input.policy)
  BY <1>1, InputFacts, SecondRound
<1>4. order' \in [1..Len(input.policy) -> 1..Len(input.policy)] /\ IsInjective(order')
  BY DEF Fill, Sorted
<1> DEFINE m == Len(input.policy)
<1>5. Len(order') = m
  BY <1>3, <1>4
<1>6. ASSUME NEW j \in 1..N
      PROVE  Exhausted(j)' \/ InOrder(input.entry[j])'
  <2>1. CASE input.entry[j] = 0
    <3>1. Entry(j).min = 0 /\ Entry(j).max = 0
      BY <2>1 DEF Entry, NoEntry
    <3>2. replicas'[j] \in Entry(j).min..Entry(j).max
      BY Filling DEF Part
    <3>3. Limit(j) = 0
      BY <3>1 DEF Limit
    <3>4. replicas'[j] = 0
      BY <3>1, <3>2
    <3> QED BY <1>2, <3>3, <3>4 DEF Exhausted
  <2>2. CASE input.entry[j] # 0
    <3>1. input.entry[j] \in 1..m
      BY <1>3, <2>2
    <3>2. \E k \in 1..m : order'[k] = input.entry[j]
      BY <1>3, <1>4, <3>1, OrderIsComplete
    <3> QED BY <1>1, <1>5, <3>2 DEF InOrder
  <2> QED BY <2>1, <2>2
<1> QED BY <1>1, <1>2, <1>6 DEF Ending

\* Nothing that tells whether a target is at its limit changes.
LEMMA EndingKeeps ==
  ASSUME Ending, UNCHANGED <<input, diff, replicas, left, order>>,
         pc' = pc \/ pc' \notin {"add", "done"} \/ (pc' = "done" /\ left = 0)
  PROVE  Ending'
<1>1. N' = N /\ Apart' = Apart /\ \A j : Limit(j)' = Limit(j)
  BY SameLimits
<1> QED BY <1>1 DEF Ending, Exhausted, InOrder

LEMMA AddEnding ==
  ASSUME IInv, Ending, AddOne
  PROVE  Ending'
<1>1. UNCHANGED <<input, diff, order, pc>> /\ pc = "add"
  BY DEF AddOne, Turn
<1>2. N' = N /\ Apart' = Apart /\ \A j : Limit(j)' = Limit(j)
  BY <1>1, SameLimits
<1>3. visit \in 1..N /\ pos \in 1..Len(order) /\ input.entry[visit] = order[pos]
  BY TurnFacts DEF AddOne
<1>4. \A j \in 1..N \ {visit} : replicas'[j] = replicas[j]
  BY Adding
<1> SUFFICES ASSUME input.kind \in Shared, Apart, NEW j \in 1..N
             PROVE  Exhausted(j)' \/ InOrder(input.entry[j])'
  BY <1>1, <1>2 DEF Ending
<1>5. CASE j = visit
  BY <1>1, <1>3, <1>5 DEF InOrder
<1>6. CASE j # visit
  <2>1. Exhausted(j) \/ InOrder(input.entry[j])
    BY <1>1 DEF Ending
  <2>2. InOrder(input.entry[j]) => InOrder(input.entry[j])'
    BY <1>1 DEF InOrder
  <2>3. Exhausted(j) => Exhausted(j)'
    BY <1>2, <1>4, <1>6 DEF Exhausted
  <2> QED BY <2>1, <2>2, <2>3
<1> QED BY <1>5, <1>6

LEMMA ExhaustEnding ==
  ASSUME IInv, Ending, Exhaust
  PROVE  Ending'
<1>1. /\ UNCHANGED <<input, diff, replicas, left>> /\ pc = "add"
      /\ order' = RemoveAt(order, pos) /\ Room(visit) <= 0
      /\ IF order' = <<>> THEN pc' = "done" ELSE pc' = pc
  BY DEF Exhaust, Turn
<1>2. N' = N /\ Apart' = Apart /\ \A j : Limit(j)' = Limit(j)
  BY <1>1, SameLimits
<1>3. /\ visit \in 1..N /\ pos \in 1..Len(order) /\ Len(order) \in Nat
      /\ order \in Seq(DOMAIN input.policy) /\ input.entry[visit] = order[pos]
  BY TurnFacts DEF Exhaust
<1>4. /\ order' \in Seq(DOMAIN input.policy) /\ Len(order') = Len(order) - 1
      /\ \A k \in 1..(Len(order) - 1) : order'[k] = IF k < pos THEN order[k] ELSE order[k + 1]
  BY <1>1, <1>3, Removed
<1>5. Exhausted(visit)
  <2>1. Room(visit) \in Nat /\ Limit(visit) = replicas[visit] + Sign * Room(visit)
        /\ Sign \in {1, -1} /\ replicas[visit] \in Nat
    BY <1>1, <1>3, SecondRound
  <2>2. Room(visit) = 0
    BY <1>1, <2>1
  <2>3. CASE Sign = 1
    BY <2>1, <2>2, <2>3 DEF Exhausted
  <2>4. CASE Sign = -1
    BY <2>1, <2>2, <2>4 DEF Exhausted
  <2> QED BY <2>1, <2>3, <2>4
<1>6. input.entry[visit] # 0
  <2>1. order[pos] \in DOMAIN input.policy
    BY <1>3
  <2>2. DOMAIN input.policy = 1..Len(input.policy)
    BY <1>1, SecondRound, InputFacts
  <2> QED BY <1>3, <2>1, <2>2
<1> SUFFICES ASSUME input.kind \in Shared, Apart
             PROVE  /\ pc' = "add" => \A j \in 1..N : Exhausted(j)' \/ InOrder(input.entry[j])'
                    /\ pc' = "done" => \A j \in 1..N : Exhausted(j)'
  BY <1>1, <1>2 DEF Ending
<1>7. ASSUME NEW j \in 1..N
      PROVE  Exhausted(j)' \/ InOrder(input.entry[j])'
  <2>1. Exhausted(j) => Exhausted(j)'
    BY <1>1, <1>2 DEF Exhausted
  <2>2. CASE j = visit
    BY <1>5, <2>1, <2>2
  <2>3. ASSUME j # visit, InOrder(input.entry[j]) PROVE InOrder(input.entry[j])'
    <3>1. PICK k \in 1..Len(order) : order[k] = input.entry[j]
      BY <2>3 DEF InOrder
    <3>2. k # pos
      <4>1. k = pos => input.entry[j] = input.entry[visit]
        BY <1>3, <3>1
      <4> QED BY <1>3, <1>6, <2>3, <4>1 DEF Apart
    <3>3. \E i \in 1..Len(order') : order'[i] = input.entry[j]
      <4>1. CASE k < pos
        <5>1. k \in 1..(Len(order) - 1)
          BY <1>3, <4>1
        <5> QED BY <1>4, <3>1, <4>1, <5>1
      <4>2. CASE k > pos
        <5> DEFINE i == k - 1
        <5>1. i \in 1..(Len(order) - 1) /\ ~(i < pos) /\ i + 1 = k
          BY <1>3, <4>2
        <5> HIDE DEF i
        <5>2. order'[i] = order[k]
          BY <1>4, <5>1
        <5> QED BY <1>4, <3>1, <5>1, <5>2
      <4> QED BY <1>3, <3>2, <4>1, <4>2
    <3> QED BY <1>1, <3>3 DEF InOrder
  <2>4. Exhausted(j) \/ InOrder(input.entry[j])
    BY <1>1 DEF Ending
  <2> QED BY <2>1, <2>2, <2>3, <2>4
<1>8. ASSUME pc' = "done", NEW j \in 1..N
      PROVE  Exhausted(j)'
  <2>1. Len(order') = 0
    BY <1>1, <1>8
  <2>2. ~InOrder(input.entry[j])'
    BY <2>1 DEF InOrder
  <2> QED BY <1>7, <2>2
<1> QED BY <1>7, <1>8

\* Where no two targets share a policy entry, the second round ends only when
\* the targets have the replicas of the policy, or when each is at the limit the
\* difference drives it to.
THEOREM EndsExactOrExhausted == Spec => []ExactOrExhausted
<1>1. Init => Ending
  BY DEF Init, Ending
<1>2. ASSUME IInv, Ending, [Next]_vars
      PROVE  Ending'
  <2>1. CASE CheckClusters \/ Weigh
    <3>1. pc' \notin {"add", "done"}
      BY <2>1 DEF CheckClusters, Weigh
    <3> QED BY <3>1 DEF Ending
  <2>2. CASE PlaceTarget
    <3>1. pc' \notin {"add", "done"}
      BY <2>2 DEF PlaceTarget
    <3> QED BY <3>1 DEF Ending
  <2>3. CASE PlaceFailover
    <3>1. pc' \notin {"add", "done"}
      BY <1>2, <2>3, ThreeWays DEF IInv, Leave, Take, SkipIt
    <3> QED BY <3>1 DEF Ending
  <2>4. CASE Placed
    <3>1. left' = 0 /\ pc' # "add"
      BY <1>2, <2>4 DEF IInv, Phases, Placed, rounds
    <3> QED BY <3>1 DEF Ending
  <2>5. CASE Fill
    BY <1>2, <2>5, FillEnding
  <2>6. CASE StartPass
    BY <1>2, <2>6, EndingKeeps DEF StartPass
  <2>7. CASE PassBy
    BY <1>2, <2>7, EndingKeeps DEF PassBy
  <2>8. CASE AddOne
    BY <1>2, <2>8, AddEnding
  <2>9. CASE Exhaust
    BY <1>2, <2>9, ExhaustEnding
  <2>10. CASE UNCHANGED vars
    BY <1>2, <2>10, EndingKeeps DEF vars
  <2> QED BY <1>2, <2>1, <2>2, <2>3, <2>4, <2>5, <2>6, <2>7, <2>8, <2>9, <2>10 DEF Next
<1>3. IInv /\ Ending /\ [Next]_vars => Ending'
  BY <1>2
<1>4. ASSUME IInv, Ending, NothingLost
      PROVE  ExactOrExhausted
  <2> SUFFICES ASSUME pc = "done", input.kind \in Shared, Apart
               PROVE  SumOf(replicas) = input.replicas \/ \A j \in 1..N : replicas[j] = Limit(j)
    BY DEF ExactOrExhausted
  <2>1. left = 0 \/ \A j \in 1..N : replicas[j] = Limit(j)
    BY <1>4 DEF Ending, Exhausted
  <2>2. CASE left = 0
    <3>1. SumOf(replicas) + Sign * left = input.replicas
      BY <1>4 DEF NothingLost
    <3>2. SumOf(replicas) \in Nat
      <4>1. N \in Nat /\ replicas \in Seq(Nat) /\ Len(replicas) = N
        BY <1>4, InputFacts DEF IInv, TypeOK, Phases
      <4>2. replicas \in [1..N -> Nat] /\ IsFiniteSet(1..N)
        BY <4>1, FS_Interval
      <4> QED BY <4>2, SumType DEF SumOf
    <3>3. Sign \in {1, -1}
      BY DEF Sign
    <3>4. Sign * left = 0
      <4>1. CASE Sign = 1
        BY <2>2, <4>1
      <4>2. CASE Sign = -1
        BY <2>2, <4>2
      <4> QED BY <3>3, <4>1, <4>2
    <3> QED BY <3>1, <3>2, <3>4
  <2> QED BY <2>1, <2>2
<1>5. IInv /\ Ending /\ NothingLost => ExactOrExhausted
  BY <1>4
<1> QED BY <1>1, <1>3, <1>5, Inductive, NothingIsLost, PTL DEF Spec

-----------------------------------------------------------------------------
(* Scheduling ends *)

Phase == CASE pc = "check" -> 5
           [] pc = "weigh" -> 4
           [] pc = "place" -> 3
           [] pc = "fill"  -> 2
           [] pc = "add"   -> 1
           [] OTHER        -> 0

Minus(a, b) == IF a > b THEN a - b ELSE 0

\* What the targets can still be given, or have taken from them.
Rooms == SumOf([j \in 1..N |-> Room(j)])

\* Targets to place, or changes of a target or of the order.
Todo == CASE pc = "place" -> Minus(N, Len(placed))
          [] pc = "add"   -> Rooms + Len(order)
          [] OTHER        -> 0

\* A target whose turn it is comes in this pass.
Ahead == pos # 0 /\ \E j \in 1..N : j >= visit /\ input.entry[j] = order[pos]

\* Steps of the inner loop and of the head of the outer one, at most, before a
\* target gets something, drops out, or the function returns.
Distance ==
  IF input.kind = "roles" /\ left = 0 THEN IF visit = 0 THEN 0 ELSE 1
  ELSE IF visit = 0 THEN N + 1
  ELSE IF Ahead THEN N - visit
  ELSE 2 * N + 2 - visit

\* Entries of the failover policy, or such steps.
Wait == CASE pc = "place" -> Minus(Len(input.failover) + 1, cursor.failover)
          [] pc = "add"   -> Distance
          [] OTHER        -> 0

\* Failover clusters of the entry at the cursor.
Members == IF cursor.failover <= Len(input.failover)
             THEN Len(input.failover[cursor.failover].members) ELSE 0

Further == IF pc = "place" THEN Minus(Members + 1, cursor.set) ELSE 0

Rank == <<Phase, Todo, Wait, Further>>

Below(a, b) == \E k \in 1..4 : a[k] < b[k] /\ \A i \in 1..(k - 1) : a[i] = b[i]

Ranks == [1..4 -> Nat]

\* There is no way down the ranks that does not end.
LEMMA RanksEnd == IsWellFoundedOn({p \in Ranks \X Ranks : Below(p[1], p[2])}, Ranks)
<1> DEFINE R == OpToRel(<, Nat)
           Lex == LexProductOrdering(R, Nat, 4)
           Falls == {p \in Ranks \X Ranks : Below(p[1], p[2])}
<1>1. IsWellFoundedOn(R, Nat)
  BY NatLessThanWellFounded
<1>2. IsWellFoundedOn(Lex, Ranks)
  <2> HIDE DEF R
  <2>1. 4 \in Nat
    OBVIOUS
  <2> QED BY <1>1, <2>1, WFLexProductOrdering DEF Ranks
<1>3. ASSUME NEW p \in Ranks \X Ranks PROVE p \in Lex <=> p \in Falls
  <2>1. \A j \in 1..4 : p[1][j] \in Nat /\ p[2][j] \in Nat
    BY DEF Ranks
  <2>2. \A j \in 1..4 : <<p[1][j], p[2][j]>> \in R <=> p[1][j] < p[2][j]
    BY <2>1 DEF OpToRel
  <2> HIDE DEF R
  <2>3. p \in Lex <=> \E j \in 1..4 : (\A i \in 1..(j - 1) : p[1][i] = p[2][i]) /\ <<p[1][j], p[2][j]>> \in R
    BY DEF LexProductOrdering, Ranks
  <2> QED BY <2>2, <2>3 DEF Below
<1>4. Lex \subseteq Ranks \X Ranks /\ Falls \subseteq Ranks \X Ranks
  BY DEF LexProductOrdering, Ranks
<1>5. Lex = Falls
  <2> HIDE DEF Lex, Falls
  <2> QED BY <1>3, <1>4
<1> QED BY <1>2, <1>5

LEMMA Lower ==
  ASSUME \/ Phase' < Phase
         \/ Phase' = Phase /\ Todo' < Todo
         \/ Phase' = Phase /\ Todo' = Todo /\ Wait' < Wait
         \/ Phase' = Phase /\ Todo' = Todo /\ Wait' = Wait /\ Further' < Further
  PROVE  Below(Rank', Rank)
<1>1. /\ Rank[1] = Phase /\ Rank[2] = Todo /\ Rank[3] = Wait /\ Rank[4] = Further
      /\ Rank'[1] = Phase' /\ Rank'[2] = Todo' /\ Rank'[3] = Wait' /\ Rank'[4] = Further'
  BY DEF Rank
<1>2. 1..0 = {} /\ 1..1 = {1} /\ 1..2 = {1, 2} /\ 1..3 = {1, 2, 3}
  OBVIOUS
<1>3. CASE Phase' < Phase
  <2>1. Rank'[1] < Rank[1] /\ \A i \in 1..(1 - 1) : Rank'[i] = Rank[i]
    BY <1>1, <1>3
  <2> HIDE DEF Rank
  <2> QED BY <2>1 DEF Below
<1>4. CASE Phase' = Phase /\ Todo' < Todo
  <2>1. Rank'[2] < Rank[2] /\ \A i \in 1..(2 - 1) : Rank'[i] = Rank[i]
    BY <1>1, <1>4
  <2> QED BY <2>1 DEF Below
<1>5. CASE Phase' = Phase /\ Todo' = Todo /\ Wait' < Wait
  <2>1. Rank'[3] < Rank[3] /\ \A i \in 1..(3 - 1) : Rank'[i] = Rank[i]
    BY <1>1, <1>5
  <2> QED BY <2>1 DEF Below
<1>6. CASE Phase' = Phase /\ Todo' = Todo /\ Wait' = Wait /\ Further' < Further
  <2>1. Rank'[4] < Rank[4] /\ \A i \in 1..(4 - 1) : Rank'[i] = Rank[i]
    BY <1>1, <1>6
  <2> QED BY <2>1 DEF Below
<1> QED BY <1>3, <1>4, <1>5, <1>6

\* A weighted policy always has a turn.
Turns == pc = "add" /\ input.kind = "weighted" => pos # 0

LEMMA PlaceDescends ==
  ASSUME IInv, PlaceTarget \/ PlaceFailover
  PROVE  Below(Rank', Rank)
<1>1. /\ pc = "place" /\ input' = input /\ Target \in 1..N /\ N' = N
      /\ N \in Nat /\ Len(placed) \in Nat /\ placed \in Seq(Clusters) /\ input \in Input
      /\ Len(input.failover) \in Nat
      /\ cursor \in [failover: Nat \ {0}, set: Nat \ {0}, down: Nat \ {0}]
  <2>1. /\ pc = "place" /\ input' = input /\ Target \in 1..N
    <3>1. CASE PlaceTarget
      BY <3>1 DEF PlaceTarget
    <3>2. CASE PlaceFailover
      BY <3>2, ThreeWays DEF IInv
    <3> QED BY <3>1, <3>2
  <2> QED BY <2>1, SameInput, InputFacts DEF IInv, TypeOK
<1>2. Phase = 3 /\ Todo = Minus(N, Len(placed)) /\ Len(placed) < N
      /\ Wait = Minus(Len(input.failover) + 1, cursor.failover)
      /\ Further = Minus(Members + 1, cursor.set)
  BY <1>1 DEF Phase, Todo, Wait, Further, Target
<1>3. ASSUME NEW cluster, Place(cluster), pc' = pc
      PROVE  Below(Rank', Rank)
  <2>1. Len(placed') = Len(placed) + 1
    BY <1>1, <1>3 DEF Place
  <2>2. Phase' = 3 /\ Todo' = Minus(N, Len(placed'))
    BY <1>1, <1>3 DEF Phase, Todo, Minus
  <2>3. Todo' < Todo
    BY <1>1, <1>2, <2>1, <2>2 DEF Minus
  <2> QED BY <1>2, <2>2, <2>3, Lower
<1>4. CASE PlaceTarget
  BY <1>3, <1>4 DEF PlaceTarget
<1>5. CASE PlaceFailover /\ Leave
  <2>1. Phase' = 0
    BY <1>5 DEF Leave, Phase
  <2> QED BY <1>2, <2>1, Lower
<1>6. CASE PlaceFailover /\ Take
  BY <1>3, <1>6 DEF Take
<1>7. CASE PlaceFailover /\ SkipIt
  <2>1. pc' = pc /\ placed' = placed /\ Inside
    BY <1>7 DEF SkipIt
  <2>2. Phase' = 3 /\ Todo' = Todo
    BY <1>1, <1>2, <2>1 DEF Phase, Todo, Minus
  <2>3. Wait' = Minus(Len(input.failover) + 1, cursor'.failover) /\ Further' = Minus(Members' + 1, cursor'.set)
    BY <1>1, <2>1 DEF Wait, Further, Minus
  <2>4. cursor.failover <= Len(input.failover) /\ cursor.set <= Members /\ Members \in Nat
    <3>1. cursor.failover <= Len(input.failover) /\ cursor.set <= Members
      BY <2>1 DEF Inside, List, Members
    <3>2. input.failover[cursor.failover].members \in Seq(Clusters)
      <4>1. input.failover[cursor.failover] \in Failover
        BY <1>1, <3>1 DEF Input
      <4> QED BY <4>1 DEF Failover
    <3> QED BY <1>1, <3>1, <3>2 DEF Members
  <2>5. CASE List.type = "clusterset"
    <3>1. cursor'.failover = cursor.failover /\ cursor'.set = cursor.set + 1
      BY <1>1, <1>7, <2>5 DEF SkipIt
    <3>2. Members' = Members
      BY <1>1, <3>1 DEF Members
    <3>3. Wait' = Wait /\ Further' < Further
      BY <1>1, <1>2, <2>3, <2>4, <3>1, <3>2 DEF Minus
    <3> QED BY <1>2, <2>2, <3>3, Lower
  <2>6. CASE List.type # "clusterset"
    <3>1. cursor'.failover = cursor.failover + 1
      BY <1>1, <1>7, <2>6 DEF SkipIt
    <3>2. Wait' < Wait
      BY <1>1, <1>2, <2>3, <2>4, <3>1 DEF Minus
    <3> QED BY <1>2, <2>2, <3>2, Lower
  <2> QED BY <2>5, <2>6
<1> QED BY <1>4, <1>5, <1>6, <1>7, ThreeWays DEF IInv

\* The rank during the second round.
LEMMA RankInRound ==
  ASSUME IInv, pc = "add"
  PROVE  /\ Phase = 1 /\ Todo = Rooms + Len(order) /\ Wait = Distance /\ Further = 0
         /\ Rooms \in Nat /\ Len(order) \in Nat /\ Distance \in Nat
         /\ [j \in 1..N |-> Room(j)] \in [1..N -> Nat] /\ IsFiniteSet(1..N)
<1>1. N \in Nat /\ \A j \in 1..N : Room(j) \in Nat
  BY SecondRound
<1>2. order \in Seq(DOMAIN input.policy) /\ visit \in 0..N
  BY DEF IInv, TypeOK
<1>3. [j \in 1..N |-> Room(j)] \in [1..N -> Nat] /\ IsFiniteSet(1..N)
  BY <1>1, FS_Interval
<1>4. Rooms \in Nat
  <2> DEFINE f == [j \in 1..N |-> Room(j)]
  <2>1. f \in [1..N -> Nat] /\ IsFiniteSet(1..N)
    BY <1>3
  <2> HIDE DEF f
  <2>2. SumFunction(f) \in Nat
    BY <2>1, SumType
  <2> QED BY <2>2 DEF Rooms, SumOf, f
<1>5. Distance \in Nat
  BY <1>1, <1>2 DEF Distance
<1>6. Len(order) \in Nat
  BY <1>2
<1> QED BY <1>3, <1>4, <1>5, <1>6 DEF Phase, Todo, Wait, Further

LEMMA RoundEnds ==
  ASSUME IInv, pc = "add", pc' \in {"done", "panic"}
  PROVE  Below(Rank', Rank)
<1>1. Phase' = 0 /\ Phase = 1
  BY DEF Phase
<1> QED BY <1>1, Lower

\* Nothing is given in such a step, and there are fewer to come before something is.
LEMMA RoundWaits ==
  ASSUME IInv, IInv', pc = "add", pc' = pc, UNCHANGED <<input, replicas, diff, order>>,
         Distance' < Distance
  PROVE  Below(Rank', Rank)
<1>1. N' = N /\ \A j : Entry(j)' = Entry(j)
  BY SameInput
<1>2. \A j : Room(j)' = Room(j)
  BY <1>1 DEF Room
<1>3. Rooms' = Rooms
  BY <1>1, <1>2 DEF Rooms, SumOf
<1>4. /\ Phase = 1 /\ Todo = Rooms + Len(order) /\ Wait = Distance /\ Further = 0
  BY RankInRound
<1>5. /\ Phase' = 1 /\ Todo' = Rooms' + Len(order') /\ Wait' = Distance' /\ Further' = 0
  BY DEF Phase, Todo, Wait, Further
<1> QED BY <1>3, <1>4, <1>5, Lower

LEMMA AddDescends ==
  ASSUME IInv, AddOne
  PROVE  Below(Rank', Rank)
<1>1. pc = "add" /\ pc' = pc /\ UNCHANGED <<input, diff, order>>
  BY DEF AddOne, Turn
<1>2. N' = N /\ \A j : Entry(j)' = Entry(j)
  BY <1>1, SameInput
<1> DEFINE f == [j \in 1..N |-> IF diff > 0 THEN Entry(j).max - replicas[j]
                                ELSE replicas[j] - Entry(j).min]
           h == [j \in 1..N |-> IF diff > 0 THEN Entry(j).max - replicas'[j]
                                ELSE replicas'[j] - Entry(j).min]
<1>3. /\ N \in Nat /\ replicas \in [1..N -> Nat] /\ diff \in Int
      /\ Sign = IF diff > 0 THEN 1 ELSE -1
      /\ \A j \in 1..N : Entry(j).min \in Nat /\ Entry(j).max \in Nat
  BY <1>1, SecondRound
<1>4. /\ visit \in 1..N /\ replicas' \in [1..N -> Nat] /\ replicas'[visit] = replicas[visit] + Sign
      /\ \A j \in 1..N \ {visit} : replicas'[j] = replicas[j]
  BY TurnFacts, Adding DEF AddOne
<1>8. f \in [1..N -> Int] /\ h \in [1..N -> Int] /\ IsFiniteSet(1..N)
  <2>1. ASSUME NEW j \in 1..N
        PROVE  /\ Entry(j).min \in Nat /\ Entry(j).max \in Nat
               /\ replicas[j] \in Nat /\ replicas'[j] \in Nat
    BY <1>3, <1>4
  <2>2. ASSUME NEW j \in 1..N
        PROVE  f[j] \in Int /\ h[j] \in Int
    <3>1. f[j] \in Int
      BY <2>1
    <3>2. h[j] \in Int
      BY <2>1
    <3> QED BY <3>1, <3>2
  <2>3. DOMAIN f = 1..N /\ DOMAIN h = 1..N /\ f = [j \in 1..N |-> f[j]] /\ h = [j \in 1..N |-> h[j]]
    OBVIOUS
  <2>4. IsFiniteSet(1..N)
    BY <1>3, FS_Interval
  <2> HIDE DEF f, h
  <2> QED BY <2>2, <2>3, <2>4
<1>9. h[visit] = f[visit] - 1
  <2>1. Entry(visit).min \in Nat /\ Entry(visit).max \in Nat /\ replicas[visit] \in Nat
    BY <1>3, <1>4
  <2> QED BY <1>3, <1>4, <2>1
<1>10. \A j \in 1..N \ {visit} : h[j] = f[j]
  BY <1>4
<1>11. SumOf(h) = SumOf(f) - 1
  <2>1. f[visit] \in Int
    BY <1>4, <1>8
  <2>2. SumOf(f) \in Int
    <3> HIDE DEF f
    <3> QED BY <1>8, SumType DEF SumOf
  <2> HIDE DEF f, h
  <2>3. SumOf(h) = SumOf(f) + (h[visit] - f[visit])
    BY <1>4, <1>8, <1>10, SumChange
  <2> QED BY <1>9, <2>1, <2>2, <2>3
<1>12. Rooms = SumOf(f) /\ Rooms' = SumOf(h)
  BY <1>1, <1>2 DEF Rooms, SumOf, Room
<1>13. /\ Phase = 1 /\ Todo = Rooms + Len(order)
       /\ Rooms \in Nat /\ Len(order) \in Nat
  BY <1>1, RankInRound
<1>14. Phase' = 1 /\ Todo' = Rooms' + Len(order)
  BY <1>1 DEF Phase, Todo
<1> HIDE DEF f, h
<1>15. Todo' < Todo
  BY <1>11, <1>12, <1>13, <1>14
<1> QED BY <1>13, <1>14, <1>15, Lower

LEMMA ExhaustDescends ==
  ASSUME IInv, Exhaust
  PROVE  Below(Rank', Rank)
<1>1. pc = "add" /\ UNCHANGED <<input, diff, replicas>> /\ pc' \in {"done", "add"}
      /\ order' = RemoveAt(order, pos)
  BY DEF Exhaust, Turn
<1>2. N' = N /\ \A j : Entry(j)' = Entry(j)
  BY <1>1, SameInput
<1>3. Rooms' = Rooms
  <2>1. \A j : Room(j)' = Room(j)
    BY <1>1, <1>2 DEF Room
  <2> QED BY <1>2, <2>1 DEF Rooms, SumOf
<1>4. Len(order') = Len(order) - 1
  BY <1>1, TurnFacts, Removed DEF Exhaust
<1>5. /\ Phase = 1 /\ Todo = Rooms + Len(order) /\ Rooms \in Nat /\ Len(order) \in Nat
  BY <1>1, RankInRound
<1>6. CASE pc' = "add"
  <2>1. Phase' = 1 /\ Todo' = Rooms' + Len(order')
    BY <1>6 DEF Phase, Todo
  <2>2. Todo' < Todo
    BY <1>3, <1>4, <1>5, <2>1
  <2> QED BY <1>5, <2>1, <2>2, Lower
<1>7. CASE pc' = "done"
  BY <1>1, <1>7, RoundEnds
<1> QED BY <1>1, <1>6, <1>7

LEMMA PassByDescends ==
  ASSUME IInv, IInv', PassBy
  PROVE  Below(Rank', Rank)
<1>1. pc = "add" /\ visit > 0 /\ UNCHANGED <<input, replicas, diff, left, order, pos>>
  BY DEF PassBy
<1>2. N \in Nat /\ visit \in 1..N /\ N' = N /\ visit' \in 0..N
  <2>1. N \in Nat /\ visit \in 0..N /\ N' = N /\ visit' \in 0..N'
    BY <1>1, SecondRound, SameInput DEF IInv, TypeOK
  <2> QED BY <1>1, <2>1
<1>3. CASE input.kind = "roles" /\ left = 0 /\ visit' = 0 /\ pc' = pc
  <2>1. Distance = 1 /\ Distance' = 0
    BY <1>1, <1>3 DEF Distance
  <2> QED BY <1>1, <1>3, <2>1, RoundWaits
<1>4. CASE pc' = "panic"
  BY <1>1, <1>4, RoundEnds
<1>5. CASE /\ input.kind = "roles" => left # 0
           /\ pos # 0 /\ input.entry[visit] # order[pos]
           /\ visit' = NextVisit /\ pc' = pc
  <2>1. Distance = IF Ahead THEN N - visit ELSE 2 * N + 2 - visit
    BY <1>1, <1>2, <1>5 DEF Distance
  <2>2. Distance' = IF visit' = 0 THEN N + 1 ELSE IF Ahead' THEN N - visit' ELSE 2 * N + 2 - visit'
    BY <1>1, <1>2, <1>5 DEF Distance
  <2>3. CASE Ahead
    <3>1. PICK j \in 1..N : j >= visit /\ input.entry[j] = order[pos]
      BY <2>3 DEF Ahead
    <3>2. j > visit
      BY <1>2, <1>5, <3>1
    <3>3. visit' = visit + 1 /\ j >= visit'
      BY <1>2, <1>5, <3>1, <3>2 DEF NextVisit
    <3>4. Ahead'
      BY <1>1, <1>2, <1>5, <3>1, <3>3 DEF Ahead
    <3>5. Distance' < Distance
      BY <1>2, <2>1, <2>2, <2>3, <3>3, <3>4
    <3> QED BY <1>1, <1>5, <3>5, RoundWaits
  <2>4. CASE ~Ahead
    <3>1. \A j \in 1..N : j >= visit => input.entry[j] # order[pos]
      BY <1>5, <2>4 DEF Ahead
    <3>2. CASE visit = N
      <4>1. visit' = 0
        BY <1>5, <3>2 DEF NextVisit
      <4>2. Distance' < Distance
        BY <1>2, <2>1, <2>2, <2>4, <3>2, <4>1
      <4> QED BY <1>1, <1>5, <4>2, RoundWaits
    <3>3. CASE visit # N
      <4>1. visit' = visit + 1
        BY <1>5, <3>3 DEF NextVisit
      <4>2. ~Ahead'
        BY <1>1, <1>2, <3>1, <4>1 DEF Ahead
      <4>3. Distance' < Distance
        BY <1>2, <2>1, <2>2, <2>4, <4>1, <4>2
      <4> QED BY <1>1, <1>5, <4>3, RoundWaits
    <3> QED BY <3>2, <3>3
  <2> QED BY <2>3, <2>4
<1> QED BY <1>3, <1>4, <1>5 DEF PassBy

LEMMA StartPassDescends ==
  ASSUME IInv, IInv', Turns, input.kind = "roles" => Covered, StartPass
  PROVE  Below(Rank', Rank)
<1>1. pc = "add" /\ visit = 0 /\ UNCHANGED <<input, replicas, diff, left, order>>
  BY DEF StartPass
<1>2. /\ N \in Nat /\ N > 0 /\ N' = N /\ input \in Input /\ WellFormed(input)
      /\ input.kind \in Shared
  BY <1>1, SecondRound, SameInput
<1>3. order \in Seq(DOMAIN input.policy) /\ Len(order) \in Nat /\ Len(order) > 0 /\ pos \in 0..Len(order)
  <2>1. order \in Seq(DOMAIN input.policy) /\ pos \in 0..Len(order) /\ order # <<>>
    BY <1>1 DEF IInv, TypeOK, Phases
  <2> QED BY <2>1
<1>4. CASE left = 0
  <2>1. pc' = "done"
    BY <1>4 DEF StartPass
  <2> QED BY <1>1, <2>1, RoundEnds
<1>5. CASE left # 0
  <2>1. pc' = pc /\ visit' = 1 /\ pos' = CASE input.kind = "weighted" -> pos
                                         [] pos = Len(order)        -> 1
                                         [] OTHER                   -> pos + 1
    BY <1>5 DEF StartPass
  <2>2. pos' \in 1..Len(order)
    <3>1. input.kind = "weighted" => pos # 0
      BY <1>1 DEF Turns
    <3> QED BY <1>3, <2>1, <3>1
  <2>3. order[pos'] \in DOMAIN input.policy
    BY <1>3, <2>2
  <2>4. \E j \in 1..N : input.entry[j] = order[pos']
    <3>1. CASE input.kind = "roles"
      BY <2>3, <3>1 DEF Covered
    <3>2. CASE input.kind = "weighted"
      <4>1. input.entry = [j \in DOMAIN input.policy |-> j]
        BY <1>2, <3>2 DEF WellFormed
      <4>2. DOMAIN input.entry = 1..N
        BY <1>2 DEF WellFormed, Input, N
      <4> QED BY <2>3, <4>1, <4>2
    <3> QED BY <1>2, <3>1, <3>2 DEF Shared
  <2>5. Ahead'
    <3>1. PICK j \in 1..N : input.entry[j] = order[pos']
      BY <2>4
    <3>2. j >= 1 /\ pos' # 0
      BY <1>2, <1>3, <2>2
    <3> QED BY <1>1, <1>2, <2>1, <3>1, <3>2 DEF Ahead
  <2>6. Distance = N + 1
    BY <1>1, <1>5 DEF Distance
  <2>7. Distance' = N - 1
    BY <1>1, <1>2, <1>5, <2>1, <2>5 DEF Distance
  <2>8. Distance' < Distance
    BY <1>2, <2>6, <2>7
  <2> QED BY <1>1, <2>1, <2>8, RoundWaits
<1> QED BY <1>4, <1>5

LEMMA TurnsKeep ==
  ASSUME IInv, IInv', Turns, [Next]_vars
  PROVE  Turns'
<1>1. CASE Fill
  BY <1>1 DEF Fill, Turns
<1>2. CASE StartPass
  BY <1>2 DEF StartPass, Turns
<1>3. CASE PassBy
  BY <1>3 DEF PassBy, Turns
<1>4. CASE AddOne
  <2>1. pos \in 1..Len(order) /\ Len(order) \in Nat
    BY <1>4, TurnFacts DEF AddOne
  <2>2. pos' \in {pos, 1, pos + 1}
    BY <1>4 DEF AddOne
  <2>3. pos' # 0
    BY <2>1, <2>2
  <2> QED BY <2>3 DEF Turns
<1>5. CASE Exhaust
  <2>1. pos \in 1..Len(order)
    BY <1>5, TurnFacts DEF Exhaust
  <2>2. pc' = "add" => order' # <<>>
    BY DEF IInv, Phases
  <2>3. input' = input /\ pos' = CASE pos <= Len(order') -> pos
                 [] input.kind = "weighted" /\ order' # <<>> -> 1
                 [] OTHER -> 0
    BY <1>5 DEF Exhaust
  <2>4. pos # 0
    BY <2>1
  <2> QED BY <2>2, <2>3, <2>4 DEF Turns
<1>6. CASE CheckClusters \/ Weigh \/ PlaceTarget \/ Placed
  <2>1. pc' # "add"
    BY <1>6 DEF CheckClusters, Weigh, PlaceTarget, Placed
  <2> QED BY <2>1 DEF Turns
<1>7. CASE PlaceFailover
  <2>1. pc' # "add"
    BY <1>7, ThreeWays DEF IInv, Leave, Take, SkipIt
  <2> QED BY <2>1 DEF Turns
<1>8. CASE UNCHANGED vars
  BY <1>8 DEF vars, Turns
<1> QED BY <1>1, <1>2, <1>3, <1>4, <1>5, <1>6, <1>7, <1>8 DEF Next

LEMMA Descends ==
  ASSUME IInv, IInv', Turns, input.kind = "roles" => Covered, Next
  PROVE  Below(Rank', Rank)
<1>1. CASE CheckClusters \/ Weigh \/ Placed \/ Fill
  <2>1. Phase' < Phase
    BY <1>1 DEF CheckClusters, Weigh, Placed, Fill, Phase
  <2> QED BY <2>1, Lower
<1> QED BY <1>1, PlaceDescends, StartPassDescends, PassByDescends, AddDescends, ExhaustDescends
        DEF Next

LEMMA RankType ==
  ASSUME IInv
  PROVE  Rank \in Ranks
<1>1. /\ N \in Nat /\ Len(placed) \in Nat /\ Len(input.failover) \in Nat /\ input \in Input
      /\ cursor \in [failover: Nat \ {0}, set: Nat \ {0}, down: Nat \ {0}]
  BY InputFacts DEF IInv, TypeOK
<1>2. Members \in Nat
  <2>1. CASE cursor.failover <= Len(input.failover)
    <3>1. input.failover[cursor.failover] \in Failover
      BY <1>1, <2>1 DEF Input
    <3> QED BY <2>1, <3>1 DEF Members, Failover
  <2>2. CASE ~(cursor.failover <= Len(input.failover))
    BY <2>2 DEF Members
  <2> QED BY <2>1, <2>2
<1>3. Phase \in Nat
  BY DEF Phase
<1>4. pc = "add" => Rooms \in Nat /\ Len(order) \in Nat /\ Distance \in Nat
  BY RankInRound
<1>5. Todo \in Nat
  BY <1>1, <1>4 DEF Todo, Minus
<1>6. Wait \in Nat
  BY <1>1, <1>4 DEF Wait, Minus
<1>7. Further \in Nat
  BY <1>1, <1>2 DEF Further, Minus
<1> QED BY <1>3, <1>5, <1>6, <1>7 DEF Rank, Ranks

\* Every step of doSchedule lowers a rank of four numbers, whose order has no
\* infinite descent (RanksEnd): the loops of the second round, whose conditions
\* are changed from within, come to an end, if every role of the policy has a
\* cluster.
THEOREM StepsRunOut ==
  Spec => /\ [](Rank \in Ranks)
          /\ [][(input.kind = "roles" => Covered) => Below(Rank', Rank)]_vars
<1>1. Init => Turns
  BY DEF Init, Turns
<1>2. IInv /\ IInv' /\ Turns /\ [Next]_vars => Turns'
  BY TurnsKeep
<1>3. IInv /\ IInv' /\ Turns /\ [Next]_vars =>
        [(input.kind = "roles" => Covered) => Below(Rank', Rank)]_vars
  BY Descends
<1>4. IInv => Rank \in Ranks
  BY RankType
<1> QED BY <1>1, <1>2, <1>3, <1>4, Inductive, PTL DEF Spec

==============================================================================
