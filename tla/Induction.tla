------------------------------ MODULE Induction ------------------------------
(***************************************************************************)
(* Induction, stated for sets: the theorems of the library that take a     *)
(* predicate are restated for the set of the elements that satisfy it.     *)
(***************************************************************************)
EXTENDS Integers, FiniteSets, TLAPS, WellFoundedInduction, FiniteSetTheorems

\* A non-empty family of finite sets has a minimal member.
LEMMA MinimalSet ==
    ASSUME NEW S, NEW F, F \subseteq FiniteSubsetsOf(S), F # {}
    PROVE  \E A \in F : \A B \in F : B \subseteq A => B = A
<1>1. \E A \in F : \A B \in F : ~ (<<B, A>> \in StrictSubsetOrdering(S))
  BY WFMin, FS_StrictSubsetOrderingWellFounded
<1>2. PICK A \in F : \A B \in F : ~ (<<B, A>> \in StrictSubsetOrdering(S))
  BY <1>1
<1>3. \A B \in F : B \subseteq A => B = A
  <2>1. SUFFICES ASSUME NEW B \in F, B \subseteq A, B # A PROVE FALSE
    OBVIOUS
  <2>2. B \in SUBSET S /\ A \in SUBSET S
    BY <1>2, <2>1 DEF FiniteSubsetsOf
  <2>3. <<B, A>> \in StrictSubsetOrdering(S)
    BY <2>1, <2>2 DEF StrictSubsetOrdering
  <2> QED BY <2>1, <2>3, <1>2
<1> QED BY <1>2, <1>3

\* A non-empty set of naturals has a least element.
LEMMA LeastNatural ==
    ASSUME NEW T, T \subseteq Nat, T # {}
    PROVE  \E x \in T : \A y \in T : x <= y
<1> DEFINE F == {0..n : n \in T}
<1>1. F \subseteq FiniteSubsetsOf(Nat) /\ F # {}
  <2>1. ASSUME NEW n \in T PROVE 0..n \in FiniteSubsetsOf(Nat)
    <3>1. n \in Int /\ n \in Nat
      OBVIOUS
    <3>2. IsFiniteSet(0..n)
      BY <3>1, FS_Interval
    <3>3. 0..n \subseteq Nat
      BY <3>1
    <3> QED BY <3>2, <3>3 DEF FiniteSubsetsOf
  <2>2. PICK n \in T : TRUE
    OBVIOUS
  <2>3. 0..n \in F
    BY <2>2
  <2> QED BY <2>1, <2>3
<1>2. \E A \in F : \A B \in F : B \subseteq A => B = A
  <2> HIDE DEF F
  <2> QED BY <1>1, MinimalSet
<1>3. PICK x \in T : \A y \in T : 0..y \subseteq 0..x => 0..y = 0..x
  <2>1. PICK A \in F : \A B \in F : B \subseteq A => B = A
    BY <1>2
  <2>2. PICK x \in T : A = 0..x
    BY <2>1
  <2>3. \A y \in T : 0..y \in F
    OBVIOUS
  <2>4. \A y \in T : 0..y \subseteq A => 0..y = A
    <3> HIDE DEF F
    <3> QED BY <2>1, <2>3
  <2> QED BY <2>2, <2>4
<1>4. \A y \in T : x <= y
  <2>1. SUFFICES ASSUME NEW y \in T, y < x PROVE FALSE
    OBVIOUS
  <2>2. x \in Nat /\ y \in Nat
    BY <1>3, <2>1
  <2>3. 0..y \subseteq 0..x
    BY <2>1, <2>2
  <2>4. 0..y = 0..x
    BY <1>3, <2>3
  <2>5. x \in 0..x /\ x \notin 0..y
    BY <2>1, <2>2
  <2> QED BY <2>4, <2>5
<1> QED BY <1>3, <1>4

\* A set of naturals that has 0 and with every number the next one has them all.
LEMMA NaturalsBySteps ==
    ASSUME NEW S, S \subseteq Nat, 0 \in S, \A n \in S : n + 1 \in S
    PROVE  S = Nat
<1> DEFINE Bad == Nat \ S
<1>1. SUFFICES ASSUME Bad # {} PROVE FALSE
  OBVIOUS
<1>2. Bad \subseteq Nat
  OBVIOUS
<1>3. \E x \in Bad : \A y \in Bad : x <= y
  <2> HIDE DEF Bad
  <2> QED BY <1>1, <1>2, LeastNatural
<1>4. PICK x \in Bad : \A y \in Bad : x <= y
  BY <1>3
<1>5. x # 0 /\ x \in Nat
  BY <1>4
<1>6. x - 1 \in Nat /\ x - 1 \notin Bad
  BY <1>4, <1>5
<1>7. x - 1 \in S /\ (x - 1) + 1 = x
  BY <1>5, <1>6
<1> QED BY <1>4, <1>7

\* f goes from b by the steps F, N of them.
Steps(f, b, N, F) == f[0] = b /\ \A i \in 1..N : f[i] = F[<<i, f[i - 1]>>]

\* What is defined by a first value and a step from every value to the next exists.
LEMMA StepByStep ==
    ASSUME NEW S, NEW b \in S, NEW N \in Nat, NEW F \in [(1..N) \X S -> S]
    PROVE  \E f \in [0..N -> S] : Steps(f, b, N, F)
<1> DEFINE Fits(n, f) == f[0] = b /\ \A i \in 1..n : f[i] = F[<<i, f[i - 1]>>]
           T == {n \in Nat : n <= N => \E f \in [0..n -> S] : Fits(n, f)}
<1>1. 0 \in T
  <2>1. [i \in 0..0 |-> b] \in [0..0 -> S] /\ Fits(0, [i \in 0..0 |-> b])
    OBVIOUS
  <2> HIDE DEF Fits
  <2> QED BY <2>1
<1>2. ASSUME NEW n \in T PROVE n + 1 \in T
  <2>1. n \in Nat /\ n + 1 \in Nat
    OBVIOUS
  <2>2. SUFFICES ASSUME n + 1 <= N PROVE \E f \in [0..(n + 1) -> S] : Fits(n + 1, f)
    BY <2>1
  <2>3. PICK f \in [0..n -> S] : Fits(n, f)
    BY <2>1, <2>2
  <2> DEFINE y == F[<<n + 1, f[n]>>]
             h == [i \in 0..(n + 1) |-> IF i = n + 1 THEN y ELSE f[i]]
  <2>4. y \in S
    <3>1. f[n] \in S /\ n + 1 \in 1..N
      BY <2>1, <2>2, <2>3
    <3>2. <<n + 1, f[n]>> \in (1..N) \X S
      BY <3>1
    <3> QED BY <3>2
  <2>5. \A i \in 0..n : h[i] = f[i]
    BY <2>1
  <2>6. h \in [0..(n + 1) -> S] /\ h[n + 1] = y
    <3> HIDE DEF y
    <3> QED BY <2>1, <2>3, <2>4
  <2>7. h[0] = b
    BY <2>1, <2>3, <2>5
  <2>8. \A i \in 1..(n + 1) : h[i] = F[<<i, h[i - 1]>>]
    <3>1. SUFFICES ASSUME NEW i \in 1..(n + 1) PROVE h[i] = F[<<i, h[i - 1]>>]
      OBVIOUS
    <3>2. i - 1 \in 0..n /\ h[i - 1] = f[i - 1]
      BY <2>1, <2>5
    <3>3. CASE i \in 1..n
      <4>1. f[i] = F[<<i, f[i - 1]>>] /\ h[i] = f[i]
        BY <2>1, <2>3, <2>5, <3>3
      <4> QED BY <3>2, <4>1
    <3>4. CASE i = n + 1
      <4>1. i - 1 = n
        BY <2>1, <3>4
      <4> HIDE DEF h
      <4> QED BY <2>6, <3>2, <3>4, <4>1
    <3> QED BY <2>1, <3>3, <3>4
  <2>9. Fits(n + 1, h)
    <3> HIDE DEF h
    <3> QED BY <2>7, <2>8
  <2> HIDE DEF Fits, h
  <2> QED BY <2>6, <2>9
<1>3. T = Nat
  <2>1. T \subseteq Nat
    OBVIOUS
  <2> HIDE DEF T
  <2> QED BY <1>1, <1>2, <2>1, NaturalsBySteps
<1>4. N \in T
  <2> HIDE DEF T
  <2> QED BY <1>3
<1>5. N <= N
  OBVIOUS
<1>6. \E f \in [0..N -> S] : Fits(N, f)
  <2> HIDE DEF Fits
  <2> QED BY <1>4, <1>5
<1>7. \A f : Fits(N, f) <=> Steps(f, b, N, F)
  BY DEF Steps
<1> HIDE DEF Fits
<1> QED BY <1>6, <1>7

\* Among finitely many things with a key and a place of their own in a list, one
\* is before all others in the order of falling keys, then of places.
LEMMA HighestRanked ==
    ASSUME NEW S, IsFiniteSet(S), S # {}, NEW K, NEW P,
           \A c \in S : K[c] \in Nat /\ P[c] \in Nat,
           \A c, d \in S : P[c] = P[d] => c = d
    PROVE  \E c \in S : \A d \in S \ {c} : K[c] > K[d] \/ (K[c] = K[d] /\ P[c] < P[d])
<1> DEFINE Over(c) == {d \in S : K[d] > K[c] \/ (K[d] = K[c] /\ P[d] < P[c])}
           F == {Over(c) : c \in S}
<1>1. \A c \in S : Over(c) \in FiniteSubsetsOf(S)
  <2>1. \A T \in SUBSET S : IsFiniteSet(T)
    BY FS_Subset
  <2> QED BY <2>1 DEF FiniteSubsetsOf
<1>2. PICK m \in S : \A c \in S : Over(c) \subseteq Over(m) => Over(c) = Over(m)
  <2>1. F \subseteq FiniteSubsetsOf(S) /\ F # {}
    <3> HIDE DEF Over
    <3>1. PICK c \in S : TRUE
      OBVIOUS
    <3>2. Over(c) \in F
      OBVIOUS
    <3> QED BY <1>1, <3>2
  <2>2. \E A \in F : \A B \in F : B \subseteq A => B = A
    <3> HIDE DEF F
    <3> QED BY <2>1, MinimalSet
  <2>3. PICK A \in F : \A B \in F : B \subseteq A => B = A
    BY <2>2
  <2>4. PICK m \in S : A = Over(m)
    BY <2>3
  <2>5. \A c \in S : Over(c) \in F
    OBVIOUS
  <2>6. \A c \in S : Over(c) \subseteq A => Over(c) = A
    <3> HIDE DEF F, Over
    <3> QED BY <2>3, <2>5
  <2> QED BY <2>4, <2>6
<1>3. Over(m) = {}
  <2>1. SUFFICES ASSUME NEW d \in Over(m) PROVE FALSE
    OBVIOUS
  <2>2. Over(d) \subseteq Over(m)
    OBVIOUS
  <2>3. d \notin Over(d)
    OBVIOUS
  <2>4. d \in S
    OBVIOUS
  <2> HIDE DEF Over
  <2> QED BY <1>2, <2>1, <2>2, <2>3, <2>4
<1>4. \A d \in S \ {m} : K[m] > K[d] \/ (K[m] = K[d] /\ P[m] < P[d])
  BY <1>3
<1> QED BY <1>4

=============================================================================
