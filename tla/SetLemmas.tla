----------------------------- MODULE SetLemmas -----------------------------
(***************************************************************************)
(* Facts that the proofs of several components need.  The greatest and the *)
(* least element of a finite set of integers exist, so that Max and Min of *)
(* FiniteSetsExt are what their names say; hence induction over an         *)
(* interval, for what can be written as a set, and what follows for        *)
(* functions defined by recursion over one.                                *)
(***************************************************************************)
EXTENDS Integers, FiniteSets, FiniteSetsExt, FiniteSetTheorems, TLAPS

\* The least-set argument: of the sets {y \in S : y > x} one has no other
\* below it, and its x is the greatest element.
LEMMA MaxOfFinite ==
    ASSUME NEW S, IsFiniteSet(S), S # {}, S \subseteq Int
    PROVE  Max(S) \in S /\ \A y \in S : Max(S) >= y
<1> DEFINE Above(x) == {y \in S : y > x}
           T == {Above(x) : x \in S}
<1>1. IsWellFoundedOn(StrictSubsetOrdering(S), SUBSET S)
    BY FS_StrictSubsetOrderingWellFounded, FS_FiniteSubsetsOfFinite
<1>2. T \subseteq SUBSET S /\ T # {}
    OBVIOUS
<1>3. \E U \in T : \A V \in T : <<V, U>> \notin StrictSubsetOrdering(S)
    <2> HIDE DEF T
    <2> DEFINE R == StrictSubsetOrdering(S)
               Q == SUBSET S
    <2>1. IsWellFoundedOn(R, Q) /\ T \subseteq Q /\ T # {}
        BY <1>1, <1>2
    <2> HIDE DEF R, Q
    <2>2. \E U \in T : \A V \in T : <<V, U>> \notin R
        BY <2>1, WFMin
    <2> QED
        BY <2>2 DEF R
<1>4. PICK U \in T : \A V \in T : <<V, U>> \notin StrictSubsetOrdering(S)
    BY <1>3
<1>5. PICK x \in S : U = Above(x)
    BY <1>4
<1>6. ASSUME NEW y \in S, y > x PROVE FALSE
    <2>1. Above(y) \in T /\ y \in Above(x) /\ y \notin Above(y)
        BY <1>6
    <2>2. ASSUME NEW z \in Above(y) PROVE z \in Above(x)
        <3>1. x \in Int /\ y \in Int /\ z \in Int /\ z > y /\ y > x
            BY <1>6
        <3> QED
            BY <3>1
    <2>3. <<Above(y), Above(x)>> \in StrictSubsetOrdering(S)
        BY <2>1, <2>2 DEF StrictSubsetOrdering
    <2> QED
        BY <2>1, <2>3, <1>4, <1>5
<1>7. \A y \in S : x >= y
    BY <1>6
<1> QED
    BY <1>7 DEF Max

\* The least element is the greatest of the negated set.
LEMMA MinOfFinite ==
    ASSUME NEW S, IsFiniteSet(S), S # {}, S \subseteq Int
    PROVE  Min(S) \in S /\ \A y \in S : Min(S) <= y
<1> DEFINE negate == [x \in S |-> -x]
           N == {negate[x] : x \in S}
<1>1. negate \in [S -> Int] /\ N \subseteq Int /\ N # {}
    <2>1. \A x \in S : x \in Int /\ -x \in Int
        OBVIOUS
    <2>2. negate \in [S -> Int]
        BY <2>1
    <2>3. N \subseteq Int
        BY <2>1
    <2>4. PICK x \in S : TRUE
        OBVIOUS
    <2>5. negate[x] \in N
        OBVIOUS
    <2> QED
        BY <2>2, <2>3, <2>5
<1>2. IsFiniteSet(N)
    <2>1. negate \in Surjection(S, N)
        BY DEF Surjection
    <2> HIDE DEF N, negate
    <2> QED
        BY <2>1, FS_Surjection
<1>3. Max(N) \in N /\ \A y \in N : Max(N) >= y
    <2> HIDE DEF N
    <2> QED
        BY <1>1, <1>2, MaxOfFinite
<1>4. PICK x \in S : -x = Max(N)
    BY <1>3
<1>5. ASSUME NEW y \in S PROVE x <= y
    <2>1. -y \in N /\ x \in Int /\ y \in Int
        OBVIOUS
    <2>2. -x >= -y
        BY <1>3, <1>4, <2>1
    <2> QED
        BY <2>1, <2>2
<1> QED
    BY <1>5 DEF Min

\* A bounded set of naturals is finite, so Max of it is its greatest element.
LEMMA MaxOfInterval ==
    ASSUME NEW n \in Nat, NEW S \in SUBSET (1..n), S # {}
    PROVE  Max(S) \in S /\ \A y \in S : Max(S) >= y
<1> DEFINE I == 1..n
<1>1. IsFiniteSet(I) /\ I \subseteq Int
    BY FS_Interval
<1>2. IsFiniteSet(S) /\ S \subseteq Int
    <2> HIDE DEF I
    <2>1. S \in SUBSET I
        BY DEF I
    <2> QED
        BY <1>1, <2>1, FS_Subset
<1> QED
    BY <1>2, MaxOfFinite

LEMMA MinOfInterval ==
    ASSUME NEW n \in Nat, NEW S \in SUBSET (1..n), S # {}
    PROVE  Min(S) \in S /\ \A y \in S : Min(S) <= y
<1> DEFINE I == 1..n
<1>1. IsFiniteSet(I) /\ I \subseteq Int
    BY FS_Interval
<1>2. IsFiniteSet(S) /\ S \subseteq Int
    <2> HIDE DEF I
    <2>1. S \in SUBSET I
        BY DEF I
    <2> QED
        BY <1>1, <2>1, FS_Subset
<1> QED
    BY <1>2, MinOfFinite

\* Induction over an interval, for what can be written as a set: the least number
\* that is not in S has a predecessor that is.
LEMMA UpTo ==
    ASSUME NEW n \in Nat, NEW S, 0 \in S,
           \A i \in 0..(n - 1) : i \in S => i + 1 \in S
    PROVE  0..n \subseteq S
<1> DEFINE I == 0..n
           B == I \ S
<1> SUFFICES ASSUME B # {} PROVE FALSE
    OBVIOUS
<1>1. IsFiniteSet(I)
    BY FS_Interval
<1>2. IsFiniteSet(B) /\ B \subseteq Int
    <2>1. B \in SUBSET I /\ I \subseteq Int
        OBVIOUS
    <2> HIDE DEF I, B
    <2> QED
        BY <1>1, <2>1, FS_Subset
<1>3. PICK m \in B : \A y \in B : m <= y
    <2> HIDE DEF B
    <2> QED
        BY <1>2, MinOfFinite
<1>4. m \in 0..n /\ m # 0 /\ m \notin S
    OBVIOUS
<1>5. m - 1 \in 0..(n - 1) /\ m - 1 \in I /\ ~(m <= m - 1) /\ (m - 1) + 1 = m
    BY <1>4
<1>6. m - 1 \notin B
    BY <1>3, <1>5
<1>7. m - 1 \in S
    BY <1>5, <1>6
<1> QED
    BY <1>4, <1>5, <1>7

\* A recursion over an interval whose step is a function has a solution.
Solutions(n, T, first, g) ==
    {f \in [0..n -> T] : f[0] = first /\ \A i \in 1..n : f[i] = g[i][f[i - 1]]}

LEMMA RecursionUpTo ==
    ASSUME NEW n \in Nat, NEW T, NEW first \in T, NEW g \in [1..n -> [T -> T]]
    PROVE  Solutions(n, T, first, g) # {}
<1> DEFINE Solves(f, m) ==
               /\ f \in [0..m -> T]
               /\ f[0] = first
               /\ \A i \in 1..m : f[i] = g[i][f[i - 1]]
           S == {m \in 0..n : \E f : Solves(f, m)}
<1>1. 0 \in S
    <2> DEFINE start == [i \in 0..0 |-> first]
    <2>1. Solves(start, 0)
        OBVIOUS
    <2>2. 0 \in 0..n
        OBVIOUS
    <2> HIDE DEF start
    <2>3. \E f : Solves(f, 0)
        BY <2>1
    <2> HIDE DEF Solves
    <2> QED
        BY <2>2, <2>3
<1>2. ASSUME NEW m \in 0..(n - 1), m \in S PROVE m + 1 \in S
    <2>1. PICK f : Solves(f, m)
        BY <1>2
    <2> DEFINE h == [i \in 0..(m + 1) |-> IF i = m + 1 THEN g[m + 1][f[m]] ELSE f[i]]
    <2>2. m \in Nat /\ m + 1 \in 1..n /\ m \in 0..m /\ (m + 1) - 1 = m
        BY <1>2
    <2>3. f[m] \in T /\ g[m + 1][f[m]] \in T
        BY <2>1, <2>2
    <2>4. h \in [0..(m + 1) -> T]
        <3>1. ASSUME NEW i \in 0..(m + 1) PROVE h[i] \in T
            <4>1. i = m + 1 \/ i \in 0..m
                BY <2>2
            <4> QED
                BY <2>1, <2>3, <4>1
        <3> QED
            BY <3>1
    <2>5. h[0] = first
        BY <2>1, <2>2
    <2>6. ASSUME NEW i \in 1..(m + 1) PROVE h[i] = g[i][h[i - 1]]
        <3>1. CASE i = m + 1
            <4>1. h[i] = g[m + 1][f[m]] /\ h[m] = f[m]
                BY <2>2, <3>1
            <4> QED
                BY <2>2, <3>1, <4>1
        <3>2. CASE i # m + 1
            <4>1. i \in 1..m /\ i - 1 \in 0..(m + 1) /\ i - 1 # m + 1 /\ i \in 0..(m + 1)
                BY <2>2, <3>2
            <4>2. h[i] = f[i] /\ h[i - 1] = f[i - 1]
                BY <3>2, <4>1
            <4> QED
                BY <2>1, <4>1, <4>2
        <3> QED
            BY <3>1, <3>2
    <2> HIDE DEF h
    <2>7. Solves(h, m + 1)
        BY <2>4, <2>5, <2>6
    <2> QED
        BY <2>2, <2>7
<1>3. n \in S
    <2> HIDE DEF S
    <2>1. 0..n \subseteq S
        BY <1>1, <1>2, UpTo
    <2> QED
        BY <2>1
<1> QED
    BY <1>3 DEF Solutions

\* Adding what lies beside a set, as often as there are elements, ends with the
\* least set that has nothing beside it: a step that adds nothing is the last one
\* that could, and the others add an element each.
LeastAround(x, e, es, beside) ==
    /\ e \in x
    /\ x \in SUBSET es
    /\ beside[x] \subseteq x
    /\ \A C \in SUBSET es :
         e \in C /\ (\A V \in SUBSET C : beside[V] \subseteq C) => x \subseteq C

LEMMA ReachesAll ==
    ASSUME NEW es, IsFiniteSet(es), NEW e \in es, NEW beside \in [SUBSET es -> SUBSET es],
           NEW c \in Nat, c = Cardinality(es), NEW w \in [0..c -> SUBSET es], w[0] = {e},
           \A i \in 1..c : w[i] = w[i - 1] \union beside[w[i - 1]]
    PROVE  LeastAround(w[c], e, es, beside)
<1> DEFINE stable(n) == beside[w[n]] \subseteq w[n]
           S == {n \in 0..c : /\ e \in w[n]
                              /\ stable(n) \/ Cardinality(w[n]) >= n + 1}
<1>1. \A n \in 0..c : w[n] \in SUBSET es /\ IsFiniteSet(w[n]) /\ Cardinality(w[n]) \in Nat
    <2>1. ASSUME NEW n \in 0..c PROVE w[n] \in SUBSET es
        OBVIOUS
    <2>2. ASSUME NEW n \in 0..c PROVE IsFiniteSet(w[n]) /\ Cardinality(w[n]) \in Nat
        BY <2>1, FS_Subset, FS_CardinalityType
    <2> QED
        BY <2>1, <2>2
<1>2. 0 \in S
    <2>1. Cardinality({e}) = 1
        BY FS_Singleton
    <2>2. 0 \in 0..c /\ e \in w[0] /\ Cardinality(w[0]) >= 0 + 1
        BY <2>1
    <2> QED
        BY <2>2
<1>3. ASSUME NEW n \in 0..(c - 1), n \in S PROVE n + 1 \in S
    <2>1. /\ n + 1 \in 1..c /\ n \in 0..c /\ n + 1 \in 0..c /\ (n + 1) - 1 = n
        OBVIOUS
    <2>2. w[n + 1] = w[n] \union beside[w[n]] /\ e \in w[n]
        BY <2>1, <1>3
    <2>3. CASE stable(n)
        <3>1. w[n + 1] = w[n]
            BY <2>2, <2>3
        <3> QED
            BY <2>1, <2>2, <2>3, <3>1
    <2>4. CASE ~stable(n)
        <3> DEFINE a == w[n]
                   b == w[n + 1]
        <3>1. a \subseteq b /\ a # b
            BY <2>2, <2>4
        <3>2. IsFiniteSet(b) /\ Cardinality(a) \in Nat /\ Cardinality(b) \in Nat
            BY <1>1, <2>1
        <3>3. Cardinality(a) >= n + 1
            BY <1>3, <2>4
        <3> HIDE DEF a, b
        <3>4. Cardinality(a) <= Cardinality(b) /\ Cardinality(a) # Cardinality(b)
            BY <3>1, <3>2, FS_Subset
        <3>5. Cardinality(b) >= (n + 1) + 1
            BY <3>2, <3>3, <3>4
        <3> QED
            BY <2>1, <2>2, <3>5 DEF b
    <2> QED
        BY <2>3, <2>4
<1>4. c \in S
    <2> HIDE DEF S
    <2>1. 0..c \subseteq S
        BY <1>2, <1>3, UpTo
    <2> QED
        BY <2>1
<1>5. e \in w[c] /\ stable(c)
    <2> DEFINE z == w[c]
    <2>1. z \in SUBSET es /\ Cardinality(z) \in Nat /\ c \in 0..c
        BY <1>1
    <2>2. e \in z /\ (stable(c) \/ Cardinality(z) >= c + 1)
        BY <1>4
    <2> HIDE DEF z
    <2>3. Cardinality(z) <= Cardinality(es)
        BY <2>1, FS_Subset
    <2> QED
        BY <2>1, <2>2, <2>3 DEF z
<1>6. ASSUME NEW C \in SUBSET es, e \in C, \A V \in SUBSET C : beside[V] \subseteq C
      PROVE  w[c] \subseteq C
    <2> DEFINE R == {n \in 0..c : w[n] \subseteq C}
    <2>1. 0 \in R
        BY <1>6
    <2>2. ASSUME NEW n \in 0..(c - 1), n \in R PROVE n + 1 \in R
        <3>1. n + 1 \in 1..c /\ n + 1 \in 0..c /\ (n + 1) - 1 = n
            OBVIOUS
        <3>2. w[n + 1] = w[n] \union beside[w[n]] /\ beside[w[n]] \subseteq C
            BY <1>6, <2>2, <3>1
        <3> QED
            BY <2>2, <3>1, <3>2
    <2>3. c \in R
        <3> HIDE DEF R
        <3>1. 0..c \subseteq R
            BY <2>1, <2>2, UpTo
        <3> QED
            BY <3>1
    <2> QED
        BY <2>3
<1> QED
    BY <1>1, <1>5, <1>6 DEF LeastAround

=============================================================================
