---------------------------------- MODULE Sums ---------------------------------
(***************************************************************************)
(* Sums over finite sets as the models define them, by a function that     *)
(* takes one element away at a time: that there is such a function, that   *)
(* it gives naturals, in any order, and only depends on the weights of the *)
(* elements summed.                                                        *)
(***************************************************************************)
EXTENDS Integers, FiniteSets, FiniteSetTheorems, WellFoundedInduction, TLAPS

LEMMA SubsetInduction ==
    ASSUME NEW S, IsFiniteSet(S), NEW T \in SUBSET (SUBSET S),
           \A s \in SUBSET S : (\A u \in SUBSET s : u # s => u \in T) => s \in T
    PROVE  T = SUBSET S
<1> DEFINE Bad == (SUBSET S) \ T
<1>1. SUFFICES ASSUME Bad # {} PROVE FALSE
    OBVIOUS
<1>2. Bad \subseteq FiniteSubsetsOf(S)
    BY FS_Subset DEF FiniteSubsetsOf
<1>3. PICK x \in Bad : \A y \in Bad : <<y, x>> \notin StrictSubsetOrdering(S)
    <2> HIDE DEF Bad
    <2> QED BY <1>1, <1>2, WFMin, FS_StrictSubsetOrderingWellFounded
<1>4. \A u \in SUBSET x : u # x => u \in T
    BY <1>3 DEF StrictSubsetOrdering
<1> QED BY <1>3, <1>4

LEMMA LeastNatural ==
    ASSUME NEW T \in SUBSET Nat, T # {}
    PROVE  \E n \in T : \A m \in T : n <= m
<1> DEFINE R == {ss \in Nat \X Nat : ss[1] < ss[2]}
<1>1. IsWellFoundedOn(R, Nat)
    BY NatLessThanWellFounded DEF OpToRel
<1>2. PICK n \in T : \A m \in T : <<m, n>> \notin R
    <2> HIDE DEF R
    <2> T \subseteq Nat /\ T # {}
        OBVIOUS
    <2> QED BY <1>1, WFMin
<1>3. \A m \in T : m \in Nat /\ n \in Nat /\ ~(m < n)
    BY <1>2
<1> QED BY <1>3

One(s) == CHOOSE y \in s : TRUE

\* it gives every subset of S the sum of the weights w of its elements.
IsSum(it, w, S) ==
    it = [s \in SUBSET S |-> IF s = {} THEN 0
                             ELSE w[One(s)] + it[s \ {One(s)}]]

LEMMA SumExists ==
    ASSUME NEW S, IsFiniteSet(S), NEW w
    PROVE  \E it : IsSum(it, w, S)
<1> DEFINE Upto(n) == {s \in SUBSET S : Cardinality(s) <= n}
<1> DEFINE G(it, n) == it = [s \in Upto(n) |-> IF s = {} THEN 0
                             ELSE w[One(s)] + it[s \ {One(s)}]]
<1> DEFINE Bad == {n \in Nat : ~\E it : G(it, n)}
<1>1. ASSUME Bad # {} PROVE FALSE
    <2>1. PICK n \in Bad : \A m \in Bad : n <= m
        <3> HIDE DEF Bad
        <3> Bad \subseteq Nat
            BY DEF Bad
        <3> QED BY <1>1, LeastNatural
    <2>2. CASE n = 0
        <3> DEFINE it == [s \in Upto(0) |-> 0]
        <3>1. \A s \in Upto(0) : s = {}
            BY FS_Subset, FS_EmptySet, FS_CardinalityType
        <3>2. G(it, 0)
            BY <3>1
        <3> QED BY <2>2, <3>2
    <2>3. CASE n # 0
        <3>1. n - 1 \in Nat /\ n - 1 \notin Bad /\ n \in Nat
            <4> HIDE DEF Bad
            <4>1. Bad \subseteq Nat
                BY DEF Bad
            <4>2. n \in Nat /\ ~(n <= n - 1)
                BY <2>1, <4>1
            <4>3. n - 1 \in Nat
                BY <2>3, <4>2
            <4> QED BY <2>1, <4>2, <4>3
        <3>2. PICK g : G(g, n - 1)
            BY <3>1
        <3> DEFINE it == [s \in Upto(n) |-> IF s = {} THEN 0
                             ELSE w[One(s)] + g[s \ {One(s)}]]
        <3>3. \A s \in Upto(n - 1) : s \in Upto(n) /\ it[s] = g[s]
            <4>1. \A s \in Upto(n - 1) : s \in Upto(n)
                BY <3>1, FS_Subset, FS_CardinalityType
            <4> QED BY <3>2, <4>1
        <3>4. \A s \in Upto(n) : s # {} => s \ {One(s)} \in Upto(n - 1)
            BY <3>1, FS_Subset, FS_RemoveElement, FS_CardinalityType DEF One
        <3>5. G(it, n)
            <4>1. \A s \in Upto(n) : s # {} => it[s \ {One(s)}] = g[s \ {One(s)}]
                <5> HIDE DEF Upto, it
                <5> QED BY <3>3, <3>4
            <4> HIDE DEF Upto
            <4> QED BY <4>1
        <3> HIDE DEF it, G
        <3> QED BY <2>1, <3>1, <3>5 DEF Bad
    <2> QED BY <2>2, <2>3
<1>2. Cardinality(S) \in Nat /\ Cardinality(S) \notin Bad
    BY <1>1, FS_CardinalityType
<1>3. PICK it : G(it, Cardinality(S))
    BY <1>2
<1>4. Upto(Cardinality(S)) = SUBSET S
    BY FS_Subset
<1> QED BY <1>3, <1>4 DEF IsSum

LEMMA SumIsNat ==
    ASSUME NEW S, IsFiniteSet(S), NEW w, \A s \in S : w[s] \in Nat, NEW it, IsSum(it, w, S)
    PROVE  \A s \in SUBSET S : it[s] \in Nat
<1> DEFINE T == {s \in SUBSET S : it[s] \in Nat}
<1>1. ASSUME NEW s \in SUBSET S, \A u \in SUBSET s : u # s => u \in T PROVE s \in T
    BY <1>1 DEF IsSum, One
<1> HIDE DEF T
<1>2. T \in SUBSET (SUBSET S)
    BY DEF T
<1>3. T = SUBSET S
    BY <1>1, <1>2, SubsetInduction
<1> QED BY <1>3 DEF T

LEMMA SumAnyOrder ==
    ASSUME NEW S, IsFiniteSet(S), NEW w \in [S -> Nat], NEW it, IsSum(it, w, S)
    PROVE  \A s \in SUBSET S : \A x \in s : it[s] = w[x] + it[s \ {x}]
<1> DEFINE T == {s \in SUBSET S : \A x \in s : it[s] = w[x] + it[s \ {x}]}
<1>1. ASSUME NEW s \in SUBSET S, \A u \in SUBSET s : u # s => u \in T PROVE s \in T
    <2> SUFFICES ASSUME NEW x \in s PROVE it[s] = w[x] + it[s \ {x}]
        OBVIOUS
    <2> DEFINE c == CHOOSE y \in s : TRUE
    <2>1. c \in s /\ it[s] = w[c] + it[s \ {c}]
        BY DEF IsSum, One
    <2> HIDE DEF c
    <2>2. CASE c # x
        <3>1. s \ {c} \in T /\ x \in s \ {c} /\ s \ {x} \in T /\ c \in s \ {x}
            BY <1>1, <2>1, <2>2
        <3>2. it[s \ {c}] = w[x] + it[(s \ {c}) \ {x}] /\ it[s \ {x}] = w[c] + it[(s \ {x}) \ {c}]
            BY <3>1
        <3>3. (s \ {c}) \ {x} = (s \ {x}) \ {c}
            OBVIOUS
        <3>4. w[x] \in Nat /\ w[c] \in Nat /\ it[(s \ {x}) \ {c}] \in Nat
            BY <2>1, SumIsNat
        <3> QED BY <2>1, <3>2, <3>3, <3>4
    <2> QED BY <2>1, <2>2
<1> HIDE DEF T
<1>2. T \in SUBSET (SUBSET S)
    BY DEF T
<1>3. T = SUBSET S
    BY <1>1, <1>2, SubsetInduction
<1> QED BY <1>3 DEF T

LEMMA SumsAgree ==
    ASSUME NEW S, IsFiniteSet(S), NEW w, NEW v, NEW it, NEW jt, IsSum(it, w, S), IsSum(jt, v, S),
           NEW R \in SUBSET S, \A r \in R : w[r] = v[r]
    PROVE  it[R] = jt[R]
<1> DEFINE T == {s \in SUBSET S : s \subseteq R => it[s] = jt[s]}
<1>1. ASSUME NEW s \in SUBSET S, \A u \in SUBSET s : u # s => u \in T PROVE s \in T
    <2>1. CASE s = {}
        BY <2>1 DEF IsSum
    <2>2. CASE s # {}
        <3> DEFINE c == One(s)
        <3>1. c \in s
            BY <2>2 DEF One
        <3>2. it[s] = w[c] + it[s \ {c}] /\ jt[s] = v[c] + jt[s \ {c}]
            BY <2>2 DEF IsSum
        <3> HIDE DEF c
        <3>3. s \ {c} \in T
            BY <1>1, <3>1
        <3> QED BY <3>1, <3>2, <3>3
    <2> QED BY <2>1, <2>2
<1> HIDE DEF T
<1>2. T \in SUBSET (SUBSET S)
    BY DEF T
<1>3. T = SUBSET S
    BY <1>1, <1>2, SubsetInduction
<1> QED BY <1>3 DEF T

=============================================================================
