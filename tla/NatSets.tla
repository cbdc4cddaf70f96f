------------------------------- MODULE NatSets -------------------------------
(***************************************************************************)
(* Least and greatest elements of sets of naturals: what Min and Max of    *)
(* the community modules return; induction over the set of the naturals    *)
(* where a fact holds, and functions defined by recursion.                 *)
(***************************************************************************)
EXTENDS Integers, FiniteSetsExt, FiniteSetTheorems, WellFoundedInduction, TLAPS

\* Min is the least element of a non-empty set of naturals.
LEMMA MinOfNats ==
  ASSUME NEW T \in SUBSET Nat, T # {}
  PROVE  Min(T) \in T /\ \A y \in T : Min(T) <= y
<1>1. PICK x \in T : \A y \in T : ~ (<<y, x>> \in OpToRel(<, Nat))
  BY NatLessThanWellFounded, WFMin
<1>2. \A y \in T : ~ (y < x)
  BY <1>1 DEF OpToRel
<1>3. \E z \in T : \A y \in T : z <= y
  BY <1>2
<1> QED
  BY <1>3 DEF Min

\* Max is the greatest element of a finite non-empty set of naturals: the
\* smallest of its tails {t \in T : k <= t} holds nothing else.
LEMMA MaxOfNats ==
  ASSUME NEW T \in SUBSET Nat, T # {}, IsFiniteSet(T)
  PROVE  Max(T) \in T /\ \A y \in T : y <= Max(T)
<1> DEFINE From(k) == {t \in T : k <= t}
           Tails == {From(k) : k \in T}
<1>1. Tails \subseteq FiniteSubsetsOf(T) /\ Tails # {}
  <2>1. \A k \in T : From(k) \in SUBSET T
    OBVIOUS
  <2>2. \A k \in T : IsFiniteSet(From(k))
    BY <2>1, FS_Subset
  <2>3. \A k \in T : From(k) \in FiniteSubsetsOf(T)
    BY <2>1, <2>2 DEF FiniteSubsetsOf
  <2> HIDE DEF From
  <2> QED
    BY <2>3
<1>2. PICK U \in Tails : \A W \in Tails : <<W, U>> \notin StrictSubsetOrdering(T)
  <2> HIDE DEF Tails
  <2> QED
    BY <1>1, FS_StrictSubsetOrderingWellFounded, WFMin
<1>3. PICK k \in T : U = From(k)
  BY <1>2
<1>4. ASSUME NEW t \in T, k < t PROVE FALSE
  <2>1. From(t) \subseteq U /\ k \in U /\ k \notin From(t)
    <3>1. k \in Nat /\ t \in Nat /\ k < t
      BY <1>4
    <3>2. \A u \in From(t) : u \in T /\ k <= u
      BY <3>1
    <3>3. k \in From(k) /\ k \notin From(t)
      BY <3>1
    <3> QED
      BY <3>2, <3>3, <1>3
  <2>2. <<From(t), U>> \in StrictSubsetOrdering(T)
    <3>1. From(t) \in SUBSET T /\ U \in SUBSET T /\ From(t) # U
      BY <2>1, <1>3
    <3> HIDE DEF From
    <3> QED
      BY <2>1, <3>1 DEF StrictSubsetOrdering
  <2> QED
    BY <2>2, <1>2
<1>5. \E z \in T : \A y \in T : z >= y
  BY <1>4
<1> QED
  BY <1>5 DEF Max

\* Induction: a set of naturals that holds 0, and with each number the next one, is
\* Nat.  It has no least element left out.
LEMMA NatInd ==
  ASSUME NEW T \in SUBSET Nat, 0 \in T, \A n \in T : n + 1 \in T
  PROVE  T = Nat
<1>1. SUFFICES ASSUME Nat \ T # {} PROVE FALSE
  OBVIOUS
<1>2. PICK m \in Nat \ T : \A y \in Nat \ T : m <= y
  BY <1>1, MinOfNats
<1>3. m - 1 \in Nat /\ ~ (m <= m - 1)
  BY <1>2
<1>4. m - 1 \in T
  BY <1>2, <1>3
<1> QED
  BY <1>2, <1>4

\* The functions on 0..N with a value at 0 and each value following from the one before.
Recursions(S, base, step, N) ==
  {g \in [0..N -> S] : g[0] = base /\ \A k \in 1..N : g[k] = step[<<k, g[k - 1]>>]}

\* Recursion: there is such a function.
LEMMA NatRec ==
  ASSUME NEW S, NEW base \in S, NEW step \in [Nat \X S -> S], NEW N \in Nat
  PROVE  Recursions(S, base, step, N) # {}
<1> DEFINE Solves(g, n) == g[0] = base /\ \A k \in 1..n : g[k] = step[<<k, g[k - 1]>>]
           T == {n \in Nat : \E g \in [0..n -> S] : Solves(g, n)}
<1>1. 0 \in T
  <2>1. [k \in 0..0 |-> base] \in [0..0 -> S] /\ Solves([k \in 0..0 |-> base], 0)
    OBVIOUS
  <2> QED
    BY <2>1
<1>2. ASSUME NEW n \in T PROVE n + 1 \in T
  <2>1. PICK g \in [0..n -> S] : Solves(g, n)
    OBVIOUS
  <2> DEFINE h == [k \in 0..(n + 1) |-> IF k \in 0..n THEN g[k] ELSE step[<<n + 1, g[n]>>]]
  <2>2. h \in [0..(n + 1) -> S]
    <3>1. n \in 0..n /\ n + 1 \in Nat
      OBVIOUS
    <3>2. step[<<n + 1, g[n]>>] \in S
      BY <3>1, <2>1
    <3> QED
      BY <3>2
  <2>3. \A k \in 0..n : h[k] = g[k]
    OBVIOUS
  <2>4. h[n + 1] = step[<<n + 1, h[n]>>]
    <3>1. h[n + 1] = step[<<n + 1, g[n]>>]
      OBVIOUS
    <3>2. n \in 0..n
      OBVIOUS
    <3> HIDE DEF h
    <3> QED
      BY <2>3, <3>1, <3>2
  <2> HIDE DEF h
  <2>5. Solves(h, n + 1)
    <3>1. \A k \in 1..(n + 1) : k \in 1..n \/ k = n + 1
      OBVIOUS
    <3>2. ASSUME NEW k \in 1..n PROVE h[k] = step[<<k, h[k - 1]>>]
      BY <2>1, <2>3
    <3>3. h[n + 1] = step[<<n + 1, h[(n + 1) - 1]>>]
      BY <2>4
    <3>4. h[0] = base
      BY <2>1, <2>3
    <3> QED
      BY <3>1, <3>2, <3>3, <3>4
  <2> QED
    BY <2>2, <2>5
<1>3. T = Nat
  <2> HIDE DEF T
  <2>1. T \in SUBSET Nat
    BY DEF T
  <2> QED
    BY <1>1, <1>2, <2>1, NatInd
<1>4. \E g \in [0..N -> S] : Solves(g, N)
  BY <1>3
<1> QED
  BY <1>4 DEF Recursions

=============================================================================
