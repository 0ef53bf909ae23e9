----------------------------- MODULE LoopProofs -----------------------------
(***************************************************************************)
(* What a loop computes.  The code's loops over a sequence are recursive   *)
(* functions of the number of rounds.  These lemmas say that there is such *)
(* a function and that it satisfies its equations, so that induction shows *)
(* what it does for every input.  All are about sets, relations and        *)
(* functions, none about operators: the provers can instantiate them.      *)
(***************************************************************************)
EXTENDS Integers, TLAPS, FiniteSetTheorems

\* A set of natural numbers has a least one.
LEMMA Least ==
  ASSUME NEW T \in SUBSET Nat, T # {}
  PROVE  \E m \in T : \A k \in T : m <= k
  <1>1. PICK n \in T : TRUE
    OBVIOUS
  <1> DEFINE below(k) == 0 .. k - 1
             S == {below(k) : k \in T \cap (0 .. n)}
  <1>2. \A k \in Nat : IsFiniteSet(below(k))
    BY FS_Interval
  <1>3. S \subseteq FiniteSubsetsOf(Nat) /\ S # {}
    BY <1>1, <1>2 DEF FiniteSubsetsOf
  <1>4. IsWellFoundedOn(StrictSubsetOrdering(Nat), FiniteSubsetsOf(Nat))
    BY FS_StrictSubsetOrderingWellFounded
  <1>5. PICK x \in S : \A y \in S : ~ (<<y, x>> \in StrictSubsetOrdering(Nat))
    <2> HIDE DEF S
    <2> QED
      BY <1>3, <1>4, WFMin
  <1>6. PICK m \in T \cap (0 .. n) : x = below(m)
    BY <1>5
  <1>7. ASSUME NEW k \in T, k < m
        PROVE  FALSE
    <2>1. k \in T \cap (0 .. n) /\ m \in Nat /\ k \in Nat
      BY <1>6, <1>7
    <2>2. below(k) \subseteq below(m) /\ below(k) # below(m)
      <3>1. k \in below(m) /\ k \notin below(k)
        BY <2>1, <1>7
      <3> QED
        BY <3>1, <2>1, <1>7
    <2>3. below(k) \subseteq Nat /\ below(m) \subseteq Nat
      BY <2>1
    <2>4. <<below(k), below(m)>> \in StrictSubsetOrdering(Nat)
      <3> HIDE DEF below
      <3> QED
        BY <2>2, <2>3 DEF StrictSubsetOrdering
    <2> QED
      BY <2>1, <2>4, <1>5, <1>6
  <1> QED
    BY <1>6, <1>7

\* Induction: a set has all numbers up to n if it has 0 and with each the next.
LEMMA UpTo ==
  ASSUME NEW n \in Nat, NEW T, 0 \in T, \A k \in 0 .. n - 1 : k \in T => k + 1 \in T
  PROVE  0 .. n \subseteq T
  <1> SUFFICES ASSUME NEW i \in 0 .. n, i \notin T
               PROVE  FALSE
    OBVIOUS
  <1> DEFINE B == (0 .. n) \ T
  <1>1. PICK m \in B : \A k \in B : m <= k
    BY Least, B \in SUBSET Nat, B # {}
  <1>2. m # 0 /\ m - 1 \in 0 .. n - 1 /\ m - 1 \notin B
    BY <1>1
  <1>3. m - 1 + 1 = m
    BY <1>1
  <1> QED
    BY <1>1, <1>2, <1>3

\* A loop of n rounds over what is in S: from base, each round takes what is so far and its
\* number.
Loop(n, S, base, step) == n \in Nat /\ base \in S /\ step \in [S \X (1 .. n) -> S]
Runs(f, n, base, step) == f[0] = base /\ \A k \in 1 .. n : f[k] = step[<<f[k - 1], k>>]

LEMMA LoopExists ==
  ASSUME NEW n, NEW S, NEW base, NEW step, Loop(n, S, base, step)
  PROVE  \E f \in [0 .. n -> S] : Runs(f, n, base, step)
  <1> USE DEF Loop, Runs
  <1> DEFINE T == {m \in 0 .. n : \E f \in [0 .. m -> S] : Runs(f, m, base, step)}
  <1>1. 0 \in T
    <2> DEFINE h == [k \in 0 .. 0 |-> base]
    <2>1. h \in [0 .. 0 -> S] /\ Runs(h, 0, base, step)
      OBVIOUS
    <2>2. 0 \in 0 .. n
      OBVIOUS
    <2> HIDE DEF h
    <2> QED
      BY <2>1, <2>2
  <1>2. ASSUME NEW m \in 0 .. n - 1, m \in T
        PROVE  m + 1 \in T
    <2>1. PICK f \in [0 .. m -> S] : Runs(f, m, base, step)
      BY <1>2
    <2> DEFINE v == step[<<f[m], m + 1>>]
               g == [k \in 0 .. m + 1 |-> IF k = m + 1 THEN v ELSE f[k]]
    <2>2. f[m] \in S /\ m + 1 \in 1 .. n
      OBVIOUS
    <2>3. v \in S
      BY <2>2
    <2>4. g \in [0 .. m + 1 -> S]
      BY <2>3
    <2>5. \A k \in 0 .. m : g[k] = f[k]
      OBVIOUS
    <2>6. g[m + 1] = v
      OBVIOUS
    <2> HIDE DEF g
    <2>7. g[0] = base
      BY <2>5, <2>1
    <2>8. ASSUME NEW k \in 1 .. m + 1
          PROVE  g[k] = step[<<g[k - 1], k>>]
      <3>1. g[k - 1] = f[k - 1]
        BY <2>5
      <3>2. CASE k = m + 1
        <4>1. k - 1 = m
          BY <3>2
        <4> QED
          BY <3>1, <3>2, <4>1, <2>6
      <3>3. CASE k \in 1 .. m
        BY <3>1, <3>3, <2>1, <2>5
      <3> QED
        BY <3>2, <3>3
    <2>9. m + 1 \in 0 .. n
      OBVIOUS
    <2> QED
      BY <2>4, <2>7, <2>8, <2>9
  <1> HIDE DEF T
  <1>3. 0 .. n \subseteq T
    BY <1>1, <1>2, UpTo
  <1>4. n \in T
    BY <1>3
  <1> QED
    BY <1>4 DEF T

\* What every round keeps, the loop keeps.
LEMMA LoopKeeps ==
  ASSUME NEW n \in Nat, NEW T, NEW f, f[0] \in T,
         \A k \in 1 .. n : f[k - 1] \in T => f[k] \in T
  PROVE  \A k \in 0 .. n : f[k] \in T
  <1> DEFINE K == {k \in 0 .. n : f[k] \in T}
  <1>1. 0 \in K
    OBVIOUS
  <1>2. ASSUME NEW k \in 0 .. n - 1, k \in K
        PROVE  k + 1 \in K
    <2>1. k + 1 \in 1 .. n /\ k + 1 - 1 = k /\ k + 1 \in 0 .. n
      OBVIOUS
    <2>2. f[k] \in T
      BY <1>2
    <2>3. f[k + 1] \in T
      BY <2>1, <2>2
    <2> QED
      BY <2>1, <2>3
  <1> HIDE DEF K
  <1>3. 0 .. n \subseteq K
    BY <1>1, <1>2, UpTo
  <1> QED
    BY <1>3 DEF K
=============================================================================
