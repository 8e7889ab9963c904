------------------------------ MODULE Induction -------------------------------
(***************************************************************************)
(* Induction over the natural numbers as statements about sets, in which a *)
(* prover of first-order logic can use it, and from it what a recursive    *)
(* function needs: that there is a function with the equations it is       *)
(* defined by.                                                             *)
(***************************************************************************)
EXTENDS Integers, WellFoundedInduction, TLAPS

Smaller == {pair \in Nat \X Nat : pair[1] < pair[2]}

\* A set of natural numbers has a least element.
LEMMA LeastElement ==
  ASSUME NEW S \in SUBSET Nat, S # {}
  PROVE  \E n \in S : \A m \in S : n <= m
<1>1. IsWellFoundedOn(Smaller, Nat)
  BY NatLessThanWellFounded DEF OpToRel, Smaller
<1>2. PICK n \in S : \A m \in S : <<m, n>> \notin Smaller
  BY <1>1, WFMin
<1>3. ASSUME NEW m \in S PROVE n <= m
  <2>1. m \in Nat /\ n \in Nat
    OBVIOUS
  <2>2. m < n => <<m, n>> \in Smaller
    BY <2>1 DEF Smaller
  <2>. QED BY <1>2, <2>1, <2>2
<1>. QED BY <1>3

\* What holds of 0 and is passed on from each number to the next holds of all.
LEMMA SetInduction ==
  ASSUME NEW S, 0 \in S, \A n \in Nat : n \in S => n + 1 \in S
  PROVE  Nat \subseteq S
<1>1. SUFFICES ASSUME Nat \ S # {} PROVE FALSE
  OBVIOUS
<1>2. PICK n \in Nat \ S : \A m \in Nat \ S : n <= m
  BY <1>1, LeastElement
<1>3. n - 1 \in Nat /\ n - 1 \in S /\ (n - 1) + 1 = n
  BY <1>2
<1>. QED BY <1>2, <1>3

\* What holds of 0 and is passed on up to N holds up to N.
LEMMA BoundedInduction ==
  ASSUME NEW N \in Nat, NEW S, 0 \in S, \A n \in 0..(N - 1) : n \in S => n + 1 \in S
  PROVE  0..N \subseteq S
<1>. DEFINE T == {n \in Nat : n <= N => n \in S}
<1>1. 0 \in T
  OBVIOUS
<1>2. ASSUME NEW n \in Nat, n \in T PROVE n + 1 \in T
  <2>1. CASE n + 1 <= N
    BY <1>2, <2>1
  <2>2. CASE ~(n + 1 <= N)
    BY <2>2
  <2>. QED BY <2>1, <2>2
<1>3. Nat \subseteq T
  <2>. HIDE DEF T
  <2>. QED BY <1>1, <1>2, SetInduction
<1>. QED BY <1>3

-----------------------------------------------------------------------------
\* The values of a recursion up to N: the first one, and each from the last.
Recursion(g, N, first, step) ==
  g[0] = first /\ \A k \in 1..N : g[k] = step[k][g[k - 1]]

\* A function can be defined by recursion.
LEMMA RecursionExists ==
  ASSUME NEW X, NEW N \in Nat, NEW first \in X, NEW step \in [1..N -> [X -> X]]
  PROVE  \E g \in [0..N -> X] : Recursion(g, N, first, step)
<1>. DEFINE S == {n \in 0..N : \E g \in [0..n -> X] : Recursion(g, n, first, step)}
<1>1. 0 \in S
  <2>1. [k \in 0..0 |-> first] \in [0..0 -> X]
    OBVIOUS
  <2>2. Recursion([k \in 0..0 |-> first], 0, first, step)
    BY DEF Recursion
  <2>. QED BY <2>1, <2>2
<1>2. ASSUME NEW n \in 0..(N - 1), n \in S PROVE n + 1 \in S
  <2>1. PICK g \in [0..n -> X] : Recursion(g, n, first, step)
    BY <1>2
  <2>. DEFINE h == [k \in 0..(n + 1) |-> IF k = n + 1 THEN step[n + 1][g[n]] ELSE g[k]]
  <2>2. n + 1 \in 1..N /\ n + 1 \in 0..N /\ n \in 0..n
    OBVIOUS
  <2>3. step[n + 1][g[n]] \in X
    BY <2>2
  <2>4. h \in [0..(n + 1) -> X]
    BY <2>3
  <2>5. Recursion(h, n + 1, first, step)
    <3>1. h[0] = first
      BY <2>1 DEF Recursion
    <3>2. ASSUME NEW k \in 1..(n + 1) PROVE h[k] = step[k][h[k - 1]]
      <4>1. CASE k = n + 1
        BY <4>1
      <4>2. CASE k # n + 1
        <5>1. k \in 1..n /\ k \in 0..(n + 1) /\ k - 1 \in 0..(n + 1) /\ k - 1 # n + 1
          BY <4>2
        <5>2. h[k] = g[k] /\ h[k - 1] = g[k - 1]
          BY <4>2, <5>1
        <5>. QED BY <2>1, <5>1, <5>2 DEF Recursion
      <4>. QED BY <4>1, <4>2
    <3>. HIDE DEF h
    <3>. QED BY <3>1, <3>2 DEF Recursion
  <2>. HIDE DEF h
  <2>. QED BY <2>2, <2>4, <2>5
<1>3. 0..N \subseteq S
  <2>. HIDE DEF S
  <2>. QED BY <1>1, <1>2, BoundedInduction
<1>4. N \in S
  BY <1>3
<1>. QED BY <1>4
=============================================================================
