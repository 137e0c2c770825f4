------------------------------ MODULE Counting ------------------------------
(***************************************************************************)
(* Induction over the naturals, and over the places of a list, stated with *)
(* sets: a set that holds zero and the successor of each of its members    *)
(* holds every natural.  It rests on the finite subsets of a set being     *)
(* well founded by strict inclusion.                                       *)
(***************************************************************************)
EXTENDS Integers, FiniteSetTheorems, WellFoundedInduction, TLAPS

(* A set of naturals with zero and with every successor is all of them.      *)
LEMMA EveryNatural ==
    ASSUME NEW P, 0 \in P, \A n \in Nat : n \in P => n + 1 \in P
    PROVE  \A n \in Nat : n \in P
<1> SUFFICES ASSUME NEW n \in Nat, n \notin P  PROVE FALSE
  OBVIOUS
<1> DEFINE Bad == {k \in Nat : k \notin P}
           T == {1..k : k \in Bad}
<1>1. IsWellFoundedOn(StrictSubsetOrdering(Nat), FiniteSubsetsOf(Nat))
  BY FS_StrictSubsetOrderingWellFounded
<1>2. T \subseteq FiniteSubsetsOf(Nat)
  <2>1. \A k \in Nat : 1..k \subseteq Nat /\ IsFiniteSet(1..k)
    BY FS_Interval
  <2>. QED  BY <2>1 DEF FiniteSubsetsOf
<1>3. T # {}
  OBVIOUS
<1>4. PICK x \in T : \A y \in T : ~(<<y, x>> \in StrictSubsetOrdering(Nat))
  <2>. HIDE DEF T
  <2>. QED  BY <1>1, <1>2, <1>3, WFMin
<1>5. PICK m \in Nat : m \notin P /\ x = 1..m
  OBVIOUS
<1>6. m # 0 /\ m - 1 \in Nat /\ (m - 1) + 1 = m
  BY <1>5
<1>7. m - 1 \notin P
  BY <1>5, <1>6
<1>8. 1..(m - 1) \in T
  BY <1>6, <1>7
<1>9. 1..(m - 1) \subseteq 1..m /\ 1..(m - 1) # 1..m
  <2>1. m \in 1..m /\ m \notin 1..(m - 1)
    BY <1>6
  <2>. QED  BY <2>1, <1>6
<1>10. <<1..(m - 1), 1..m>> \in StrictSubsetOrdering(Nat)
  <2>1. 1..(m - 1) \in SUBSET Nat /\ 1..m \in SUBSET Nat
    BY <1>6
  <2>. QED  BY <1>9, <2>1 DEF StrictSubsetOrdering
<1>. QED  BY <1>4, <1>5, <1>8, <1>10

(* The same up to a bound: what holds at zero and goes on from place to      *)
(* place holds at every place.                                               *)
LEMMA EveryPlace ==
    ASSUME NEW N \in Nat, NEW P, 0 \in P, \A n \in 0..(N - 1) : n \in P => n + 1 \in P
    PROVE  \A n \in 0..N : n \in P
<1> DEFINE Q == {n \in Nat : n \in 0..N => n \in P}
<1>1. 0 \in Q
  OBVIOUS
<1>2. ASSUME NEW n \in Nat, n \in Q  PROVE n + 1 \in Q
  <2>1. CASE n + 1 \in 0..N
    <3>1. n \in 0..(N - 1) /\ n \in 0..N
      BY <2>1
    <3>. QED  BY <1>2, <3>1
  <2>2. CASE n + 1 \notin 0..N
    BY <2>2
  <2>. QED  BY <2>1, <2>2
<1>. HIDE DEF Q
<1>3. \A n \in Nat : n \in Q
  BY <1>1, <1>2, EveryNatural
<1>4. \A n \in 0..N : n \in Nat
  OBVIOUS
<1>. QED  BY <1>3, <1>4 DEF Q

(* f folds the steps from a base: its value at every place is the step taken *)
(* from the value at the place before.                                       *)
IsFold(f, N, S, base, step) ==
    /\ f \in [0..N -> S]
    /\ f[0] = base
    /\ \A k \in 1..N : f[k] = step[k][f[k - 1]]

(* Every fold over a bounded number of places exists.                        *)
LEMMA FoldExists ==
    ASSUME NEW N \in Nat, NEW S, NEW base \in S, NEW step \in [1..N -> [S -> S]]
    PROVE  \E f : IsFold(f, N, S, base, step)
<1> DEFINE Good(n, f) == f[0] = base /\ \A k \in 1..n : f[k] = step[k][f[k - 1]]
           P == {n \in 0..N : \E f \in [0..n -> S] : Good(n, f)}
<1>1. 0 \in P
  <2>1. Good(0, [k \in 0..0 |-> base])
    OBVIOUS
  <2>2. [k \in 0..0 |-> base] \in [0..0 -> S]
    OBVIOUS
  <2>. HIDE DEF Good
  <2>. QED  BY <2>1, <2>2
<1>2. ASSUME NEW n \in 0..(N - 1), n \in P  PROVE n + 1 \in P
  <2>1. PICK f \in [0..n -> S] : Good(n, f)
    BY <1>2
  <2> DEFINE g == [k \in 0..(n + 1) |-> IF k = n + 1 THEN step[n + 1][f[n]] ELSE f[k]]
  <2>2. n + 1 \in 1..N /\ f[n] \in S
    OBVIOUS
  <2>3. step[n + 1][f[n]] \in S
    BY <2>2
  <2>4. g \in [0..(n + 1) -> S]
    BY <2>3
  <2>5. \A k \in 0..n : g[k] = f[k] /\ g[n + 1] = step[n + 1][f[n]]
    OBVIOUS
  <2>. HIDE DEF g
  <2>6. g[0] = base
    BY <2>1, <2>5
  <2>7. ASSUME NEW k \in 1..(n + 1)  PROVE g[k] = step[k][g[k - 1]]
    <3>1. CASE k = n + 1
      BY <2>5, <3>1
    <3>2. CASE k # n + 1
      <4>1. k \in 1..n /\ k \in 0..n /\ k - 1 \in 0..n
        BY <3>2
      <4>. QED  BY <2>1, <2>5, <4>1
    <3>. QED  BY <3>1, <3>2
  <2>. QED  BY <2>2, <2>4, <2>6, <2>7
<1>3. N \in P
  <2>. HIDE DEF P
  <2>1. \A n \in 0..N : n \in P
    BY <1>1, <1>2, EveryPlace
  <2>. QED  BY <2>1
<1>. QED  BY <1>3 DEF IsFold
=============================================================================
