-------------------------- MODULE CountingLemmas --------------------------
(***************************************************************************)
(* Induction over the positions of a list, for the loops of the program:   *)
(* the least number of a set, counting up to the end of a list, and the    *)
(* values a loop takes.  The proofs of the other modules cite these facts  *)
(* in place of an induction rule.                                          *)
(***************************************************************************)
EXTENDS Integers, WellFoundedInduction, TLAPS

\* A non-empty set of numbers has a least one: with it a property of all
\* positions of a list is proved by looking at the first counterexample.
LEMMA LeastNumber ==
    ASSUME NEW T, T \subseteq Nat, T # {}
    PROVE  \E x \in T : \A y \in T : x <= y
<1>. DEFINE R == OpToRel(<, Nat)
<1>1. IsWellFoundedOn(R, Nat)
  BY NatLessThanWellFounded, Zenon
<1>2. \A x, y \in Nat : <<y, x>> \in R <=> y < x
  BY DEF OpToRel
<1>. HIDE DEF R
<1>3. PICK x \in T : \A y \in T : ~(<<y, x>> \in R)
  BY <1>1, WFMin
<1>4. ASSUME NEW y \in T PROVE x <= y
  <2>1. x \in Nat /\ y \in Nat
    OBVIOUS
  <2>2. ~(y < x)
    BY <1>2, <1>3, <2>1
  <2>. QED
    BY <2>1, <2>2
<1>. QED
  BY <1>4

\* The same as induction over the positions 0..m: a set that has 0 and with
\* every number its successor has them all.
LEMMA CountUp ==
    ASSUME NEW m \in Nat, NEW T, 0 \in T,
           \A n \in 0..m : n < m /\ n \in T => n + 1 \in T
    PROVE  \A n \in 0..m : n \in T
<1>. DEFINE Bad == {n \in 0..m : n \notin T}
<1>. SUFFICES ASSUME Bad # {} PROVE FALSE
  OBVIOUS
<1>1. Bad \subseteq Nat
  OBVIOUS
<1>. HIDE DEF Bad
<1>2. PICK x \in Bad : \A y \in Bad : x <= y
  BY <1>1, LeastNumber
<1>3. x \in 0..m /\ x \notin T
  BY <1>2 DEF Bad
<1>4. x # 0
  BY <1>3
<1>5. x - 1 \in 0..m /\ x - 1 < m /\ x - 1 \notin Bad
  BY <1>2, <1>3, <1>4, <1>1
<1>6. x - 1 \in T
  BY <1>5 DEF Bad
<1>7. (x - 1) + 1 \in T
  BY <1>5, <1>6
<1>. QED
  BY <1>3, <1>7

\* k has the values of a loop of m rounds: it starts with init, and round n makes
\* g[n][v] of v.
RunsLoop(k, m, S, init, g) ==
    /\ k \in [0..m -> S]
    /\ k[0] = init
    /\ \A n \in 1..m : k[n] = g[n][k[n - 1]]

\* A loop whose rounds stay in S has values.
LEMMA LoopValues ==
    ASSUME NEW m \in Nat, NEW S, NEW init \in S,
           NEW g, \A n \in 1..m : \A v \in S : g[n][v] \in S
    PROVE  \E k : RunsLoop(k, m, S, init, g)
<1>. DEFINE Runs(k, n) == RunsLoop(k, n, S, init, g)
            T == {n \in 0..m : \E k : Runs(k, n)}
<1>1. 0 \in T
  <2>. DEFINE k0 == [n \in 0..0 |-> init]
  <2>1. Runs(k0, 0)
    BY DEF RunsLoop
  <2>. HIDE DEF k0, Runs
  <2>. QED
    BY <2>1
<1>2. ASSUME NEW n \in 0..m, n < m, n \in T PROVE n + 1 \in T
  <2>1. PICK k : Runs(k, n)
    BY <1>2
  <2>2. n \in Nat /\ n + 1 \in 0..m /\ n + 1 \in 1..m
    BY <1>2
  <2>3. /\ k \in [0..n -> S]
        /\ k[0] = init
        /\ \A j \in 1..n : k[j] = g[j][k[j - 1]]
    BY <2>1 DEF RunsLoop
  <2>. DEFINE v == g[n + 1][k[n]]
              k2 == [j \in 0..(n + 1) |-> IF j = n + 1 THEN v ELSE k[j]]
  <2>4. v \in S
    BY <2>2, <2>3
  <2>. HIDE DEF v
  <2>5. k2 \in [0..(n + 1) -> S]
    BY <2>2, <2>3, <2>4
  <2>6. k2[0] = init /\ k2[n + 1] = v /\ \A j \in 0..n : k2[j] = k[j]
    BY <2>2, <2>3
  <2>. HIDE DEF k2
  <2>7. ASSUME NEW j \in 1..(n + 1) PROVE k2[j] = g[j][k2[j - 1]]
    <3>1. CASE j = n + 1
      BY <2>2, <2>6, <3>1 DEF v
    <3>2. CASE j # n + 1
      <4>1. j \in 1..n /\ j \in 0..n /\ j - 1 \in 0..n
        BY <2>2, <3>2
      <4>. QED
        BY <2>3, <2>6, <4>1
    <3>. QED
      BY <3>1, <3>2
  <2>8. Runs(k2, n + 1)
    BY <2>5, <2>6, <2>7 DEF RunsLoop
  <2>. HIDE DEF Runs
  <2>. QED
    BY <2>2, <2>8
<1>. HIDE DEF Runs
<1>3. m \in T
  <2>1. \A n \in 0..m : n < m /\ n \in T => n + 1 \in T
    BY <1>2
  <2>. HIDE DEF T
  <2>2. \A n \in 0..m : n \in T
    BY <1>1, <2>1, CountUp
  <2>. QED
    BY <2>2
<1>. QED
  BY <1>3 DEF Runs
=============================================================================
