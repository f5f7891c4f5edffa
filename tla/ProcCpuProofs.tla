---------------------------- MODULE ProcCpuProofs ----------------------------
(***************************************************************************)
(* For any number of workers and any length of /proc/stat's counters: the  *)
(* type invariant of ProcCpu, which bounds the reported utilisation to     *)
(* 0..100 through counter resets and late samples, and that no jiffy is    *)
(* missing from the reported differences.                                  *)
(***************************************************************************)
EXTENDS ProcCpu, TLAPS

\* The clamped difference of two samples is a percentage, whatever the order
\* and the values of the counters (proc_cpu_utilization).
LEMMA UtilizationInRange ==
    ASSUME NEW s0 \in [busy : Int, total : Int], NEW s1 \in [busy : Int, total : Int]
    PROVE  proc_cpu_utilization(s0, s1) \in 0..100
<1> DEFINE dt == s1.total - s0.total
           db == s1.busy - s0.busy
<1>1. dt \in Int /\ db \in Int
  OBVIOUS
<1>2. CASE dt <= 0 \/ db < 0
  BY <1>2 DEF proc_cpu_utilization
<1>3. CASE ~(dt <= 0 \/ db < 0) /\ db > dt
  BY <1>3 DEF proc_cpu_utilization
<1>4. CASE dt > 0 /\ db >= 0 /\ db <= dt
  <2>1. (db * 100) \div dt \in 0..100
    <3> HIDE DEF dt, db
    <3>1. PICK q \in Int : q = (db * 100) \div dt
      BY <1>1, <1>4
    <3>2. dt * q <= db * 100 /\ db * 100 < dt * (q + 1)
      BY <1>1, <1>4, <3>1
    <3>3. q >= 0
      <4> SUFFICES ASSUME q + 1 <= 0 PROVE FALSE
        BY <3>1
      <4>1. dt * (q + 1) <= 0
        BY <1>1, <1>4, <3>1
      <4> QED BY <4>1, <3>2, <1>1, <1>4, <3>1
    <3>4. q <= 100
      <4> SUFFICES ASSUME q >= 101 PROVE FALSE
        BY <3>1
      <4>1. dt * q >= dt * 101
        BY <1>1, <1>4, <3>1
      <4> QED BY <4>1, <3>2, <1>1, <1>4, <3>1
    <3> QED BY <3>1, <3>3, <3>4
  <2> QED BY <1>1, <1>4, <2>1 DEF proc_cpu_utilization
<1> QED BY <1>1, <1>2, <1>3, <1>4

\* What a worker compares its sample with is a sample.
LEMMA BaseType ==
    ASSUME TypeOK, NEW w \in Workers
    PROVE  /\ Base(w) \in Sample
           /\ prev.have => Base(w).total = prev.total
           /\ ~prev.have => Base(w) = Zero
<1>1. Zero \in Sample
  BY ProcAssumption DEF Zero, Sample
<1>2. [busy |-> prev.busy, total |-> prev.total] \in Sample
  BY DEF TypeOK, Sample
<1> QED BY <1>1, <1>2 DEF Base

\* Every step keeps the types: counters within their bounds and every
\* reported value a percentage.
LEMMA TypeStep == TypeOK /\ [Next]_vars => TypeOK'
<1> SUFFICES ASSUME TypeOK, [Next]_vars PROVE TypeOK'
  OBVIOUS
<1>1. CASE Jiffy
  BY <1>1, ProcAssumption DEF Jiffy, TypeOK, Sample
<1>2. ASSUME NEW w \in Workers, ReadStat(w) PROVE TypeOK'
  BY <1>2, ProcAssumption DEF ReadStat, TypeOK, Sample
<1>3. ASSUME NEW w \in Workers, Difference(w) PROVE TypeOK'
  <2>1. Base(w) \in Sample /\ sample[w] \in Sample
    BY BaseType DEF TypeOK
  <2>2. proc_cpu_utilization(Base(w), sample[w]) \in 0..100
    BY <2>1, UtilizationInRange, ProcAssumption DEF Sample
  <2>3. util' \in [Workers -> 0..100]
    BY <1>3, <2>2 DEF Difference, TypeOK
  <2>4. (Base(w).total + 1)..sample[w].total \subseteq 1..MaxTotal
    BY <2>1, ProcAssumption DEF Sample
  <2>5. covered' \subseteq 1..MaxTotal
    BY <1>3, <2>4 DEF Difference, TypeOK
  <2>6. prev' \in [busy : 0..MaxTotal, total : 0..MaxTotal, have : BOOLEAN]
    BY <1>3, <2>1 DEF Difference, Sample
  <2> QED BY <1>3, <2>3, <2>5, <2>6 DEF Difference, TypeOK
<1>4. ASSUME NEW w \in Workers, Return(w) PROVE TypeOK'
  BY <1>4 DEF Return, TypeOK
<1>5. CASE UNCHANGED vars
  BY <1>5 DEF vars, TypeOK
<1> QED BY <1>1, <1>2, <1>3, <1>4, <1>5 DEF Next

\* Types hold in every reachable state, so every value read_cpu reports is a
\* percentage: neither a counter reset nor a late sample gets past the clamp.
THEOREM TypeCorrect == Spec => []TypeOK
<1>1. Init => TypeOK
  BY ProcAssumption DEF Init, TypeOK, Zero, Sample
<1> QED BY <1>1, TypeStep, PTL DEF Spec

\* Without a first sample nothing is stored that could be skipped.
StartsAtZero == ~prev.have => prev.total = 0

\* No CPU time is missing from the reported differences, for any number of
\* workers racing from their sample to the mutex of read_cpu.
THEOREM Coverage == Spec => []JiffiesCovered
<1> DEFINE Inv == StartsAtZero /\ JiffiesCovered
<1>1. Init => Inv
  BY DEF Init, StartsAtZero, JiffiesCovered
<1>2. TypeOK /\ Inv /\ [Next]_vars => Inv'
  <2> SUFFICES ASSUME TypeOK, Inv, [Next]_vars PROVE Inv'
    OBVIOUS
  <2>1. ASSUME NEW w \in Workers, Difference(w) PROVE Inv'
    <3>1. Base(w) \in Sample /\ sample[w] \in Sample /\ prev.total \in Nat
      BY BaseType, ProcAssumption DEF TypeOK, Sample
    <3>2. Base(w).total = prev.total
      BY BaseType DEF StartsAtZero, Zero
    <3>3. 1..sample[w].total \subseteq covered \cup (Base(w).total + 1)..sample[w].total
      BY <3>1, <3>2, ProcAssumption DEF JiffiesCovered, Sample
    <3>4. prev'.total = sample[w].total /\ prev'.have = TRUE
      BY <2>1 DEF Difference
    <3> QED BY <2>1, <3>3, <3>4 DEF Difference, StartsAtZero, JiffiesCovered
  <2>2. CASE UNCHANGED <<prev, covered>>
    BY <2>2 DEF StartsAtZero, JiffiesCovered
  <2> QED BY <2>1, <2>2 DEF Next, Jiffy, ReadStat, Return, vars
<1>3. Inv => JiffiesCovered
  OBVIOUS
<1> QED BY <1>1, <1>2, <1>3, TypeCorrect, PTL DEF Spec
=============================================================================
