------------------------------ MODULE ProcCpu ------------------------------
(***************************************************************************)
(* The live CPU metric (src/src/proc_source.c, read_cpu): utilisation is   *)
(* the difference between this call's sample of /proc/stat and the sample  *)
(* of the previous call, kept in g_cpu_prev.  The mutex protects           *)
(* g_cpu_prev, not the reading of /proc/stat, so a worker can reach the    *)
(* mutex with a sample older than the one already stored.                  *)
(* metric_source_fetch calls the source for every request: its SRC_PROC    *)
(* branch does not go through the cache.                                   *)
(***************************************************************************)
EXTENDS Integers

CONSTANTS
    Workers,   \* threads of the server
    MaxTotal,  \* bound on the jiffies counted by /proc/stat
    MaxLoss    \* how far "busy" may fall between two reads (counter resets)

ASSUME ProcAssumption == MaxTotal \in Nat /\ MaxLoss \in Nat

VARIABLES
    stat,      \* /proc/stat: busy and total jiffies (external)
    prev,      \* g_cpu_prev
    pc,        \* where each worker is in read_cpu
    sample,    \* the busy and total it has read
    util,      \* the value it returns, in percent
    covered    \* history: the jiffies some difference extends over

vars == <<stat, prev, pc, sample, util, covered>>

Sample == [busy : 0..MaxTotal, total : 0..MaxTotal]
Zero == [busy |-> 0, total |-> 0]

TypeOK ==
    /\ stat \in Sample
    /\ prev \in [busy : 0..MaxTotal, total : 0..MaxTotal, have : BOOLEAN]
    /\ pc \in [Workers -> {"idle", "sampled", "done"}]
    /\ sample \in [Workers -> Sample]
    /\ util \in [Workers -> 0..100]
    /\ covered \subseteq 1..MaxTotal

Init ==
    /\ stat = Zero
    /\ prev = [busy |-> 0, total |-> 0, have |-> FALSE]
    /\ pc = [w \in Workers |-> "idle"]
    /\ sample = [w \in Workers |-> Zero]
    /\ util = [w \in Workers |-> 0]
    /\ covered = {}

\* Mutant: the result is not clamped.
UtilizationUnclamped(s0, s1) ==
    IF s1.total - s0.total <= 0 THEN 0
    ELSE ((s1.busy - s0.busy) * 100) \div (s1.total - s0.total)

\* proc_cpu_utilization: signed differences, clamped; 0 when no time passed.
proc_cpu_utilization(s0, s1) ==
    LET dt == s1.total - s0.total
        db == s1.busy - s0.busy
    IN  IF dt <= 0 \/ db < 0 THEN 0
        ELSE IF db > dt THEN 100
        ELSE (db * 100) \div dt

----------------------------------------------------------------------------
\* The machine runs: one jiffy, busy or idle; busy may also fall back.
Jiffy ==
    /\ stat.total < MaxTotal
    /\ \E b \in (stat.busy - MaxLoss)..(stat.busy + 1) :
           /\ b \in 0..MaxTotal
           /\ stat' = [busy |-> b, total |-> stat.total + 1]
    /\ UNCHANGED <<prev, pc, sample, util, covered>>

\* read_first_line and proc_parse_cpu_stat.
ReadStat(w) ==
    /\ pc[w] = "idle"
    /\ sample' = [sample EXCEPT ![w] = stat]
    /\ pc' = [pc EXCEPT ![w] = "sampled"]
    /\ UNCHANGED <<stat, prev, util, covered>>

\* Mutant: the first call only stores its sample.
NoBase(w) == IF prev.have THEN [busy |-> prev.busy, total |-> prev.total] ELSE sample[w]

\* The first difference is the one since boot.
Base(w) == IF prev.have THEN [busy |-> prev.busy, total |-> prev.total] ELSE Zero

\* Under g_cpu_prev_mutex: the difference, and the sample becomes the previous.
Difference(w) ==
    LET base == Base(w)
    IN  /\ pc[w] = "sampled"
        /\ util' = [util EXCEPT ![w] = proc_cpu_utilization(base, sample[w])]
        /\ covered' = covered \cup (base.total + 1)..sample[w].total
        /\ prev' = [busy |-> sample[w].busy, total |-> sample[w].total, have |-> TRUE]
        /\ pc' = [pc EXCEPT ![w] = "done"]
        /\ UNCHANGED <<stat, sample>>

\* The point is returned, or memory for it is missing; g_cpu_prev has moved on
\* either way.
Return(w) ==
    /\ pc[w] = "done"
    /\ pc' = [pc EXCEPT ![w] = "idle"]
    /\ UNCHANGED <<stat, prev, sample, util, covered>>

Next == Jiffy \/ \E w \in Workers : ReadStat(w) \/ Difference(w) \/ Return(w)

Spec == Init /\ [][Next]_vars

----------------------------------------------------------------------------
\* No CPU time falls between two differences: whatever the order in which
\* workers reach the mutex with their samples, every jiffy up to the stored
\* sample is part of some computed value.  (A sample that arrives late sets
\* g_cpu_prev back, so jiffies are counted twice rather than not at all.)
JiffiesCovered == 1..prev.total \subseteq covered
=============================================================================
