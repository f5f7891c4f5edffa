--------------------------- MODULE MCMetricSource ---------------------------
(* Small instances of MetricSource for TLC. *)
EXTENDS MetricSource, TLC
CONSTANTS w1, w2, o1, o2, o3, o4, o5, pa, pb, plong, ma, mb, mlong, msum

Symmetric == Permutations(Workers) \cup Permutations(Objs)

\* pa and pb share a chain; plong fills the key buffer.
MCHash == [k \in Keys |-> IF k[1] = plong THEN 1 ELSE 0]

\* ma and msum read the same file, msum with transform_type "sum".
MCMetricPath == [m \in Metrics |->
    CASE m \in {ma, msum} -> pa [] m = mb -> pb [] m = mlong -> plong]
MCMetricSum == [m \in Metrics |-> m = msum]
=============================================================================
