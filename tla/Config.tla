------------------------------- MODULE Config -------------------------------
(***************************************************************************)
(* The configuration of svgd (src/src/cfg.c, src/src/path_util.c): what    *)
(* load_config makes of config.json, how a request path finds its metric,  *)
(* which file a metric reads, and the buffer behind _config/metrics.       *)
(* A path is the sequence of its segments: "disk/io/sda" is                *)
(* <<"disk", "io", "sda">>, "disk/" is <<"disk", "">>, "" is <<>>.         *)
(***************************************************************************)
EXTENDS Integers, Sequences, SequencesExt, FiniteSetsExt

CONSTANTS
    Strings,    \* the texts in a configuration and the segments of paths
    NotArray,   \* "metrics" is absent or something else than an array
    NotObject,  \* an element of it that is not an object
    Leftovers,  \* what a slot that was never written may hold
    Templates,  \* the rrd_path texts with a % for the parameter
    JsonHead,   \* bytes of {"version":"1.0","metrics":[
    JsonBase,   \* buffer of generate_metrics_json without metrics
    JsonRoom,   \* buffer per metric, and the room kept for the next one
    EntryLens   \* lengths an entry of that JSON, with its comma, may have

\* An entry may be longer than JsonRoom: json_escape writes up to six bytes for
\* one, in each of the five texts of a metric.
ASSUME JsonAssumption ==
    /\ {JsonHead, JsonBase, JsonRoom} \subseteq Nat
    /\ 2 <= JsonRoom /\ JsonHead + JsonRoom < JsonBase
    /\ EntryLens \subseteq Nat \ {0}

\* An object of the "metrics" array, and a slot of config.metrics.
Texts == [endpoint : Seq(Strings), requires_param : BOOLEAN, source : Strings,
          rrd_path : Strings, spec : Strings]
MetricConfig == {m \in Texts : m.source \in {"rrd", "proc", "prometheus"}}

ASSUME ConfigAssumption ==
    /\ {"", "rrd", "proc", "prometheus"} \subseteq Strings
    /\ Leftovers \subseteq MetricConfig

\* A cleared slot of the array: no endpoint, and 0 is SRC_RRD.
Blank ==
    [endpoint |-> <<>>, requires_param |-> FALSE, source |-> "rrd",
     rrd_path |-> "", spec |-> ""]

\* Mutant: names that are not known are kept.
SourceAsWritten(s) == IF s = "" THEN "rrd" ELSE s

\* metric_source_from_string: names it does not know are RRD metrics.
metric_source_from_string(s) == IF s \in {"proc", "prometheus"} THEN s ELSE "rrd"

\* parse_metric_config; `spec' is proc_metric or prometheus_url.
parse_metric_config(object) ==
    [object EXCEPT !.source = metric_source_from_string(@)]

\* Mutant: only the rrd_path is required.
InvalidWithoutFile(m) == m.source = "rrd" /\ m.rrd_path = ""

\* What load_config clears: no endpoint, or an RRD metric without a file.
Invalid(m) == m.endpoint = <<>> \/ (m.source = "rrd" /\ m.rrd_path = "")

\* What slot i of config.metrics may hold after load_config.
SlotsFor(element) ==
    IF element = NotObject THEN Leftovers
    ELSE LET m == parse_metric_config(element)
         IN  {IF Invalid(m) THEN Blank ELSE m}

\* load_config: the arrays it may return.  A file that is missing or holds no
\* object, no array, or more than malloc grants, leaves no metrics.
load_config(file) ==
    {<<>>} \cup
    IF file.text # "object" \/ file.metrics = NotArray THEN {}
    ELSE {array \in [DOMAIN file.metrics -> UNION {SlotsFor(file.metrics[i]) : i \in DOMAIN file.metrics}] :
             \A i \in DOMAIN array : array[i] \in SlotsFor(file.metrics[i])}

\* Mutant: the first prefix wins, not the longest.
LongerKeepsFirst(metrics, best, i) == best = 0

\* find_metric_config's second pass prefers i to the best match so far.
Longer(metrics, best, i) ==
    Len(metrics[i].endpoint) > (IF best = 0 THEN 0 ELSE Len(metrics[best].endpoint))

\* find_metric_config: the index of the first exact match, else of the longest
\* endpoint with a parameter that is a prefix of the path, else 0.
find_metric_config(metrics, path) ==
    LET exact == {i \in DOMAIN metrics : metrics[i].endpoint = path}
        best[n \in 0..Len(metrics)] ==
            IF n = 0 THEN 0
            ELSE IF /\ metrics[n].requires_param
                    /\ IsStrictPrefix(metrics[n].endpoint, path)
                    /\ Longer(metrics, best[n - 1], n)
                 THEN n ELSE best[n - 1]
    IN  IF exact # {} THEN Min(exact) ELSE best[Len(metrics)]

\* extract_param_from_path: what follows the endpoint, <<>> for NULL.
extract_param_from_path(path, endpoint) ==
    LET rest == SubSeq(path, Len(endpoint) + 1, Len(path))
    IN  IF rest = <<"">> THEN <<>> ELSE rest

\* build_rrd_path: the file a metric reads; a template keeps its % if there
\* is no parameter.
build_rrd_path(rrd_path, param) ==
    <<rrd_path, IF rrd_path \in Templates THEN param ELSE <<>> >>

\* generate_metrics_json: the buffer after its head is written, with n entries
\* left.  `over' is a history: the length of the first text that, with its NUL,
\* was longer than what was left of the buffer, 0 if none was.
JsonStart(n) ==
    [off |-> JsonHead, size |-> JsonBase + JsonRoom * n, left |-> n, over |-> 0]

JsonWrite(json, len) ==
    [json EXCEPT !.off = @ + len,
                 !.over = IF @ = 0 /\ json.off + len >= json.size THEN len ELSE @]

\* Mutant: the buffer grows when it is full.
JsonGrowsFull(json) == json.off >= json.size

\* Behind an entry: the next may not fit.
JsonGrows(json) == json.off >= json.size - JsonRoom

\* An entry of len bytes, and what realloc makes of the buffer.
JsonEntry(json, len) ==
    LET written == JsonWrite(json, len)
    IN  [written EXCEPT !.left = @ - 1,
                        !.size = IF JsonGrows(written) THEN 2 * @ ELSE @]

\* The closing brackets.
JsonEnd(json) == JsonWrite(json, 2)
=============================================================================
