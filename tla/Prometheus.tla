----------------------------- MODULE Prometheus -----------------------------
(***************************************************************************)
(* The Prometheus source (src/src/prometheus_source.c): which series       *)
(* prometheus_source_fetch makes of an exporter's page, and which bodies   *)
(* http_get_body may take for that page.  A line is its metric name and    *)
(* its value; what is left of a line that was cut may still parse.         *)
(***************************************************************************)
EXTENDS Integers, Sequences, FiniteSets

CONSTANTS
    Words,      \* the texts in a page
    MaxSeries,  \* MAX_SERIES
    Pages,      \* the pages an exporter may serve, sequences of lines
    Endings,    \* names with which the rest of a line may begin
    MaxCuts     \* bound on the lines that ends of chunks cut

\* What the parser can tell of a line of a body.
Lines == [name : Seq(Words), value : Words]

ASSUME PageAssumption ==
    /\ MaxSeries \in Nat \ {0}
    /\ {"none", "cut"} \subseteq Words
    /\ Pages \subseteq Seq(Lines)
    /\ Endings \subseteq Seq(Words)

Line(name, value) == [name |-> name, value |-> value]

\* A comment, an empty line, a line without a value, an unclosed label.
Unparsed == Line(<<>>, "none")

\* What the parser makes of a line that was cut: nothing that parses, the line
\* with another number, or, from the rest of it, a sample of another name with
\* this value or another ("up 5" of foo_up 5).  At most one piece of a line is
\* taken to match (two could in a line whose labels hold texts like samples).
Pieces(line) ==
    {Unparsed, line}
    \cup [name : ({line.name} \cup Endings) \ {<<>>}, value : {line.value, "cut"}]

\* A chunked transfer is not decoded: the end of a chunk cuts a line, and the
\* next chunk's size, which does not parse, and the rest of the line follow.
Cuts(page) == {cut \in SUBSET DOMAIN page : Cardinality(cut) <= MaxCuts}
Bodies(page, cut) ==
    LET lines == UNION {Pieces(page[k]) : k \in cut}
        Chosen == {piece \in [cut -> lines] : \A k \in cut : piece[k] \in Pieces(page[k])}
    IN  {[k \in DOMAIN page |-> IF k \in cut THEN piece[k] ELSE page[k]] : piece \in Chosen}

\* The recv loop ends before the page does (timeout of 5 s, reset, signal, 8
\* MB): line n is the last of which something arrived.
Until(body, n) == [k \in DOMAIN body |-> IF k <= n THEN body[k] ELSE Unparsed]

\* Mutant: values that are not finite are kept.
MatchesAnyValue(line, endpoint) == line.name = endpoint /\ line.value # "none"

\* prom_parse_line succeeds, the name is the metric's endpoint, and isfinite.
Matches(line, endpoint) ==
    line.name = endpoint /\ line.value \notin {"none", "NaN", "Inf"}

\* prometheus_source_fetch: both passes walk the lines in order and stop after
\* MAX_SERIES that match; each is a series of one point.  Without any the result
\* is NULL (<<>>).
Series(body, endpoint) ==
    LET found[n \in 0..Len(body)] ==
            IF n = 0 THEN <<>>
            ELSE LET before == found[n - 1]
                 IN  IF Matches(body[n], endpoint) /\ Len(before) < MaxSeries
                     THEN Append(before, body[n].value) ELSE before
    IN  found[Len(body)]
=============================================================================
