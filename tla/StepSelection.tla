---------------------------- MODULE StepSelection ----------------------------
(***************************************************************************)
(* The choice of the aggregation step for one read of an RRD file          *)
(* (src/src/rrd/reader.c): select_optimal_step collects an array of round  *)
(* robin archives, bounds the range by what the file holds and hands both  *)
(* to select_step_from_rras, a loop over the array that stops at the first *)
(* entry inside a window of points and otherwise remembers the best so     *)
(* far.  The loop is modelled step by step and compared with what          *)
(* include/rrd/reader.h promises.  A file rrd_info_r cannot read gets the  *)
(* default step and is left out: reading its points fails as well.         *)
(***************************************************************************)
EXTENDS Integers, Sequences, FiniteSetsExt

CONSTANTS
    Files,        \* RRD files: their step and their archives
    Periods,      \* requested periods, in seconds
    Ages,         \* how long ago the oldest point of the file was, or Unknown
    Unknown,      \* rrd_first_r fails for every archive
    DefaultStep,  \* the 15 of select_optimal_step
    MinPoints,    \* 100
    MaxPoints,    \* 2400
    MaxStep,      \* archives with a step above 1000000 are left out
    MaxArchives   \* and so are those behind the first 20

ASSUME StepAssumption ==
    /\ \A f \in Files :
           /\ f.step \in Nat \ {0}
           /\ f.rras \in Seq([cf : {"AVERAGE", "MAX"}, pdp_per_row : Nat \ {0}])
    /\ Periods \subseteq Nat \ {0}
    /\ Unknown \notin Int /\ Ages \subseteq Int \cup {Unknown}
    /\ DefaultStep \in Nat \ {0}
    /\ MinPoints \in Nat \ {0} /\ MaxPoints \in Nat /\ MinPoints <= MaxPoints
    /\ MaxStep \in Nat /\ MaxArchives \in Nat

VARIABLES
    file,             \* the file being read
    period,           \* end - start as requested
    range,            \* end - start, not before the first point
    at,               \* where the function is
    i,                \* index of the loop
    optimal_step,     \* best step so far, 0 for none
    best_num_points,  \* its points
    step              \* the result
vars == <<file, period, range, at, i, optimal_step, best_num_points, step>>

\* The array select_optimal_step collects from the keys of rrd_info_r.  librrd
\* lists the cf of an archive before its pdp_per_row, and the entry is closed
\* at the cf: it has the cf of an archive with the pdp_per_row of the archive
\* before, the first cf has none yet (a step of 0) and is dropped, and so is
\* the last pdp_per_row.
step_rras(f) ==
    LET kept[n \in 0..Len(f.rras)] ==
            IF n = 0 THEN <<>>
            ELSE LET p == f.rras[n - 1].pdp_per_row
                 IN  IF n > 1 /\ n <= MaxArchives /\ p * f.step <= MaxStep
                     THEN Append(kept[n - 1], [cf |-> f.rras[n].cf, pdp_per_row |-> p,
                                               effective_step |-> p * f.step])
                     ELSE kept[n - 1]
    IN  kept[Len(f.rras)]
rras == step_rras(file)

\* rrd_first_r is called for AVERAGE entries only.
FirstPoints == IF \E n \in DOMAIN rras : rras[n].cf = "AVERAGE" THEN Ages ELSE {Unknown}

\* The range starts no earlier than the first point of the file.
ClampedRange(p, age) == IF age = Unknown \/ age > p THEN p ELSE age

num_points(s) == (range + s - 1) \div s

Init ==
    /\ file \in Files /\ period \in Periods
    /\ \E age \in FirstPoints : range = ClampedRange(period, age)
    /\ at = "scan" /\ i = 1
    /\ optimal_step = 0 /\ best_num_points = 0
    /\ step = 0

Input == <<file, period, range>>

Return(s) == step' = s /\ at' = "done" /\ UNCHANGED <<Input, i, optimal_step, best_num_points>>

----------------------------------------------------------------------------
\* select_optimal_step: no points at all in the requested range.
EmptyRange ==
    /\ at = "scan" /\ range <= 0
    /\ Return(DefaultStep)

\* min_step is the base_step select_optimal_step passes: always the default.
Usable(r) == r.cf = "AVERAGE" /\ r.effective_step >= DefaultStep

Scanning == at = "scan" /\ range > 0 /\ i <= Len(rras)
Remember(s) == optimal_step' = s /\ best_num_points' = num_points(s)

Skip ==
    /\ Scanning /\ ~Usable(rras[i])
    /\ i' = i + 1
    /\ UNCHANGED <<Input, at, optimal_step, best_num_points, step>>

InWindow(s) == num_points(s) \in MinPoints..MaxPoints

\* An archive inside the window ends the loop.
TakeInWindow ==
    /\ Scanning /\ Usable(rras[i])
    /\ LET s == rras[i].effective_step
       IN  InWindow(s) /\ Remember(s) /\ step' = s
    /\ at' = "done"
    /\ UNCHANGED <<Input, i>>

\* Mutant: a coarse archive replaces a finer one.
BetterTakesLast(s) == ~InWindow(s)

\* Too few points: more are better.  Too many: a smaller step is taken.
Better(s) ==
    \/ num_points(s) < MinPoints /\ (optimal_step = 0 \/ num_points(s) > best_num_points)
    \/ num_points(s) > MaxPoints /\ (optimal_step = 0 \/ s < optimal_step)

TakeOutside ==
    /\ Scanning /\ Usable(rras[i])
    /\ LET s == rras[i].effective_step
       IN  /\ ~InWindow(s)
           /\ IF Better(s) THEN Remember(s) ELSE UNCHANGED <<optimal_step, best_num_points>>
    /\ i' = i + 1
    /\ UNCHANGED <<Input, at, step>>

EndOfScan ==
    /\ at = "scan" /\ range > 0 /\ i > Len(rras)
    /\ IF optimal_step # 0 THEN Return(optimal_step)
       ELSE /\ at' = "raw"
            /\ UNCHANGED <<Input, i, optimal_step, best_num_points, step>>

Raw == {n \in DOMAIN rras : rras[n].cf = "AVERAGE" /\ rras[n].pdp_per_row = 1}

\* The fallback: the first raw archive, else the base step.
TakeRaw ==
    /\ at = "raw"
    /\ Return(IF range <= period /\ Raw # {} THEN rras[Min(Raw)].effective_step
              ELSE DefaultStep)

Finished == at = "done" /\ UNCHANGED vars

Next ==
    EmptyRange \/ Skip \/ TakeInWindow \/ TakeOutside \/ EndOfScan \/ TakeRaw \/ Finished

Spec == Init /\ [][Next]_vars

----------------------------------------------------------------------------
\* The base step include/rrd/reader.h:39 and 57 name is the RRD's.  That is the
\* one here unless it is below the constant: select_optimal_step passes the
\* constant whatever the file's step is (reader.c:146), so that the entries of
\* a finer file with smaller steps are passed over.
base_step == IF file.step >= DefaultStep THEN file.step ELSE DefaultStep

\* The result is what include/rrd/reader.h says for the array that was collected
\* and the base step of the RRD, with base_step above for finer files: among the
\* AVERAGE entries with a step not below the base step, the first inside the
\* window; if there is none, one with the most points, which is the one with the
\* smallest step when all have too many; if there is no such entry, the raw one;
\* else the constant, where reader.h has the base step.  The loop keeps only the
\* best so far, and arrays may mix entries on both sides of the window in any
\* order.  (How the array departs from the file is in step_rras.)
Candidates == {n \in DOMAIN rras : rras[n].cf = "AVERAGE" /\ rras[n].effective_step >= base_step}
StepMeetsContract ==
    at = "done" /\ range > 0 =>
        LET fits == {n \in Candidates : InWindow(rras[n].effective_step)}
        IN  IF fits # {} THEN step = rras[Min(fits)].effective_step
            ELSE IF Candidates # {} THEN
                /\ \E n \in Candidates : step = rras[n].effective_step
                /\ \A n \in Candidates :
                       /\ num_points(rras[n].effective_step) <= num_points(step)
                       /\ num_points(step) > MaxPoints => step <= rras[n].effective_step
            ELSE step = IF Raw # {} THEN rras[Min(Raw)].effective_step ELSE DefaultStep
=============================================================================
