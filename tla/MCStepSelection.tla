-------------------------- MODULE MCStepSelection --------------------------
(* Small instances of StepSelection for TLC: the window 100..2400 is scaled *)
(* to MinPoints..MaxPoints, the steps with it.                              *)
EXTENDS StepSelection

\* A negative age: the file is ahead of the clock.
MCAges == {Unknown, -1, 0, 1, 12, 100}

Archives == [cf : {"AVERAGE", "MAX"}, pdp_per_row : {1, 2, 4, 12}]
UpTo4 == UNION {[1..n -> Archives] : n \in 0..4}

\* One archive more than select_optimal_step looks at.
FiveOf == [1..5 -> [cf : {"AVERAGE"}, pdp_per_row : {2, 4, 12}]]

\* The step of the file is below, at or above the default one (3).
AllFiles == [step : {2, 3, 4}, rras : UpTo4 \cup FiveOf]
=============================================================================
