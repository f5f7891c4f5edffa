----------------------------- MODULE MCJsContext -----------------------------
(* Small instances of JsContext for TLC. *)
EXTENDS JsContext
CONSTANTS w1, w2, w3, b1, b2, b3

Setting(loaded, failures, grafana, renderers) ==
    [loaded |-> loaded, failures |-> failures, grafana |-> grafana, renderers |-> renderers]

\* Loaded at startup; loaded later by one worker, with failures; loaded later
\* by all workers at once, without failures.
AllSettings ==
    {Setting(TRUE, TRUE, TRUE, Workers), Setting(FALSE, TRUE, TRUE, {w1}),
     Setting(FALSE, FALSE, TRUE, Workers)}

\* Loaded later by all workers, and no other use of the contexts.
LateRenders == {Setting(FALSE, FALSE, FALSE, Workers)}
=============================================================================
