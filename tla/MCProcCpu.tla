------------------------------ MODULE MCProcCpu ------------------------------
(* Small instances of ProcCpu for TLC. *)
EXTENDS ProcCpu
CONSTANTS w1, w2, w3
=============================================================================
