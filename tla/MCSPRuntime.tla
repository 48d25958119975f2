------------------------------ MODULE MCSPRuntime ------------------------------
(***************************************************************************)
(* Small instances of SPRuntime for TLC.                                   *)
(***************************************************************************)
EXTENDS SPRuntime, FiniteSets

MCPOnly == {"mcp"}
MCPAndWorkload == {"mcp", "workload"}
EitherFinalizer == BOOLEAN
OwnFinalizerOnly == {FALSE}
===============================================================================
