----------------------------- MODULE MCPidAlloc -----------------------------
(***************************************************************************)
(* Small instances of get_pid() for TLC.                                   *)
(***************************************************************************)
EXTENDS PidAlloc

=============================================================================
