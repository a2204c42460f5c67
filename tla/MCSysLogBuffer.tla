-------------------------- MODULE MCSysLogBuffer --------------------------
(* Instances of SysLogBuffer for TLC. *)
EXTENDS SysLogBuffer

CONSTANTS r1, r2

MCRecord == {r1, r2}

=============================================================================
