------------------------------ MODULE MCSysLog ------------------------------
(* SysLog for TLC.                                                           *)
EXTENDS SysLog
=============================================================================
