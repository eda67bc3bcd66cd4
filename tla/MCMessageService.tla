-------------------------- MODULE MCMessageService --------------------------
(* MessageService for TLC.                                                   *)
EXTENDS MessageService

\* Both threads, or one of them.
MCBeginThreadResults == SUBSET {"get", "dispatch"} \ {{}}
=============================================================================
