------------------------------- MODULE MCTimer -------------------------------
(* Timer for TLC.                                                            *)
EXTENDS Timer, TLC

CONSTANTS a, b

\* One client adds a task that is always due and one that is due once; one adds
\* a repeated task that it removes and another.
MCClients ==
  {[period |-> a :> 0 @@ b :> 1, repeated |-> a :> TRUE @@ b :> FALSE, removes |-> {}],
   [period |-> a :> 1 @@ b :> 1, repeated |-> a :> TRUE @@ b :> FALSE, removes |-> {a}]}
=============================================================================
