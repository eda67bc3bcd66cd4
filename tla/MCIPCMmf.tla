------------------------------ MODULE MCIPCMmf ------------------------------
(* IPCMmf for TLC: the senders are model values, all of them alike.           *)
EXTENDS IPCMmf, TLC

Symmetric == Permutations(Senders)
=============================================================================
