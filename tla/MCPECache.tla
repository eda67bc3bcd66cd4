------------------------------ MODULE MCPECache ------------------------------
(* PECache for TLC.                                                          *)
EXTENDS PECache, TLC

\* Threads are interchangeable, and so are keys.
Symmetry == Permutations(Threads) \cup Permutations(Keys)
=============================================================================
