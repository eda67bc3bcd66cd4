---------------------------- MODULE MCFeatureDB ----------------------------
(* Three files: two intact ones that share a hash, and one whose sum is      *)
(* wrong and whose second record has an unknown hash type.                   *)
EXTENDS FeatureDB, TLC

CONSTANTS f1, f2, f3, k1, k2

MCFiles == {f1, f2, f3}
MCContent == (f1 :> <<k1, k2>>) @@ (f2 :> <<k2>>) @@ (f3 :> <<k1, BadKey>>)
=============================================================================
