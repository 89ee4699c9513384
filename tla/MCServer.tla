------------------------------ MODULE MCServer ------------------------------
(* Instances of Server for TLC. *)
EXTENDS Server, TLC

CONSTANTS w1, w2, c1, c2, r1

OneEach == w1 :> 1 @@ w2 :> 1

ServerSymmetry == Permutations({c1, c2}) \union Permutations({w1, w2})

=============================================================================
