----------------------------- MODULE MCTokenCache -----------------------------
(* A small instance of TokenCache for TLC.                                 *)
EXTENDS TokenCache, TLC

CONSTANTS ann, bob, a, b, r1, r2

MCOwner == (a :> ann) @@ (b :> bob)
MCBorn == (a :> 0) @@ (b :> 1)
MCSymmetry == Permutations(Request)
=============================================================================
