------------------------------- MODULE MCTeams -------------------------------
(* A small instance of Teams for TLC.                                      *)
EXTENDS Teams, TLC

CONSTANTS ann, bob, t1, t2, c1, i1, r1, r2

MCHome == (ann :> t1) @@ (bob :> NULL)
MCBags == {{}, Permission}
MCSymmetry == Permutations(Request)
=============================================================================
