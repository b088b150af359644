------------------------------ MODULE MCSessions ------------------------------
(* A small instance of Sessions for TLC.                                   *)
EXTENDS Sessions, TLC

MCSymmetry == Permutations(User) \cup Permutations(Session) \cup
              Permutations(Request) \cup Permutations(Code)
=============================================================================
