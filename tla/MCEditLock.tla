------------------------------ MODULE MCEditLock ------------------------------
(* A small instance of EditLock for TLC.                                   *)
EXTENDS EditLock

CONSTANTS ann, bob, q1, q2, q3
=============================================================================
