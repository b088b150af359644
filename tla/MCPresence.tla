------------------------------ MODULE MCPresence ------------------------------
(* A small instance of Presence for TLC.                                   *)
EXTENDS Presence

CONSTANTS ann, bob, s1, s2, s3
=============================================================================
