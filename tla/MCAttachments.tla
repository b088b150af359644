----------------------------- MODULE MCAttachments -----------------------------
(* A small instance of Attachments for TLC.                                *)
EXTENDS Attachments, TLC

MCSymmetry == Permutations(Task) \cup Permutations(Attachment) \cup Permutations(Request)
=============================================================================
