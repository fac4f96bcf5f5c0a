------------------------------- MODULE MCTree -------------------------------
(* Model-checking instances of CircleTree. *)
EXTENDS CircleTreeInv
=============================================================================
