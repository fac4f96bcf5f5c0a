------------------------------- MODULE MCRing -------------------------------
(* Model-checking instances of CircleRing. *)
EXTENDS CircleRingInv
=============================================================================
