---------------------------- MODULE MCReduction ----------------------------
(* Model checking Reduction: every tree up to the bounds.                   *)
EXTENDS ReductionInv
=============================================================================
