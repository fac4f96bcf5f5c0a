----------------------------- MODULE MCBarrier -----------------------------
(* Model checking Barrier on trees of several shapes.                       *)
EXTENDS Barrier
=============================================================================
