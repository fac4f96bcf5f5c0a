------------------------------ MODULE MCQueue ------------------------------
(* Model checking Queue: two ranks, items of one and of two bytes.          *)
EXTENDS Queue, TLC

\* The empty element, which push refuses, and elements of different lengths.
MCItem == {<<>>, <<1>>, <<2, 3>>}

\* The two ranks are interchangeable.
Symmetry == Permutations(Rank)
=============================================================================
