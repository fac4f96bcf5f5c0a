---------------------------- MODULE MCCheckpoint ----------------------------
(* Model checking Checkpoint on one rank.                                   *)
EXTENDS CheckpointInv

\* The empty element, which push refuses, an ordinary one, and one that has a
\* newline and a NUL in it.
MCItem == {<<>>, <<1>>, <<2, Newline, 3, NUL, 4>>}
=============================================================================
