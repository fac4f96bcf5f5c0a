----------------------------- MODULE MCTransfer -----------------------------
(* Model-checking instances of WorkTransfer. *)
EXTENDS WorkTransferInv
=============================================================================
