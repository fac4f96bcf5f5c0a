--------------------------- MODULE AtomicSharing ---------------------------
(***************************************************************************)
(* What the handlers of WorkSharing promise when each is one step and any  *)
(* rank may run any of them whose test it passes: the work-stealing        *)
(* protocol without the order of the main loop.  WorkTransfer, where a     *)
(* handler is interrupted at every message it sends, implements it.        *)
(***************************************************************************)
EXTENDS WorkSharing

\* workreqCheck(queue, 0)
Answer(r) ==
  \E S \in (SUBSET Requestors(r)) \ {{}} :
    \/ count[r] = 0 /\ RefuseRequests(r, S)
    \/ /\ count[r] > 0
       /\ \E sizes \in Splits(SplitEqual, count[r], Cardinality(S)),
             order \in Arrivals(S) : ShareQueue(r, S, sizes, order)

\* requestWork(queue, 0)
Ask(r) == count[r] = 0 /\ (ReceiveReply(r) \/ SendRequest(r))

Next ==
  \E r \in Rank :
    \/ Answer(r)
    \/ \E taken \in 0 .. Takeable(r) : DrainReceipts(r, taken)
    \/ Ask(r)
    \/ ProcessItem(r)

Spec == SharingInit /\ [][Next]_sharingVars
=============================================================================
