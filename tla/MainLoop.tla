------------------------------ MODULE MainLoop ------------------------------
(***************************************************************************)
(* The part of State::mainLoop (src/src/state.cpp) that does not depend on *)
(* how termination is detected.  Each rank runs the handlers of its two    *)
(* loops in the order of the code; pc[r] is the handler it is about to     *)
(* run, and the handlers of different ranks interleave.                    *)
(*                                                                         *)
(* The cleanup loop ends with the non-blocking tree barrier.  Here it is   *)
(* the promise of that barrier: barrierTest can succeed on a rank only     *)
(* after every rank has called barrierStart.  ABORT_FLAG is never raised   *)
(* by this code (Circle::abort has no body), so its tests are left out;    *)
(* reductions are off (reduce_enabled = 0, the default).                   *)
(***************************************************************************)
EXTENDS WorkSharing

VARIABLES
  pc,              \* handler each rank runs next
  barrier_started  \* the rank has called barrierStart

loopVars == <<sharingVars, pc, barrier_started>>

\* Labels of the second while loop, which drains messages, and the return.
Cleanup == {"barrierTest", "cleanupWorkreq", "cleanupRequest",
            "cleanupToken", "return"}

Label == Cleanup \cup {"workreqCheck", "workreceiptCheck", "requestWork",
                       "work"}

LoopTypeOK ==
  /\ SharingTypeOK
  /\ pc \in [Rank -> Label]
  /\ barrier_started \in [Rank -> BOOLEAN]

LoopInit ==
  /\ SharingInit
  /\ pc = [r \in Rank |-> "workreqCheck"]
  /\ barrier_started = [r \in Rank |-> FALSE]

Goto(r, label) == pc' = [pc EXCEPT ![r] = label]

-----------------------------------------------------------------------------
(* The main loop *)

\* workreqCheck(queue, 0), no work request is seen.
NoRequest(r) ==
  /\ pc[r] = "workreqCheck"
  /\ {} \in Probed("WORK_REQUEST", Requestors(r))
  /\ Goto(r, "workreceiptCheck")
  /\ UNCHANGED <<sharingVars, barrier_started>>

\* workreqCheck(queue, 0), the queue is empty: no-work replies.
RefuseWork(r) ==
  /\ pc[r] = "workreqCheck" /\ count[r] = 0
  /\ \E S \in Probed("WORK_REQUEST", Requestors(r)) \ {{}} :
       RefuseRequests(r, S)
  /\ Goto(r, "workreceiptCheck")
  /\ UNCHANGED barrier_started

\* workreqCheck(queue, 0), the queue holds work: divide it among this rank
\* and the requestors S as sizes and their order of arrival say.
ShareWork(r, S, sizes, order) ==
  /\ pc[r] = "workreqCheck" /\ count[r] > 0
  /\ S \in Probed("WORK_REQUEST", Requestors(r)) \ {{}}
  /\ sizes \in Splits(SplitEqual, count[r], Cardinality(S))
  /\ order \in Arrivals(S)
  /\ ShareQueue(r, S, sizes, order)
  /\ Goto(r, "workreceiptCheck")
  /\ UNCHANGED barrier_started

\* workreceiptCheck(queue); requestWork follows only on an empty queue.
WorkreceiptCheck(r, taken) ==
  /\ pc[r] = "workreceiptCheck"
  /\ taken \in 0 .. Takeable(r)
  /\ DrainReceipts(r, taken)
  /\ Goto(r, IF count[r] = 0 THEN "requestWork" ELSE "work")
  /\ UNCHANGED barrier_started

\* requestWork(queue, 0)
RequestWork(r) ==
  /\ pc[r] = "requestWork"
  /\ ReceiveReply(r) \/ AwaitReply(r) \/ SendRequest(r)
  /\ Goto(r, "work")
  /\ UNCHANGED barrier_started

\* The queue holds work: one call of the process callback.
ProcessCallback(r) ==
  /\ pc[r] = "work"
  /\ ProcessItem(r)
  /\ Goto(r, "workreqCheck")
  /\ UNCHANGED barrier_started

\* (mutant) The loop looks for termination although the queue holds work.
IdleStep_busy(r, terminated) ==
  /\ pc[r] = "work"
  /\ Goto(r, IF terminated THEN "barrierTest" ELSE "workreqCheck")
  /\ UNCHANGED <<sharingVars, barrier_started>>

\* The queue is empty: the loop asks checkForTerm or checkForTermAllReduce,
\* and goes on or leaves the loop.
IdleStep(r, terminated) ==
  /\ pc[r] = "work" /\ count[r] = 0
  /\ Goto(r, IF terminated THEN "barrierTest" ELSE "workreqCheck")
  /\ UNCHANGED <<sharingVars, barrier_started>>

-----------------------------------------------------------------------------
(* The cleanup loop.  The barrier is entered once no request of this rank is
   unanswered and, in `drained', nothing else it sent is. *)

\* barrierStart if nothing is outstanding, then a barrierTest that fails.
BarrierPending(r, drained) ==
  /\ pc[r] = "barrierTest"
  /\ barrier_started' = [barrier_started EXCEPT ![r] =
       @ \/ (work_requested_rank[r] = MPI_PROC_NULL /\ drained)]
  /\ Goto(r, "cleanupWorkreq")
  /\ UNCHANGED sharingVars

\* (mutant) barrierTest does not wait for the other ranks.
OthersEntered_never(r) == TRUE

\* What barrierTest waits for.
OthersEntered(r) == \A s \in Rank \ {r} : barrier_started[s]

\* barrierStart if nothing is outstanding, then a barrierTest that succeeds.
BarrierComplete(r, drained) ==
  /\ pc[r] = "barrierTest"
  /\ \/ barrier_started[r]
     \/ work_requested_rank[r] = MPI_PROC_NULL /\ drained
  /\ OthersEntered(r)
  /\ barrier_started' = [barrier_started EXCEPT ![r] = TRUE]
  /\ Goto(r, "return")
  /\ UNCHANGED sharingVars

\* (mutant) The cleanup loop leaves work requests unanswered.
CleanupWorkreq_deaf(r) ==
  /\ pc[r] = "cleanupWorkreq"
  /\ Goto(r, "cleanupRequest")
  /\ UNCHANGED <<sharingVars, barrier_started>>

\* workreqCheck(queue, 1): every request is refused.
CleanupWorkreq(r) ==
  /\ pc[r] = "cleanupWorkreq"
  /\ \E S \in Probed("WORK_REQUEST", Requestors(r)) : RefuseRequests(r, S)
  /\ Goto(r, "cleanupRequest")
  /\ UNCHANGED barrier_started

\* requestWork(queue, 1): take the reply to an earlier request, send none.
CleanupRequest(r, next) ==
  /\ pc[r] = "cleanupRequest"
  /\ \/ ReceiveReply(r)
     \/ AwaitReply(r)
     \/ work_requested_rank[r] = MPI_PROC_NULL /\ UNCHANGED sharingVars
  /\ Goto(r, next)
  /\ UNCHANGED barrier_started

-----------------------------------------------------------------------------
(* Correctness, whatever detects termination *)

\* A rank leaves the main loop only when no rank has work and none is on the
\* way: "We get here either because all procs have completed all work, or we
\* got an ABORT message" (comment after the main loop of State::mainLoop).
NoEarlyExit == (\E r \in Rank : pc[r] \in Cleanup) => AllQuiet

\* Each rank has at most one work request or reply to it under way, the one
\* work_requested_rank names, and its own queue is empty meanwhile.  So
\* workReceive may overwrite qp->count and copy to the base of the queue, a
\* reply is never mistaken for the answer to a later request, and requestors
\* (an array of N ranks) cannot overflow in workreqCheck.
RequestMatching ==
  \A r \in Rank :
    LET asked == work_requested_rank[r]
    IN  /\ asked # MPI_PROC_NULL =>
             /\ asked # r
             /\ count[r] = 0
             /\ req[r][asked] + Len(reply[asked][r]) = 1
        /\ \A d \in Rank \ {asked} : req[r][d] = 0 /\ reply[d][r] = <<>>

\* requestWork(queue, 0) is called only on an empty queue.
AskOnEmpty == \A r \in Rank : pc[r] = "requestWork" => count[r] = 0

\* The ranks a reply with work is on its way to from r.
WorkSentTo(r) ==
  {d \in Rank : \E i \in 1 .. Len(reply[r][d]) : reply[r][d][i] > 0}

\* work_outstanding counts exactly the work replies on their way from this
\* rank and the receipts on their way back to it.
ReceiptAccounting ==
  \A r \in Rank :
    work_outstanding[r] = receipt[r] + Cardinality(WorkSentTo(r))

\* When mainLoop returns on any rank, no work request or work reply is on the
\* way between any two ranks: what the cleanup loop is for.
DrainedAtReturn ==
  (\E r \in Rank : pc[r] = "return") =>
    \A s, d \in Rank : req[s][d] = 0 /\ reply[s][d] = <<>>

\* "We need to be sure that all sent messages have been received before
\* returning control to the user" (comment before the cleanup loop): no
\* acknowledgement of a work transfer is left behind either.
NoStrayReceipts ==
  (\A r \in Rank : pc[r] = "return") => \A r \in Rank : receipt[r] = 0

\* No item is left in the queue of a rank that has returned from mainLoop.
NoWorkLost == \A r \in Rank : pc[r] = "return" => count[r] = 0

\* Every rank's mainLoop returns: termination is detected, every outstanding
\* request is answered and the cleanup loop ends.
AllReturn == <>(\A r \in Rank : pc[r] = "return")

=============================================================================
