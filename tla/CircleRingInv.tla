--------------------------- MODULE CircleRingInv ---------------------------
(***************************************************************************)
(* The inductive invariant behind the correctness of ring termination      *)
(* detection: what CircleRing keeps true at every step, strong enough to   *)
(* imply NoEarlyExit, TokenRequestSafe and DrainedAtReturn for any number  *)
(* of ranks.  It needs a work reply to be visible to the first probe made  *)
(* after it was sent ("WORK_REPLY" \in PromptTags).                        *)
(***************************************************************************)
EXTENDS CircleRing

Pending(s) == token_send_req[s] = "pending"
Black(r)   == token_proc[r] = "BLACK"

\* The token is in at most one place.
TokenOnce ==
  /\ \A r, s \in Rank : token_is_local[r] /\ token_is_local[s] => r = s
  /\ \A r, s \in Rank : token_is_local[r] => ~Pending(s)
  /\ \A r, s \in Rank : Pending(r) /\ Pending(s) => r = s
  /\ \A r \in Rank : token_is_local[r] => token_send_req[r] = "null"

\* A white token on the wire from s vouches for ranks 0 .. s, unless a rank it
\* has yet to visit is black.
WhiteOnWire ==
  \A s \in Rank :
    Pending(s) /\ token_buf[s] = "WHITE" =>
      \/ \A r \in 0 .. s : Quiet(r)
      \/ \E r \in s + 1 .. N - 1 : Black(r)

\* A white token held by h vouches for the ranks below h.
WhiteHeld ==
  \A h \in Rank \ {0} :
    token_is_local[h] /\ token_buf[h] = "WHITE" =>
      \/ \A r \in 0 .. h - 1 : Quiet(r)
      \/ \E r \in h .. N - 1 : Black(r)

\* Work can be on its way to a rank that is about to pass a white token on:
\* it was sent after the rank looked for it, and the sender, or a rank
\* upstream of it, is black.
LateWork ==
  \A h \in Rank :
    /\ token_is_local[h] /\ pc[h] = "work" /\ count[h] = 0 /\ WorkComing(h)
    /\ h # 0 => token_buf[h] = "WHITE"
    => \/ h # 0 /\ Black(h)
       \/ \E r \in h + 1 .. N - 1 : Black(r)

\* The terminate color is seen only when all is quiet, and exactly the ranks
\* of that color have left the main loop.
TerminateQuiet ==
  /\ \A r \in Rank : token_proc[r] = "TERMINATE" => AllQuiet
  /\ \A s \in Rank : Pending(s) /\ token_buf[s] = "TERMINATE" => AllQuiet
  /\ \A r \in Rank : token_proc[r] = "TERMINATE" <=> pc[r] \in Cleanup
  /\ \A r \in Rank : token_is_local[r] /\ token_buf[r] = "TERMINATE"
                       => pc[r] \in Cleanup

\* The terminate token goes up the ring and stops at the last rank: the ranks
\* in cleanup are behind it.
TerminateOrder ==
  /\ \A s \in Rank : Pending(s) /\ token_buf[s] = "TERMINATE" => s < N - 1
  /\ \A r, s \in Rank : pc[r] \in Cleanup /\ Pending(s) =>
       r <= s /\ token_buf[s] = "TERMINATE"
  /\ \A r, s \in Rank : pc[r] \in Cleanup /\ token_is_local[s] =>
       pc[s] \in Cleanup

\* A rank that has entered the barrier has nothing outstanding, and a rank
\* returns only when all have entered it.
BarrierInv ==
  /\ \A s \in Rank : barrier_started[s] =>
       /\ pc[s] \in Cleanup
       /\ work_requested_rank[s] = MPI_PROC_NULL
       /\ TokenDrained(s)
  /\ \A r, s \in Rank : pc[r] = "return" => barrier_started[s]

\* The inductive invariant.
RingInv ==
  /\ TypeOK
  /\ RequestMatching
  /\ AskOnEmpty
  /\ TokenOnce
  /\ WhiteOnWire
  /\ WhiteHeld
  /\ LateWork
  /\ TerminateQuiet
  /\ TerminateOrder
  /\ BarrierInv

=============================================================================
