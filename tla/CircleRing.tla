----------------------------- MODULE CircleRing -----------------------------
(***************************************************************************)
(* State::mainLoop with ring termination detection (RuntimeFlags::TermTree *)
(* not set, the default), src/src/state.cpp.                               *)
(*                                                                         *)
(* A token travels 0 -> 1 -> ... -> N-1 -> 0; it is sent with MPI_Issend,  *)
(* so its value is read out of the sender's token_buf when the receiver    *)
(* takes it and the request stays active until then.                       *)
(*                                                                         *)
(* One path of the code that no state takes is left out: checkForTerm      *)
(* returns at once on a rank of color TERMINATE, but such a rank has left  *)
(* the main loop (TerminateQuiet in CircleRingInv).                        *)
(***************************************************************************)
EXTENDS MainLoop

Color == {"WHITE", "BLACK", "TERMINATE"}

VARIABLES
  token_is_local,  \* the rank has the token
  token_proc,      \* color of the process
  token_buf,       \* color of the token, valid while local or being sent
  token_send_req   \* state of the MPI_Issend request of the token:
                   \*   "null", "pending" (on the wire), "matched" (received
                   \*   by the destination, request not yet completed here)

tokenVars == <<token_is_local, token_proc, token_buf, token_send_req>>
vars == <<loopVars, tokenVars>>

token_src(r)  == (r - 1 + N) % N
token_dest(r) == (r + 1 + N) % N

TypeOK ==
  /\ LoopTypeOK
  /\ token_is_local \in [Rank -> BOOLEAN]
  /\ token_proc \in [Rank -> Color]
  /\ token_buf \in [Rank -> Color]
  /\ token_send_req \in [Rank -> {"null", "pending", "matched"}]

\* State::State and the create callbacks: rank 0 starts with the token.
Init ==
  /\ LoopInit
  /\ token_is_local = [r \in Rank |-> r = 0]
  /\ token_proc = [r \in Rank |-> "WHITE"]
  /\ token_buf = [r \in Rank |-> "BLACK"]
  /\ token_send_req = [r \in Rank |-> "null"]

-----------------------------------------------------------------------------
(* The main loop *)

\* (mutant) Only work sent up the ring turns the sender black.
Blackens_upward(r, d) == d > r

\* sendWork turns the sender black when work goes to a lower rank or to the
\* rank the token comes from.
Blackens(r, d) == d < r \/ d = token_src(r)

\* workreqCheck(queue, 0) with work to give, and its effect on the color.
ShareRingWork(r) ==
  /\ \E S \in SUBSET Requestors(r) :
       \E sizes \in Splits(SplitEqual, count[r], Cardinality(S)),
          order \in Arrivals(S) :
         /\ ShareWork(r, S, sizes, order)
         /\ token_proc' = [token_proc EXCEPT ![r] =
              IF \E d \in S : sizes[order[d]] > 0 /\ Blackens(r, d)
              THEN "BLACK" ELSE @]
  /\ UNCHANGED <<token_is_local, token_buf, token_send_req>>

\* (mutant) A black process does not color the token.
ForwardColor_clean(r) == IF r = 0 THEN "WHITE" ELSE token_buf[r]

\* The color of the token a rank passes on: rank 0 starts a new round, a black
\* rank spoils the round.
ForwardColor(r) ==
  IF r = 0 THEN "WHITE"
  ELSE IF token_proc[r] = "BLACK" THEN "BLACK" ELSE token_buf[r]

\* (mutant) The rank believes it still has the token.
ForwardToken_kept(r) ==
  /\ IdleStep(r, FALSE)
  /\ token_is_local[r]
  /\ token_buf' = [token_buf EXCEPT ![r] = ForwardColor(r)]
  /\ token_send_req' = [token_send_req EXCEPT ![r] = "pending"]
  /\ token_proc' = [token_proc EXCEPT ![r] = "WHITE"]
  /\ UNCHANGED token_is_local

\* checkForTerm on an idle rank that holds the token: color it, tokenIsSend.
ForwardToken(r) ==
  /\ IdleStep(r, FALSE)
  /\ token_is_local[r]
  /\ token_buf' = [token_buf EXCEPT ![r] = ForwardColor(r)]
  /\ token_send_req' = [token_send_req EXCEPT ![r] = "pending"]
  /\ token_is_local' = [token_is_local EXCEPT ![r] = FALSE]
  /\ token_proc' = [token_proc EXCEPT ![r] = "WHITE"]

\* A token is on the wire to r.
TokenSent(r) == token_send_req[token_src(r)] = "pending"

\* A white token at rank 0, or the terminate token: all work is done.
Terminates(r, token) == (r = 0 /\ token = "WHITE") \/ token = "TERMINATE"

\* tokenRecv: take the token, complete our own earlier send (MPI_Wait blocks
\* while that one is still on the wire), and turn a white token at rank 0 or a
\* terminate token into the terminate token for the next rank.
TokenRecv(r) ==
  LET src       == token_src(r)
      token     == token_buf[src]
      terminate == Terminates(r, token)
      forward   == terminate /\ r < N - 1
  IN  /\ TokenSent(r)
      /\ token_send_req[r] = "pending" => r = src
      /\ token_buf' = [token_buf EXCEPT ![r] =
                         IF terminate THEN "TERMINATE" ELSE token]
      /\ token_proc' = [token_proc EXCEPT ![r] =
           IF terminate THEN "TERMINATE"
           ELSE IF @ = "BLACK" /\ token = "BLACK" THEN "WHITE" ELSE @]
      /\ token_is_local' = [token_is_local EXCEPT ![r] = ~forward]
      /\ token_send_req' =
           [token_send_req EXCEPT ![src] = "matched",
                                  ![r] = IF forward THEN "pending" ELSE "null"]

\* checkForTerm on an idle rank the token has reached.
ReceiveToken(r) ==
  /\ ~token_is_local[r]
  /\ TokenRecv(r)
  /\ IdleStep(r, token_proc'[r] = "TERMINATE")

\* checkForTerm on an idle rank the token has not reached.
AwaitToken(r) ==
  /\ ~token_is_local[r]
  /\ MayMiss("TOKEN", TokenSent(r))
  /\ IdleStep(r, FALSE)
  /\ UNCHANGED tokenVars

-----------------------------------------------------------------------------
(* The cleanup loop *)

\* tokenCheck(), then MPI_Test of the token's send request.  TokenRequestSafe
\* shows that no token comes any more.
CleanupToken(r) ==
  /\ pc[r] = "cleanupToken"
  /\ IF TokenSent(r)
     THEN TokenRecv(r)
     ELSE /\ token_send_req' = [token_send_req EXCEPT ![r] =
                                  IF @ = "matched" THEN "null" ELSE @]
          /\ UNCHANGED <<token_is_local, token_proc, token_buf>>
  /\ Goto(r, "barrierTest")
  /\ UNCHANGED <<sharingVars, barrier_started>>

\* The Issend of the token has completed.
TokenDrained(r) == token_send_req[r] = "null"

-----------------------------------------------------------------------------
\* The handlers that leave the token alone.
TokenlessStep(r) ==
  /\ \/ NoRequest(r)
     \/ RefuseWork(r)
     \/ \E taken \in 0 .. Takeable(r) : WorkreceiptCheck(r, taken)
     \/ RequestWork(r)
     \/ ProcessCallback(r)
     \/ BarrierPending(r, TokenDrained(r))
     \/ CleanupWorkreq(r)
     \/ CleanupRequest(r, "cleanupToken")
  /\ UNCHANGED tokenVars

\* (mutant) The rank enters the barrier while its token send is incomplete.
Return_undrained(r) == BarrierComplete(r, TRUE) /\ UNCHANGED tokenVars

\* The rank leaves mainLoop.
Return(r) == BarrierComplete(r, TokenDrained(r)) /\ UNCHANGED tokenVars

Step(r) ==
  \/ TokenlessStep(r)
  \/ ShareRingWork(r)
  \/ ForwardToken(r)
  \/ ReceiveToken(r)
  \/ AwaitToken(r)
  \/ CleanupToken(r)
  \/ Return(r)

\* Every rank has returned from mainLoop.
Finished ==
  /\ \A r \in Rank : pc[r] = "return"
  /\ UNCHANGED vars

Next == (\E r \in Rank : Step(r)) \/ Finished

Spec == Init /\ [][Next]_vars

\* Every rank keeps running (the loops never sleep), and a barrier that every
\* rank has entered completes.
FairSpec ==
  /\ Spec
  /\ \A r \in Rank : WF_vars(Step(r)) /\ SF_vars(Return(r))

-----------------------------------------------------------------------------
(* What the ring adds to the properties of MainLoop *)

\* MPI requests are used correctly: tokenIsSend never overwrites an active
\* token_send_req, the MPI_Wait of tokenRecv never blocks, and no token
\* reaches a rank that has left the main loop.
TokenRequestSafe ==
  \A r \in Rank :
    /\ token_is_local[r] => token_send_req[r] = "null"
    /\ TokenSent(r) /\ r # token_src(r) => token_send_req[r] # "pending"
    /\ TokenSent(r) => pc[r] \notin Cleanup

\* When mainLoop returns on any rank, no token is on the wire and no request
\* object of a token send is left active.
TokenDrainedAtReturn ==
  (\E r \in Rank : pc[r] = "return") => \A s \in Rank : TokenDrained(s)

=============================================================================
