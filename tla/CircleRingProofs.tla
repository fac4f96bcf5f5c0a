-------------------------- MODULE CircleRingProofs --------------------------
(***************************************************************************)
(* Ring termination detection is correct for any number of ranks: RingInv  *)
(* is inductive, and implies the safety properties of CircleRing.          *)
(***************************************************************************)
EXTENDS CircleRingInv, MainLoopProofs

-----------------------------------------------------------------------------
(* Types and the matching of requests and replies: they need no assumption
   about the speed of messages *)

TypeMatch == TypeOK /\ RequestMatching /\ AskOnEmpty

\* The rank the token comes from.
LEMMA TokenSource ==
  ASSUME NEW r \in Rank
  PROVE  token_src(r) = (IF r = 0 THEN N - 1 ELSE r - 1) /\ token_src(r) \in Rank
  <1>1. N \in Nat \ {0} /\ r \in 0 .. N - 1
    BY SharingAssumption DEF Rank
  <1>2. CASE r = 0
    BY <1>1, <1>2 DEF token_src, Rank
  <1>3. CASE r # 0
    <2>1. (r - 1 + N) % N = r - 1
      BY <1>1, <1>3
    <2>. QED
      BY <1>1, <1>3, <2>1 DEF token_src, Rank
  <1>. QED
    BY <1>2, <1>3

\* How the steps of a rank touch the token: not at all, by sending work, by
\* sending it, by receiving it, or by completing the send of it.
LEMMA StepKinds ==
  ASSUME NEW r \in Rank, Step(r)
  PROVE  \/ PlainHandler(r, TokenDrained(r), "cleanupToken") /\ UNCHANGED tokenVars
         \/ ShareRingWork(r)
         \/ ForwardToken(r)
         \/ ReceiveToken(r)
         \/ AwaitToken(r)
         \/ CleanupToken(r)
  BY DEF Step, TokenlessStep, Return, PlainHandler

LEMMA TypeMatchInit == Init => TypeMatch
  <1>. SUFFICES ASSUME Init PROVE TypeMatch
    OBVIOUS
  <1>1. SharingTypeOK
    BY SharingAssumption DEF Init, LoopInit, SharingInit, SharingTypeOK
  <1>2. TypeOK
    BY <1>1 DEF Init, LoopInit, TypeOK, LoopTypeOK, Label, Color
  <1>3. RequestMatching
    BY DEF Init, LoopInit, SharingInit, RequestMatching
  <1>4. AskOnEmpty
    BY DEF Init, LoopInit, AskOnEmpty
  <1>. QED
    BY <1>2, <1>3, <1>4 DEF TypeMatch

\* The types of the token's variables.
TokenTypeOK ==
  /\ token_is_local \in [Rank -> BOOLEAN]
  /\ token_proc \in [Rank -> Color]
  /\ token_buf \in [Rank -> Color]
  /\ token_send_req \in [Rank -> {"null", "pending", "matched"}]

LEMMA TokenRecvType ==
  ASSUME TokenTypeOK, NEW r \in Rank, TokenRecv(r)
  PROVE  TokenTypeOK'
  <1>1. token_src(r) \in Rank /\ token_buf[token_src(r)] \in Color
    BY TokenSource DEF TokenTypeOK
  <1>. QED
    BY <1>1 DEF TokenRecv, TokenTypeOK, Color

LEMMA CleanupTokenOK ==
  ASSUME MatchInv, NEW r \in Rank, CleanupToken(r)
  PROVE  MatchInv' /\ NoWorkSent
  <1>1. UNCHANGED sharingVars /\ count' = count /\ barrier_started' = barrier_started
    BY DEF CleanupToken, sharingVars
  <1>2. SharingTypeOK' /\ RequestMatching' /\ NoWorkSent
    BY <1>1, UnchangedSharing DEF MatchInv, LoopTypeOK
  <1>3. Goto(r, "barrierTest")
    BY DEF CleanupToken
  <1>4. AskOnEmpty'
    BY <1>1, <1>3, AskOnEmptyStep DEF MatchInv
  <1>5. LoopTypeOK'
    BY <1>1, <1>2, <1>3 DEF Goto, MatchInv, LoopTypeOK, Label, Cleanup
  <1>. QED
    BY <1>2, <1>4, <1>5 DEF MatchInv

LEMMA TypeMatchStep == TypeMatch /\ [Next]_vars => TypeMatch'
  <1>. SUFFICES ASSUME TypeMatch, [Next]_vars PROVE TypeMatch'
    OBVIOUS
  <1>0. MatchInv /\ TokenTypeOK
    BY DEF TypeMatch, TypeOK, MatchInv, TokenTypeOK
  <1>1. ASSUME MatchInv', TokenTypeOK' PROVE TypeMatch'
    BY <1>1 DEF TypeMatch, TypeOK, MatchInv, TokenTypeOK
  <1>2. CASE UNCHANGED vars
    BY <1>2 DEF vars, loopVars, sharingVars, tokenVars, TypeMatch, TypeOK, LoopTypeOK,
                SharingTypeOK, RequestMatching, AskOnEmpty
  <1>3. ASSUME NEW r \in Rank, Step(r) PROVE TypeMatch'
    <2>1. CASE PlainHandler(r, TokenDrained(r), "cleanupToken") /\ UNCHANGED tokenVars
      <3>1. TokenDrained(r) \in BOOLEAN /\ "cleanupToken" \in Label \ {"requestWork"}
        BY DEF TokenDrained, Label, Cleanup
      <3>2. MatchInv'
        BY <1>0, <2>1, <3>1, HandlerOK
      <3>. QED
        BY <1>0, <1>1, <2>1, <3>2 DEF tokenVars, TokenTypeOK
    <2>2. CASE ShareRingWork(r)
      <3>1. MatchInv'
        BY <1>0, <2>2, ShareWorkOK DEF ShareRingWork
      <3>2. TokenTypeOK'
        BY <1>0, <2>2 DEF ShareRingWork, TokenTypeOK, Color
      <3>. QED
        BY <1>1, <3>1, <3>2
    <2>3. CASE ForwardToken(r)
      <3>1. MatchInv'
        BY <1>0, <2>3, IdleStepOK DEF ForwardToken, ForwardColor
      <3>2. TokenTypeOK'
        BY <1>0, <2>3 DEF ForwardToken, ForwardColor, TokenTypeOK, Color
      <3>. QED
        BY <1>1, <3>1, <3>2
    <2>4. CASE ReceiveToken(r)
      BY <1>0, <1>1, <2>4, IdleStepOK, TokenRecvType DEF ReceiveToken
    <2>5. CASE AwaitToken(r)
      <3>1. MatchInv'
        BY <1>0, <2>5, IdleStepOK DEF AwaitToken
      <3>. QED
        BY <1>0, <1>1, <2>5, <3>1 DEF AwaitToken, tokenVars, TokenTypeOK
    <2>6. CASE CleanupToken(r)
      <3>1. MatchInv'
        BY <1>0, <2>6, CleanupTokenOK
      <3>2. CASE TokenSent(r)
        BY <1>0, <1>1, <2>6, <3>1, <3>2, TokenRecvType DEF CleanupToken
      <3>3. CASE ~TokenSent(r)
        BY <1>0, <1>1, <2>6, <3>1, <3>3 DEF CleanupToken, TokenTypeOK
      <3>. QED
        BY <3>2, <3>3
    <2>. QED
      BY <1>3, <2>1, <2>2, <2>3, <2>4, <2>5, <2>6, StepKinds
  <1>. QED
    BY <1>2, <1>3 DEF Next, Finished

\* Every variable of the ring keeps its type: in particular no counter goes
\* below zero and every message is one the receiver understands.
THEOREM TypeCorrect == Spec => []TypeOK
  <1>1. TypeMatch => TypeOK
    BY DEF TypeMatch
  <1>. QED
    BY TypeMatchInit, TypeMatchStep, <1>1, PTL DEF Spec

\* Requests and replies match for any number of ranks, however long messages
\* are under way.
THEOREM RequestsMatch == Spec => []RequestMatching
  <1>1. TypeMatch => RequestMatching
    BY DEF TypeMatch
  <1>. QED
    BY TypeMatchInit, TypeMatchStep, <1>1, PTL DEF Spec

\* work_outstanding is exact, for any number of ranks and however long work and
\* receipts are under way: the loops of workreceiptCheck and of mainLoop that
\* wait for it to become 0 wait for messages that exist.
THEOREM ReceiptsAccounted == Spec => []ReceiptAccounting
  <1>1. Init => ReceiptAccounting
    <2>. SUFFICES ASSUME Init, NEW r \in Rank
                  PROVE  work_outstanding[r] = receipt[r] + Cardinality(WorkSentTo(r))
      BY DEF ReceiptAccounting
    <2>1. WorkSentTo(r) = {}
      BY DEF Init, LoopInit, SharingInit, WorkSentTo
    <2>. QED
      BY <2>1, FS_EmptySet DEF Init, LoopInit, SharingInit
  <1>2. TypeMatch /\ ReceiptAccounting /\ [Next]_vars => ReceiptAccounting'
    <2>. SUFFICES ASSUME TypeMatch, ReceiptAccounting, [Next]_vars
                  PROVE  ReceiptAccounting'
      OBVIOUS
    <2>0. MatchInv
      BY DEF TypeMatch, TypeOK, MatchInv
    <2>1. CASE UNCHANGED sharingVars
      BY <2>1, UnchangedAccount DEF sharingVars
    <2>2. ASSUME NEW r \in Rank, Step(r) PROVE ReceiptAccounting'
      <3>1. CASE PlainHandler(r, TokenDrained(r), "cleanupToken")
        BY <2>0, <3>1, HandlerAccount
      <3>2. CASE ShareRingWork(r)
        BY <2>0, <3>2, ShareWorkAccount DEF ShareRingWork
      <3>3. CASE \/ ForwardToken(r) \/ ReceiveToken(r) \/ AwaitToken(r)
                 \/ CleanupToken(r)
        BY <2>1, <3>3 DEF ForwardToken, ReceiveToken, AwaitToken, CleanupToken,
                          IdleStep
      <3>. QED
        BY <2>2, <3>1, <3>2, <3>3, StepKinds
    <2>. QED
      BY <2>1, <2>2 DEF Next, Finished, vars, loopVars
  <1>. QED
    BY TypeMatchInit, TypeMatchStep, <1>1, <1>2, PTL DEF Spec

-----------------------------------------------------------------------------
(* The token: RingInv is inductive if a probe never misses a work reply *)

LEMMA RingInvInit == Init => RingInv
  <1>. SUFFICES ASSUME Init PROVE RingInv
    OBVIOUS
  <1>1. TypeOK /\ RequestMatching /\ AskOnEmpty
    BY TypeMatchInit DEF TypeMatch
  <1>2. TokenOnce
    BY DEF Init, TokenOnce, Pending
  <1>3. WhiteOnWire /\ WhiteHeld /\ LateWork
    BY DEF Init, LoopInit, WhiteOnWire, WhiteHeld, LateWork, Pending
  <1>4. TerminateQuiet /\ TerminateOrder
    BY DEF Init, LoopInit, TerminateQuiet, TerminateOrder, Pending, Cleanup
  <1>5. BarrierInv
    BY DEF Init, LoopInit, BarrierInv
  <1>. QED
    BY <1>1, <1>2, <1>3, <1>4, <1>5 DEF RingInv

\* A step of rank r that leaves the token alone and sends no work.
LEMMA PlainStepInv ==
  ASSUME RingInv, "WORK_REPLY" \in PromptTags, NEW r \in Rank,
         PlainHandler(r, TokenDrained(r), "cleanupToken"), UNCHANGED tokenVars
  PROVE  /\ TokenOnce' /\ WhiteOnWire' /\ WhiteHeld' /\ LateWork'
         /\ TerminateQuiet' /\ TerminateOrder' /\ BarrierInv'
  <1>0. MatchInv /\ LoopTypeOK /\ SharingTypeOK
    BY DEF RingInv, TypeOK, MatchInv, LoopTypeOK
  <1>1. TokenDrained(r) \in BOOLEAN /\ "cleanupToken" \in Cleanup \ {"return"}
        /\ "cleanupToken" \in Label \ {"requestWork"}
    BY DEF TokenDrained, Label, Cleanup
  <1>2. NoWorkSent
    BY <1>0, <1>1, HandlerOK
  <1>3. /\ \A q \in Rank \ {r} : /\ pc'[q] = pc[q]
                                 /\ count'[q] = count[q]
                                 /\ barrier_started'[q] = barrier_started[q]
                                 /\ work_requested_rank'[q] = work_requested_rank[q]
        /\ pc'[r] \in Cleanup <=> pc[r] \in Cleanup
        /\ pc'[r] = "work" /\ count'[r] = 0 => RequestWork(r)
        /\ barrier_started[r] => barrier_started'[r]
        /\ barrier_started'[r] /\ ~barrier_started[r] =>
             /\ pc[r] \in Cleanup /\ TokenDrained(r)
             /\ work_requested_rank[r] = MPI_PROC_NULL
        /\ pc'[r] = "return" => \A s \in Rank : barrier_started'[s]
        /\ pc[r] \in Cleanup /\ work_requested_rank[r] = MPI_PROC_NULL =>
             work_requested_rank'[r] = MPI_PROC_NULL
    BY <1>0, <1>1, HandlerMoves
  <1>4. \A q \in Rank : pc'[q] \in Cleanup <=> pc[q] \in Cleanup
    BY <1>3
  <1>5. /\ token_is_local' = token_is_local /\ token_proc' = token_proc
        /\ token_buf' = token_buf /\ token_send_req' = token_send_req
    BY DEF tokenVars
  <1>6. AllQuiet => AllQuiet'
    BY <1>2 DEF NoWorkSent, AllQuiet
  <1>7. TokenOnce'
    BY <1>5 DEF RingInv, TokenOnce, Pending
  <1>8. WhiteOnWire'
    <2>1. \A s \in Rank : 0 .. s \subseteq Rank
      BY SharingAssumption DEF Rank
    <2>. QED
      BY <1>2, <1>5, <2>1 DEF RingInv, WhiteOnWire, Pending, Black, NoWorkSent
  <1>9. WhiteHeld'
    <2>1. \A h \in Rank : 0 .. h - 1 \subseteq Rank
      BY SharingAssumption DEF Rank
    <2>. QED
      BY <1>2, <1>5, <2>1 DEF RingInv, WhiteHeld, Black, NoWorkSent
  <1>10. LateWork'
    <2>. SUFFICES ASSUME NEW h \in Rank, token_is_local'[h], pc'[h] = "work",
                         count'[h] = 0, WorkComing(h)',
                         h # 0 => token_buf'[h] = "WHITE"
                  PROVE  \/ h # 0 /\ Black(h)'
                         \/ \E q \in h + 1 .. N - 1 : Black(q)'
      BY DEF LateWork
    <2>1. h # r
      BY <1>0, <1>3, LookedForWork
    <2>2. pc[h] = "work" /\ count[h] = 0 /\ WorkComing(h)
      BY <1>2, <1>3, <2>1 DEF NoWorkSent
    <2>. QED
      BY <1>5, <2>2 DEF RingInv, LateWork, Black
  <1>11. TerminateQuiet'
    BY <1>4, <1>5, <1>6 DEF RingInv, TerminateQuiet, Pending
  <1>12. TerminateOrder'
    BY <1>4, <1>5 DEF RingInv, TerminateOrder, Pending
  <1>13. BarrierInv'
    <2>1. ASSUME NEW s \in Rank, barrier_started'[s]
          PROVE  /\ pc'[s] \in Cleanup
                 /\ work_requested_rank'[s] = MPI_PROC_NULL
                 /\ TokenDrained(s)'
      BY <1>3, <1>4, <1>5, <2>1 DEF RingInv, BarrierInv, TokenDrained
    <2>2. ASSUME NEW q \in Rank, NEW s \in Rank, pc'[q] = "return"
          PROVE  barrier_started'[s]
      <3>1. CASE q = r
        BY <1>3, <2>2, <3>1
      <3>2. CASE q # r
        BY <1>3, <2>2, <3>2 DEF RingInv, BarrierInv
      <3>. QED
        BY <3>1, <3>2
    <2>. QED
      BY <2>1, <2>2 DEF BarrierInv
  <1>. QED
    BY <1>7, <1>8, <1>9, <1>10, <1>11, <1>12, <1>13

\* checkForTerm finds no token: nothing changes but the label.
LEMMA AwaitTokenInv ==
  ASSUME RingInv, NEW r \in Rank, AwaitToken(r)
  PROVE  /\ TokenOnce' /\ WhiteOnWire' /\ WhiteHeld' /\ LateWork'
         /\ TerminateQuiet' /\ TerminateOrder' /\ BarrierInv'
  <1>1. /\ token_is_local' = token_is_local /\ token_proc' = token_proc
        /\ token_buf' = token_buf /\ token_send_req' = token_send_req
        /\ count' = count /\ reply' = reply
        /\ work_requested_rank' = work_requested_rank
        /\ barrier_started' = barrier_started
        /\ pc[r] = "work" /\ pc' = [pc EXCEPT ![r] = "workreqCheck"]
    BY DEF AwaitToken, IdleStep, Goto, sharingVars, tokenVars
  <1>2. \A q \in Rank : /\ Quiet(q)' <=> Quiet(q)
                        /\ WorkComing(q)' <=> WorkComing(q)
    BY <1>1 DEF Quiet, WorkComing
  <1>3. \A q \in Rank : /\ pc'[q] = IF q = r THEN "workreqCheck" ELSE pc[q]
                        /\ pc'[q] \in Cleanup <=> pc[q] \in Cleanup
    BY <1>1 DEF RingInv, TypeOK, LoopTypeOK, Cleanup
  <1>4. TokenOnce'
    BY <1>1 DEF RingInv, TokenOnce, Pending
  <1>5. WhiteOnWire' /\ WhiteHeld'
    BY <1>1 DEF RingInv, WhiteOnWire, WhiteHeld, Pending, Black, Quiet, WorkComing
  <1>6. LateWork'
    BY <1>1, <1>2, <1>3 DEF RingInv, LateWork, Black
  <1>7. TerminateQuiet'
    BY <1>1, <1>2, <1>3 DEF RingInv, TerminateQuiet, Pending, AllQuiet
  <1>8. TerminateOrder'
    BY <1>1, <1>3 DEF RingInv, TerminateOrder, Pending
  <1>9. BarrierInv'
    BY <1>1, <1>3 DEF RingInv, BarrierInv, TokenDrained
  <1>. QED
    BY <1>4, <1>5, <1>6, <1>7, <1>8, <1>9

\* sendWorkToMany: the sender had work, and turns black if it gives work to a
\* lower rank.
LEMMA ShareRingWorkInv ==
  ASSUME RingInv, NEW r \in Rank, ShareRingWork(r)
  PROVE  /\ TokenOnce' /\ WhiteOnWire' /\ WhiteHeld' /\ LateWork'
         /\ TerminateQuiet' /\ TerminateOrder' /\ BarrierInv'
  <1>0. MatchInv /\ TypeOK
    BY DEF RingInv, TypeOK, MatchInv
  <1>1. PICK S, sizes, order :
          /\ ShareWork(r, S, sizes, order)
          /\ token_proc' = [token_proc EXCEPT ![r] =
               IF \E d \in S : sizes[order[d]] > 0 /\ Blackens(r, d)
               THEN "BLACK" ELSE @]
    BY DEF ShareRingWork
  <1>2. /\ ~Quiet(r)
        /\ S \subseteq Rank \ {r}
        /\ \A q \in Rank :
             /\ WorkComing(q)' => WorkComing(q) \/ (q \in S /\ sizes[order[q]] > 0)
             /\ Quiet(q) => Quiet(q)' \/ (q \in S /\ sizes[order[q]] > 0)
    BY <1>0, <1>1, ShareWorkOK
  <1>3. \A q \in Rank : Black(q) => Black(q)'
    BY <1>0, <1>1 DEF Black, TypeOK
  <1>4. \A d \in S : sizes[order[d]] > 0 /\ d < r => Black(r)'
    BY <1>0, <1>1 DEF Black, Blackens, TypeOK
  <1>5. /\ token_is_local' = token_is_local /\ token_buf' = token_buf
        /\ token_send_req' = token_send_req
    BY DEF ShareRingWork
  <1>6. /\ pc[r] = "workreqCheck" /\ pc' = [pc EXCEPT ![r] = "workreceiptCheck"]
        /\ \A q \in Rank \ {r} : count'[q] = count[q]
    BY <1>0, <1>1 DEF ShareWork, ShareQueue, SendReplies, Goto, TypeOK, LoopTypeOK,
                      SharingTypeOK
  <1>7. ~AllQuiet
    BY <1>2 DEF AllQuiet
  <1>8. /\ \A q \in Rank : token_proc[q] # "TERMINATE" /\ pc[q] \notin Cleanup
        /\ \A q \in Rank : Pending(q) => token_buf[q] # "TERMINATE"
        /\ \A q \in Rank : token_is_local[q] => token_buf[q] # "TERMINATE"
    BY <1>7 DEF RingInv, TerminateQuiet
  <1>9. \A q \in Rank : token_proc'[q] # "TERMINATE" /\ pc'[q] \notin Cleanup
    BY <1>0, <1>1, <1>6, <1>8 DEF TypeOK, LoopTypeOK, Cleanup
  <1>10. N \in Nat /\ Rank = 0 .. N - 1
    BY SharingAssumption DEF Rank
  <1>11. TokenOnce'
    BY <1>5 DEF RingInv, TokenOnce, Pending
  <1>12. WhiteOnWire'
    <2>. SUFFICES ASSUME NEW s \in Rank, Pending(s)', token_buf'[s] = "WHITE",
                         ~\E q \in s + 1 .. N - 1 : Black(q)'
                  PROVE  \A q \in 0 .. s : Quiet(q)'
      BY DEF WhiteOnWire
    <2>1. \A q \in 0 .. s : q \in Rank /\ Quiet(q)
      BY <1>3, <1>5, <1>10 DEF RingInv, WhiteOnWire, Pending
    <2>2. r \in s + 1 .. N - 1
      BY <1>2, <1>10, <2>1
    <2>. QED
      BY <1>2, <1>4, <1>10, <2>1, <2>2
  <1>13. WhiteHeld'
    <2>. SUFFICES ASSUME NEW h \in Rank \ {0}, token_is_local'[h],
                         token_buf'[h] = "WHITE",
                         ~\E q \in h .. N - 1 : Black(q)'
                  PROVE  \A q \in 0 .. h - 1 : Quiet(q)'
      BY DEF WhiteHeld
    <2>1. \A q \in 0 .. h - 1 : q \in Rank /\ Quiet(q)
      BY <1>3, <1>5, <1>10 DEF RingInv, WhiteHeld
    <2>2. r \in h .. N - 1
      BY <1>2, <1>10, <2>1
    <2>. QED
      BY <1>2, <1>4, <1>10, <2>1, <2>2
  <1>14. LateWork'
    <2>. SUFFICES ASSUME NEW h \in Rank, token_is_local'[h], pc'[h] = "work",
                         count'[h] = 0, WorkComing(h)',
                         h # 0 => token_buf'[h] = "WHITE"
                  PROVE  \/ h # 0 /\ Black(h)'
                         \/ \E q \in h + 1 .. N - 1 : Black(q)'
      BY DEF LateWork
    <2>1. h # r /\ pc[h] = "work" /\ count[h] = 0
      BY <1>0, <1>6 DEF TypeOK, LoopTypeOK
    <2>2. CASE WorkComing(h)
      BY <1>3, <1>5, <1>10, <2>1, <2>2 DEF RingInv, LateWork
    <2>3. CASE h \in S /\ sizes[order[h]] > 0
      <3>1. CASE h < r
        BY <1>4, <1>10, <2>3, <3>1
      <3>2. CASE h > r
        <4>1. \E q \in h .. N - 1 : Black(q)
          BY <1>2, <1>5, <1>10, <3>2 DEF RingInv, WhiteHeld
        <4>. QED
          BY <1>3, <1>10, <3>2, <4>1
      <3>. QED
        BY <1>10, <2>1, <3>1, <3>2
    <2>. QED
      BY <1>2, <2>2, <2>3
  <1>15. TerminateQuiet' /\ TerminateOrder'
    BY <1>5, <1>8, <1>9 DEF TerminateQuiet, TerminateOrder, Pending
  <1>16. BarrierInv'
    <2>1. \A s \in Rank : ~barrier_started'[s]
      BY <1>1, <1>8 DEF ShareWork, RingInv, BarrierInv
    <2>. QED
      BY <1>9, <2>1 DEF BarrierInv, Cleanup
  <1>. QED
    BY <1>11, <1>12, <1>13, <1>14, <1>15, <1>16

\* What an idle step leaves of the state.
LEMMA IdleEffect ==
  ASSUME TypeOK, NEW r \in Rank, NEW terminated \in BOOLEAN, IdleStep(r, terminated)
  PROVE  /\ pc[r] = "work" /\ count[r] = 0
         /\ \A q \in Rank : pc'[q] = IF q # r THEN pc[q]
                                    ELSE IF terminated THEN "barrierTest"
                                                       ELSE "workreqCheck"
         /\ \A q \in Rank : (Quiet(q)' <=> Quiet(q)) /\ (WorkComing(q)' <=> WorkComing(q))
         /\ AllQuiet' <=> AllQuiet
         /\ barrier_started' = barrier_started
         /\ work_requested_rank' = work_requested_rank
  <1>1. count' = count /\ reply' = reply
    BY DEF IdleStep, sharingVars
  <1>2. \A q \in Rank : (Quiet(q)' <=> Quiet(q)) /\ (WorkComing(q)' <=> WorkComing(q))
    BY <1>1 DEF Quiet, WorkComing
  <1>. QED
    BY <1>2 DEF AllQuiet, IdleStep, Goto, sharingVars, TypeOK, LoopTypeOK

\* checkForTerm passes the token on: white only if this rank is white, and
\* then the ranks up to this one are quiet or a later one is black.
LEMMA ForwardTokenInv ==
  ASSUME RingInv, NEW r \in Rank, ForwardToken(r)
  PROVE  /\ TokenOnce' /\ WhiteOnWire' /\ WhiteHeld' /\ LateWork'
         /\ TerminateQuiet' /\ TerminateOrder' /\ BarrierInv'
  <1>0. TypeOK
    BY DEF RingInv
  <1>1. /\ pc[r] = "work" /\ count[r] = 0
        /\ \A q \in Rank : pc'[q] = IF q # r THEN pc[q] ELSE "workreqCheck"
        /\ \A q \in Rank : Quiet(q)' <=> Quiet(q)
        /\ AllQuiet' <=> AllQuiet
        /\ barrier_started' = barrier_started
        /\ work_requested_rank' = work_requested_rank
    BY ZenonT(60), <1>0, IdleEffect DEF ForwardToken, ForwardColor
  <1>2. /\ \A s \in Rank : ~token_is_local'[s]
        /\ \A s \in Rank : Pending(s)' <=> s = r
    BY <1>0 DEF ForwardToken, RingInv, TokenOnce, Pending, TypeOK
  <1>3. /\ \A s \in Rank \ {r} : /\ token_proc'[s] = token_proc[s]
                                 /\ token_send_req'[s] = token_send_req[s]
        /\ token_proc'[r] = "WHITE"
        /\ token_buf'[r] = IF r = 0 THEN "WHITE"
                           ELSE IF Black(r) THEN "BLACK" ELSE token_buf[r]
    BY <1>0 DEF ForwardToken, ForwardColor, TypeOK, Black
  <1>4. token_buf'[r] # "TERMINATE"
    <2>1. token_buf[r] # "TERMINATE"
      BY <1>1 DEF ForwardToken, RingInv, TerminateQuiet, Cleanup
    <2>. QED
      BY <1>3, <2>1
  <1>5. \A q \in Rank : pc'[q] \notin Cleanup /\ pc[q] \notin Cleanup
    <2>1. \A q \in Rank : pc[q] \notin Cleanup
      BY <1>1 DEF ForwardToken, RingInv, TerminateOrder, Cleanup
    <2>. QED
      BY <1>1, <2>1 DEF Cleanup
  <1>6. N \in Nat /\ Rank = 0 .. N - 1
    BY SharingAssumption DEF Rank
  <1>7. TokenOnce'
    BY <1>2 DEF TokenOnce
  <1>8. WhiteOnWire'
    <2>. SUFFICES ASSUME token_buf'[r] = "WHITE",
                         ~\E q \in r + 1 .. N - 1 : Black(q)'
                  PROVE  \A q \in 0 .. r : Quiet(q)'
      BY <1>2 DEF WhiteOnWire
    <2>1. ~\E q \in r + 1 .. N - 1 : Black(q)
      BY <1>3, <1>6 DEF Black
    <2>2. r # 0 => ~Black(r) /\ token_buf[r] = "WHITE"
      BY <1>3
    <2>3. Quiet(r)
      BY <1>1, <2>1, <2>2 DEF ForwardToken, RingInv, LateWork, Quiet
    <2>4. r # 0 => \A q \in 0 .. r - 1 : Quiet(q)
      <3>1. r # 0 => ~\E q \in r .. N - 1 : Black(q)
        BY <1>6, <2>1, <2>2
      <3>. QED
        BY <2>2, <3>1 DEF ForwardToken, RingInv, WhiteHeld
    <2>5. \A q \in 0 .. r : q \in Rank /\ (q = r \/ (r # 0 /\ q \in 0 .. r - 1))
      BY <1>6
    <2>. QED
      BY <1>1, <2>3, <2>4, <2>5
  <1>9. WhiteHeld' /\ LateWork'
    BY <1>2 DEF WhiteHeld, LateWork
  <1>10. TerminateQuiet'
    <2>1. \A q \in Rank : token_proc'[q] # "TERMINATE"
      BY <1>3, <1>5 DEF RingInv, TerminateQuiet
    <2>. QED
      BY <1>2, <1>4, <1>5, <2>1 DEF TerminateQuiet
  <1>11. TerminateOrder'
    BY <1>2, <1>4, <1>5 DEF TerminateOrder
  <1>12. BarrierInv'
    BY <1>1, <1>5 DEF RingInv, BarrierInv, Cleanup
  <1>. QED
    BY <1>7, <1>8, <1>9, <1>10, <1>11, <1>12

\* No token comes to a rank that has left the main loop.
LEMMA NoTokenInCleanup ==
  ASSUME RingInv, NEW r \in Rank, TokenSent(r)
  PROVE  pc[r] \notin Cleanup
  <1>. SUFFICES ASSUME pc[r] \in Cleanup PROVE FALSE
    OBVIOUS
  <1>1. token_src(r) \in Rank /\ Pending(token_src(r))
    BY TokenSource DEF TokenSent, Pending
  <1>2. r <= token_src(r) /\ token_src(r) < N - 1
    BY <1>1 DEF RingInv, TerminateOrder
  <1>. QED
    BY <1>2, TokenSource, SharingAssumption DEF Rank

\* tokenRecv, seen from the invariant: the token leaves the wire and is held
\* here, or goes on as the terminate token.
LEMMA TokenRecvEffect ==
  ASSUME TypeOK, TokenOnce, NEW r \in Rank, TokenRecv(r),
         NEW token, token = token_buf[token_src(r)],
         NEW terminate \in BOOLEAN,
         terminate <=> (r = 0 /\ token = "WHITE") \/ token = "TERMINATE"
  PROVE  /\ \A s \in Rank : ~token_is_local[s] /\ (Pending(s) <=> s = token_src(r))
         /\ \A s \in Rank : /\ Pending(s)' <=> s = r /\ terminate /\ r < N - 1
                            /\ token_is_local'[s] <=> s = r /\ ~(terminate /\ r < N - 1)
         /\ \A s \in Rank \ {r} : /\ token_proc'[s] = token_proc[s]
                                  /\ token_send_req[s] = "null" =>
                                       token_send_req'[s] = "null"
         /\ token_buf'[r] = IF terminate THEN "TERMINATE" ELSE token
         /\ terminate => token_proc'[r] = "TERMINATE"
         /\ ~terminate /\ token # "BLACK" => token_proc'[r] = token_proc[r]
         /\ token_proc'[r] = "TERMINATE" => terminate \/ token_proc[r] = "TERMINATE"
         /\ token_is_local'[r] => token_send_req'[r] = "null"
  <1>1. token_src(r) \in Rank /\ Pending(token_src(r))
    BY TokenSource DEF TokenRecv, TokenSent, Pending
  <1>2. \A s \in Rank : ~token_is_local[s] /\ (Pending(s) <=> s = token_src(r))
    BY <1>1 DEF TokenOnce
  <1>3. /\ token_send_req' = [token_send_req EXCEPT
                                ![token_src(r)] = "matched",
                                ![r] = IF terminate /\ r < N - 1 THEN "pending" ELSE "null"]
        /\ token_is_local' = [token_is_local EXCEPT ![r] = ~(terminate /\ r < N - 1)]
        /\ token_buf' = [token_buf EXCEPT ![r] = IF terminate THEN "TERMINATE" ELSE token]
        /\ token_proc' = [token_proc EXCEPT ![r] =
             IF terminate THEN "TERMINATE"
             ELSE IF @ = "BLACK" /\ token = "BLACK" THEN "WHITE" ELSE @]
    BY DEF TokenRecv, Terminates
  <1>4. \A s \in Rank : token_send_req'[s] =
             IF s = r THEN IF terminate /\ r < N - 1 THEN "pending" ELSE "null"
             ELSE IF s = token_src(r) THEN "matched" ELSE token_send_req[s]
    BY <1>1, <1>3 DEF TypeOK
  <1>5. \A s \in Rank : Pending(s)' <=> s = r /\ terminate /\ r < N - 1
    BY <1>2, <1>4 DEF Pending
  <1>6. \A s \in Rank \ {r} : token_send_req[s] = "null" => token_send_req'[s] = "null"
    BY <1>1, <1>4 DEF Pending
  <1>. QED
    BY <1>2, <1>3, <1>4, <1>5, <1>6 DEF TypeOK

\* checkForTerm takes the token.  A white token that has come round to rank 0
\* has vouched for every rank.
LEMMA ReceiveTokenInv ==
  ASSUME RingInv, NEW r \in Rank, ReceiveToken(r)
  PROVE  /\ TokenOnce' /\ WhiteOnWire' /\ WhiteHeld' /\ LateWork'
         /\ TerminateQuiet' /\ TerminateOrder' /\ BarrierInv'
  <1>. DEFINE src   == token_src(r)
              token == token_buf[src]
              terminate == (r = 0 /\ token = "WHITE") \/ token = "TERMINATE"
              done  == token_proc'[r] = "TERMINATE"
  <1>0. TypeOK /\ TokenOnce /\ TokenRecv(r) /\ IdleStep(r, done)
    BY DEF RingInv, ReceiveToken
  <1>1. /\ src \in Rank
        /\ src = IF r = 0 THEN N - 1 ELSE r - 1
        /\ N \in Nat \ {0} /\ Rank = 0 .. N - 1 /\ r \in 0 .. N - 1
    BY TokenSource, SharingAssumption DEF Rank
  <1>2. terminate \in BOOLEAN /\ done \in BOOLEAN
    OBVIOUS
  <1>. HIDE DEF done
  <1>3. /\ pc[r] = "work" /\ count[r] = 0
        /\ \A q \in Rank : pc'[q] = IF q # r THEN pc[q]
                                   ELSE IF done THEN "barrierTest" ELSE "workreqCheck"
        /\ \A q \in Rank : (Quiet(q)' <=> Quiet(q)) /\ (WorkComing(q)' <=> WorkComing(q))
        /\ AllQuiet' <=> AllQuiet
        /\ barrier_started' = barrier_started
        /\ work_requested_rank' = work_requested_rank
    BY <1>0, <1>2, IdleEffect
  <1>. HIDE DEF src, token, terminate
  <1>4. /\ \A s \in Rank : ~token_is_local[s] /\ (Pending(s) <=> s = src)
        /\ \A s \in Rank : /\ Pending(s)' <=> s = r /\ terminate /\ r < N - 1
                           /\ token_is_local'[s] <=> s = r /\ ~(terminate /\ r < N - 1)
        /\ \A s \in Rank \ {r} : /\ token_proc'[s] = token_proc[s]
                                 /\ token_send_req[s] = "null" =>
                                      token_send_req'[s] = "null"
        /\ token_buf'[r] = IF terminate THEN "TERMINATE" ELSE token
        /\ terminate => token_proc'[r] = "TERMINATE"
        /\ ~terminate /\ token # "BLACK" => token_proc'[r] = token_proc[r]
        /\ token_proc'[r] = "TERMINATE" => terminate \/ token_proc[r] = "TERMINATE"
        /\ token_is_local'[r] => token_send_req'[r] = "null"
    <2>1. /\ token = token_buf[token_src(r)] /\ src = token_src(r)
          /\ terminate <=> (r = 0 /\ token = "WHITE") \/ token = "TERMINATE"
      BY DEF src, token, terminate
    <2>. QED
      BY <1>0, <1>2, <2>1, TokenRecvEffect
  <1>5. /\ terminate <=> (r = 0 /\ token = "WHITE") \/ token = "TERMINATE"
        /\ token = token_buf[src]
        /\ done <=> token_proc'[r] = "TERMINATE"
    BY DEF token, terminate, done
  <1>6. done <=> terminate
    <2>1. token_proc[r] # "TERMINATE"
      BY <1>3 DEF RingInv, TerminateQuiet, Cleanup
    <2>. QED
      BY <1>4, <1>5, <2>1
  <1>7. terminate => AllQuiet
    <2>1. CASE token = "TERMINATE"
      BY <1>1, <1>4, <1>5, <2>1 DEF RingInv, TerminateQuiet
    <2>2. CASE r = 0 /\ token = "WHITE"
      <3>1. src = N - 1 /\ ~\E q \in src + 1 .. N - 1 : Black(q)
        BY <1>1, <2>2
      <3>. QED
        BY <1>1, <1>4, <1>5, <2>2, <3>1 DEF RingInv, WhiteOnWire, AllQuiet
    <2>. QED
      BY <1>5, <2>1, <2>2
  <1>8. TokenOnce'
    BY <1>4 DEF TokenOnce
  <1>9. WhiteOnWire'
    BY <1>4 DEF WhiteOnWire
  <1>10. WhiteHeld'
    <2>. SUFFICES ASSUME r # 0, ~terminate, token = "WHITE"
                  PROVE  \/ \A q \in 0 .. r - 1 : Quiet(q)'
                         \/ \E q \in r .. N - 1 : Black(q)'
      BY <1>4, <1>5 DEF WhiteHeld
    <2>1. src = r - 1 /\ src + 1 = r /\ Pending(src)
      BY <1>1, <1>4
    <2>2. \/ \A q \in 0 .. r - 1 : Quiet(q)
          \/ \E q \in r .. N - 1 : Black(q)
      BY <1>1, <1>5, <2>1 DEF RingInv, WhiteOnWire
    <2>3. \A q \in Rank : Black(q)' <=> Black(q)
      <3>1. token_proc'[r] = token_proc[r]
        BY <1>4
      <3>2. \A q \in Rank \ {r} : token_proc'[q] = token_proc[q]
        BY <1>4
      <3>. QED
        BY <3>1, <3>2 DEF Black
    <2>4. 0 .. r - 1 \subseteq Rank /\ r .. N - 1 \subseteq Rank
      BY <1>1
    <2>. QED
      BY <1>3, <2>2, <2>3, <2>4
  <1>11. LateWork'
    <2>1. pc'[r] # "work"
      BY <1>3
    <2>. QED
      BY <1>4, <2>1 DEF LateWork
  <1>12. TerminateQuiet'
    <2>1. ASSUME NEW q \in Rank
          PROVE  token_proc'[q] = "TERMINATE" <=> pc'[q] \in Cleanup
      <3>1. CASE q = r
        BY <1>3, <1>5, <3>1 DEF Cleanup
      <3>2. CASE q # r
        <4>1. token_proc'[q] = token_proc[q] /\ pc'[q] = pc[q]
          BY <1>3, <1>4, <3>2
        <4>. QED
          BY <4>1 DEF RingInv, TerminateQuiet
      <3>. QED
        BY <3>1, <3>2
    <2>2. ASSUME NEW q \in Rank, token_proc'[q] = "TERMINATE"
          PROVE  AllQuiet'
      <3>1. CASE q = r
        BY <1>3, <1>5, <1>6, <1>7, <2>2, <3>1
      <3>2. CASE q # r
        <4>1. token_proc[q] = "TERMINATE"
          BY <1>4, <2>2, <3>2
        <4>2. AllQuiet
          BY <4>1 DEF RingInv, TerminateQuiet
        <4>. QED
          BY <1>3, <4>2
      <3>. QED
        BY <3>1, <3>2
    <2>3. token_buf'[r] = "TERMINATE" => pc'[r] \in Cleanup
      BY <1>3, <1>4, <1>5, <1>6 DEF Cleanup
    <2>. QED
      BY <1>3, <1>4, <1>7, <2>1, <2>2, <2>3 DEF TerminateQuiet
  <1>13. ASSUME NEW q \in Rank, q # r, pc[q] \in Cleanup
         PROVE  token = "TERMINATE" /\ q <= r
    <2>1. q <= src /\ token = "TERMINATE" /\ src < N - 1
      BY <1>1, <1>4, <1>5, <1>13 DEF RingInv, TerminateOrder
    <2>. QED
      BY <1>1, <2>1
  <1>14. TerminateOrder'
    <2>1. \A s \in Rank : Pending(s)' => s < N - 1 /\ s = r /\ token_buf'[s] = "TERMINATE"
      BY <1>4
    <2>2. \A q \in Rank : pc'[q] \in Cleanup => q <= r /\ pc'[r] \in Cleanup
      <3>. SUFFICES ASSUME NEW q \in Rank, q # r, pc[q] \in Cleanup
                    PROVE  q <= r /\ pc'[r] \in Cleanup
        BY <1>1, <1>3
      <3>1. done /\ q <= r
        BY <1>5, <1>6, <1>13
      <3>. QED
        BY <1>3, <3>1 DEF Cleanup
    <2>3. \A s \in Rank : token_is_local'[s] => s = r
      BY <1>4
    <2>. QED
      BY <2>1, <2>2, <2>3 DEF TerminateOrder
  <1>15. BarrierInv'
    <2>1. ~barrier_started[r]
      BY <1>3 DEF RingInv, BarrierInv, Cleanup
    <2>2. ASSUME NEW s \in Rank, barrier_started'[s]
          PROVE  /\ pc'[s] \in Cleanup
                 /\ work_requested_rank'[s] = MPI_PROC_NULL
                 /\ TokenDrained(s)'
      <3>1. barrier_started[s] /\ s # r
        BY <1>3, <2>1, <2>2
      <3>2. /\ pc[s] \in Cleanup
            /\ work_requested_rank[s] = MPI_PROC_NULL
            /\ token_send_req[s] = "null"
        BY <3>1 DEF RingInv, BarrierInv, TokenDrained
      <3>3. token_send_req'[s] = "null" /\ pc'[s] = pc[s]
        BY <1>3, <1>4, <3>1, <3>2
      <3>. QED
        BY <1>3, <3>2, <3>3 DEF TokenDrained
    <2>3. \A q, s \in Rank : pc'[q] = "return" => barrier_started'[s]
      BY <1>3 DEF RingInv, BarrierInv
    <2>. QED
      BY <2>2, <2>3 DEF BarrierInv
  <1>. QED
    BY <1>8, <1>9, <1>10, <1>11, <1>12, <1>14, <1>15


\* tokenCheck and MPI_Test in the cleanup loop: a completed send is forgotten.
LEMMA CleanupTokenInv ==
  ASSUME RingInv, NEW r \in Rank, CleanupToken(r)
  PROVE  /\ TokenOnce' /\ WhiteOnWire' /\ WhiteHeld' /\ LateWork'
         /\ TerminateQuiet' /\ TerminateOrder' /\ BarrierInv'
  <1>0. /\ pc \in [Rank -> Label]
        /\ token_send_req \in [Rank -> {"null", "pending", "matched"}]
    BY DEF RingInv, TypeOK, LoopTypeOK
  <1>1. /\ pc[r] = "cleanupToken"
        /\ pc' = [pc EXCEPT ![r] = "barrierTest"]
        /\ UNCHANGED <<sharingVars, barrier_started>>
    BY DEF CleanupToken, Goto
  <1>2. ~TokenSent(r)
    BY <1>1, NoTokenInCleanup DEF Cleanup
  <1>3. /\ token_send_req' = [token_send_req EXCEPT ![r] =
                                IF @ = "matched" THEN "null" ELSE @]
        /\ UNCHANGED <<token_is_local, token_proc, token_buf>>
    BY <1>2 DEF CleanupToken
  <1>4. \A s \in Rank : /\ Pending(s)' <=> Pending(s)
                        /\ token_send_req[s] = "null" => token_send_req'[s] = "null"
    BY <1>0, <1>3 DEF Pending
  <1>5. \A q \in Rank : /\ pc'[q] \in Cleanup <=> pc[q] \in Cleanup
                        /\ pc'[q] = "return" <=> pc[q] = "return"
                        /\ pc'[q] = "work" <=> pc[q] = "work"
    BY <1>0, <1>1 DEF Cleanup
  <1>6. /\ \A q \in Rank : /\ Quiet(q)' <=> Quiet(q)
                           /\ WorkComing(q)' <=> WorkComing(q)
                           /\ count'[q] = count[q]
        /\ AllQuiet' <=> AllQuiet
        /\ work_requested_rank' = work_requested_rank
    BY <1>1 DEF sharingVars, Quiet, WorkComing, AllQuiet
  <1>7. \A q \in Rank : Black(q)' <=> Black(q)
    BY <1>3 DEF Black
  <1>8. \A q \in Rank : 0 .. q \subseteq Rank /\ 0 .. q - 1 \subseteq Rank
                        /\ q .. N - 1 \subseteq Rank /\ q + 1 .. N - 1 \subseteq Rank
    BY SharingAssumption DEF Rank
  <1>9. TokenOnce'
    BY <1>3, <1>4 DEF RingInv, TokenOnce
  <1>10. WhiteOnWire'
    BY <1>3, <1>4, <1>6, <1>7, <1>8 DEF RingInv, WhiteOnWire
  <1>11. WhiteHeld'
    BY <1>3, <1>6, <1>7, <1>8 DEF RingInv, WhiteHeld
  <1>12. LateWork'
    BY <1>3, <1>5, <1>6, <1>7, <1>8 DEF RingInv, LateWork
  <1>13. TerminateQuiet'
    BY <1>3, <1>4, <1>5, <1>6 DEF RingInv, TerminateQuiet
  <1>14. TerminateOrder'
    BY <1>3, <1>4, <1>5 DEF RingInv, TerminateOrder
  <1>15. BarrierInv'
    BY <1>1, <1>4, <1>5, <1>6 DEF RingInv, BarrierInv, TokenDrained
  <1>. QED
    BY <1>9, <1>10, <1>11, <1>12, <1>13, <1>14, <1>15

-----------------------------------------------------------------------------
(* The theorems *)

\* A probe never misses a work reply that has been sent.
PromptReplies == "WORK_REPLY" \in PromptTags

LEMMA RingInvStep == PromptReplies /\ RingInv /\ [Next]_vars => RingInv'
  <1>. SUFFICES ASSUME PromptReplies, RingInv, [Next]_vars PROVE RingInv'
    OBVIOUS
  <1>1. TypeOK' /\ RequestMatching' /\ AskOnEmpty'
    BY TypeMatchStep DEF RingInv, TypeMatch
  <1>2. SUFFICES /\ TokenOnce' /\ WhiteOnWire' /\ WhiteHeld' /\ LateWork'
                 /\ TerminateQuiet' /\ TerminateOrder' /\ BarrierInv'
    BY <1>1 DEF RingInv
  <1>3. CASE UNCHANGED vars
    <2>1. /\ UNCHANGED <<count, reply, work_requested_rank, pc, barrier_started>>
          /\ UNCHANGED <<token_is_local, token_proc, token_buf, token_send_req>>
      BY <1>3 DEF vars, loopVars, sharingVars, tokenVars
    <2>2. TokenOnce' /\ WhiteOnWire' /\ WhiteHeld' /\ LateWork'
      BY <2>1 DEF RingInv, TokenOnce, WhiteOnWire, WhiteHeld, LateWork, Pending, Black,
                  Quiet, WorkComing
    <2>3. TerminateQuiet' /\ TerminateOrder' /\ BarrierInv'
      BY <2>1 DEF RingInv, TerminateQuiet, TerminateOrder, BarrierInv, TokenDrained,
                  AllQuiet, Pending, Quiet, WorkComing
    <2>. QED
      BY <2>2, <2>3
  <1>4. CASE \E r \in Rank : Step(r)
    <2>1. PICK r \in Rank : Step(r)
      BY <1>4
    <2>2. CASE PlainHandler(r, TokenDrained(r), "cleanupToken") /\ UNCHANGED tokenVars
      BY <2>2, PlainStepInv DEF PromptReplies
    <2>3. CASE ShareRingWork(r)
      BY <2>3, ShareRingWorkInv
    <2>4. CASE ForwardToken(r)
      BY <2>4, ForwardTokenInv
    <2>5. CASE ReceiveToken(r)
      BY <2>5, ReceiveTokenInv
    <2>6. CASE AwaitToken(r)
      BY <2>6, AwaitTokenInv
    <2>7. CASE CleanupToken(r)
      BY <2>7, CleanupTokenInv
    <2>. QED
      BY <2>1, <2>2, <2>3, <2>4, <2>5, <2>6, <2>7, StepKinds
  <1>. QED
    BY <1>3, <1>4 DEF Next, Finished

\* The invariant holds throughout every run, for any number of ranks.
THEOREM RingInvariant == PromptReplies /\ Spec => []RingInv
  <1>1. PromptReplies \in BOOLEAN
    BY DEF PromptReplies
  <1>2. CASE PromptReplies
    <2>1. RingInv /\ [Next]_vars => RingInv'
      BY <1>2, RingInvStep
    <2>. QED
      BY RingInvInit, <2>1, PTL DEF Spec
  <1>3. CASE ~PromptReplies
    BY <1>3
  <1>. QED
    BY <1>2, <1>3

\* Ring termination detection is safe: no rank leaves the main loop of
\* State::mainLoop while some queue holds an item or work is on its way,
\* whatever the number of ranks, the items and the ways to divide them.
THEOREM NoRankExitsEarly == PromptReplies /\ Spec => []NoEarlyExit
  <1>1. RingInv => NoEarlyExit
    BY DEF RingInv, TerminateQuiet, NoEarlyExit
  <1>. QED
    BY RingInvariant, <1>1, PTL

\* So mainLoop returns with an empty queue: nothing the callbacks enqueued is
\* left unprocessed.
THEOREM NoWorkIsLost == PromptReplies /\ Spec => []NoWorkLost
  <1>1. RingInv => NoWorkLost
    <2>1. RingInv => NoEarlyExit
      BY DEF RingInv, TerminateQuiet, NoEarlyExit
    <2>. QED
      BY <2>1 DEF NoEarlyExit, NoWorkLost, AllQuiet, Quiet, Cleanup
  <1>. QED
    BY RingInvariant, <1>1, PTL

\* tokenIsSend and tokenRecv use token_send_req correctly, and no token comes
\* to a rank that has left the main loop.
THEOREM TokenRequestsSafe == PromptReplies /\ Spec => []TokenRequestSafe
  <1>1. RingInv => TokenRequestSafe
    <2>. SUFFICES ASSUME RingInv, NEW r \in Rank
                  PROVE  /\ token_is_local[r] => token_send_req[r] = "null"
                         /\ TokenSent(r) /\ r # token_src(r) => token_send_req[r] # "pending"
                         /\ TokenSent(r) => pc[r] \notin Cleanup
      BY DEF TokenRequestSafe
    <2>1. token_src(r) \in Rank
      BY TokenSource
    <2>2. TokenSent(r) /\ r # token_src(r) => token_send_req[r] # "pending"
      BY <2>1 DEF RingInv, TokenOnce, TokenSent, Pending
    <2>. QED
      BY <2>2, NoTokenInCleanup DEF RingInv, TokenOnce
  <1>. QED
    BY RingInvariant, <1>1, PTL

\* A rank that has returned has passed the barrier, which every rank enters
\* with no request unanswered and the send of its token complete.
LEMMA BarrierDrains ==
  ASSUME RingInv, NEW r \in Rank, pc[r] = "return", NEW s \in Rank
  PROVE  work_requested_rank[s] = MPI_PROC_NULL /\ TokenDrained(s)
  BY DEF RingInv, BarrierInv

\* The cleanup loop does its work: when mainLoop returns on any rank, no work
\* request or work reply is on its way between any two ranks.
THEOREM NothingInFlight == PromptReplies /\ Spec => []DrainedAtReturn
  <1>1. RingInv => DrainedAtReturn
    <2>. SUFFICES ASSUME RingInv, NEW r \in Rank, pc[r] = "return"
                  PROVE  \A s, d \in Rank : req[s][d] = 0 /\ reply[s][d] = <<>>
      BY DEF DrainedAtReturn
    <2>1. \A s \in Rank : work_requested_rank[s] = MPI_PROC_NULL
      BY BarrierDrains
    <2>2. \A s \in Rank : MPI_PROC_NULL # s
      BY DEF MPI_PROC_NULL, Rank
    <2>3. \A s, d \in Rank : req[s][d] = 0 /\ reply[d][s] = <<>>
      BY <2>1, <2>2 DEF RingInv, RequestMatching
    <2>. QED
      BY <2>3
  <1>. QED
    BY RingInvariant, <1>1, PTL

\* Nor is a token on the wire or the request object of its send active.
THEOREM NoTokenInFlight == PromptReplies /\ Spec => []TokenDrainedAtReturn
  <1>1. RingInv => TokenDrainedAtReturn
    BY BarrierDrains DEF TokenDrainedAtReturn
  <1>. QED
    BY RingInvariant, <1>1, PTL

=============================================================================
