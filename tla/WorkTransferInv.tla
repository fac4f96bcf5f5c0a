-------------------------- MODULE WorkTransferInv --------------------------
(***************************************************************************)
(* The inductive invariant of WorkTransfer: what the loop of a sender has  *)
(* sent and what is left, and the stage each request has reached.          *)
(***************************************************************************)
EXTENDS WorkTransfer

\* The loop visits different ranks, all of which asked, and its variables are
\* reset outside it.
LoopShape ==
  \A r \in Rank :
    IF InLoop(r)
    THEN /\ pc[r] \in {"reply", "sendData", "sent"}
         /\ i[r] \in 1 .. Len(requestors[r])
         /\ \A j, k \in 1 .. Len(requestors[r]) :
              requestors[r][j] = requestors[r][k] => j = k
         /\ pc[r] # "reply" => sizes[r][i[r]] > 0
    ELSE pc[r] \notin {"reply", "sendData", "sent"} /\ i[r] = 0

\* What has been sent so far and what is left add up to the queue that
\* sendWorkToMany found.
LoopSum ==
  \A r \in Rank :
    InLoop(r) =>
      LET rcount == Len(requestors[r])
      IN  IF total[r] = 0
          THEN count[r] = 0 /\ sizes[r] = [k \in 0 .. rcount |-> 0]
          ELSE /\ sizes[r] \in Splits(SplitEqual, total[r], rcount)
               /\ count[r] = total[r] - SentBefore(SplitEqual, total[r], rcount,
                                                   sizes[r][0], i[r] - 1)

\* Only the two messages of a transfer can hold their sender, and they do so
\* where they are sent.
HeldInLoop ==
  \A r \in Rank :
    sending[r] # NoSend => /\ pc[r] \in {"sendData", "sent"}
                           /\ sending[r].kind \in {"offsets", "data"}
                           /\ sending[r].to = requestors[r][i[r]]

-----------------------------------------------------------------------------
(* The stages of a request of r to s *)

\* The loop of s has not come to r yet.
Owes(s, r) ==
  \E k \in (IF pc[s] = "reply" THEN i[s] ELSE i[s] + 1) .. Len(requestors[s]) :
    requestors[s][k] = r

\* s has sent the offsets to r and not the data.
Between(s, r) == pc[s] = "sendData" /\ requestors[s][i[s]] = r

Asked(s, r) ==
  req[r][s] = 1 /\ wire[s][r] = <<>> /\ ~Owes(s, r) /\ ~Between(s, r)

Owed(s, r) ==
  req[r][s] = 0 /\ wire[s][r] = <<>> /\ Owes(s, r) /\ ~Between(s, r)

Refused(s, r) ==
  /\ req[r][s] = 0 /\ ~Owes(s, r) /\ ~Between(s, r)
  /\ wire[s][r] = <<Msg("nowork", 0)>>

HalfSent(s, r) ==
  /\ req[r][s] = 0 /\ ~Owes(s, r) /\ Between(s, r)
  /\ wire[s][r] = <<Msg("offsets", sizes[s][i[s]])>>

Sent(s, r) ==
  /\ req[r][s] = 0 /\ ~Owes(s, r) /\ ~Between(s, r)
  /\ wire[s][r] # <<>>
  /\ LET n == wire[s][r][1].items
     IN  n > 0 /\ wire[s][r] = <<Msg("offsets", n), Msg("data", n)>>

HalfTaken(s, r) ==
  /\ req[r][s] = 0 /\ ~Owes(s, r) /\ Between(s, r)
  /\ wire[s][r] = <<>> /\ items[r] = sizes[s][i[s]]

Taken(s, r) ==
  /\ req[r][s] = 0 /\ ~Owes(s, r) /\ ~Between(s, r)
  /\ wire[s][r] = <<Msg("data", items[r])>> /\ items[r] > 0

\* s has nothing to do with r.
Unrelated(s, r) ==
  req[r][s] = 0 /\ wire[s][r] = <<>> /\ ~Owes(s, r) /\ ~Between(s, r)

\* The request of r to s, whom it asked, has reached one of these stages.
Stage(s, r) ==
  IF pc[r] = "recvData"
  THEN HalfTaken(s, r) \/ Taken(s, r)
  ELSE \/ Asked(s, r) \/ Owed(s, r) \/ Refused(s, r)
       \/ HalfSent(s, r) \/ Sent(s, r)

\* A rank waits for one reply at most, with an empty queue.
Stages ==
  \A r \in Rank :
    /\ work_requested_rank[r] = MPI_PROC_NULL => pc[r] # "recvData"
    /\ work_requested_rank[r] # MPI_PROC_NULL => count[r] = 0
    /\ pc[r] = "requestWork" => count[r] = 0
    /\ \A s \in Rank :
         IF s = work_requested_rank[r] THEN s # r /\ Stage(s, r)
                                       ELSE Unrelated(s, r)

\* The inductive invariant.
TransferInv == TypeOK /\ LoopShape /\ LoopSum /\ HeldInLoop /\ Stages
=============================================================================
