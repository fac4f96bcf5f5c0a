---------------------------- MODULE WorkTransfer ----------------------------
(***************************************************************************)
(* The work-stealing handlers of State (src/src/state.cpp) interrupted at  *)
(* every message they send: WorkSharing takes workreqCheck and requestWork *)
(* for one step each, here they are the loops of the code.                 *)
(*                                                                         *)
(* Work is sent with two blocking MPI_Send calls, first the offsets, then  *)
(* the data.  MPI may copy a message and let the sender go on, or keep the *)
(* sender until the message is received; Buffered names the messages MPI   *)
(* is known to copy (a request is empty, a no-work reply one int long).    *)
(* Receipts, which are empty too, are always copied.  MPI is external:     *)
(* messages from one rank to another with one tag arrive in order, and a   *)
(* probe may miss one for a while.                                         *)
(*                                                                         *)
(* Termination detection is left out: an idle rank looks for work for      *)
(* ever.  A job of one rank transfers nothing.                             *)
(***************************************************************************)
EXTENDS WorkSplit, Sequences, FiniteSets

CONSTANTS
  N,             \* number of ranks
  SplitEqual,    \* RuntimeFlags::SplitEqual
  CreateGlobal,  \* RuntimeFlags::CreateGlobal
  CreateMax,     \* bound: items one create callback may enqueue
  Fanout,        \* bound: items one process callback may enqueue
  Budget,        \* bound: items all process callbacks together may enqueue
  PromptTags,    \* tags for which a probe never misses a sent message
  Buffered       \* the kinds of messages MPI always copies

Kind == {"request", "nowork", "offsets", "data"}

ASSUME TransferAssumption ==
  /\ N \in Nat \ {0, 1}
  /\ SplitEqual \in BOOLEAN /\ CreateGlobal \in BOOLEAN
  /\ CreateMax \in Nat /\ Fanout \in Nat /\ Budget \in Nat
  /\ PromptTags \subseteq {"WORK_REQUEST", "WORK_REPLY"}
  /\ Buffered \subseteq Kind

\* MPI copies the short messages.  Without that two ranks that refuse each
\* other, or that ask each other, may wait for ever.
ASSUME ShortMessagesCopied == {"request", "nowork"} \subseteq Buffered

Rank == 0 .. N - 1
MPI_PROC_NULL == -1

VARIABLES
  pc,                   \* what the rank does next
  count,                \* qp->count
  budget,               \* items the process callbacks may still enqueue
  work_requested_rank,  \* rank asked for work; MPI_PROC_NULL: !work_requested
  work_outstanding,     \* transfers sent and not yet acknowledged
  total,                \* history: qp->count when workreqCheck was called
  requestors,           \* the ranks workreqCheck found, in order of arrival
  sizes,                \* sizes[0] items stay, sizes[i] go to requestors[i]
  i,                    \* requestors[i] is being served
  items,                \* items announced by offsets taken, data still to come
  sending,              \* the message whose MPI_Send may not have returned
  req,                  \* req[s][d]: work requests on the way s -> d
  wire,                 \* wire[s][d]: messages with tag WORK_REPLY s -> d
  receipt               \* receipt[d]: receipts on the way to d

loopVars == <<total, requestors, sizes, i>>
netVars  == <<req, wire, receipt>>
vars == <<pc, count, budget, work_requested_rank, work_outstanding, loopVars,
          items, sending, netVars>>

\* A message with tag WORK_REPLY: an offsets message announces `items' items,
\* whose bytes the data message brings.
Message == [kind : {"nowork", "offsets", "data"}, items : Nat]
Msg(kind, n) == [kind |-> kind, items |-> n]

NoSend  == [to |-> MPI_PROC_NULL, kind |-> "data"]
NoSizes == [k \in {0} |-> 0]

Label == {"workreqCheck", "reply", "sendData", "sent", "workreceiptCheck",
          "requestWork", "recvData", "work"}

TypeOK ==
  /\ pc \in [Rank -> Label]
  /\ count \in [Rank -> Nat] /\ budget \in Nat
  /\ work_requested_rank \in [Rank -> Rank \cup {MPI_PROC_NULL}]
  /\ work_outstanding \in [Rank -> Nat]
  /\ total \in [Rank -> Nat]
  /\ requestors \in [Rank -> Seq(Rank)]
  /\ DOMAIN sizes = Rank /\ i \in [Rank -> Nat]
  /\ \A r \in Rank : /\ sizes[r] \in [0 .. Len(requestors[r]) -> Nat]
                     /\ i[r] \in 0 .. Len(requestors[r])
  /\ items \in [Rank -> Nat]
  /\ sending \in [Rank -> [to : Rank \cup {MPI_PROC_NULL}, kind : Kind]]
  /\ req \in [Rank -> [Rank -> Nat]]
  /\ wire \in [Rank -> [Rank -> Seq(Message)]]
  /\ receipt \in [Rank -> Nat]

Init ==
  /\ pc = [r \in Rank |-> "workreqCheck"]
  /\ count \in [Rank -> 0 .. CreateMax]
  /\ ~CreateGlobal => \A r \in Rank \ {0} : count[r] = 0
  /\ budget = Budget
  /\ work_requested_rank = [r \in Rank |-> MPI_PROC_NULL]
  /\ work_outstanding = [r \in Rank |-> 0]
  /\ total = [r \in Rank |-> 0]
  /\ requestors = [r \in Rank |-> <<>>]
  /\ sizes = [r \in Rank |-> NoSizes]
  /\ i = [r \in Rank |-> 0]
  /\ items = [r \in Rank |-> 0]
  /\ sending = [r \in Rank |-> NoSend]
  /\ req = [s \in Rank |-> [d \in Rank |-> 0]]
  /\ wire = [s \in Rank |-> [d \in Rank |-> <<>>]]
  /\ receipt = [d \in Rank |-> 0]

Goto(r, label) == pc' = [pc EXCEPT ![r] = label]

-----------------------------------------------------------------------------
(* MPI_Send *)

\* What MPI may do with a message: copy it, or hold the sender.
MPI_Send(r, to, kind) ==
  \E hold \in {NoSend} \cup {[to |-> to, kind |-> kind] : k \in {kind} \ Buffered} :
    sending' = [sending EXCEPT ![r] = hold]

\* The message is still to be received.
InTransit(s, d, kind) ==
  IF kind = "request" THEN req[s][d] > 0 ELSE wire[s][d] # <<>>

\* r is inside a call of MPI_Send that MPI has not buffered.
Held(r) == sending[r] # NoSend /\ InTransit(r, sending[r].to, sending[r].kind)

\* r goes on, after its last MPI_Send has returned, without sending anything.
Returned(r) == ~Held(r) /\ sending' = [sending EXCEPT ![r] = NoSend]

-----------------------------------------------------------------------------
(* workreqCheck(queue, 0) *)

Requestors(r) == {s \in Rank : req[s][r] > 0}

\* The orders in which the requests of S can have come in.
Arrivals(S) ==
  {f \in [1 .. Cardinality(S) -> S] : \A d \in S : \E k \in DOMAIN f : f[k] = d}

\* The sets of requests the loop of probes can come back with.
Found(r) == IF "WORK_REQUEST" \in PromptTags THEN {Requestors(r)}
                                             ELSE SUBSET Requestors(r)

\* (mutant) A rank that waits for a reply may leave requests unanswered.
NoRequest_waiting(r) ==
  /\ pc[r] = "workreqCheck" /\ Returned(r)
  /\ {} \in Found(r) \/ work_requested_rank[r] # MPI_PROC_NULL
  /\ Goto(r, "workreceiptCheck")
  /\ UNCHANGED <<count, budget, work_requested_rank, work_outstanding,
                 loopVars, items, netVars>>

\* The probe finds no request.
NoRequest(r) ==
  /\ pc[r] = "workreqCheck" /\ Returned(r)
  /\ {} \in Found(r)
  /\ Goto(r, "workreceiptCheck")
  /\ UNCHANGED <<count, budget, work_requested_rank, work_outstanding,
                 loopVars, items, netVars>>

\* The requests of S are received; sendWorkToMany divides the queue, an empty
\* one has nothing to give.
TakeRequests(r, S) ==
  /\ pc[r] = "workreqCheck" /\ Returned(r)
  /\ \E order \in Arrivals(S) : requestors' = [requestors EXCEPT ![r] = order]
  /\ \E split \in IF count[r] = 0 THEN {[k \in 0 .. Cardinality(S) |-> 0]}
                  ELSE Splits(SplitEqual, count[r], Cardinality(S)) :
       sizes' = [sizes EXCEPT ![r] = split]
  /\ i' = [i EXCEPT ![r] = 1]
  /\ total' = [total EXCEPT ![r] = count[r]]
  /\ req' = [s \in Rank |-> [req[s] EXCEPT ![r] = IF s \in S THEN @ - 1 ELSE @]]
  /\ Goto(r, "reply")
  /\ UNCHANGED <<count, budget, work_requested_rank, work_outstanding, items,
                 wire, receipt>>

\* (mutant) The loop runs once too often.
NextRequestor_past(r) ==
  IF i[r] <= Len(requestors[r])
  THEN /\ i' = [i EXCEPT ![r] = @ + 1]
       /\ Goto(r, "reply")
       /\ UNCHANGED <<total, requestors, sizes>>
  ELSE /\ total' = [total EXCEPT ![r] = 0]
       /\ requestors' = [requestors EXCEPT ![r] = <<>>]
       /\ sizes' = [sizes EXCEPT ![r] = NoSizes]
       /\ i' = [i EXCEPT ![r] = 0]
       /\ Goto(r, "workreceiptCheck")

\* The loop goes on to the next requestor, or ends.
NextRequestor(r) ==
  IF i[r] < Len(requestors[r])
  THEN /\ i' = [i EXCEPT ![r] = @ + 1]
       /\ Goto(r, "reply")
       /\ UNCHANGED <<total, requestors, sizes>>
  ELSE /\ total' = [total EXCEPT ![r] = 0]
       /\ requestors' = [requestors EXCEPT ![r] = <<>>]
       /\ sizes' = [sizes EXCEPT ![r] = NoSizes]
       /\ i' = [i EXCEPT ![r] = 0]
       /\ Goto(r, "workreceiptCheck")

\* (mutant) The no-work reply is as long as the offsets of a transfer.
SendNoWork_long(r) ==
  LET dest == requestors[r][i[r]]
  IN  /\ pc[r] = "reply" /\ ~Held(r) /\ sizes[r][i[r]] = 0
      /\ wire' = [wire EXCEPT ![r][dest] = Append(@, Msg("nowork", 0))]
      /\ MPI_Send(r, dest, "offsets")
      /\ NextRequestor(r)
      /\ UNCHANGED <<count, budget, work_requested_rank, work_outstanding, items,
                     req, receipt>>

\* sendNoWork: MPI_Isend followed by MPI_Wait blocks as MPI_Send does.
SendNoWork(r) ==
  LET dest == requestors[r][i[r]]
  IN  /\ pc[r] = "reply" /\ ~Held(r) /\ sizes[r][i[r]] = 0
      /\ wire' = [wire EXCEPT ![r][dest] = Append(@, Msg("nowork", 0))]
      /\ MPI_Send(r, dest, "nowork")
      /\ NextRequestor(r)
      /\ UNCHANGED <<count, budget, work_requested_rank, work_outstanding, items,
                     req, receipt>>

\* sendWork: the first of the two messages.
SendOffsets(r) ==
  LET dest == requestors[r][i[r]]
  IN  /\ pc[r] = "reply" /\ ~Held(r) /\ sizes[r][i[r]] > 0
      /\ wire' = [wire EXCEPT ![r][dest] =
                    Append(@, Msg("offsets", sizes[r][i[r]]))]
      /\ MPI_Send(r, dest, "offsets")
      /\ Goto(r, "sendData")
      /\ UNCHANGED <<count, budget, work_requested_rank, work_outstanding,
                     loopVars, items, req, receipt>>

\* (mutant) The bytes of all items of the queue are sent.
SendData_all(r) ==
  LET dest == requestors[r][i[r]]
  IN  /\ pc[r] = "sendData" /\ ~Held(r)
      /\ wire' = [wire EXCEPT ![r][dest] = Append(@, Msg("data", count[r]))]
      /\ MPI_Send(r, dest, "data")
      /\ Goto(r, "sent")
      /\ UNCHANGED <<count, budget, work_requested_rank, work_outstanding,
                     loopVars, items, req, receipt>>

\* sendWork: the second message.
SendData(r) ==
  LET dest == requestors[r][i[r]]
  IN  /\ pc[r] = "sendData" /\ ~Held(r)
      /\ wire' = [wire EXCEPT ![r][dest] = Append(@, Msg("data", sizes[r][i[r]]))]
      /\ MPI_Send(r, dest, "data")
      /\ Goto(r, "sent")
      /\ UNCHANGED <<count, budget, work_requested_rank, work_outstanding,
                     loopVars, items, req, receipt>>

\* (mutant) The transfer is not recorded as outstanding.
Subtract_untracked(r) ==
  /\ pc[r] = "sent" /\ Returned(r)
  /\ count' = [count EXCEPT ![r] = @ - sizes[r][i[r]]]
  /\ NextRequestor(r)
  /\ UNCHANGED <<budget, work_requested_rank, work_outstanding, items, netVars>>

\* sendWork: the items leave the queue once both calls have returned.
Subtract(r) ==
  /\ pc[r] = "sent" /\ Returned(r)
  /\ count' = [count EXCEPT ![r] = @ - sizes[r][i[r]]]
  /\ work_outstanding' = [work_outstanding EXCEPT ![r] = @ + 1]
  /\ NextRequestor(r)
  /\ UNCHANGED <<budget, work_requested_rank, items, netVars>>

-----------------------------------------------------------------------------
(* workreceiptCheck(queue) *)

\* The probe finds `taken' receipts, no more than are outstanding; requestWork
\* follows on an empty queue only.
TakeReceipts(r, taken) ==
  /\ pc[r] = "workreceiptCheck" /\ Returned(r)
  /\ taken <= receipt[r] /\ taken <= work_outstanding[r]
  /\ receipt' = [receipt EXCEPT ![r] = @ - taken]
  /\ work_outstanding' = [work_outstanding EXCEPT ![r] = @ - taken]
  /\ Goto(r, IF count[r] = 0 THEN "requestWork" ELSE "work")
  /\ UNCHANGED <<count, budget, work_requested_rank, loopVars, items, req, wire>>

-----------------------------------------------------------------------------
(* requestWork(queue, 0) *)

\* No request is out: ask next_processor, any other rank.
SendRequest(r) ==
  /\ pc[r] = "requestWork" /\ ~Held(r)
  /\ work_requested_rank[r] = MPI_PROC_NULL
  /\ \E source \in Rank \ {r} :
       /\ req' = [req EXCEPT ![r][source] = @ + 1]
       /\ MPI_Send(r, source, "request")
       /\ work_requested_rank' = [work_requested_rank EXCEPT ![r] = source]
  /\ Goto(r, "work")
  /\ UNCHANGED <<count, budget, work_outstanding, loopVars, items, wire, receipt>>

\* A request is out, the probe finds no reply.
AwaitReply(r) ==
  /\ pc[r] = "requestWork" /\ Returned(r)
  /\ work_requested_rank[r] # MPI_PROC_NULL
  /\ \/ wire[work_requested_rank[r]][r] = <<>>
     \/ "WORK_REPLY" \notin PromptTags
  /\ Goto(r, "work")
  /\ UNCHANGED <<count, budget, work_requested_rank, work_outstanding,
                 loopVars, items, netVars>>

\* workReceive takes the first message of the reply; after a no-work reply
\* there is no other.
TakeReply(r) ==
  LET source == work_requested_rank[r]
      msg    == Head(wire[source][r])
  IN  /\ pc[r] = "requestWork" /\ Returned(r)
      /\ source # MPI_PROC_NULL /\ wire[source][r] # <<>>
      /\ wire' = [wire EXCEPT ![source][r] = Tail(@)]
      /\ IF msg.items = 0
         THEN /\ work_requested_rank' =
                   [work_requested_rank EXCEPT ![r] = MPI_PROC_NULL]
              /\ Goto(r, "work")
         ELSE Goto(r, "recvData") /\ UNCHANGED work_requested_rank
      /\ items' = [items EXCEPT ![r] = msg.items]
      /\ UNCHANGED <<count, budget, work_outstanding, loopVars, req, receipt>>

\* workReceive blocks in MPI_Recv until the data are there, puts them into its
\* queue and acknowledges them.
RecvData(r) ==
  LET source == work_requested_rank[r]
  IN  /\ pc[r] = "recvData" /\ Returned(r)
      /\ wire[source][r] # <<>>
      /\ wire' = [wire EXCEPT ![source][r] = Tail(@)]
      /\ count' = [count EXCEPT ![r] = items[r]]
      /\ items' = [items EXCEPT ![r] = 0]
      /\ receipt' = [receipt EXCEPT ![source] = @ + 1]
      /\ work_requested_rank' = [work_requested_rank EXCEPT ![r] = MPI_PROC_NULL]
      /\ Goto(r, "work")
      /\ UNCHANGED <<budget, work_outstanding, loopVars, req>>

-----------------------------------------------------------------------------
(* The rest of a pass *)

\* processCallback: user code, external.
ProcessItem(r) ==
  /\ pc[r] = "work" /\ Returned(r) /\ count[r] > 0
  /\ \E new \in 0 .. Fanout :
       /\ new <= budget
       /\ count' = [count EXCEPT ![r] = @ - 1 + new]
       /\ budget' = budget - new
  /\ Goto(r, "workreqCheck")
  /\ UNCHANGED <<work_requested_rank, work_outstanding, loopVars, items, netVars>>

\* The queue is empty: termination detection finds that the job is not done.
Idle(r) ==
  /\ pc[r] = "work" /\ Returned(r) /\ count[r] = 0
  /\ Goto(r, "workreqCheck")
  /\ UNCHANGED <<count, budget, work_requested_rank, work_outstanding,
                 loopVars, items, netVars>>

Step(r) ==
  \/ NoRequest(r)
  \/ \E S \in Found(r) \ {{}} : TakeRequests(r, S)
  \/ SendNoWork(r)
  \/ SendOffsets(r)
  \/ SendData(r)
  \/ Subtract(r)
  \/ \E taken \in 0 .. receipt[r] : TakeReceipts(r, taken)
  \/ SendRequest(r)
  \/ AwaitReply(r)
  \/ TakeReply(r)
  \/ RecvData(r)
  \/ ProcessItem(r)
  \/ Idle(r)

Next == \E r \in Rank : Step(r)

Spec == Init /\ [][Next]_vars

\* Every rank keeps running: the loop never sleeps.
FairSpec == Spec /\ \A r \in Rank : WF_vars(Step(r))

-----------------------------------------------------------------------------
(* Correctness *)

\* The rank r cannot go on before another rank has acted: it is held in
\* MPI_Send, or waits in MPI_Recv for the data of a reply.
WaitsFor(r) ==
  IF Held(r) THEN sending[r].to
  ELSE IF pc[r] = "recvData" /\ wire[work_requested_rank[r]][r] = <<>>
       THEN work_requested_rank[r] ELSE MPI_PROC_NULL

\* Blocking sends of work do not block each other ("TODO; use isend to avoid
\* deadlock", comment in sendWork): a rank another rank waits for is not
\* itself waiting, since a rank that asked for work has none to send.
NoWaitChain ==
  \A r \in Rank :
    WaitsFor(r) # MPI_PROC_NULL => WaitsFor(WaitsFor(r)) = MPI_PROC_NULL

\* Every work request is answered, and the answer taken, however MPI delays
\* the sends on the way.
RequestsAnswered ==
  \A r \in Rank : work_requested_rank[r] # MPI_PROC_NULL
                    ~> work_requested_rank[r] = MPI_PROC_NULL

\* r is inside the loop of workreqCheck or sendWorkToMany.
InLoop(r) == requestors[r] # <<>>

\* sendWork never reaches below the base of the queue (start_elem is not
\* negative), and the sender keeps sizes[0] items in the end, all of them
\* accounted for.
SharesFit ==
  \A r \in Rank :
    InLoop(r) => /\ sizes[r][i[r]] <= count[r]
                 /\ i[r] = Len(requestors[r]) =>
                      count[r] - sizes[r][i[r]] = sizes[r][0]

\* A rank that gives work away keeps at least one item, so that it goes on
\* working and two ranks cannot hand the last item to and fro for ever:
\* "randomly pick a total amount to send to requestors, but keep at least one
\* item" (comment in sendWorkToMany), which the equal split must do too.
KeepsOne ==
  \A r \in Rank :
    InLoop(r) /\ total[r] > 0 => count[r] - sizes[r][i[r]] >= 1

\* The two messages of a transfer stay together: the message workReceive finds
\* behind the offsets is the data of the same items, and the reply to a later
\* request cannot come in between.
TransferMatching ==
  \A r \in Rank :
    LET source == work_requested_rank[r]
    IN  pc[r] = "recvData" =>
          /\ count[r] = 0
          /\ \/ wire[source][r] = <<Msg("data", items[r])>>
             \/ /\ wire[source][r] = <<>>
                /\ pc[source] = "sendData"
                /\ requestors[source][i[source]] = r
                /\ sizes[source][i[source]] = items[r]

-----------------------------------------------------------------------------
(* The handlers as single steps: a reply counts as sent when the loop that
   will send it starts, and as received when its data are. *)

\* The place in the loop of s at which d is still to be answered, if there is one.
StillOwed(s, d) ==
  {k \in 1 .. Len(requestors[s]) :
     requestors[s][k] = d /\ (k > i[s] \/ (k = i[s] /\ pc[s] = "reply"))}

\* The reply from s to d, of which there is one at most, as a number of items:
\* d has taken its offsets, its offsets are on the wire, or the loop of s
\* still has to send it.
Replies(s, d) ==
  IF pc[d] = "recvData" /\ work_requested_rank[d] = s THEN <<items[d]>>
  ELSE IF wire[s][d] # <<>> THEN <<wire[s][d][1].items>>
  ELSE IF StillOwed(s, d) # {}
       THEN <<sizes[s][CHOOSE k \in StillOwed(s, d) : TRUE]>>
  ELSE <<>>

\* The transfers the loop of r has still to complete.
Transfers(r) == {k \in 1 .. Len(requestors[r]) : k >= i[r] /\ sizes[r][k] > 0}

\* The queue of a rank in its loop is what the loop will leave of it, and every
\* transfer of the loop is outstanding from its start.
KeptCount == [r \in Rank |-> IF requestors[r] = <<>> THEN count[r] ELSE sizes[r][0]]
RepliesDue == [s \in Rank |-> [d \in Rank |-> Replies(s, d)]]
TransfersOpen ==
  [r \in Rank |-> work_outstanding[r] + Cardinality(Transfers(r))]

Atomic == INSTANCE AtomicSharing
  WITH PromptTags <- {}, count <- KeptCount, reply <- RepliesDue,
       work_outstanding <- TransfersOpen

\* The handlers may be taken for single steps, as WorkSharing and the modules
\* built on it do: the items sendWork gives away are those it subtracts, none
\* is in two queues or in none, and a rank ends the loop with sizes[0] items.
HandlersAtomic == Atomic!Spec

=============================================================================
