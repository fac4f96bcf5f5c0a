---------------------------- MODULE WorkSharing ----------------------------
(***************************************************************************)
(* The work-stealing half of State (src/src/state.cpp): the local queues,  *)
(* the WORK_REQUEST / WORK_REPLY / WORK_RECEIPT messages between ranks and *)
(* the handlers of them.  Every handler is the effect of the whole C++     *)
(* function on the variables below; the termination-detection modules      *)
(* conjoin it with their own variables and with the program counter.       *)
(*                                                                         *)
(* A queue is abstracted to the number of its items (qp->count).  MPI is   *)
(* external: messages with one source, one destination and one tag arrive  *)
(* in the order they were sent, and an MPI_Iprobe may miss a message that  *)
(* is still travelling, unless its tag is in PromptTags.                   *)
(***************************************************************************)
EXTENDS WorkSplit, Sequences, FiniteSets

CONSTANTS
  N,             \* number of ranks of the communicator (State::size)
  SplitEqual,    \* RuntimeFlags::SplitEqual: divide the queue equally
  CreateGlobal,  \* RuntimeFlags::CreateGlobal: every rank creates work
  CreateMax,     \* bound: items one create callback may enqueue
  Fanout,        \* bound: items one process callback may enqueue
  Budget,        \* bound: items all process callbacks together may enqueue
  PromptTags     \* tags for which a probe never misses a sent message

Tag == {"WORK_REQUEST", "WORK_REPLY", "WORK_RECEIPT", "TOKEN", "TERM"}

ASSUME SharingAssumption ==
  /\ N \in Nat \ {0}
  /\ SplitEqual \in BOOLEAN /\ CreateGlobal \in BOOLEAN
  /\ CreateMax \in Nat /\ Fanout \in Nat /\ Budget \in Nat
  /\ PromptTags \subseteq Tag

Rank == 0 .. N - 1
MPI_PROC_NULL == -1

VARIABLES
  count,                \* count[r]: items in the local queue of rank r
  budget,               \* items the process callbacks may still enqueue
  work_requested_rank,  \* rank asked for work; MPI_PROC_NULL: !work_requested
  work_outstanding,     \* work transfers sent by r and not yet acknowledged
  req,                  \* req[s][d]: WORK_REQUEST messages on the way s -> d
  reply,                \* reply[s][d]: WORK_REPLY messages s -> d, item counts
  receipt               \* receipt[d]: WORK_RECEIPT messages on the way to d

sharingVars == <<count, budget, work_requested_rank, work_outstanding,
                 req, reply, receipt>>

SharingTypeOK ==
  /\ count \in [Rank -> Nat]
  /\ budget \in Nat
  /\ work_requested_rank \in [Rank -> Rank \cup {MPI_PROC_NULL}]
  /\ work_outstanding \in [Rank -> Nat]
  /\ req \in [Rank -> [Rank -> Nat]]
  /\ reply \in [Rank -> [Rank -> Seq(Nat)]]
  /\ receipt \in [Rank -> Nat]

\* The queues after the create callbacks ran, before State::mainLoop.
SharingInit ==
  /\ count \in [Rank -> 0 .. CreateMax]
  /\ ~CreateGlobal => \A r \in Rank \ {0} : count[r] = 0
  /\ budget = Budget
  /\ work_requested_rank = [r \in Rank |-> MPI_PROC_NULL]
  /\ work_outstanding = [r \in Rank |-> 0]
  /\ req = [s \in Rank |-> [d \in Rank |-> 0]]
  /\ reply = [s \in Rank |-> [d \in Rank |-> <<>>]]
  /\ receipt = [d \in Rank |-> 0]

-----------------------------------------------------------------------------
(* MPI, as the handlers use it *)

\* MPI_Iprobe in a loop, over the set of sources that have sent a message
\* with this tag: the sources a drain of the tag can come back with.
Probed(tag, sources) ==
  IF tag \in PromptTags THEN {sources} ELSE SUBSET sources

\* A single MPI_Iprobe may report nothing although `sent' holds.
MayMiss(tag, sent) == ~sent \/ tag \notin PromptTags

-----------------------------------------------------------------------------
(* workreqCheck: answer the work requests *)

Requestors(r) == {s \in Rank : req[s][r] > 0}

\* The orders in which the requests of S can have entered `requestors'.
Arrivals(S) ==
  {f \in [S -> 1 .. Cardinality(S)] : \A a, b \in S : f[a] = f[b] => a = b}

\* sendWork / sendNoWork for every requestor in S: share[d] items go to d
\* (0 is the no-work message), keep items stay.
SendReplies(r, S, keep, share) ==
  /\ req' = [s \in Rank |->
               [req[s] EXCEPT ![r] = IF s \in S THEN @ - 1 ELSE @]]
  /\ reply' = [reply EXCEPT ![r] =
                 [d \in Rank |-> IF d \in S THEN Append(reply[r][d], share[d])
                                            ELSE reply[r][d]]]
  /\ count' = [count EXCEPT ![r] = keep]
  /\ work_outstanding' = [work_outstanding EXCEPT ![r] =
                            @ + Cardinality({d \in S : share[d] > 0})]
  /\ UNCHANGED <<budget, work_requested_rank, receipt>>

\* workreqCheck with nothing to give: empty queue or cleanup phase.
RefuseRequests(r, S) == SendReplies(r, S, count[r], [d \in S |-> 0])

\* workreqCheck with work to give: sendWorkToMany.
ShareQueue(r, S, sizes, order) ==
  SendReplies(r, S, sizes[0], [d \in S |-> sizes[order[d]]])

-----------------------------------------------------------------------------
(* workreceiptCheck: drain the acknowledgements *)

\* The while loop takes receipts from any source until none is outstanding or
\* the probe finds no more; every one it takes decrements work_outstanding.
Takeable(r) == IF receipt[r] < work_outstanding[r] THEN receipt[r]
                                                   ELSE work_outstanding[r]

\* (mutant) work_outstanding is decremented although the probe found nothing.
DrainReceipts_always(r, taken) ==
  /\ receipt' = [receipt EXCEPT ![r] = @ - taken]
  /\ work_outstanding' = [work_outstanding EXCEPT ![r] = @ - 1]
  /\ UNCHANGED <<count, budget, work_requested_rank, req, reply>>

DrainReceipts(r, taken) ==
  /\ taken = Takeable(r) \/ "WORK_RECEIPT" \notin PromptTags
  /\ receipt' = [receipt EXCEPT ![r] = @ - taken]
  /\ work_outstanding' = [work_outstanding EXCEPT ![r] = @ - taken]
  /\ UNCHANGED <<count, budget, work_requested_rank, req, reply>>

-----------------------------------------------------------------------------
(* requestWork: ask for work, or look for the answer *)

\* The reply is there: workReceive.  A positive count overwrites qp->count and
\* is acknowledged; 0 is the no-work message.
ReceiveReply(r) ==
  LET source == work_requested_rank[r]
      items  == Head(reply[source][r])
  IN  /\ source # MPI_PROC_NULL
      /\ reply[source][r] # <<>>
      /\ reply' = [reply EXCEPT ![source][r] = Tail(@)]
      /\ count' = [count EXCEPT ![r] = IF items > 0 THEN items ELSE @]
      /\ receipt' = [receipt EXCEPT ![source] =
                       IF items > 0 THEN @ + 1 ELSE @]
      /\ work_requested_rank' =
           [work_requested_rank EXCEPT ![r] = MPI_PROC_NULL]
      /\ UNCHANGED <<budget, work_outstanding, req>>

\* A request is out and the probe finds no reply to it.
AwaitReply(r) ==
  /\ work_requested_rank[r] # MPI_PROC_NULL
  /\ MayMiss("WORK_REPLY", reply[work_requested_rank[r]][r] # <<>>)
  /\ UNCHANGED sharingVars

\* (mutant) A new request goes out although one is unanswered.
SendRequest_again(r) ==
  /\ \E source \in Rank \ {r} :
       /\ req' = [req EXCEPT ![r][source] = @ + 1]
       /\ work_requested_rank' = [work_requested_rank EXCEPT ![r] = source]
  /\ UNCHANGED <<count, budget, work_outstanding, reply, receipt>>

\* getNextProc: the ranks next_processor is drawn from, any rank but this one;
\* "for a job size of one, we have no one to ask" (comment in getNextProc).
getNextProc(r) == IF Rank = {r} THEN {MPI_PROC_NULL} ELSE Rank \ {r}

\* No request is out: send one to next_processor, if there is one.
SendRequest(r) ==
  /\ work_requested_rank[r] = MPI_PROC_NULL
  /\ \E source \in getNextProc(r) :
       /\ req' = [req EXCEPT ![r] = [d \in Rank |-> IF d = source THEN @[d] + 1
                                                                 ELSE @[d]]]
       /\ work_requested_rank' = [work_requested_rank EXCEPT ![r] = source]
  /\ UNCHANGED <<count, budget, work_outstanding, reply, receipt>>

-----------------------------------------------------------------------------
(* processCallback: user code, external.  It dequeues one item and enqueues
   up to Fanout new ones. *)
ProcessItem(r) ==
  /\ count[r] > 0
  /\ \E new \in 0 .. Fanout :
       /\ new <= budget
       /\ count' = [count EXCEPT ![r] = @ - 1 + new]
       /\ budget' = budget - new
  /\ UNCHANGED <<work_requested_rank, work_outstanding, req, reply, receipt>>

-----------------------------------------------------------------------------
(* State predicates shared by the termination-detection modules *)

\* A reply that carries work is on its way to r.
WorkComing(r) == \E s \in Rank : \E i \in 1 .. Len(reply[s][r]) :
                    reply[s][r][i] > 0

\* Rank r has nothing to do and nothing is coming to it.
Quiet(r) == count[r] = 0 /\ ~WorkComing(r)

AllQuiet == \A r \in Rank : Quiet(r)

=============================================================================
