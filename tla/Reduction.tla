----------------------------- MODULE Reduction -----------------------------
(***************************************************************************)
(* Reductions of user data along the communication tree                    *)
(* (src/src/state.cpp): State::reduceCheck, which both loops of mainLoop   *)
(* call over and over, and State::reduceSync, which runs once after the    *)
(* cleanup barrier.                                                        *)
(*                                                                         *)
(* Termination detection may tell a rank to leave the main loop at any     *)
(* time: nothing here relies on it being right, other ranks may go on      *)
(* processing, and items may be left over.  That it does tell every rank   *)
(* in the end is AllReturn of CircleRing and CircleTree.  A rank leaves    *)
(* the barrier when all have entered it (Barrier).  A call of reduceCheck  *)
(* that finds no message and has nothing to finish, or is made before the  *)
(* reduction interval is over, changes nothing (Idle); the clock is        *)
(* arbitrary.                                                              *)
(*                                                                         *)
(* The callbacks are external: reduceInitCallback gives a fresh            *)
(* contribution of its rank to Circle::reduce, of at least one byte, and   *)
(* reduceOperationCallback the combination of two buffers.  A buffer is    *)
(* the bag of the contributions in it.  local_reduce_buf is not            *)
(* initialized; it is written before a value of it is used.                *)
(***************************************************************************)
EXTENDS Integers, Sequences, FiniteSets, Bags

CONSTANTS
  MaxRanks,  \* bound: ranks of the communicator
  MaxWidth,  \* bound: Circle::getTreeWidth
  Items,     \* bound: work items of the job, of which some may be left over
  MaxRounds  \* bound: reductions rank 0 starts before the end of the job

ASSUME ReductionAssumption ==
  /\ MaxRanks \in Nat \ {0} /\ MaxWidth \in Nat \ {0}
  /\ Items \in Nat /\ MaxRounds \in Nat

VARIABLES
  nranks, maxChildren,  \* the communicator and the width of its tree
  phase,                \* where the rank is in mainLoop
  unprocessed,          \* items not processed yet, on any rank
  local_objects_processed,
  barrier_started,
  reduce_outstanding,   \* the rank takes part in a reduction
  reduce_replies,       \* children that have replied
  local_valid,          \* local_reduce_buf[0] = MSG_VALID
  local_total,          \* local_reduce_buf[1]
  reduce_buf,           \* the contributions in the user's buffer
  sync_i,               \* reduceSync: children received from
  msg,                  \* msg[s][d]: REDUCE messages on the way s -> d
  rounds,               \* reductions started by rank 0, to bound them
  inits,                \* calls of reduceInitCallback (history)
  result                \* what rank 0 delivered last (history)

INSTANCE TreeTopology

Rank == TreeRank

jobVars    == <<nranks, maxChildren, phase, unprocessed, local_objects_processed,
                barrier_started>>
reduceVars == <<reduce_outstanding, reduce_replies, local_valid, local_total,
                reduce_buf, sync_i, msg, rounds, inits, result>>
vars == <<jobVars, reduceVars>>

Phase == {"main", "cleanup", "sync", "return"}

\* The contribution of the n-th call of reduceInitCallback on rank r.
Contribution(r, n) == SetToBag({<<r, n>>})

\* Messages: the empty one that starts a reduction, the three numbers of a
\* reply (without the byte count) and the user's data.
START               == [kind |-> "start"]
Header(valid, total) == [kind |-> "header", valid |-> valid, total |-> total]
Data(buf)           == [kind |-> "data", buf |-> buf]

Init ==
  /\ nranks \in 1 .. MaxRanks /\ maxChildren \in 1 .. MaxWidth
  /\ phase = [r \in Rank |-> "main"]
  /\ unprocessed = Items
  /\ local_objects_processed = [r \in Rank |-> 0]
  /\ barrier_started = [r \in Rank |-> FALSE]
  /\ reduce_outstanding = [r \in Rank |-> FALSE]
  /\ reduce_replies = [r \in Rank |-> 0]
  /\ local_valid = [r \in Rank |-> FALSE]
  /\ local_total = [r \in Rank |-> 0]
  /\ reduce_buf = [r \in Rank |-> EmptyBag]
  /\ sync_i = [r \in Rank |-> 0]
  /\ msg = [s \in Rank |-> [d \in Rank |-> <<>>]]
  /\ rounds = 0
  /\ inits = [r \in Rank |-> 0]
  /\ result = [buf |-> EmptyBag, total |-> 0]

-----------------------------------------------------------------------------
(* The rest of mainLoop *)

ProcessCallback(r) ==
  /\ phase[r] = "main" /\ unprocessed > 0
  /\ unprocessed' = unprocessed - 1
  /\ local_objects_processed' = [local_objects_processed EXCEPT ![r] = @ + 1]
  /\ UNCHANGED <<nranks, maxChildren, phase, barrier_started, reduceVars>>

\* checkForTerm or checkForTermAllReduce returns TERMINATE.
LeaveMain(r) ==
  /\ phase[r] = "main"
  /\ phase' = [phase EXCEPT ![r] = "cleanup"]
  /\ UNCHANGED <<nranks, maxChildren, unprocessed, local_objects_processed,
                 barrier_started, reduceVars>>

\* The barrier is entered once no reduction is outstanding.
BarrierStart(r) ==
  /\ phase[r] = "cleanup" /\ ~barrier_started[r]
  /\ ~reduce_outstanding[r]
  /\ barrier_started' = [barrier_started EXCEPT ![r] = TRUE]
  /\ UNCHANGED <<nranks, maxChildren, phase, unprocessed, local_objects_processed,
                 reduceVars>>

-----------------------------------------------------------------------------
(* Messages.  taken[s] messages from s are received by r, new[d] are sent to
   d. *)

Exchange(r, taken, new) ==
  msg' = [s \in Rank |-> [d \in Rank |->
            IF d = r THEN SubSeq(msg[s][d], taken[s] + 1, Len(msg[s][d]))
            ELSE IF s = r THEN msg[s][d] \o new[d]
            ELSE msg[s][d]]]

None   == [s \in Rank |-> 0]
Silent == [d \in Rank |-> <<>>]

\* One message from the parent.
FromParent(r) == [s \in Rank |-> IF s = getParentRank(r) THEN 1 ELSE 0]

\* A message to the parent, of rank r; rank 0 has none.
ToParent(r, messages) ==
  [d \in Rank |-> IF d = getParentRank(r) THEN messages ELSE <<>>]

\* (mutant) User data follow an invalid header too.
Reply_always(valid, total, buf) == <<Header(valid, total), Data(buf)>>

\* The reply of reduceCheck: user data follow a valid header only.
Reply(valid, total, buf) ==
  <<Header(valid, total)>> \o (IF valid THEN <<Data(buf)>> ELSE <<>>)

\* The parent has sent a message.
Asked(r) == r # 0 /\ msg[getParentRank(r)][r] # <<>>

-----------------------------------------------------------------------------
(* reduceCheck without a reduction outstanding *)

\* A fresh reduction has no replies.
NoReplies(r) == [reduce_replies EXCEPT ![r] = 0]

\* Take part in a new reduction: rank 0 because it is time, another rank
\* because its parent asks.
ReduceStart(r) ==
  /\ phase[r] = "main" /\ ~reduce_outstanding[r]
  /\ \/ r = 0 /\ rounds < MaxRounds /\ rounds' = rounds + 1
     \/ Asked(r) /\ UNCHANGED rounds
  /\ reduce_outstanding' = [reduce_outstanding EXCEPT ![r] = TRUE]
  /\ reduce_replies' = NoReplies(r)
  /\ local_valid' = [local_valid EXCEPT ![r] = TRUE]
  /\ local_total' = [local_total EXCEPT ![r] = 0]
  /\ inits' = [inits EXCEPT ![r] = @ + 1]
  /\ reduce_buf' = [reduce_buf EXCEPT ![r] = Contribution(r, inits[r] + 1)]
  /\ Exchange(r, FromParent(r),
              [d \in Rank |-> IF d \in ChildrenRanks(r) THEN <<START>> ELSE <<>>])
  /\ UNCHANGED <<jobVars, sync_i, result>>

\* (mutant) The request of the parent is dropped in the cleanup loop.
Refusal_silent(r) == <<>>

\* The reply that there will be no result.
Refusal(r) == <<Header(FALSE, local_total[r])>>

\* In the cleanup loop no reduction is started: the parent gets an invalid
\* reply, and the children are not asked.
ReduceRefuse(r) ==
  /\ phase[r] = "cleanup" /\ ~reduce_outstanding[r]
  /\ Asked(r)
  /\ local_valid' = [local_valid EXCEPT ![r] = FALSE]
  /\ Exchange(r, FromParent(r), ToParent(r, Refusal(r)))
  /\ UNCHANGED <<jobVars, reduce_outstanding, reduce_replies, local_total,
                 reduce_buf, sync_i, rounds, inits, result>>

-----------------------------------------------------------------------------
(* reduceCheck with a reduction outstanding *)

\* The children whose reply a probe can find.
Replied(r) == {c \in ChildrenRanks(r) : msg[c][r] # <<>>}

\* Their replies.
Sender(c, r)   == msg[c][r][1]
SentData(c, r) == msg[c][r][2].buf

\* What the rank has gathered so far: is it valid, the total, the user's data,
\* and the number of replies.
Gathered(r) ==
  [valid |-> local_valid[r], total |-> local_total[r], buf |-> reduce_buf[r],
   replies |-> reduce_replies[r]]

\* The same with the reply of child c.  Data that come after an invalid reply
\* are received, and counted in the total, but not combined.
Combined(r, c) ==
  LET reply == Sender(c, r)
      valid == local_valid[r] /\ reply.valid
  IN  [valid   |-> valid,
       total   |-> local_total[r] + (IF reply.valid THEN reply.total ELSE 0),
       buf     |-> IF valid THEN reduce_buf[r] (+) SentData(c, r)
                            ELSE reduce_buf[r],
       replies |-> reduce_replies[r] + 1]

\* The messages received from child c: header and, if valid, data.
Taken(r, c) == [None EXCEPT ![c] = IF Sender(c, r).valid THEN 2 ELSE 1]

\* `got' is what the rank has gathered now.
Keep(r, got) ==
  /\ reduce_replies' = [reduce_replies EXCEPT ![r] = got.replies]
  /\ local_valid' = [local_valid EXCEPT ![r] = got.valid]
  /\ reduce_buf' = [reduce_buf EXCEPT ![r] = got.buf]

\* Both loops call reduceCheck, and a reduction is outstanding.
Gathers(r) == phase[r] \in {"main", "cleanup"} /\ reduce_outstanding[r]

\* One turn of the loop over the children: the reply of child c is taken, and
\* others are still to come.  A call that takes several is as many turns.
ReduceGather(r) ==
  /\ Gathers(r)
  /\ \E c \in Replied(r) :
       LET got == Combined(r, c)
       IN  /\ got.replies # getChildrenCount(r)
           /\ Keep(r, got)
           /\ local_total' = [local_total EXCEPT ![r] = got.total]
           /\ Exchange(r, Taken(r, c), Silent)
  /\ UNCHANGED <<jobVars, reduce_outstanding, sync_i, rounds, inits, result>>

\* (mutant) Rank 0 delivers whatever it has gathered.
Delivers_any(r, valid) == r = 0

\* Rank 0 calls reduceFinalizeCallback if all contributions are there.
Delivers(r, valid) == r = 0 /\ valid

\* No reply is missing: add this rank's count, pass the result on.
Complete(r, got, taken) ==
  LET total == got.total + local_objects_processed[r]
  IN  /\ got.replies = getChildrenCount(r)
      /\ Keep(r, got)
      /\ local_total' = [local_total EXCEPT ![r] = total]
      /\ Exchange(r, taken, ToParent(r, Reply(got.valid, total, got.buf)))
      /\ result' = IF Delivers(r, got.valid)
                   THEN [buf |-> got.buf, total |-> total] ELSE result

\* The last turn of the loop and what follows it, in one call; a rank without
\* children has none to wait for.
ReduceFinish(r) ==
  /\ Gathers(r)
  /\ \/ Complete(r, Gathered(r), None)
     \/ \E c \in Replied(r) : Complete(r, Combined(r, c), Taken(r, c))
  /\ reduce_outstanding' = [reduce_outstanding EXCEPT ![r] = FALSE]
  /\ UNCHANGED <<jobVars, sync_i, rounds, inits>>

-----------------------------------------------------------------------------
(* reduceSync: blocking, the children in order *)

\* (mutant) The rank's own count is left out.
SyncCount_zero(r) == 0

SyncCount(r) == local_objects_processed[r]

\* The barrier ends for this rank, which enters reduceSync.
SyncStart(r) ==
  /\ phase[r] = "cleanup" /\ \A s \in Rank : barrier_started[s]
  /\ phase' = [phase EXCEPT ![r] = "sync"]
  /\ local_valid' = [local_valid EXCEPT ![r] = TRUE]
  /\ local_total' = [local_total EXCEPT ![r] = SyncCount(r)]
  /\ inits' = [inits EXCEPT ![r] = @ + 1]
  /\ reduce_buf' = [reduce_buf EXCEPT ![r] = Contribution(r, inits[r] + 1)]
  /\ UNCHANGED <<nranks, maxChildren, unprocessed, local_objects_processed,
                 barrier_started, reduce_outstanding, reduce_replies, sync_i,
                 msg, rounds, result>>

\* (mutant) The loop over the children stops one short.
SyncSources_short(r) ==
  {getChildrenRanks(r)[i] : i \in 0 .. getChildrenCount(r) - 2}

\* The children reduceSync receives from.
SyncSources(r) == ChildrenRanks(r)

\* MPI_Recv of the header and the data of the next child.
SyncReceive(r) ==
  LET child == getChildrenRanks(r)[sync_i[r]]
  IN  /\ phase[r] = "sync" /\ sync_i[r] < Cardinality(SyncSources(r))
      /\ Len(msg[child][r]) >= 2
      /\ local_total' = [local_total EXCEPT ![r] = @ + Sender(child, r).total]
      /\ reduce_buf' = [reduce_buf EXCEPT ![r] = @ (+) SentData(child, r)]
      /\ Exchange(r, [None EXCEPT ![child] = 2], Silent)
      /\ sync_i' = [sync_i EXCEPT ![r] = @ + 1]
      /\ UNCHANGED <<jobVars, reduce_outstanding, reduce_replies, local_valid,
                     rounds, inits, result>>

\* All children have been received from: send to the parent or deliver.
SyncFinish(r) ==
  /\ phase[r] = "sync" /\ sync_i[r] = Cardinality(SyncSources(r))
  /\ Exchange(r, None, ToParent(r, <<Header(local_valid[r], local_total[r]),
                                     Data(reduce_buf[r])>>))
  /\ result' = IF r = 0 THEN [buf |-> reduce_buf[r], total |-> local_total[r]]
                        ELSE result
  /\ phase' = [phase EXCEPT ![r] = "return"]
  /\ UNCHANGED <<nranks, maxChildren, unprocessed, local_objects_processed,
                 barrier_started, reduce_outstanding, reduce_replies,
                 local_valid, local_total, reduce_buf, sync_i, rounds, inits>>

-----------------------------------------------------------------------------
ReduceCheck(r) ==
  \/ ReduceStart(r)
  \/ ReduceRefuse(r)
  \/ ReduceGather(r)
  \/ ReduceFinish(r)

ReduceSync(r) == SyncStart(r) \/ SyncReceive(r) \/ SyncFinish(r)

Step(r) ==
  \/ ProcessCallback(r)
  \/ LeaveMain(r)
  \/ BarrierStart(r)
  \/ ReduceCheck(r)
  \/ ReduceSync(r)

\* A turn of one of the two loops that finds nothing to do; they never block,
\* as reduceSync does.
Idle(r) == phase[r] \in {"main", "cleanup"} /\ UNCHANGED vars

\* Every rank has returned.
Finished == (\A r \in Rank : phase[r] = "return") /\ UNCHANGED vars

Next == (\E r \in Rank : Step(r) \/ Idle(r)) \/ Finished

Spec == Init /\ [][Next]_vars

\* Every rank keeps running; a probe finds a message sooner or later.
FairSpec == Spec /\ \A r \in 0 .. MaxRanks - 1 : WF_vars(r \in Rank /\ Step(r))

-----------------------------------------------------------------------------
(* Correctness *)

\* Types; a rank counts no more replies than it has children.
TypeOK ==
  /\ phase \in [Rank -> Phase]
  /\ unprocessed \in 0 .. Items
  /\ reduce_replies \in [Rank -> Nat] /\ sync_i \in [Rank -> Nat]
  /\ \A r \in Rank : /\ reduce_replies[r] <= getChildrenCount(r)
                     /\ sync_i[r] <= getChildrenCount(r)
  /\ \A r \in Rank : IsABag(reduce_buf[r])

\* A reply is never taken for one of another reduction, although they carry
\* no number and one tag serves for requests, replies and the synchronous
\* reduction: on each edge of the tree there is at most one request, to a rank
\* that is free, or one reply, to a rank that waits for it, and a parent never
\* sees data where it expects a header.
ReduceMatching ==
  \A s, d \in Rank :
    msg[s][d] # <<>> =>
      \/ /\ d \in ChildrenRanks(s) /\ msg[s][d] = <<START>>
         /\ reduce_outstanding[s] /\ ~reduce_outstanding[d]
         /\ msg[d][s] = <<>>
      \/ /\ s \in ChildrenRanks(d)
         /\ Sender(s, d).kind = "header"
         /\ Len(msg[s][d]) = IF Sender(s, d).valid THEN 2 ELSE 1
         /\ Sender(s, d).valid => msg[s][d][2].kind = "data"
         /\ ~reduce_outstanding[s]
         /\ reduce_outstanding[d] \/ phase[s] = "return"

\* The state every call of reduceCheck relies on: types, and the messages that
\* can be under way.
ReduceOK == TypeOK /\ ReduceMatching

\* The items that the ranks of S have processed, if rank q has processed
\* counts[q]: the sum of these numbers, as the size of a set.
ItemsOf(counts, S) ==
  Cardinality({qk \in Rank \X (1 .. Items) :
                 qk[1] \in S /\ qk[2] <= counts[qk[1]]})

Processed(S) == ItemsOf(local_objects_processed, S)

\* What rank 0 delivers holds the latest contribution of every rank, each one
\* exactly once, and no older one that was left in a buffer.
ResultComplete ==
  [][result' # result =>
       result'.buf = SetToBag({<<r, inits'[r]>> : r \in Rank})]_vars

\* The number of objects processed that rank 0 reports never goes back.
ProgressMonotone == [][result'.total >= result.total]_vars

\* The last reduction counts every item that was processed, on any rank, also
\* by ranks that were still in the main loop when others had left it, and none
\* is processed after it: "this ensures that we fire at least one reduce and
\* one with the final result" (comment before the call of reduceSync in
\* mainLoop).  Items that nobody has processed are not in it.
FinalResult == phase[0] = "return" => result.total = Processed(Rank)

\* When every rank has returned no message of a reduction is left for the next
\* call of execute.
ReduceDrained ==
  (\A r \in Rank : phase[r] = "return") =>
    \A s, d \in Rank : msg[s][d] = <<>>

\* Reductions do not keep a rank from returning: every request is answered,
\* also by ranks in the cleanup loop, and no MPI_Recv of reduceSync waits for
\* a message that does not come.
AllReturn == <>(\A r \in Rank : phase[r] = "return")

=============================================================================
