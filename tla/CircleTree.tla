----------------------------- MODULE CircleTree -----------------------------
(***************************************************************************)
(* State::mainLoop with tree termination detection (RuntimeFlags::TermTree *)
(* set), src/src/state.cpp: checkForTermAllReduce.                         *)
(*                                                                         *)
(* The function declares a local variable term_flag, set to 0, after it    *)
(* has combined the flags of the children in the member of that name.      *)
(* What is sent to the parent, returned at the root and sent to the        *)
(* children is the local variable.  The member is kept here too: the       *)
(* handlers write it, and nothing reads it but the AND.                    *)
(***************************************************************************)
EXTENDS MainLoop

CONSTANT TreeWidth   \* Circle::getTreeWidth

INSTANCE TreeTopology WITH nranks <- N, maxChildren <- TreeWidth

ASSUME TreeWidthAssumption == TreeWidth \in Nat \ {0}

Flag == {0, 1}

VARIABLES
  term_flag,     \* member: reset by work receipts, ANDed with the children's
  term_up,       \* the rank has sent its flag to its parent
  term_replies,  \* number of TERM messages received from children
  term           \* term[s][d]: TERM messages on the way s -> d

termVars == <<term_flag, term_up, term_replies, term>>
vars == <<loopVars, termVars>>

TypeOK ==
  /\ LoopTypeOK
  /\ term_flag \in [Rank -> Flag]
  /\ term_up \in [Rank -> BOOLEAN]
  /\ term_replies \in [Rank -> Nat]
  /\ term \in [Rank -> [Rank -> Seq(Flag)]]

Init ==
  /\ LoopInit
  /\ term_flag = [r \in Rank |-> 1]
  /\ term_up = [r \in Rank |-> FALSE]
  /\ term_replies = [r \in Rank |-> 0]
  /\ term = [s \in Rank |-> [d \in Rank |-> <<>>]]

-----------------------------------------------------------------------------
(* checkForTermAllReduce *)

\* The sources the gather loop, which probes MPI_ANY_SOURCE, can have taken a
\* TERM message from when it ends: it stops when the replies are complete or
\* the probe finds nothing more.
Gathers(r) ==
  LET sources == {s \in Rank : term[s][r] # <<>>}
      wanted  == getChildrenCount(r) - term_replies[r]
      full    == IF Cardinality(sources) < wanted THEN Cardinality(sources)
                                                  ELSE wanted
  IN  {T \in SUBSET sources :
         IF "TERM" \in PromptTags THEN Cardinality(T) = full
                                  ELSE Cardinality(T) <= full}

\* Taking one message from every source of T; new[d] holds the messages this
\* handler sends to d.
Exchange(r, T, new) ==
  term' = [s \in Rank |-> [d \in Rank |->
             IF d = r /\ s \in T THEN Tail(term[s][d])
             ELSE IF s = r THEN term[s][d] \o new[d]
             ELSE term[s][d]]]

\* term_flag &= child_flag for every message taken.
CombineFlags(r, T) ==
  term_flag' = [term_flag EXCEPT ![r] =
                  IF \E s \in T : Head(term[s][r]) = 0 THEN 0 ELSE @]

Replied(r, T) == term_replies[r] + Cardinality(T)
Silent        == [d \in Rank |-> <<>>]

\* Replies are gathered, and the allreduce goes no further: a work transfer
\* of this rank is not acknowledged, or a child has not replied.
TermGather(r, T) ==
  /\ work_outstanding[r] > 0 \/ (~term_up[r] /\ Replied(r, T) # getChildrenCount(r))
  /\ Exchange(r, T, Silent)
  /\ CombineFlags(r, T)
  /\ term_replies' = [term_replies EXCEPT ![r] = Replied(r, T)]
  /\ UNCHANGED term_up
  /\ IdleStep(r, FALSE)

\* The last reply is in: the rank sends the local term_flag, 0, to its parent.
\* It then probes for the result in the same call, so it stays at this label:
\* TermReceive and TermAwait are the rest of the function.
TermSendUp(r, T) ==
  /\ pc[r] = "work" /\ count[r] = 0
  /\ work_outstanding[r] = 0
  /\ ~term_up[r] /\ Replied(r, T) = getChildrenCount(r)
  /\ getParentRank(r) # MPI_PROC_NULL
  /\ Exchange(r, T, [Silent EXCEPT ![getParentRank(r)] = <<0>>])
  /\ CombineFlags(r, T)
  /\ term_replies' = [term_replies EXCEPT ![r] = Replied(r, T)]
  /\ term_up' = [term_up EXCEPT ![r] = TRUE]
  /\ UNCHANGED loopVars

\* The allreduce is complete with this flag: tell the children, start afresh.
TermDeliver(r, T, flag) ==
  /\ Exchange(r, T, [d \in Rank |-> IF d \in ChildrenRanks(r) THEN <<flag>>
                                                             ELSE <<>>])
  /\ term_replies' = [term_replies EXCEPT ![r] = 0]
  /\ term_up' = [term_up EXCEPT ![r] = FALSE]
  /\ IdleStep(r, flag = 1)

\* (mutant) The root decides with a work transfer unacknowledged.
TermRootDecide_hasty(r, T) ==
  /\ ~term_up[r] /\ Replied(r, T) = getChildrenCount(r)
  /\ getParentRank(r) = MPI_PROC_NULL
  /\ CombineFlags(r, T)
  /\ TermDeliver(r, T, 1)

\* (mutant) The root decides without waiting for its children.
TermRootDecide_early(r, T) ==
  /\ work_outstanding[r] = 0
  /\ getParentRank(r) = MPI_PROC_NULL
  /\ CombineFlags(r, T)
  /\ TermDeliver(r, T, 1)

\* The last reply is in at the root: the local term_flag, reset to 1, is the
\* result.
TermRootDecide(r, T) ==
  /\ work_outstanding[r] = 0
  /\ ~term_up[r] /\ Replied(r, T) = getChildrenCount(r)
  /\ getParentRank(r) = MPI_PROC_NULL
  /\ CombineFlags(r, T)
  /\ TermDeliver(r, T, 1)

\* (mutant) The result is taken with a work transfer unacknowledged.
TermReceive_hasty(r) ==
  /\ term_up[r] /\ term[getParentRank(r)][r] # <<>>
  /\ TermDeliver(r, {getParentRank(r)}, Head(term[getParentRank(r)][r]))
  /\ UNCHANGED term_flag

\* The rank has sent to its parent and the result is there.
TermReceive(r) ==
  /\ work_outstanding[r] = 0
  /\ term_up[r] /\ term[getParentRank(r)][r] # <<>>
  /\ TermDeliver(r, {getParentRank(r)}, Head(term[getParentRank(r)][r]))
  /\ UNCHANGED term_flag

\* The rank has sent to its parent and sees no result.
TermAwait(r) ==
  /\ work_outstanding[r] = 0
  /\ term_up[r] /\ MayMiss("TERM", term[getParentRank(r)][r] # <<>>)
  /\ IdleStep(r, FALSE)
  /\ UNCHANGED termVars

CheckForTermAllReduce(r) ==
  \/ \E T \in Gathers(r) : \/ TermGather(r, T)
                           \/ TermSendUp(r, T)
                           \/ TermRootDecide(r, T)
  \/ TermReceive(r)
  \/ TermAwait(r)

-----------------------------------------------------------------------------
\* workreceiptCheck: every receipt taken resets the member term_flag.
TreeReceiptCheck(r) ==
  \E taken \in 0 .. Takeable(r) :
    /\ WorkreceiptCheck(r, taken)
    /\ term_flag' = [term_flag EXCEPT ![r] = IF taken > 0 THEN 0 ELSE @]
    /\ UNCHANGED <<term_up, term_replies, term>>

\* The handlers that leave the allreduce alone.
TermlessStep(r) ==
  /\ \/ NoRequest(r)
     \/ RefuseWork(r)
     \/ \E S \in SUBSET Requestors(r) :
          \E sizes \in Splits(SplitEqual, count[r], Cardinality(S)),
             order \in Arrivals(S) :
            ShareWork(r, S, sizes, order)
     \/ RequestWork(r)
     \/ ProcessCallback(r)
     \/ BarrierPending(r, TRUE)
     \/ CleanupWorkreq(r)
     \/ CleanupRequest(r, "barrierTest")
  /\ UNCHANGED termVars

\* The rank leaves mainLoop.
Return(r) == BarrierComplete(r, TRUE) /\ UNCHANGED termVars

Step(r) ==
  \/ TermlessStep(r)
  \/ TreeReceiptCheck(r)
  \/ CheckForTermAllReduce(r)
  \/ Return(r)

\* Every rank has returned from mainLoop.
Finished ==
  /\ \A r \in Rank : pc[r] = "return"
  /\ UNCHANGED vars

Next == (\E r \in Rank : Step(r)) \/ Finished

Spec == Init /\ [][Next]_vars

\* Every rank keeps running (the loops never sleep), and a barrier that every
\* rank has entered completes.
FairSpec ==
  /\ Spec
  /\ \A r \in Rank : WF_vars(Step(r)) /\ SF_vars(Return(r))

-----------------------------------------------------------------------------
(* What the tree adds to the properties of MainLoop *)

\* The MPI_ANY_SOURCE probe of the gather loop only ever takes a child's flag,
\* and a rank is owed at most one message: at most one TERM message is on any
\* edge, and one from the parent comes only to a rank that waits for it.
TermMatching ==
  \A s, d \in Rank :
    term[s][d] # <<>> =>
      /\ Len(term[s][d]) = 1
      /\ \/ s \in ChildrenRanks(d) /\ term_up[s]
         \/ s = getParentRank(d) /\ term_up[d]

\* The state every handler relies on: types, and no reply or flag that can be
\* taken for another one, however late probes find the messages.
MessagesMatch == TypeOK /\ RequestMatching /\ TermMatching

\* "To get here when using the termination allreduce, we can be sure that
\* there is both no outstanding work transfer message for this process nor any
\* additional termination allreduce messages to cleanup" (comment before the
\* cleanup loop): a rank in cleanup has no unacknowledged transfer, and the
\* only TERM message it can be the sender or receiver of is the result on its
\* way to a child.
TermCleanupOK ==
  \A r \in Rank : pc[r] \in Cleanup =>
    /\ work_outstanding[r] = 0 /\ receipt[r] = 0
    /\ \A s \in Rank : term[s][r] = <<>>
    /\ \A d \in Rank \ ChildrenRanks(r) : term[r][d] = <<>>

\* When mainLoop has returned on some rank, no TERM message is left.
TermDrainedAtReturn ==
  (\E r \in Rank : pc[r] = "return") => \A s, d \in Rank : term[s][d] = <<>>

=============================================================================
