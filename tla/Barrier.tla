------------------------------ MODULE Barrier ------------------------------
(***************************************************************************)
(* The non-blocking tree barrier that ends the cleanup loop of             *)
(* State::mainLoop: State::barrierStart and State::barrierTest             *)
(* (src/src/state.cpp), over the tree of TreeState.                        *)
(*                                                                         *)
(* A call of barrierTest can take a message from a child, tell the parent  *)
(* and hear from the parent, in this order.  Other ranks run between these *)
(* three parts of a call, so each is a step of its own here, and a call is *)
(* one to three steps; a call that finds nothing to do changes nothing and *)
(* is left out.                                                            *)
(***************************************************************************)
EXTENDS Integers, FiniteSets

CONSTANTS
  N,         \* number of ranks
  TreeWidth, \* Circle::getTreeWidth
  Rounds     \* bound: barriers a rank takes part in

ASSUME BarrierAssumption ==
  N \in Nat \ {0} /\ TreeWidth \in Nat \ {0} /\ Rounds \in Nat

INSTANCE TreeTopology WITH nranks <- N, maxChildren <- TreeWidth

Rank == 0 .. N - 1
MPI_PROC_NULL == -1

VARIABLES
  barrier_started,  \* barrierStart has been called
  barrier_up,       \* the rank has told its parent
  barrier_replies,  \* messages received from children
  msg,              \* msg[s][d]: BARRIER messages on the way s -> d
  passed            \* barriers the rank has left (a history variable)

vars == <<barrier_started, barrier_up, barrier_replies, msg, passed>>

TypeOK ==
  /\ barrier_started \in [Rank -> BOOLEAN]
  /\ barrier_up \in [Rank -> BOOLEAN]
  /\ barrier_replies \in [Rank -> Nat]
  /\ msg \in [Rank -> [Rank -> Nat]]
  /\ passed \in [Rank -> Nat]

Init ==
  /\ barrier_started = [r \in Rank |-> FALSE]
  /\ barrier_up = [r \in Rank |-> FALSE]
  /\ barrier_replies = [r \in Rank |-> 0]
  /\ msg = [s \in Rank |-> [d \in Rank |-> 0]]
  /\ passed = [r \in Rank |-> 0]

-----------------------------------------------------------------------------
\* barrierStart
BarrierStart(r) ==
  /\ passed[r] < Rounds
  /\ ~barrier_started[r]
  /\ barrier_started' = [barrier_started EXCEPT ![r] = TRUE]
  /\ UNCHANGED <<barrier_up, barrier_replies, msg, passed>>

\* barrierTest takes a message while it waits for its children; the probe is
\* for MPI_ANY_SOURCE.
BarrierReply(r) ==
  /\ barrier_started[r]
  /\ barrier_replies[r] < getChildrenCount(r)
  /\ \E s \in Rank :
       /\ msg[s][r] > 0
       /\ msg' = [msg EXCEPT ![s][r] = @ - 1]
  /\ barrier_replies' = [barrier_replies EXCEPT ![r] = @ + 1]
  /\ UNCHANGED <<barrier_started, barrier_up, passed>>

\* (mutant) The rank does not wait for its children.
BarrierUp_early(r) ==
  /\ barrier_started[r]
  /\ ~barrier_up[r]
  /\ barrier_up' = [barrier_up EXCEPT ![r] = TRUE]
  /\ msg' = IF getParentRank(r) # MPI_PROC_NULL
            THEN [msg EXCEPT ![r][getParentRank(r)] = @ + 1] ELSE msg
  /\ UNCHANGED <<barrier_started, barrier_replies, passed>>

\* barrierTest has heard from every child and tells the parent.
BarrierUp(r) ==
  /\ barrier_started[r]
  /\ ~barrier_up[r] /\ barrier_replies[r] = getChildrenCount(r)
  /\ barrier_up' = [barrier_up EXCEPT ![r] = TRUE]
  /\ msg' = IF getParentRank(r) # MPI_PROC_NULL
            THEN [msg EXCEPT ![r][getParentRank(r)] = @ + 1] ELSE msg
  /\ UNCHANGED <<barrier_started, barrier_replies, passed>>

\* The parent has answered; the root needs no answer.
BarrierHeard(r) ==
  getParentRank(r) # MPI_PROC_NULL => msg[getParentRank(r)][r] > 0

\* barrierTest hears from the parent, or is the root: tell the children, and
\* be ready for another barrier.
BarrierDown(r) ==
  LET parent == getParentRank(r)
  IN  /\ barrier_started[r] /\ barrier_up[r]
      /\ BarrierHeard(r)
      /\ msg' = [s \in Rank |-> [d \in Rank |->
                   IF s = parent /\ d = r THEN msg[s][d] - 1
                   ELSE IF s = r /\ d \in ChildrenRanks(r) THEN msg[s][d] + 1
                   ELSE msg[s][d]]]
      /\ barrier_started' = [barrier_started EXCEPT ![r] = FALSE]
      /\ barrier_up' = [barrier_up EXCEPT ![r] = FALSE]
      /\ barrier_replies' = [barrier_replies EXCEPT ![r] = 0]
      /\ passed' = [passed EXCEPT ![r] = @ + 1]

BarrierTest(r) == BarrierReply(r) \/ BarrierUp(r) \/ BarrierDown(r)

\* Every rank has taken part in all the barriers.
Finished == (\A r \in Rank : passed[r] = Rounds) /\ UNCHANGED vars

Next == (\E r \in Rank : BarrierStart(r) \/ BarrierTest(r)) \/ Finished

Spec == Init /\ [][Next]_vars

\* The cleanup loop calls barrierTest over and over, and the probes of MPI
\* find a message that has been sent sooner or later.
FairSpec == Spec /\ \A r \in Rank : WF_vars(BarrierTest(r))

-----------------------------------------------------------------------------
\* The barrier implements its promise: a rank that has started a barrier has
\* entered it, and leaves it when barrierTest returns 1.
Abstract == INSTANCE BarrierSpec
  WITH entered <- [r \in Rank |-> passed[r] + (IF barrier_started[r] THEN 1 ELSE 0)]

BarrierSafe == Abstract!Spec
BarrierLive == Abstract!FairSpec

\* The MPI_ANY_SOURCE probe takes messages from children only, each counted
\* once, although ranks may already be in the next barrier: no message from
\* the parent is there while a rank waits for its children, and every child
\* has either been counted, has a message on the way, or has not told yet.
ReplyMatching ==
  \A r \in Rank :
    /\ \A s \in Rank : msg[s][r] > 0 =>
         /\ msg[s][r] = 1
         /\ \/ s \in ChildrenRanks(r) /\ barrier_up[s]
            \/ s = getParentRank(r) /\ barrier_up[r]
    /\ barrier_replies[r] > 0 => barrier_started[r]

\* The children barrierTest of p has heard from in this barrier: they have
\* told p, and neither their message nor p's answer is under way.
Counted(p) ==
  {c \in ChildrenRanks(p) : barrier_up[c] /\ msg[c][p] = 0 /\ msg[p][c] = 0}

\* The edge between c and its parent is quiet and both are in the same
\* barrier, until c tells the parent; when the parent has answered it is one
\* barrier ahead, until c hears of it.
EdgeOK(c) ==
  LET p == getParentRank(c)
  IN  \/ /\ msg[c][p] = 0 /\ msg[p][c] = 0
         /\ passed[p] = passed[c]
      \/ /\ barrier_up[c]
         /\ msg[c][p] = 1 /\ msg[p][c] = 0
         /\ passed[p] = passed[c]
      \/ /\ barrier_up[c]
         /\ msg[c][p] = 0 /\ msg[p][c] = 1
         /\ passed[p] = passed[c] + 1

\* Every message is on an edge of the tree and belongs to the barrier its two
\* ends are in.
EdgesOK ==
  /\ \A c \in Rank \ {0} : EdgeOK(c)
  /\ \A s, d \in Rank :
       msg[s][d] # 0 => s = getParentRank(d) \/ d = getParentRank(s)

\* barrier_replies counts children of the current barrier, each once; a rank
\* tells its parent when it has heard from all of them.
RepliesOK ==
  \A r \in Rank :
    /\ barrier_replies[r] = Cardinality(Counted(r))
    /\ barrier_replies[r] > 0 => barrier_started[r]
    /\ barrier_up[r] => /\ barrier_started[r]
                        /\ barrier_replies[r] = getChildrenCount(r)

\* No rank has left a barrier that another one has not entered.
NobodyAhead ==
  \A r, s \in Rank :
    passed[r] <= passed[s] + (IF barrier_started[s] THEN 1 ELSE 0)

\* The state every call of barrierTest relies on: types, the messages that can
\* be under way, the count of the children, and which barrier a rank is in.
BarrierOK ==
  TypeOK /\ ReplyMatching /\ EdgesOK /\ RepliesOK /\ NobodyAhead

=============================================================================
