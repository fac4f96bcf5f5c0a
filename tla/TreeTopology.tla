---------------------------- MODULE TreeTopology ----------------------------
(***************************************************************************)
(* TreeState::TreeState (src/src/tree_state.cpp): the k-ary tree of ranks  *)
(* that the barrier, the reductions, the abort broadcast and the           *)
(* termination allreduce communicate along.  Pure arithmetic: no state.    *)
(***************************************************************************)
EXTENDS Integers

CONSTANTS
  nranks,      \* number of ranks of the communicator, at least 1
  maxChildren  \* Circle::getTreeWidth: children of a full interior rank, >= 1

TreeRank == 0 .. nranks - 1

\* getParentRank: -1 stands for MPI_PROC_NULL.
getParentRank(rank) == IF rank > 0 THEN (rank - 1) \div maxChildren ELSE -1

\* Leftmost and rightmost child a full tree would have.
left(rank)  == rank * maxChildren + 1
right(rank) == rank * maxChildren + maxChildren

\* (mutant) The right end is cut off one rank too late.
getChildrenCount_late(rank) ==
  IF left(rank) < nranks
  THEN (IF right(rank) > nranks THEN nranks ELSE right(rank)) - left(rank) + 1
  ELSE 0

\* getChildrenCount: the right end is cut off at the last rank.
getChildrenCount(rank) ==
  IF left(rank) < nranks
  THEN (IF right(rank) >= nranks THEN nranks - 1 ELSE right(rank))
       - left(rank) + 1
  ELSE 0

\* getChildrenRanks, as an array of getChildrenCount entries.
getChildrenRanks(rank) ==
  [i \in 0 .. getChildrenCount(rank) - 1 |-> left(rank) + i]

\* (mutant) The loop over the children stops one short.
ChildrenRanks_short(rank) ==
  {getChildrenRanks(rank)[i] : i \in 0 .. getChildrenCount(rank) - 2}

ChildrenRanks(rank) ==
  {getChildrenRanks(rank)[i] : i \in 0 .. getChildrenCount(rank) - 1}

-----------------------------------------------------------------------------
\* The two ends of every edge agree: the ranks a rank receives from and sends
\* to as its children are exactly the ranks that take it for their parent.
\* A disagreement would leave a rank of the barrier, the reduction or the
\* allreduce waiting for a message nobody sends.
ParentChildAgree ==
  \A p, c \in TreeRank : c \in ChildrenRanks(p) <=> getParentRank(c) = p

\* The list of children fits the array of maxChildren ranks the constructor
\* allocates, and holds ranks of the communicator only.
ChildrenFit ==
  \A p \in TreeRank :
    /\ getChildrenCount(p) \in 0 .. maxChildren
    /\ ChildrenRanks(p) \subseteq TreeRank \ {0}

\* Parents have smaller ranks than their children, so that every rank is
\* connected to the root and the tree has no cycle.
ParentBelow == \A c \in TreeRank \ {0} : getParentRank(c) \in 0 .. c - 1

\* The communication tree is a tree, on whose edges both ends agree.
CommunicationTree == ParentChildAgree /\ ChildrenFit /\ ParentBelow

=============================================================================
