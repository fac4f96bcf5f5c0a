--------------------------- MODULE CircleTreeInv ---------------------------
(***************************************************************************)
(* The inductive invariant behind the cleanup of tree termination          *)
(* detection: what CircleTree keeps true at every step, strong enough to   *)
(* imply that nothing is under way when mainLoop returns, for any number   *)
(* of ranks and any width of the tree, however late probes find messages.  *)
(* It says nothing of the work that is left: the run tree_early shows that *)
(* the allreduce can end with work in a queue.                             *)
(***************************************************************************)
EXTENDS CircleTree

\* The rank has left the main loop.
Done(r) == pc[r] \in Cleanup

\* The children whose flag p has taken and not answered.
Gathered(p) ==
  {c \in ChildrenRanks(p) :
     term_up[c] /\ term[c][p] = <<>> /\ term[p][c] = <<>>}

\* The edge between c and its parent is quiet and both are in the same loop;
\* or the flag of c, 0, is on its way up, both being in the main loop; or the
\* result, always 1, is on its way down, the parent having left.
TermEdge(c) ==
  LET p == getParentRank(c)
  IN  \/ /\ term[c][p] = <<>> /\ term[p][c] = <<>>
         /\ Done(c) <=> Done(p)
      \/ /\ term_up[c] /\ term[c][p] = <<0>> /\ term[p][c] = <<>>
         /\ ~Done(c) /\ ~Done(p)
      \/ /\ term_up[c] /\ term[c][p] = <<>> /\ term[p][c] = <<1>>
         /\ ~Done(c) /\ Done(p)

\* TERM messages are on the edges of the tree only.
TermEdges ==
  /\ \A c \in Rank \ {0} : TermEdge(c)
  /\ \A s, d \in Rank :
       term[s][d] # <<>> => s = getParentRank(d) \/ d = getParentRank(s)

\* term_replies counts the children gathered, each once; a rank sends its flag
\* when it has gathered all of them, and the root sends none.
TermCounts ==
  \A r \in Rank :
    /\ term_replies[r] = Cardinality(Gathered(r))
    /\ term_up[r] => /\ r # 0 /\ ~Done(r)
                     /\ term_replies[r] = getChildrenCount(r)

\* A rank leaves the main loop with every transfer acknowledged, enters the
\* barrier with no request unanswered, and returns when all have entered.
TermBarrier ==
  /\ \A r \in Rank : Done(r) => work_outstanding[r] = 0
  /\ \A r \in Rank : barrier_started[r] =>
       Done(r) /\ work_requested_rank[r] = MPI_PROC_NULL
  /\ \A r, s \in Rank : pc[r] = "return" => barrier_started[s]

\* The inductive invariant.
TreeInv ==
  /\ MessagesMatch
  /\ AskOnEmpty
  /\ ReceiptAccounting
  /\ TermEdges
  /\ TermCounts
  /\ TermBarrier

=============================================================================
