---------------------------- MODULE ReductionInv ----------------------------
(***************************************************************************)
(* The inductive invariant behind the reductions: what Reduction keeps     *)
(* true at every step, strong enough to imply that rank 0 delivers         *)
(* complete results, that the numbers it reports never go back and count   *)
(* every processed item in the end, and that nothing is left behind, for   *)
(* any number of ranks and any width of the tree.                          *)
(***************************************************************************)
EXTENDS Reduction

\* Every variable has its type; what the messages are is said edge by edge.
VariablesOK ==
  /\ nranks \in 1 .. MaxRanks /\ maxChildren \in 1 .. MaxWidth
  /\ local_objects_processed \in [Rank -> 0 .. Items]
  /\ barrier_started \in [Rank -> BOOLEAN]
  /\ reduce_outstanding \in [Rank -> BOOLEAN]
  /\ local_valid \in [Rank -> BOOLEAN]
  /\ local_total \in [Rank -> Nat]
  /\ reduce_buf = [r \in Rank |-> reduce_buf[r]]
  /\ msg = [s \in Rank |-> [d \in Rank |-> msg[s][d]]]
  /\ inits \in [Rank -> Nat]
  /\ result.total \in Nat

-----------------------------------------------------------------------------
(* Phases *)

\* A rank enters the barrier in the cleanup loop with no reduction
\* outstanding, and reduceSync when all have entered; sync_i counts the
\* children received from there.
PhasesOK ==
  \A r \in Rank :
    /\ barrier_started[r] => phase[r] # "main" /\ ~reduce_outstanding[r]
    /\ phase[r] \in {"sync", "return"} => \A s \in Rank : barrier_started[s]
    /\ phase[r] \in {"main", "cleanup"} => sync_i[r] = 0
    /\ phase[r] = "return" => sync_i[r] = getChildrenCount(r)
    /\ phase[r] = "sync" => local_valid[r]

-----------------------------------------------------------------------------
(* Messages *)

\* reduceSync of the parent has received from c.
SyncTaken(c) == LET p == getParentRank(c) IN c < left(p) + sync_i[p]

\* An invalid reply is a header alone, a valid one a header and data.
InvalidReply(m) == m = <<Header(FALSE, m[1].total)>> /\ m[1].total \in Nat
ValidReply(m) ==
  m = <<Header(TRUE, m[1].total), Data(m[2].buf)>> /\ m[1].total \in Nat

\* The edge between c and its parent is quiet, and c takes part in a reduction
\* only if the parent does; or c has been asked and has not looked; or its
\* reply is on the way; or its result of reduceSync.
ReduceEdge(c) ==
  LET p == getParentRank(c)
  IN  \/ /\ msg[p][c] = <<>> /\ msg[c][p] = <<>>
         /\ reduce_outstanding[c] => reduce_outstanding[p]
         /\ phase[c] = "return" <=> SyncTaken(c)
      \/ /\ msg[p][c] = <<START>> /\ msg[c][p] = <<>>
         /\ reduce_outstanding[p] /\ ~reduce_outstanding[c]
      \/ /\ msg[p][c] = <<>>
         /\ InvalidReply(msg[c][p]) \/ ValidReply(msg[c][p])
         /\ reduce_outstanding[p] /\ ~reduce_outstanding[c]
      \/ /\ msg[p][c] = <<>> /\ ValidReply(msg[c][p])
         /\ phase[c] = "return" /\ ~SyncTaken(c)

\* Messages are on the edges of the tree only.
ReduceEdges ==
  /\ \A c \in Rank \ {0} : ReduceEdge(c)
  /\ \A s, d \in Rank :
       msg[s][d] # <<>> => s = getParentRank(d) \/ d = getParentRank(s)

\* The children whose contribution the rank has: in reduceSync the first
\* sync_i ones, before those that have been asked and have replied.
Heard(r) ==
  {c \in ChildrenRanks(r) :
     IF phase[r] \in {"main", "cleanup"}
     THEN ~reduce_outstanding[c] /\ msg[c][r] = <<>> /\ msg[r][c] = <<>>
     ELSE SyncTaken(c)}

\* reduce_replies counts them, each once.
RepliesCounted ==
  \A r \in Rank :
    reduce_outstanding[r] => reduce_replies[r] = Cardinality(Heard(r))

-----------------------------------------------------------------------------
(* Contributions *)

\* The ranks of the subtree of r: those in every set that holds r and, with a
\* rank, its children.
Below(r) ==
  {q \in Rank :
     \A S \in SUBSET Rank :
       r \in S /\ (\A x \in S : ChildrenRanks(x) \subseteq S) => q \in S}

\* The ranks whose contributions r has combined.
Covered(r) == {r} \cup UNION {Below(c) : c \in Heard(r)}

\* The latest contribution of each rank of S, once.
Latest(S) == SetToBag({<<q, inits[q]>> : q \in S})

\* The rank combines contributions, and none is missing so far.
Combining(r) == (reduce_outstanding[r] /\ local_valid[r]) \/ phase[r] = "sync"

\* A valid reply of c is on its way to the parent.
Replying(c) == Len(msg[c][getParentRank(c)]) = 2

\* Buffers and valid replies hold the latest contributions of a part of the
\* tree, each once.
BuffersOK ==
  /\ \A r \in Rank : Combining(r) => reduce_buf[r] = Latest(Covered(r))
  /\ \A c \in Rank \ {0} :
       Replying(c) => SentData(c, getParentRank(c)) = Latest(Below(c))

-----------------------------------------------------------------------------
(* Totals *)

\* Every item is unprocessed or counted by one rank.
ItemsConserved == Processed(Rank) + unprocessed = Items

\* reported[q] are items q had processed when the result that rank 0 delivered
\* last was gathered.  What is gathered now counts at least those, and none
\* that has not been processed.
TotalsAbove(reported) ==
  /\ \A q \in Rank : reported[q] <= local_objects_processed[q]
  /\ result.total <= ItemsOf(reported, Rank)
  /\ \A r \in Rank : reduce_outstanding[r] /\ local_valid[r] =>
       /\ ItemsOf(reported, Covered(r) \ {r}) <= local_total[r]
       /\ local_total[r] <= Processed(Covered(r) \ {r})
  /\ \A c \in Rank \ {0} : Replying(c) =>
       /\ ItemsOf(reported, Below(c)) <= Sender(c, getParentRank(c)).total
       /\ Sender(c, getParentRank(c)).total <= Processed(Below(c))

TotalsOK == \E reported \in [Rank -> 0 .. Items] : TotalsAbove(reported)

\* reduceSync counts every processed item: nobody processes one any more.
SyncTotals ==
  /\ \A r \in Rank : phase[r] = "sync" => local_total[r] = Processed(Covered(r))
  /\ \A c \in Rank \ {0} : phase[c] = "return" /\ Replying(c) =>
       Sender(c, getParentRank(c)).total = Processed(Below(c))
  /\ FinalResult

-----------------------------------------------------------------------------
\* The inductive invariant.
ReduceInv ==
  /\ ReduceOK
  /\ VariablesOK
  /\ PhasesOK
  /\ ReduceEdges
  /\ RepliesCounted
  /\ BuffersOK
  /\ ItemsConserved
  /\ TotalsOK
  /\ SyncTotals

=============================================================================
