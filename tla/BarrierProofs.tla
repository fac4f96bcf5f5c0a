--------------------------- MODULE BarrierProofs ---------------------------
(***************************************************************************)
(* The tree barrier of the cleanup loop is a barrier, for any number of    *)
(* ranks, any width of the tree and any number of barriers one after the   *)
(* other.                                                                  *)
(***************************************************************************)
EXTENDS Barrier, FiniteSetTheorems, WellFoundedInduction, TLAPS

Tree == INSTANCE TreeTopologyProofs WITH nranks <- N, maxChildren <- TreeWidth

\* What the proofs use of the tree: who is whose parent and child, and how
\* many children there are.
LEMMA TreeEdges ==
  /\ 0 \in Rank /\ getParentRank(0) = MPI_PROC_NULL /\ MPI_PROC_NULL \notin Rank
  /\ \A c \in Rank \ {0} : getParentRank(c) \in Rank /\ getParentRank(c) < c
  /\ \A p, c \in Rank : c \in ChildrenRanks(p) <=> getParentRank(c) = p
  /\ \A p \in Rank : /\ ChildrenRanks(p) \subseteq Rank \ {0}
                     /\ IsFiniteSet(ChildrenRanks(p))
                     /\ Cardinality(ChildrenRanks(p)) = getChildrenCount(p)
                     /\ getChildrenCount(p) \in Nat
  <1>1. /\ Tree!TreeRank = Rank
        /\ \A r : Tree!getParentRank(r) = getParentRank(r)
        /\ \A r : Tree!ChildrenRanks(r) = ChildrenRanks(r)
        /\ \A r : Tree!getChildrenCount(r) = getChildrenCount(r)
    BY DEF Tree!TreeRank, Rank, Tree!getParentRank, getParentRank,
           Tree!ChildrenRanks, ChildrenRanks, Tree!getChildrenRanks,
           getChildrenRanks, Tree!getChildrenCount, getChildrenCount,
           Tree!left, left, Tree!right, right
  <1>2. N \in Nat \ {0} /\ TreeWidth \in Nat \ {0}
    BY BarrierAssumption
  <1>3. 0 \in Rank /\ getParentRank(0) = MPI_PROC_NULL /\ MPI_PROC_NULL \notin Rank
    BY <1>2 DEF Rank, getParentRank, MPI_PROC_NULL
  <1>4. Tree!CommunicationTree
    BY <1>2, Tree!TreeIsATree
  <1>5. /\ \A c \in Rank \ {0} : getParentRank(c) \in 0 .. c - 1
        /\ \A p, c \in Rank : c \in ChildrenRanks(p) <=> getParentRank(c) = p
        /\ \A p \in Rank : /\ ChildrenRanks(p) \subseteq Rank \ {0}
                           /\ getChildrenCount(p) \in 0 .. TreeWidth
    BY <1>1, <1>4 DEF Tree!CommunicationTree, Tree!ParentChildAgree,
                      Tree!ChildrenFit, Tree!ParentBelow
  <1>6. \A p \in Rank : /\ IsFiniteSet(ChildrenRanks(p))
                        /\ Cardinality(ChildrenRanks(p)) = getChildrenCount(p)
    <2>. SUFFICES ASSUME NEW p \in Rank
                  PROVE  /\ IsFiniteSet(ChildrenRanks(p))
                         /\ Cardinality(ChildrenRanks(p)) = getChildrenCount(p)
      OBVIOUS
    <2>. DEFINE a == Tree!left(p)
                n == getChildrenCount(p)
    <2>1. a \in Int /\ n \in Nat /\ ChildrenRanks(p) = a .. a + n - 1
      BY <1>1, <1>2, Tree!ChildrenInterval
    <2>. HIDE DEF a, n
    <2>2. /\ IsFiniteSet(a .. a + n - 1)
          /\ Cardinality(a .. a + n - 1) =
               IF a > a + n - 1 THEN 0 ELSE a + n - 1 - a + 1
      BY <2>1, FS_Interval
    <2>3. Cardinality(a .. a + n - 1) = n
      BY <2>1, <2>2
    <2>. QED
      BY <2>1, <2>2, <2>3 DEF n
  <1>7. \A c \in Rank \ {0} : getParentRank(c) \in Rank /\ getParentRank(c) < c
    BY <1>2, <1>5 DEF Rank
  <1>. QED
    BY <1>3, <1>5, <1>6, <1>7

-----------------------------------------------------------------------------
\* The inductive part of BarrierOK; ReplyMatching follows from it.
BarrierInv == TypeOK /\ EdgesOK /\ RepliesOK /\ NobodyAhead

\* A message is one of a child that has told, or the parent's answer to a rank
\* that has told.
LEMMA MatchingFromEdges == BarrierInv => ReplyMatching
  <1>. SUFFICES ASSUME BarrierInv, NEW r \in Rank, NEW s \in Rank, msg[s][r] > 0
                PROVE  /\ msg[s][r] = 1
                       /\ \/ s \in ChildrenRanks(r) /\ barrier_up[s]
                          \/ s = getParentRank(r) /\ barrier_up[r]
    BY DEF BarrierInv, RepliesOK, ReplyMatching
  <1>1. s = getParentRank(r) \/ r = getParentRank(s)
    BY DEF BarrierInv, TypeOK, EdgesOK
  <1>2. CASE s = getParentRank(r)
    <2>1. r \in Rank \ {0} /\ EdgeOK(r)
      BY <1>2, TreeEdges DEF BarrierInv, EdgesOK
    <2>. QED
      BY <1>2, <2>1 DEF EdgeOK
  <1>3. CASE r = getParentRank(s)
    <2>1. s \in Rank \ {0} /\ EdgeOK(s) /\ s \in ChildrenRanks(r)
      BY <1>3, TreeEdges DEF BarrierInv, EdgesOK
    <2>. QED
      BY <1>3, <2>1 DEF EdgeOK
  <1>. QED
    BY <1>1, <1>2, <1>3

\* The counted children of a rank are finitely many children.
LEMMA CountedChildren ==
  ASSUME NEW p \in Rank
  PROVE  /\ Counted(p) \subseteq ChildrenRanks(p)
         /\ IsFiniteSet(Counted(p))
         /\ Cardinality(Counted(p)) \in Nat
  <1>1. Counted(p) \in SUBSET ChildrenRanks(p)
    BY DEF Counted
  <1>2. IsFiniteSet(Counted(p))
    BY <1>1, TreeEdges, FS_Subset
  <1>. QED
    BY <1>1, <1>2, FS_CardinalityType

\* A rank that has told its parent has heard from every child, and no child
\* has had its answer.
LEMMA AllCounted ==
  ASSUME BarrierInv, NEW p \in Rank, barrier_up[p], NEW c \in ChildrenRanks(p)
  PROVE  /\ c \in Rank \ {0} /\ getParentRank(c) = p
         /\ barrier_up[c] /\ msg[c][p] = 0 /\ msg[p][c] = 0
         /\ passed[c] = passed[p]
  <1>1. Cardinality(ChildrenRanks(p)) = Cardinality(Counted(p))
    BY TreeEdges DEF BarrierInv, RepliesOK
  <1>2. ChildrenRanks(p) = Counted(p)
    BY <1>1, CountedChildren, TreeEdges, FS_Subset
  <1>3. barrier_up[c] /\ msg[c][p] = 0 /\ msg[p][c] = 0
    BY <1>2 DEF Counted
  <1>4. c \in Rank \ {0} /\ getParentRank(c) = p
    BY TreeEdges
  <1>5. EdgeOK(c)
    BY <1>4 DEF BarrierInv, EdgesOK
  <1>. QED
    BY <1>3, <1>4, <1>5 DEF EdgeOK

\* When the root has heard from its children every rank has told its parent
\* and is in the same barrier: the smallest rank of which this is wrong would
\* have a parent of which it is wrong too.
LEMMA RootHeardAll ==
  ASSUME BarrierInv, barrier_up[0], NEW s \in Rank
  PROVE  barrier_up[s] /\ passed[s] = passed[0]
  <1>. DEFINE Wrong == {x \in Rank : ~(barrier_up[x] /\ passed[x] = passed[0])}
  <1>1. SUFFICES ASSUME Wrong # {} PROVE FALSE
    OBVIOUS
  <1>2. Wrong \subseteq Nat
    BY BarrierAssumption DEF Rank
  <1>3. PICK x \in Wrong : \A y \in Wrong : ~ (<<y, x>> \in OpToRel(<, Nat))
    <2>. HIDE DEF Wrong
    <2>. QED
      BY <1>1, <1>2, WFMin, NatLessThanWellFounded
  <1>4. x \in Rank \ {0} /\ 0 \in Rank
    BY TreeEdges
  <1>. DEFINE p == getParentRank(x)
  <1>5. p \in Rank /\ p < x /\ x \in ChildrenRanks(p)
    BY <1>4, TreeEdges
  <1>6. p \notin Wrong
    <2>1. p \in Nat /\ x \in Nat
      BY <1>4, <1>5, BarrierAssumption DEF Rank
    <2>2. p < x => <<p, x>> \in OpToRel(<, Nat)
      BY <2>1 DEF OpToRel
    <2>. QED
      BY <1>3, <1>5, <2>2
  <1>7. barrier_up[p] /\ passed[p] = passed[0]
    BY <1>5, <1>6
  <1>8. barrier_up[x] /\ passed[x] = passed[p]
    BY <1>5, <1>7, AllCounted
  <1>. QED
    BY <1>3, <1>7, <1>8

\* A rank whose barrierTest returns 1 leaves a barrier every rank has entered.
LEMMA LeaveOK ==
  ASSUME BarrierInv, NEW r \in Rank, barrier_up[r], BarrierHeard(r), NEW s \in Rank
  PROVE  passed[r] + 1 <= passed[s] + (IF barrier_started[s] THEN 1 ELSE 0)
  <1>1. passed[r] \in Nat /\ passed[s] \in Nat
    BY DEF BarrierInv, TypeOK
  <1>2. CASE r = 0
    <2>1. barrier_up[s] /\ passed[s] = passed[0]
      BY <1>2, RootHeardAll
    <2>2. barrier_started[s]
      BY <2>1 DEF BarrierInv, RepliesOK
    <2>. QED
      BY <1>1, <1>2, <2>1, <2>2
  <1>3. CASE r # 0
    <2>. DEFINE p == getParentRank(r)
    <2>1. r \in Rank \ {0} /\ p \in Rank /\ p # MPI_PROC_NULL
      BY <1>3, TreeEdges
    <2>2. EdgeOK(r) /\ msg[p][r] > 0
      BY <2>1 DEF BarrierInv, EdgesOK, BarrierHeard
    <2>3. passed[p] = passed[r] + 1
      BY <2>2 DEF EdgeOK
    <2>4. passed[p] <= passed[s] + (IF barrier_started[s] THEN 1 ELSE 0)
      BY <2>1 DEF BarrierInv, NobodyAhead
    <2>. QED
      BY <2>3, <2>4
  <1>. QED
    BY <1>2, <1>3

-----------------------------------------------------------------------------
\* In the initial state all is quiet and nobody has left a barrier.
LEMMA InitOK == Init => BarrierInv
  <1>. SUFFICES ASSUME Init PROVE BarrierInv
    OBVIOUS
  <1>1. TypeOK
    BY DEF Init, TypeOK
  <1>2. EdgesOK
    BY TreeEdges DEF Init, EdgesOK, EdgeOK
  <1>3. \A r \in Rank : Counted(r) = {}
    BY TreeEdges DEF Init, Counted
  <1>4. RepliesOK
    BY <1>3, FS_EmptySet DEF Init, RepliesOK
  <1>5. NobodyAhead
    BY DEF Init, NobodyAhead
  <1>. QED
    BY <1>1, <1>2, <1>4, <1>5 DEF BarrierInv

\* barrierStart.
LEMMA StartOK ==
  ASSUME BarrierInv, NEW r \in Rank, BarrierStart(r)
  PROVE  BarrierInv'
  <1>1. TypeOK'
    BY DEF BarrierInv, BarrierStart, TypeOK
  <1>2. EdgesOK'
    BY DEF BarrierInv, BarrierStart, EdgesOK, EdgeOK
  <1>3. \A q \in Rank : Counted(q)' = Counted(q)
    BY DEF BarrierStart, Counted
  <1>4. \A q \in Rank : barrier_started[q] => barrier_started'[q]
    BY DEF BarrierInv, TypeOK, BarrierStart
  <1>5. RepliesOK'
    BY <1>3, <1>4 DEF BarrierInv, BarrierStart, RepliesOK
  <1>6. NobodyAhead'
    BY <1>4 DEF BarrierInv, TypeOK, BarrierStart, NobodyAhead
  <1>. QED
    BY <1>1, <1>2, <1>5, <1>6 DEF BarrierInv

\* barrierTest takes a message: it is one of a child that has not been counted.
LEMMA ReplyOK ==
  ASSUME BarrierInv, NEW r \in Rank, BarrierReply(r)
  PROVE  BarrierInv'
  <1>1. PICK s \in Rank : /\ msg[s][r] > 0
                          /\ msg' = [msg EXCEPT ![s][r] = @ - 1]
    BY DEF BarrierReply
  <1>2. /\ barrier_started[r]
        /\ barrier_replies[r] < getChildrenCount(r)
        /\ barrier_replies' = [barrier_replies EXCEPT ![r] = @ + 1]
        /\ UNCHANGED <<barrier_started, barrier_up, passed>>
    BY DEF BarrierReply
  <1>3. TypeOK
    BY DEF BarrierInv
  <1>4. s \in ChildrenRanks(r) /\ barrier_up[s] /\ msg[s][r] = 1
    <2>1. ~barrier_up[r]
      BY <1>2, <1>3, TreeEdges DEF BarrierInv, RepliesOK, TypeOK
    <2>. QED
      BY <1>1, <2>1, MatchingFromEdges DEF ReplyMatching
  <1>5. s \in Rank \ {0} /\ getParentRank(s) = r /\ s # r /\ EdgeOK(s)
    <2>1. s \in Rank \ {0} /\ getParentRank(s) = r /\ r < s
      BY <1>4, TreeEdges
    <2>. QED
      BY <2>1 DEF BarrierInv, EdgesOK, Rank
  <1>6. msg[r][s] = 0 /\ passed[r] = passed[s]
    BY <1>4, <1>5 DEF EdgeOK
  <1>7. /\ msg'[s][r] = 0
        /\ \A x, y \in Rank : ~(x = s /\ y = r) => msg'[x][y] = msg[x][y]
    BY <1>1, <1>3, <1>4 DEF TypeOK
  <1>8. TypeOK'
    BY <1>1, <1>2, <1>3 DEF TypeOK
  <1>9. EdgesOK'
    <2>1. ASSUME NEW c \in Rank \ {0} PROVE EdgeOK(c)'
      <3>1. CASE c = s
        BY <1>2, <1>4, <1>5, <1>6, <1>7, <3>1 DEF EdgeOK
      <3>2. CASE c # s
        <4>1. getParentRank(c) \in Rank /\ EdgeOK(c)
          BY TreeEdges DEF BarrierInv, EdgesOK
        <4>2. ~(getParentRank(c) = s /\ c = r)
          BY <1>5, TreeEdges DEF Rank
        <4>3. /\ msg'[c][getParentRank(c)] = msg[c][getParentRank(c)]
              /\ msg'[getParentRank(c)][c] = msg[getParentRank(c)][c]
          BY <1>7, <3>2, <4>1, <4>2
        <4>. QED
          BY <1>2, <4>1, <4>3 DEF EdgeOK
      <3>. QED
        BY <3>1, <3>2
    <2>2. \A x, y \in Rank :
            msg'[x][y] # 0 => x = getParentRank(y) \/ y = getParentRank(x)
      BY <1>7 DEF BarrierInv, EdgesOK
    <2>. QED
      BY <2>1, <2>2 DEF EdgesOK
  <1>10. Counted(r)' = Counted(r) \cup {s} /\ s \notin Counted(r)
    <2>1. \A c \in ChildrenRanks(r) :
            /\ c \in Rank /\ c # r
            /\ msg'[c][r] = IF c = s THEN 0 ELSE msg[c][r]
            /\ msg'[r][c] = msg[r][c]
      BY <1>5, <1>7, TreeEdges DEF Rank
    <2>. QED
      BY <1>2, <1>4, <1>6, <2>1 DEF Counted
  <1>11. ASSUME NEW q \in Rank, q # r PROVE Counted(q)' = Counted(q)
    <2>1. \A c \in ChildrenRanks(q) :
            c \in Rank /\ getParentRank(c) = q /\ getParentRank(c) < c
      BY TreeEdges
    <2>2. \A c \in ChildrenRanks(q) : ~(c = s /\ q = r) /\ ~(q = s /\ c = r)
      BY <1>5, <1>11, <2>1, TreeEdges DEF Rank
    <2>3. \A c \in ChildrenRanks(q) :
            msg'[c][q] = msg[c][q] /\ msg'[q][c] = msg[q][c]
      BY <1>7, <2>1, <2>2
    <2>. QED
      BY <1>2, <2>3 DEF Counted
  <1>12. RepliesOK'
    <2>1. Cardinality(Counted(r)') = Cardinality(Counted(r)) + 1
      BY <1>10, CountedChildren, FS_AddElement
    <2>2. ~barrier_up[r]
      BY <1>2, <1>3, TreeEdges DEF BarrierInv, RepliesOK, TypeOK
    <2>3. \A q \in Rank : barrier_replies'[q] =
            IF q = r THEN barrier_replies[q] + 1 ELSE barrier_replies[q]
      BY <1>2, <1>3 DEF TypeOK
    <2>. QED
      BY <1>2, <1>11, <2>1, <2>2, <2>3 DEF BarrierInv, RepliesOK
  <1>13. NobodyAhead'
    BY <1>2 DEF BarrierInv, NobodyAhead
  <1>. QED
    BY <1>8, <1>9, <1>12, <1>13 DEF BarrierInv

\* barrierTest tells the parent.
LEMMA UpOK ==
  ASSUME BarrierInv, NEW r \in Rank, BarrierUp(r)
  PROVE  BarrierInv'
  <1>. DEFINE p == getParentRank(r)
  <1>1. /\ barrier_started[r] /\ ~barrier_up[r]
        /\ barrier_replies[r] = getChildrenCount(r)
        /\ barrier_up' = [barrier_up EXCEPT ![r] = TRUE]
        /\ msg' = IF p # MPI_PROC_NULL THEN [msg EXCEPT ![r][p] = @ + 1] ELSE msg
        /\ UNCHANGED <<barrier_started, barrier_replies, passed>>
    BY DEF BarrierUp
  <1>2. TypeOK
    BY DEF BarrierInv
  <1>3. p # MPI_PROC_NULL <=> r # 0
    BY TreeEdges
  <1>4. r # 0 => /\ p \in Rank /\ p # r /\ msg[r][p] = 0 /\ msg[p][r] = 0
                 /\ passed[p] = passed[r]
    <2>1. r # 0 => p \in Rank /\ p < r /\ EdgeOK(r)
      BY TreeEdges DEF BarrierInv, EdgesOK
    <2>. QED
      BY <1>1, <2>1 DEF EdgeOK, Rank
  <1>5. \A x, y \in Rank :
          msg'[x][y] = IF r # 0 /\ x = r /\ y = p THEN 1 ELSE msg[x][y]
    BY <1>1, <1>2, <1>3, <1>4 DEF TypeOK
  <1>6. \A x \in Rank : barrier_up'[x] = IF x = r THEN TRUE ELSE barrier_up[x]
    BY <1>1, <1>2 DEF TypeOK
  <1>7. TypeOK'
    <2>1. msg' \in [Rank -> [Rank -> Nat]]
      BY <1>1, <1>2, <1>3, <1>4 DEF TypeOK
    <2>. QED
      BY <1>1, <1>2, <2>1 DEF TypeOK
  <1>8. EdgesOK'
    <2>1. ASSUME NEW c \in Rank \ {0} PROVE EdgeOK(c)'
      <3>1. CASE c = r
        <4>1. p \in Rank /\ p # r /\ barrier_up'[r]
          BY <1>4, <1>6, <3>1
        <4>2. msg'[r][p] = 1 /\ msg'[p][r] = 0 /\ passed'[p] = passed'[r]
          BY <1>1, <1>4, <1>5, <3>1, <4>1
        <4>. QED
          BY <3>1, <4>1, <4>2 DEF EdgeOK
      <3>2. CASE c # r
        <4>1. getParentRank(c) \in Rank /\ getParentRank(c) < c /\ EdgeOK(c)
          BY TreeEdges DEF BarrierInv, EdgesOK
        <4>2. ~(r # 0 /\ getParentRank(c) = r /\ c = p)
          BY <4>1, TreeEdges DEF Rank
        <4>3. /\ msg'[c][getParentRank(c)] = msg[c][getParentRank(c)]
              /\ msg'[getParentRank(c)][c] = msg[getParentRank(c)][c]
          BY <1>5, <3>2, <4>1, <4>2
        <4>. QED
          BY <1>1, <1>6, <3>2, <4>1, <4>3 DEF EdgeOK
      <3>. QED
        BY <3>1, <3>2
    <2>2. \A x, y \in Rank :
            msg'[x][y] # 0 => x = getParentRank(y) \/ y = getParentRank(x)
      BY <1>5 DEF BarrierInv, EdgesOK
    <2>. QED
      BY <2>1, <2>2 DEF EdgesOK
  <1>9. ASSUME NEW q \in Rank PROVE Counted(q)' = Counted(q)
    <2>1. ASSUME NEW c \in ChildrenRanks(q)
          PROVE  barrier_up'[c] /\ msg'[c][q] = 0 /\ msg'[q][c] = 0
                   <=> barrier_up[c] /\ msg[c][q] = 0 /\ msg[q][c] = 0
      <3>1. c \in Rank \ {0} /\ getParentRank(c) = q /\ q < c
        BY TreeEdges
      <3>2. CASE c = r
        BY <1>1, <1>5, <3>1, <3>2
      <3>3. CASE c # r
        <4>1. ~(r # 0 /\ q = r /\ c = p)
          BY <3>1, TreeEdges DEF Rank
        <4>. QED
          BY <1>5, <1>6, <3>1, <3>3, <4>1
      <3>. QED
        BY <3>2, <3>3
    <2>. QED
      BY <2>1 DEF Counted
  <1>10. RepliesOK'
    BY <1>1, <1>6, <1>9 DEF BarrierInv, RepliesOK
  <1>11. NobodyAhead'
    BY <1>1 DEF BarrierInv, NobodyAhead
  <1>. QED
    BY <1>7, <1>8, <1>10, <1>11 DEF BarrierInv

\* barrierTest returns 1: the children, who all wait for it, are told.
LEMMA DownOK ==
  ASSUME BarrierInv, NEW r \in Rank, BarrierDown(r)
  PROVE  BarrierInv'
  <1>. DEFINE p == getParentRank(r)
  <1>1. /\ barrier_started[r] /\ barrier_up[r] /\ BarrierHeard(r)
        /\ msg' = [s \in Rank |-> [d \in Rank |->
                     IF s = p /\ d = r THEN msg[s][d] - 1
                     ELSE IF s = r /\ d \in ChildrenRanks(r) THEN msg[s][d] + 1
                     ELSE msg[s][d]]]
        /\ barrier_started' = [barrier_started EXCEPT ![r] = FALSE]
        /\ barrier_up' = [barrier_up EXCEPT ![r] = FALSE]
        /\ barrier_replies' = [barrier_replies EXCEPT ![r] = 0]
        /\ passed' = [passed EXCEPT ![r] = @ + 1]
    BY DEF BarrierDown
  <1>2. TypeOK
    BY DEF BarrierInv
  <1>3. r # 0 => /\ p \in Rank /\ p < r /\ msg[r][p] = 0 /\ msg[p][r] = 1
                 /\ passed[p] = passed[r] + 1
    <2>1. r # 0 => p \in Rank /\ p < r /\ p # MPI_PROC_NULL /\ EdgeOK(r)
      BY TreeEdges DEF BarrierInv, EdgesOK
    <2>2. r # 0 => msg[p][r] > 0
      BY <1>1, <2>1 DEF BarrierHeard
    <2>. QED
      BY <2>1, <2>2 DEF EdgeOK
  <1>4. r = 0 => p \notin Rank
    BY TreeEdges
  <1>5. \A x, y \in Rank :
          msg'[x][y] = IF x = p /\ y = r THEN 0
                       ELSE IF x = r /\ y \in ChildrenRanks(r) THEN 1
                       ELSE msg[x][y]
    <2>. SUFFICES ASSUME NEW x \in Rank, NEW y \in Rank
                  PROVE  msg'[x][y] = IF x = p /\ y = r THEN 0
                                      ELSE IF x = r /\ y \in ChildrenRanks(r)
                                      THEN 1 ELSE msg[x][y]
      OBVIOUS
    <2>1. msg'[x][y] = IF x = p /\ y = r THEN msg[x][y] - 1
                       ELSE IF x = r /\ y \in ChildrenRanks(r) THEN msg[x][y] + 1
                       ELSE msg[x][y]
      BY <1>1
    <2>2. x = p /\ y = r => msg[x][y] = 1
      BY <1>3, <1>4
    <2>3. x = r /\ y \in ChildrenRanks(r) => msg[x][y] = 0
      BY <1>1, AllCounted
    <2>. QED
      BY <2>1, <2>2, <2>3
  <1>6. /\ \A x \in Rank :
             barrier_started'[x] = IF x = r THEN FALSE ELSE barrier_started[x]
        /\ \A x \in Rank : barrier_up'[x] = IF x = r THEN FALSE ELSE barrier_up[x]
        /\ \A x \in Rank :
             barrier_replies'[x] = IF x = r THEN 0 ELSE barrier_replies[x]
        /\ \A x \in Rank : passed'[x] = IF x = r THEN passed[x] + 1 ELSE passed[x]
    BY <1>1, <1>2 DEF TypeOK
  <1>7. TypeOK'
    <2>1. \A x, y \in Rank : msg'[x][y] \in Nat
      BY <1>2, <1>5 DEF TypeOK
    <2>2. msg' \in [Rank -> [Rank -> Nat]]
      BY <1>1, <2>1
    <2>. QED
      BY <1>1, <1>2, <2>2 DEF TypeOK
  <1>8. EdgesOK'
    <2>1. ASSUME NEW c \in Rank \ {0} PROVE EdgeOK(c)'
      <3>. DEFINE q == getParentRank(c)
      <3>1. /\ q \in Rank /\ q < c /\ EdgeOK(c)
            /\ \A x \in Rank : c \in ChildrenRanks(x) <=> q = x
        BY TreeEdges DEF BarrierInv, EdgesOK
      <3>2. q # c /\ c \in Int /\ r \in Int /\ q \in Int
        BY <3>1 DEF Rank
      <3>3. CASE c = r
        <4>1. msg'[c][q] = 0 /\ msg'[q][c] = 0 /\ passed'[q] = passed'[c]
          <5>1. msg'[q][c] = 0
            BY <1>5, <3>1, <3>3
          <5>2. q \notin ChildrenRanks(r)
            BY <3>1, <3>2, <3>3, TreeEdges DEF Rank
          <5>3. msg'[c][q] = msg[r][p]
            BY <1>5, <3>1, <3>2, <3>3, <5>2
          <5>. QED
            BY <1>3, <1>6, <3>1, <3>2, <3>3, <5>1, <5>3
        <4>. QED
          BY <4>1 DEF EdgeOK
      <3>4. CASE c # r /\ q = r
        <4>1. /\ barrier_up[c] /\ msg[c][r] = 0 /\ msg[r][c] = 0
              /\ passed[c] = passed[r]
          BY <1>1, <3>1, <3>4, AllCounted
        <4>2. c # p
          BY <1>3, <1>4, <3>1, <3>2, <3>4 DEF Rank
        <4>3. msg'[c][r] = 0 /\ msg'[r][c] = 1
          BY <1>5, <3>1, <3>4, <4>1, <4>2
        <4>4. barrier_up'[c] /\ passed'[r] = passed'[c] + 1
          BY ZenonT(60), <1>6, <3>4, <4>1
        <4>. QED
          BY <3>4, <4>3, <4>4 DEF EdgeOK
      <3>5. CASE c # r /\ q # r
        <4>1. msg'[c][q] = msg[c][q] /\ msg'[q][c] = msg[q][c]
          BY <1>5, <3>1, <3>5
        <4>2. barrier_up'[c] = barrier_up[c] /\ passed'[c] = passed[c]
                /\ passed'[q] = passed[q]
          BY <1>6, <3>1, <3>5
        <4>. QED
          BY <3>1, <4>1, <4>2 DEF EdgeOK
      <3>. QED
        BY <3>3, <3>4, <3>5
    <2>2. ASSUME NEW x \in Rank, NEW y \in Rank, msg'[x][y] # 0
          PROVE  x = getParentRank(y) \/ y = getParentRank(x)
      <3>1. x = r /\ y \in ChildrenRanks(r) => x = getParentRank(y)
        BY TreeEdges
      <3>. QED
        BY <1>5, <2>2, <3>1 DEF BarrierInv, EdgesOK
    <2>. QED
      BY <2>1, <2>2 DEF EdgesOK
  <1>9. Counted(r)' = {}
    <2>1. ASSUME NEW c \in ChildrenRanks(r) PROVE msg'[r][c] = 1
      <3>1. c \in Rank \ {0} /\ getParentRank(c) = r /\ r < c
        BY TreeEdges
      <3>2. c # r
        BY <3>1 DEF Rank
      <3>. QED
        BY <1>5, <3>1, <3>2
    <2>. QED
      BY <2>1 DEF Counted
  <1>10. ASSUME NEW q \in Rank, q # r PROVE Counted(q)' = Counted(q)
    <2>1. ASSUME NEW c \in ChildrenRanks(q)
          PROVE  barrier_up'[c] /\ msg'[c][q] = 0 /\ msg'[q][c] = 0
                   <=> barrier_up[c] /\ msg[c][q] = 0 /\ msg[q][c] = 0
      <3>1. c \in Rank \ {0} /\ getParentRank(c) = q
        BY TreeEdges
      <3>2. CASE c = r
        <4>1. ~barrier_up'[c]
          BY <1>6, <3>1, <3>2
        <4>2. msg[q][c] = 1
          BY <1>3, <3>1, <3>2
        <4>. QED
          BY <4>1, <4>2
      <3>3. CASE c # r
        BY ZenonT(60), <1>5, <1>6, <1>10, <3>1, <3>3
      <3>. QED
        BY <3>2, <3>3
    <2>. QED
      BY <2>1 DEF Counted
  <1>11. RepliesOK'
    <2>. SUFFICES ASSUME NEW q \in Rank
                  PROVE  /\ barrier_replies'[q] = Cardinality(Counted(q)')
                         /\ barrier_replies'[q] > 0 => barrier_started'[q]
                         /\ barrier_up'[q] =>
                              /\ barrier_started'[q]
                              /\ barrier_replies'[q] = getChildrenCount(q)
      BY DEF RepliesOK
    <2>1. CASE q = r
      <3>1. barrier_replies'[q] = 0 /\ ~barrier_up'[q]
        BY <1>6, <2>1
      <3>. QED
        BY <1>9, <2>1, <3>1, FS_EmptySet
    <2>2. CASE q # r
      BY <1>6, <1>10, <2>2 DEF BarrierInv, RepliesOK
    <2>. QED
      BY <2>1, <2>2
  <1>12. NobodyAhead'
    <2>. SUFFICES ASSUME NEW x \in Rank, NEW y \in Rank
                  PROVE  passed'[x] <=
                           passed'[y] + (IF barrier_started'[y] THEN 1 ELSE 0)
      BY DEF NobodyAhead
    <2>1. passed[x] \in Nat /\ passed[y] \in Nat /\ passed[r] \in Nat
      BY <1>2 DEF TypeOK
    <2>2. CASE x = r
      <3>1. passed[r] + 1 <= passed[y] + (IF barrier_started[y] THEN 1 ELSE 0)
        BY <1>1, LeaveOK
      <3>2. CASE y = r
        BY <1>6, <2>1, <2>2, <3>2
      <3>3. CASE y # r
        BY <1>6, <2>1, <2>2, <3>1, <3>3
      <3>. QED
        BY <3>2, <3>3
    <2>3. CASE x # r
      <3>1. passed[x] <= passed[y] + (IF barrier_started[y] THEN 1 ELSE 0)
        BY DEF BarrierInv, NobodyAhead
      <3>. QED
        BY <1>1, <1>6, <2>1, <2>3, <3>1
    <2>. QED
      BY <2>2, <2>3
  <1>. QED
    BY <1>7, <1>8, <1>11, <1>12 DEF BarrierInv

-----------------------------------------------------------------------------
\* Every step of the barrier keeps the invariant.
LEMMA StepOK == BarrierInv /\ [Next]_vars => BarrierInv'
  <1>. SUFFICES ASSUME BarrierInv, [Next]_vars PROVE BarrierInv'
    OBVIOUS
  <1>1. CASE UNCHANGED vars
    <2>1. TypeOK' /\ NobodyAhead'
      BY <1>1 DEF vars, BarrierInv, TypeOK, NobodyAhead
    <2>2. EdgesOK'
      BY <1>1 DEF vars, BarrierInv, EdgesOK, EdgeOK
    <2>3. \A q \in Rank : Counted(q)' = Counted(q)
      BY <1>1 DEF vars, Counted
    <2>4. RepliesOK'
      BY <1>1, <2>3 DEF vars, BarrierInv, RepliesOK
    <2>. QED
      BY <2>1, <2>2, <2>4 DEF BarrierInv
  <1>2. CASE \E r \in Rank : BarrierStart(r) \/ BarrierTest(r)
    BY <1>2, StartOK, ReplyOK, UpOK, DownOK DEF BarrierTest
  <1>. QED
    BY <1>1, <1>2 DEF Next, Finished

\* The state barrierTest relies on, in every barrier of every run: the probe
\* for MPI_ANY_SOURCE finds messages of children of the current barrier only,
\* barrier_replies counts each of them once, and nobody is ahead of a rank that
\* has not entered.
THEOREM BarrierInvariant == Spec => []BarrierOK
  <1>1. Spec => []BarrierInv
    BY InitOK, StepOK, PTL DEF Spec
  <1>2. BarrierInv => BarrierOK
    BY MatchingFromEdges DEF BarrierOK, BarrierInv
  <1>. QED
    BY <1>1, <1>2, PTL

\* The tree barrier is a barrier: no rank leaves barrier k before every rank
\* has entered it, and every step is one of the abstract barrier.
THEOREM BarrierIsSafe == Spec => BarrierSafe
  <1>. DEFINE entered ==
         [r \in Rank |-> passed[r] + (IF barrier_started[r] THEN 1 ELSE 0)]
  <1>1. Init => Abstract!Init
    BY DEF Init, Abstract!Init
  <1>2. BarrierInv /\ [Next]_vars => [Abstract!Next]_(Abstract!vars)
    <2>. SUFFICES ASSUME BarrierInv, [Next]_vars
                  PROVE  [Abstract!Next]_(Abstract!vars)
      OBVIOUS
    <2>1. CASE UNCHANGED vars
      BY <2>1 DEF vars, Abstract!vars
    <2>2. ASSUME NEW r \in Rank, BarrierStart(r) PROVE Abstract!Enter(r)
      <3>1. /\ ~barrier_started[r] /\ passed' = passed
            /\ \A s \in Rank : barrier_started'[s] =
                 IF s = r THEN TRUE ELSE barrier_started[s]
        BY <2>2 DEF BarrierStart, BarrierInv, TypeOK
      <3>2. entered[r] = passed[r]
        BY <3>1 DEF BarrierInv, TypeOK
      <3>3. entered' = [entered EXCEPT ![r] = @ + 1]
        <4>1. \A s \in Rank :
                entered'[s] = IF s = r THEN entered[s] + 1 ELSE entered[s]
          <5>. TAKE s \in Rank
          <5>1. /\ passed[s] \in Nat
                /\ entered[s] = passed[s] + (IF barrier_started[s] THEN 1 ELSE 0)
                /\ entered'[s] = passed[s] + (IF barrier_started'[s] THEN 1 ELSE 0)
            BY <3>1 DEF BarrierInv, TypeOK
          <5>. HIDE DEF entered
          <5>2. CASE s = r
            <6>1. ~barrier_started[s] /\ barrier_started'[s]
              BY <3>1, <5>2
            <6>. QED
              BY <5>1, <5>2, <6>1
          <5>3. CASE s # r
            BY <3>1, <5>1, <5>3
          <5>. QED
            BY <5>2, <5>3
        <4>2. /\ entered' = [s \in Rank |-> entered'[s]]
              /\ entered = [s \in Rank |-> entered[s]]
          OBVIOUS
        <4>. HIDE DEF entered
        <4>. QED
          BY <4>1, <4>2
      <3>. QED
        BY <3>1, <3>2, <3>3 DEF Abstract!Enter
    <2>3. ASSUME NEW r \in Rank, BarrierReply(r) \/ BarrierUp(r)
          PROVE  UNCHANGED Abstract!vars
      BY <2>3 DEF BarrierReply, BarrierUp, Abstract!vars
    <2>4. ASSUME NEW r \in Rank, BarrierDown(r) PROVE Abstract!Leave(r)
      <3>1. barrier_started[r] /\ barrier_up[r] /\ BarrierHeard(r)
        BY <2>4 DEF BarrierDown
      <3>2. \A s \in Rank : entered[r] <= entered[s]
        BY <3>1, LeaveOK
      <3>3. passed[r] < entered[r]
        BY <3>1 DEF BarrierInv, TypeOK
      <3>4. passed' = [passed EXCEPT ![r] = @ + 1] /\ entered' = entered
        BY <2>4, <3>1 DEF BarrierDown, BarrierInv, TypeOK
      <3>. QED
        BY <3>2, <3>3, <3>4 DEF Abstract!Leave
    <2>. QED
      BY <2>1, <2>2, <2>3, <2>4 DEF Next, Finished, BarrierTest, Abstract!Next
  <1>3. Spec => []BarrierInv
    BY InitOK, StepOK, PTL DEF Spec
  <1>. QED
    BY <1>1, <1>2, <1>3, PTL DEF Spec, BarrierSafe, Abstract!Spec

=============================================================================
