------------------------- MODULE TreeTopologyProofs -------------------------
(***************************************************************************)
(* The tree of TreeState is a tree, for any number of ranks and any width. *)
(***************************************************************************)
EXTENDS TreeTopology, TLAPS

\* The quotient that makes p the parent of c.
LEMMA ParentQuotient ==
  ASSUME NEW k \in Nat \ {0}, NEW m \in Nat, NEW p \in Nat
  PROVE  /\ m \div k \in Nat
         /\ m \div k <= m
         /\ m \div k = p <=> p * k <= m /\ m < p * k + k
  <1>. DEFINE q == m \div k
  <1>1. q \in Nat /\ q * k <= m /\ m < q * k + k /\ q * k \in Nat /\ p * k \in Nat
    BY Z3
  <1>. HIDE DEF q
  <1>2. q <= q * k
    BY <1>1, Z3
  <1>3. q <= m
    BY <1>1, <1>2
  <1>4. ASSUME p * k <= m, m < p * k + k PROVE q = p
    <2>1. CASE q < p
      <3>1. q * k + k <= p * k
        <4>1. (q + 1) * k <= p * k
          BY <1>1, <2>1, Z3
        <4>2. (q + 1) * k = q * k + k
          BY <1>1, Z3
        <4>. QED
          BY <4>1, <4>2
      <3>. QED
        BY <1>1, <1>4, <3>1
    <2>2. CASE p < q
      <3>1. p * k + k <= q * k
        <4>1. (p + 1) * k <= q * k
          BY <1>1, <2>2, Z3
        <4>2. (p + 1) * k = p * k + k
          BY Z3
        <4>. QED
          BY <4>1, <4>2
      <3>. QED
        BY <1>1, <1>4, <3>1
    <2>. QED
      BY <1>1, <2>1, <2>2
  <1>5. q = m \div k
    BY DEF q
  <1>. QED
    BY <1>1, <1>3, <1>4, <1>5

\* The children of p are the ranks from left(p) to right(p).
LEMMA ChildrenRange ==
  ASSUME nranks \in Nat \ {0}, maxChildren \in Nat \ {0}, NEW p \in TreeRank
  PROVE  /\ p * maxChildren \in Nat
         /\ getChildrenCount(p) \in 0 .. maxChildren
         /\ ChildrenRanks(p) =
              {c \in TreeRank : left(p) <= c /\ c <= right(p)}
  <1>1. p \in Nat /\ p * maxChildren \in Nat
    BY DEF TreeRank
  <1>. DEFINE m == p * maxChildren
  <1>2. left(p) = m + 1 /\ right(p) = m + maxChildren
    BY DEF left, right
  <1>3. m \in Nat
    BY <1>1
  <1>. HIDE DEF m
  <1>4. getChildrenCount(p) \in 0 .. maxChildren
    BY <1>2, <1>3 DEF getChildrenCount
  <1>5. ChildrenRanks(p) = {left(p) + i : i \in 0 .. getChildrenCount(p) - 1}
    BY DEF ChildrenRanks, getChildrenRanks
  <1>6. ASSUME NEW c
        PROVE  c \in ChildrenRanks(p) <=>
                 c \in TreeRank /\ left(p) <= c /\ c <= right(p)
    <2>1. CASE left(p) < nranks
      <3>1. getChildrenCount(p) =
              (IF right(p) >= nranks THEN nranks - 1 ELSE right(p)) - left(p) + 1
        BY <2>1 DEF getChildrenCount
      <3>2. ASSUME NEW i \in 0 .. getChildrenCount(p) - 1, c = left(p) + i
            PROVE  c \in TreeRank /\ left(p) <= c /\ c <= right(p)
        BY <1>2, <1>3, <1>4, <3>1, <3>2 DEF TreeRank
      <3>3. ASSUME c \in TreeRank, left(p) <= c, c <= right(p)
            PROVE  /\ c - left(p) \in 0 .. getChildrenCount(p) - 1
                   /\ c = left(p) + (c - left(p))
        BY <1>2, <1>3, <1>4, <3>1, <3>3 DEF TreeRank
      <3>. QED
        BY <1>5, <3>2, <3>3
    <2>2. CASE ~(left(p) < nranks)
      <3>1. getChildrenCount(p) = 0 /\ 0 .. getChildrenCount(p) - 1 = {}
        BY <2>2 DEF getChildrenCount
      <3>2. c \in TreeRank => c < left(p)
        BY <1>2, <1>3, <2>2 DEF TreeRank
      <3>. QED
        BY <1>2, <1>3, <1>5, <3>1, <3>2 DEF TreeRank
    <2>. QED
      BY <2>1, <2>2
  <1>. QED
    BY <1>1, <1>4, <1>6

\* The messages of the barrier, of the reductions and of the termination
\* allreduce are expected by the rank they are sent to: parent and children
\* agree on every edge, the children fit their array, and every rank is
\* connected to rank 0.
THEOREM TreeIsATree ==
  ASSUME nranks \in Nat \ {0}, maxChildren \in Nat \ {0}
  PROVE  CommunicationTree
  <1>1. ParentChildAgree
    <2>. SUFFICES ASSUME NEW p \in TreeRank, NEW c \in TreeRank
                  PROVE  c \in ChildrenRanks(p) <=> getParentRank(c) = p
      BY DEF ParentChildAgree
    <2>1. p \in Nat /\ c \in Nat /\ p * maxChildren \in Nat
      BY ChildrenRange DEF TreeRank
    <2>2. c \in ChildrenRanks(p) <=> /\ p * maxChildren + 1 <= c
                                     /\ c <= p * maxChildren + maxChildren
      BY ChildrenRange DEF left, right
    <2>3. CASE c = 0
      BY <2>1, <2>2, <2>3 DEF getParentRank
    <2>4. CASE c # 0
      <3>1. c - 1 \in Nat /\ getParentRank(c) = (c - 1) \div maxChildren
        BY <2>1, <2>4 DEF getParentRank
      <3>2. (c - 1) \div maxChildren = p <=>
              p * maxChildren <= c - 1 /\ c - 1 < p * maxChildren + maxChildren
        BY <2>1, <3>1, ParentQuotient
      <3>. QED
        BY <2>1, <2>2, <3>1, <3>2
    <2>. QED
      BY <2>3, <2>4
  <1>2. ChildrenFit
    <2>. SUFFICES ASSUME NEW p \in TreeRank
                  PROVE  ChildrenRanks(p) \subseteq TreeRank \ {0}
      BY ChildrenRange DEF ChildrenFit
    <2>1. left(p) > 0 /\ left(p) \in Nat
      BY ChildrenRange DEF left
    <2>. QED
      BY <2>1, ChildrenRange DEF TreeRank
  <1>3. ParentBelow
    <2>. SUFFICES ASSUME NEW c \in TreeRank \ {0}
                  PROVE  getParentRank(c) \in 0 .. c - 1
      BY DEF ParentBelow
    <2>1. c - 1 \in Nat /\ getParentRank(c) = (c - 1) \div maxChildren
      BY DEF getParentRank, TreeRank
    <2>2. (c - 1) \div maxChildren \in Nat /\ (c - 1) \div maxChildren <= c - 1
      BY <2>1, ParentQuotient
    <2>. QED
      BY <2>1, <2>2
  <1>. QED
    BY <1>1, <1>2, <1>3 DEF CommunicationTree

\* The children are getChildrenCount consecutive ranks: a rank that waits for
\* that many messages, one from each child, waits for all of them.
LEMMA ChildrenInterval ==
  ASSUME nranks \in Nat \ {0}, maxChildren \in Nat \ {0}, NEW p \in TreeRank
  PROVE  /\ left(p) \in Int
         /\ getChildrenCount(p) \in Nat
         /\ ChildrenRanks(p) = left(p) .. left(p) + getChildrenCount(p) - 1
  <1>. DEFINE n == getChildrenCount(p)
              a == left(p)
              S == a .. a + n - 1
  <1>1. a \in Int /\ n \in Nat
    BY ChildrenRange DEF left
  <1>2. ChildrenRanks(p) = {a + i : i \in 0 .. n - 1}
    BY DEF ChildrenRanks, getChildrenRanks
  <1>. HIDE DEF n, a
  <1>3. {a + i : i \in 0 .. n - 1} = S
    <2>1. \A x \in S : x - a \in 0 .. n - 1 /\ x = a + (x - a)
      BY <1>1
    <2>. QED
      BY <1>1, <2>1
  <1>. QED
    BY <1>1, <1>2, <1>3 DEF n, a

=============================================================================
