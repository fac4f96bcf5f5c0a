--------------------------- MODULE ReductionProofs ---------------------------
(***************************************************************************)
(* The reductions along the communication tree, for any number of ranks,   *)
(* items and reductions and any width of the tree: what rank 0 delivers is *)
(* complete, and nothing is left behind.                                   *)
(***************************************************************************)
EXTENDS ReductionInv, FiniteSetTheorems, SequenceTheorems, WellFoundedInduction,
        TLAPS

Tree == INSTANCE TreeTopologyProofs

-----------------------------------------------------------------------------
(* The tree *)

\* What the proofs use of the tree: who is whose parent and child, and how
\* many children there are.
LEMMA TreeEdges ==
  ASSUME VariablesOK
  PROVE  /\ 0 \in Rank /\ getParentRank(0) \notin Rank /\ Rank \subseteq Nat
         /\ IsFiniteSet(Rank)
         /\ \A c \in Rank \ {0} : getParentRank(c) \in Rank /\ getParentRank(c) < c
         /\ \A p, c \in Rank : c \in ChildrenRanks(p) <=> getParentRank(c) = p
         /\ \A p \in Rank :
              /\ left(p) \in Nat /\ getChildrenCount(p) \in Nat
              /\ ChildrenRanks(p) = left(p) .. left(p) + getChildrenCount(p) - 1
              /\ ChildrenRanks(p) \subseteq Rank \ {0}
              /\ IsFiniteSet(ChildrenRanks(p))
              /\ Cardinality(ChildrenRanks(p)) = getChildrenCount(p)
  <1>. nranks \in Nat \ {0} /\ maxChildren \in Nat \ {0}
    BY ReductionAssumption DEF VariablesOK
  <1>1. /\ Tree!TreeRank = Rank
        /\ \A r : Tree!getParentRank(r) = getParentRank(r)
        /\ \A r : Tree!ChildrenRanks(r) = ChildrenRanks(r)
        /\ \A r : Tree!getChildrenCount(r) = getChildrenCount(r)
        /\ \A r : Tree!left(r) = left(r)
    BY DEF Tree!TreeRank, Rank, TreeRank, Tree!getParentRank, getParentRank,
           Tree!ChildrenRanks, ChildrenRanks, Tree!getChildrenRanks,
           getChildrenRanks, Tree!getChildrenCount, getChildrenCount,
           Tree!left, left, Tree!right, right
  <1>2. /\ 0 \in Rank /\ getParentRank(0) \notin Rank /\ Rank \subseteq Nat
        /\ IsFiniteSet(Rank)
    BY FS_Interval DEF Rank, TreeRank, getParentRank
  <1>3. Tree!CommunicationTree
    BY Tree!TreeIsATree
  <1>4. /\ \A c \in Rank \ {0} : getParentRank(c) \in 0 .. c - 1
        /\ \A p, c \in Rank : c \in ChildrenRanks(p) <=> getParentRank(c) = p
        /\ \A p \in Rank : /\ ChildrenRanks(p) \subseteq Rank \ {0}
                           /\ getChildrenCount(p) \in 0 .. maxChildren
    BY <1>1, <1>3 DEF Tree!CommunicationTree, Tree!ParentChildAgree,
                      Tree!ChildrenFit, Tree!ParentBelow
  <1>5. ASSUME NEW p \in Rank
        PROVE  /\ left(p) \in Nat /\ getChildrenCount(p) \in Nat
               /\ ChildrenRanks(p) = left(p) .. left(p) + getChildrenCount(p) - 1
               /\ IsFiniteSet(ChildrenRanks(p))
               /\ Cardinality(ChildrenRanks(p)) = getChildrenCount(p)
    <2>. DEFINE a == left(p)
                n == getChildrenCount(p)
    <2>1. a \in Int /\ n \in Nat /\ ChildrenRanks(p) = a .. a + n - 1
      BY <1>1, Tree!ChildrenInterval
    <2>2. p * maxChildren \in Nat /\ a = p * maxChildren + 1
      BY <1>2 DEF left
    <2>3. a \in Nat
      <3>. HIDE DEF a
      <3>. QED
        BY <2>2
    <2>. HIDE DEF a, n
    <2>4. /\ IsFiniteSet(a .. a + n - 1)
          /\ Cardinality(a .. a + n - 1) =
               IF a > a + n - 1 THEN 0 ELSE a + n - 1 - a + 1
      BY <2>1, FS_Interval
    <2>5. Cardinality(a .. a + n - 1) = n
      BY <2>1, <2>4
    <2>. QED
      BY <2>1, <2>3, <2>4, <2>5 DEF a, n
  <1>6. \A c \in Rank \ {0} : getParentRank(c) \in Rank /\ getParentRank(c) < c
    BY <1>2, <1>4 DEF Rank, TreeRank
  <1>. QED
    BY <1>2, <1>4, <1>5, <1>6

\* The tree does not change.
LEMMA TreeFixed ==
  ASSUME UNCHANGED <<nranks, maxChildren>>
  PROVE  /\ Rank' = Rank
         /\ \A r : getParentRank(r)' = getParentRank(r)
         /\ \A r : ChildrenRanks(r)' = ChildrenRanks(r)
         /\ \A r : getChildrenCount(r)' = getChildrenCount(r)
         /\ \A r : left(r)' = left(r)
         /\ \A r : Below(r)' = Below(r)
  <1>1. Rank' = Rank
    BY DEF Rank, TreeRank
  <1>2. /\ \A r : getParentRank(r)' = getParentRank(r)
        /\ \A r : left(r)' = left(r)
        /\ \A r : getChildrenCount(r)' = getChildrenCount(r)
        /\ \A r : ChildrenRanks(r)' = ChildrenRanks(r)
    BY DEF getParentRank, left, right, getChildrenCount, ChildrenRanks,
           getChildrenRanks
  <1>3. \A r : Below(r)' = Below(r)
    BY <1>1, <1>2 DEF Below
  <1>. QED
    BY <1>1, <1>2, <1>3

\* Whatever holds of r and, with a rank, of its children holds of all ranks
\* below r.
LEMMA BelowInduction ==
  ASSUME NEW r \in Rank, NEW S \in SUBSET Rank, r \in S,
         \A x \in S : ChildrenRanks(x) \subseteq S
  PROVE  Below(r) \subseteq S
  BY DEF Below

\* The subtree of r.
LEMMA BelowBasics ==
  ASSUME VariablesOK, NEW r \in Rank
  PROVE  /\ r \in Below(r) /\ Below(r) \subseteq Rank
         /\ \A x \in Below(r) : ChildrenRanks(x) \subseteq Below(r)
         /\ \A x \in Below(r) : r <= x
         /\ \A x \in Below(r) : x = r \/ (x # 0 /\ getParentRank(x) \in Below(r))
  <1>1. r \in Below(r) /\ Below(r) \subseteq Rank
    BY DEF Below
  <1>2. \A x \in Below(r) : ChildrenRanks(x) \subseteq Below(r)
    BY TreeEdges DEF Below
  <1>3. Below(r) \subseteq {x \in Rank : r <= x}
    <2>. DEFINE S == {x \in Rank : r <= x}
    <2>1. r \in S
      BY TreeEdges
    <2>2. ASSUME NEW x \in S, NEW y \in ChildrenRanks(x) PROVE y \in S
      BY TreeEdges
    <2>. HIDE DEF S
    <2>3. S \in SUBSET Rank
      BY DEF S
    <2>. QED
      BY <2>1, <2>2, <2>3, BelowInduction DEF S
  <1>4. Below(r) \subseteq {x \in Below(r) : x = r \/ (x # 0 /\ getParentRank(x) \in Below(r))}
    <2>. DEFINE S == {x \in Below(r) : x = r \/ (x # 0 /\ getParentRank(x) \in Below(r))}
    <2>1. r \in S /\ S \subseteq Below(r)
      <3>1. r \in S
        BY <1>1
      <3>2. S \subseteq Below(r)
        OBVIOUS
      <3>. QED
        BY <3>1, <3>2
    <2>2. ASSUME NEW x \in S, NEW y \in ChildrenRanks(x) PROVE y \in S
      <3>1. y \in Below(r) /\ x \in Rank /\ y \in Rank \ {0}
        BY <1>1, <1>2, TreeEdges
      <3>. QED
        BY <3>1, TreeEdges
    <2>. HIDE DEF S
    <2>3. S \in SUBSET Rank
      BY <1>1, <2>1
    <2>. QED
      BY <2>1, <2>2, <2>3, BelowInduction DEF S
  <1>. QED
    BY <1>1, <1>2, <1>3, <1>4

\* It consists of r and the disjoint subtrees of its children.
LEMMA BelowChildren ==
  ASSUME VariablesOK, NEW r \in Rank
  PROVE  /\ Below(r) = {r} \cup UNION {Below(c) : c \in ChildrenRanks(r)}
         /\ \A c \in ChildrenRanks(r) : r \notin Below(c)
         /\ \A c, d \in ChildrenRanks(r) :
              c # d => Below(c) \cap Below(d) = {}
  <1>1. \A c \in ChildrenRanks(r) : c \in Rank \ {0} /\ getParentRank(c) = r /\ r < c
    BY TreeEdges
  <1>2. Below(r) \subseteq {r} \cup UNION {Below(c) : c \in ChildrenRanks(r)}
    <2>. DEFINE S == {r} \cup UNION {Below(c) : c \in ChildrenRanks(r)}
    <2>1. r \in S /\ S \in SUBSET Rank
      BY <1>1, BelowBasics
    <2>2. ASSUME NEW x \in S, NEW y \in ChildrenRanks(x) PROVE y \in S
      <3>1. CASE x = r
        BY <1>1, <2>2, <3>1, BelowBasics
      <3>2. CASE x # r
        BY <1>1, <2>2, <3>2, BelowBasics
      <3>. QED
        BY <3>1, <3>2
    <2>. HIDE DEF S
    <2>. QED
      BY <2>1, <2>2, BelowInduction DEF S
  <1>3. ASSUME NEW c \in ChildrenRanks(r) PROVE Below(c) \subseteq Below(r)
    <2>1. c \in Below(r) /\ c \in Rank
      BY <1>1, BelowBasics
    <2>. QED
      BY <2>1, BelowBasics, BelowInduction
  <1>4. \A c \in ChildrenRanks(r) : r \notin Below(c)
    BY <1>1, TreeEdges, BelowBasics
  <1>5. ASSUME NEW c \in ChildrenRanks(r), NEW d \in ChildrenRanks(r), c # d
        PROVE  Below(c) \cap Below(d) = {}
    <2>. DEFINE S == {x \in Rank : x \notin Below(d) /\ r < x}
    <2>1. c \in S
      BY <1>1, <1>4, <1>5, BelowBasics
    <2>2. ASSUME NEW x \in S, NEW y \in ChildrenRanks(x) PROVE y \in S
      <3>1. y \in Rank \ {0} /\ getParentRank(y) = x /\ x < y /\ r < x
        BY TreeEdges
      <3>2. y \notin Below(d)
        BY <1>1, <3>1, BelowBasics, TreeEdges
      <3>3. r \in Nat /\ x \in Nat /\ y \in Nat
        BY <3>1, TreeEdges
      <3>. QED
        BY <3>1, <3>2, <3>3
    <2>3. S \in SUBSET Rank
      OBVIOUS
    <2>. HIDE DEF S
    <2>4. Below(c) \subseteq S
      BY <1>1, <2>1, <2>2, <2>3, BelowInduction
    <2>. QED
      BY <2>4 DEF S
  <1>. QED
    BY <1>2, <1>3, <1>4, <1>5, BelowBasics

\* A set of numbers has a smallest one.
LEMMA Smallest ==
  ASSUME NEW S \in SUBSET Nat, S # {}
  PROVE  \E x \in S : \A y \in S : x <= y
  <1>1. PICK x \in S : \A y \in S : ~ (<<y, x>> \in OpToRel(<, Nat))
    BY WFMin, NatLessThanWellFounded
  <1>2. ASSUME NEW y \in S PROVE x <= y
    <2>1. y < x => <<y, x>> \in OpToRel(<, Nat)
      BY DEF OpToRel
    <2>2. ~(y < x)
      BY <1>1, <2>1
    <2>. QED
      BY <2>2
  <1>. QED
    BY <1>2

\* Every rank is below rank 0: the smallest one that is not would have a
\* parent that is not.
LEMMA BelowRoot == ASSUME VariablesOK PROVE Below(0) = Rank
  <1>. DEFINE Wrong == Rank \ Below(0)
  <1>1. SUFFICES ASSUME Wrong # {} PROVE FALSE
    BY TreeEdges, BelowBasics
  <1>2. Wrong \in SUBSET Nat
    BY TreeEdges
  <1>3. PICK x \in Wrong : \A y \in Wrong : x <= y
    <2>. HIDE DEF Wrong
    <2>. QED
      BY <1>1, <1>2, Smallest
  <1>. DEFINE p == getParentRank(x)
  <1>4. 0 \in Rank /\ 0 \in Below(0) /\ x \in Rank \ {0}
    BY TreeEdges, BelowBasics
  <1>5. p \in Rank /\ p < x /\ x \in ChildrenRanks(p)
    BY <1>4, TreeEdges
  <1>6. p \in Nat /\ x \in Nat
    BY <1>4, <1>5, TreeEdges
  <1>7. p \in Below(0)
    BY <1>3, <1>5, <1>6
  <1>. QED
    BY <1>3, <1>4, <1>5, <1>7, BelowBasics

-----------------------------------------------------------------------------
(* Messages *)

\* The sequences of messages between two ranks have at most two elements.
Short(m) == m = <<>> \/ (\E a : m = <<a>>) \/ (\E a, b : m = <<a, b>>)

\* What Exchange does with them.
LEMMA ShortSequences ==
  ASSUME NEW m, Short(m)
  PROVE  /\ Len(m) \in Nat
         /\ Len(m) = 0 <=> m = <<>>
         /\ SubSeq(m, 1, Len(m)) = m /\ SubSeq(m, Len(m) + 1, Len(m)) = <<>>
         /\ m \o <<>> = m /\ <<>> \o m = m
  <1>1. PICK S : m \in Seq(S)
    <2>1. CASE m = <<>>
      BY <2>1, EmptySeq
    <2>2. ASSUME NEW a, m = <<a>> PROVE m \in Seq({a})
      BY <2>2
    <2>3. ASSUME NEW a, NEW b, m = <<a, b>> PROVE m \in Seq({a, b})
      BY <2>3
    <2>. QED
      BY <2>1, <2>2, <2>3 DEF Short
  <1>2. Len(m) \in Nat /\ (Len(m) = 0 <=> m = <<>>)
    BY <1>1, EmptySeq, LenProperties
  <1>3. SubSeq(m, 1, Len(m)) = m
    BY <1>1, SubSeqFull
  <1>4. SubSeq(m, Len(m) + 1, Len(m)) = <<>>
    BY <1>2, SubSeqEmpty
  <1>5. m \o <<>> = m /\ <<>> \o m = m
    BY <1>1, ConcatEmptySeq
  <1>. QED
    BY <1>2, <1>3, <1>4, <1>5

\* Exchange, where a rank takes all messages of another rank or none, and
\* sends to ranks it has sent nothing to.
LEMMA ExchangeEffect ==
  ASSUME VariablesOK, NEW r \in Rank, NEW taken, NEW new,
         Exchange(r, taken, new),
         \A s \in Rank : Short(msg[s][r]) /\ taken[s] \in {0, Len(msg[s][r])},
         \A d \in Rank : /\ Short(msg[r][d]) /\ Short(new[d])
                         /\ d # r => msg[r][d] = <<>> \/ new[d] = <<>>
  PROVE  \A s, d \in Rank :
           msg'[s][d] =
             IF d = r THEN IF taken[s] = 0 THEN msg[s][r] ELSE <<>>
             ELSE IF s = r /\ new[d] # <<>> THEN new[d] ELSE msg[s][d]
  <1>. SUFFICES ASSUME NEW s \in Rank, NEW d \in Rank
                PROVE  msg'[s][d] =
                         IF d = r THEN IF taken[s] = 0 THEN msg[s][r] ELSE <<>>
                         ELSE IF s = r /\ new[d] # <<>> THEN new[d] ELSE msg[s][d]
    OBVIOUS
  <1>1. msg'[s][d] =
          IF d = r THEN SubSeq(msg[s][d], taken[s] + 1, Len(msg[s][d]))
          ELSE IF s = r THEN msg[s][d] \o new[d] ELSE msg[s][d]
    BY DEF Exchange
  <1>2. CASE d = r
    <2>1. CASE taken[s] = 0
      BY <1>1, <1>2, <2>1, ShortSequences
    <2>2. CASE taken[s] # 0
      <3>1. taken[s] = Len(msg[s][r])
        BY <2>2
      <3>2. SubSeq(msg[s][r], Len(msg[s][r]) + 1, Len(msg[s][r])) = <<>>
        BY ShortSequences
      <3>. QED
        BY <1>1, <1>2, <2>2, <3>1, <3>2
    <2>. QED
      BY <2>1, <2>2
  <1>3. CASE d # r /\ s = r
    <2>1. msg'[s][d] = msg[r][d] \o new[d]
      BY <1>1, <1>3
    <2>2. CASE new[d] = <<>>
      <3>1. msg[r][d] \o <<>> = msg[r][d]
        BY ShortSequences
      <3>. QED
        BY <1>3, <2>1, <2>2, <3>1
    <2>3. CASE new[d] # <<>>
      <3>1. msg[r][d] = <<>>
        BY <1>3, <2>3
      <3>2. <<>> \o new[d] = new[d]
        BY ShortSequences
      <3>. QED
        BY <1>3, <2>1, <2>3, <3>1, <3>2
    <2>. QED
      BY <2>2, <2>3
  <1>4. CASE d # r /\ s # r
    BY <1>1, <1>4
  <1>. QED
    BY <1>2, <1>3, <1>4

\* The two kinds of replies, taken apart.
LEMMA ReplyForms ==
  ASSUME NEW m
  PROVE  /\ InvalidReply(m) => /\ m # <<>> /\ Len(m) = 1
                               /\ m[1].kind = "header" /\ m[1].valid = FALSE
                               /\ m[1].total \in Nat
         /\ ValidReply(m) => /\ m # <<>> /\ Len(m) = 2
                             /\ m[1].kind = "header" /\ m[1].valid = TRUE
                             /\ m[1].total \in Nat /\ m[2].kind = "data"
  <1>1. ASSUME NEW a PROVE <<a>> # <<>> /\ Len(<<a>>) = 1 /\ <<a>>[1] = a
    OBVIOUS
  <1>2. ASSUME NEW a, NEW b
        PROVE  /\ <<a, b>> # <<>> /\ Len(<<a, b>>) = 2
               /\ <<a, b>>[1] = a /\ <<a, b>>[2] = b
    OBVIOUS
  <1>3. ASSUME InvalidReply(m)
        PROVE  /\ m # <<>> /\ Len(m) = 1 /\ m[1].kind = "header"
               /\ m[1].valid = FALSE /\ m[1].total \in Nat
    <2>1. PICK t \in Nat : m = <<Header(FALSE, t)>>
      BY <1>3 DEF InvalidReply
    <2>2. m # <<>> /\ Len(m) = 1 /\ m[1] = Header(FALSE, t)
      BY <1>1, <2>1
    <2>. QED
      BY <2>2 DEF Header
  <1>4. ASSUME ValidReply(m)
        PROVE  /\ m # <<>> /\ Len(m) = 2 /\ m[1].kind = "header"
               /\ m[1].valid = TRUE /\ m[1].total \in Nat /\ m[2].kind = "data"
    <2>. DEFINE t == m[1].total
                b == m[2].buf
    <2>1. t \in Nat /\ m = <<Header(TRUE, t), Data(b)>>
      BY <1>4 DEF ValidReply
    <2>. HIDE DEF t, b
    <2>2. /\ m # <<>> /\ Len(m) = 2 /\ m[1] = Header(TRUE, t) /\ m[2] = Data(b)
      BY <1>2, <2>1
    <2>. QED
      BY <2>1, <2>2 DEF Header, Data
  <1>. QED
    BY <1>3, <1>4

\* And put together.
LEMMA MakeReply ==
  ASSUME NEW total \in Nat, NEW buf
  PROVE  /\ InvalidReply(<<Header(FALSE, total)>>)
         /\ ValidReply(<<Header(TRUE, total), Data(buf)>>)
         /\ <<Header(TRUE, total), Data(buf)>>[1].total = total
         /\ <<Header(TRUE, total), Data(buf)>>[2].buf = buf
         /\ \A valid \in BOOLEAN :
              Reply(valid, total, buf) =
                IF valid THEN <<Header(TRUE, total), Data(buf)>>
                         ELSE <<Header(FALSE, total)>>
  <1>1. ASSUME NEW valid
        PROVE  <<Header(valid, total)>>[1].total = total
    BY DEF Header
  <1>2. /\ <<Header(TRUE, total), Data(buf)>>[1].total = total
        /\ <<Header(TRUE, total), Data(buf)>>[2].buf = buf
    BY DEF Header, Data
  <1>3. InvalidReply(<<Header(FALSE, total)>>)
    BY <1>1 DEF InvalidReply
  <1>4. ValidReply(<<Header(TRUE, total), Data(buf)>>)
    BY <1>2 DEF ValidReply
  <1>5. ASSUME NEW a, NEW b PROVE <<a>> \o <<b>> = <<a, b>> /\ <<a>> \o <<>> = <<a>>
    <2>1. <<a>> \o <<>> = <<a>>
      BY <<a>> \in Seq({a}), ConcatEmptySeq
    <2>2. <<a>> \o <<b>> = <<a, b>>
      <3>1. <<a>> \in Seq({a, b}) /\ <<b>> \in Seq({a, b}) /\ <<a, b>> \in Seq({a, b})
        OBVIOUS
      <3>2. /\ Len(<<a>>) = 1 /\ Len(<<b>>) = 1 /\ Len(<<a, b>>) = 2
            /\ <<a>>[1] = a /\ <<b>>[1] = b /\ <<a, b>>[1] = a /\ <<a, b>>[2] = b
        OBVIOUS
      <3>. DEFINE s == <<a>>
                  t == <<b>>
                  u == <<a, b>>
      <3>3. s \o t \in Seq({a, b}) /\ Len(s \o t) = 2 /\ (s \o t)[1] = a /\ (s \o t)[2] = b
        <4>1. s \in Seq({a, b}) /\ t \in Seq({a, b}) /\ Len(s) = 1 /\ Len(t) = 1
              /\ s[1] = a /\ t[1] = b
          BY <3>1, <3>2
        <4>. HIDE DEF s, t
        <4>2. /\ s \o t \in Seq({a, b}) /\ Len(s \o t) = Len(s) + Len(t)
              /\ \A i \in 1 .. Len(s) + Len(t) :
                   (s \o t)[i] = IF i <= Len(s) THEN s[i] ELSE t[i - Len(s)]
          BY <4>1, ConcatProperties
        <4>. QED
          BY <4>1, <4>2
      <3>4. u \in Seq({a, b}) /\ Len(u) = 2 /\ u[1] = a /\ u[2] = b
        BY <3>1, <3>2
      <3>. HIDE DEF s, t, u
      <3>5. s \o t = u
        BY <3>3, <3>4, SeqEqual
      <3>. QED
        BY <3>5 DEF s, t, u
    <2>. QED
      BY <2>1, <2>2
  <1>6. \A valid \in BOOLEAN :
          Reply(valid, total, buf) =
            IF valid THEN <<Header(TRUE, total), Data(buf)>>
                     ELSE <<Header(FALSE, total)>>
    BY <1>5 DEF Reply
  <1>. QED
    BY <1>2, <1>3, <1>4, <1>6

\* The messages on every pair of ranks are short: header and data at most.
LEMMA MessagesShort ==
  ASSUME VariablesOK, ReduceEdges, NEW s \in Rank, NEW d \in Rank
  PROVE  Short(msg[s][d])
  <1>. SUFFICES ASSUME msg[s][d] # <<>> PROVE Short(msg[s][d])
    BY DEF Short
  <1>1. s = getParentRank(d) \/ d = getParentRank(s)
    BY DEF ReduceEdges
  <1>2. CASE s = getParentRank(d)
    <2>1. d \in Rank \ {0} /\ ReduceEdge(d)
      BY <1>2, TreeEdges DEF ReduceEdges
    <2>2. msg[s][d] = <<START>>
      BY <1>2, <2>1 DEF ReduceEdge
    <2>. QED
      BY <2>2 DEF Short
  <1>3. CASE d = getParentRank(s)
    <2>1. s \in Rank \ {0} /\ ReduceEdge(s)
      BY <1>3, TreeEdges DEF ReduceEdges
    <2>2. InvalidReply(msg[s][d]) \/ ValidReply(msg[s][d])
      BY <1>3, <2>1 DEF ReduceEdge
    <2>. QED
      BY <2>2 DEF Short, InvalidReply, ValidReply
  <1>. QED
    BY <1>1, <1>2, <1>3

-----------------------------------------------------------------------------
(* The control of the reductions: everything but the data *)

CountersOK ==
  /\ phase \in [Rank -> Phase]
  /\ unprocessed \in 0 .. Items
  /\ reduce_replies \in [Rank -> Nat] /\ sync_i \in [Rank -> Nat]
  /\ \A r \in Rank : /\ reduce_replies[r] <= getChildrenCount(r)
                     /\ sync_i[r] <= getChildrenCount(r)

ControlOK ==
  VariablesOK /\ CountersOK /\ PhasesOK /\ ReduceEdges /\ RepliesCounted

\* What the state of an edge says of both ends.
LEMMA EdgeCases ==
  ASSUME ControlOK, NEW p \in Rank, NEW c \in ChildrenRanks(p)
  PROVE  /\ c \in Rank \ {0} /\ getParentRank(c) = p /\ c # p /\ p < c
         /\ reduce_outstanding[c] => reduce_outstanding[p]
         /\ msg[p][c] # <<>> =>
              /\ msg[p][c] = <<START>> /\ msg[c][p] = <<>>
              /\ reduce_outstanding[p] /\ ~reduce_outstanding[c]
         /\ msg[c][p] # <<>> =>
              /\ InvalidReply(msg[c][p]) \/ ValidReply(msg[c][p])
              /\ msg[p][c] = <<>>
              /\ ~reduce_outstanding[c]
              /\ ~reduce_outstanding[p] =>
                   /\ ValidReply(msg[c][p])
                   /\ phase[c] = "return" /\ ~SyncTaken(c)
         /\ msg[c][p] = <<>> /\ ~reduce_outstanding[p] =>
              (phase[c] = "return" <=> SyncTaken(c))
  <1>1. c \in Rank \ {0} /\ getParentRank(c) = p /\ c # p /\ p < c
    BY TreeEdges DEF ControlOK
  <1>2. ReduceEdge(c)
    BY <1>1 DEF ControlOK, ReduceEdges
  <1>3. phase[c] = "return" => ~reduce_outstanding[c] /\ ~reduce_outstanding[p]
    BY <1>1 DEF ControlOK, PhasesOK
  <1>4. InvalidReply(msg[c][p]) \/ ValidReply(msg[c][p]) => msg[c][p] # <<>>
    BY ReplyForms
  <1>5. <<START>> # <<>>
    OBVIOUS
  <1>. QED
    BY <1>1, <1>2, <1>3, <1>4, <1>5 DEF ReduceEdge

\* Once a rank is in reduceSync no reduction is outstanding.
LEMMA SyncQuiet ==
  ASSUME ControlOK, NEW r \in Rank, phase[r] \in {"sync", "return"}, NEW s \in Rank
  PROVE  barrier_started[s] /\ ~reduce_outstanding[s] /\ phase[s] # "main"
  BY DEF ControlOK, PhasesOK

\* While one is, nobody is in reduceSync.
LEMMA NotInSync ==
  ASSUME ControlOK, NEW r \in Rank, reduce_outstanding[r] \/ phase[r] = "main",
         NEW s \in Rank
  PROVE  /\ phase[s] \in {"main", "cleanup"} /\ sync_i[s] = 0
         /\ \A c \in ChildrenRanks(s) : ~SyncTaken(c)
  <1>1. phase[s] \in {"main", "cleanup"} /\ sync_i[s] = 0
    BY SyncQuiet DEF ControlOK, CountersOK, Phase, PhasesOK
  <1>2. ASSUME NEW c \in ChildrenRanks(s) PROVE ~SyncTaken(c)
    <2>1. getParentRank(c) = s /\ left(s) \in Nat /\ c \in left(s) .. left(s) + getChildrenCount(s) - 1
          /\ getChildrenCount(s) \in Nat
      BY TreeEdges, EdgeCases DEF ControlOK
    <2>. QED
      BY <1>1, <2>1 DEF SyncTaken
  <1>. QED
    BY <1>1, <1>2

\* The edge between c and its parent after a step that leaves it alone.
LEMMA EdgeFrame ==
  ASSUME UNCHANGED <<nranks, maxChildren>>,
         NEW c \in Rank \ {0}, ReduceEdge(c),
         msg'[getParentRank(c)][c] = msg[getParentRank(c)][c],
         msg'[c][getParentRank(c)] = msg[c][getParentRank(c)],
         reduce_outstanding'[c] = reduce_outstanding[c],
         reduce_outstanding'[getParentRank(c)] = reduce_outstanding[getParentRank(c)],
         phase'[c] = "return" <=> phase[c] = "return",
         sync_i'[getParentRank(c)] = sync_i[getParentRank(c)]
  PROVE  ReduceEdge(c)'
  <1>1. getParentRank(c)' = getParentRank(c) /\ SyncTaken(c)' = SyncTaken(c)
    BY TreeFixed DEF SyncTaken
  <1>. QED
    BY <1>1 DEF ReduceEdge, InvalidReply, ValidReply

\* The children heard after a step that leaves their edges alone.
LEMMA HeardFrame ==
  ASSUME UNCHANGED <<nranks, maxChildren>>, NEW x \in Rank,
         phase'[x] \in {"main", "cleanup"} <=> phase[x] \in {"main", "cleanup"},
         phase[x] \in {"main", "cleanup"} =>
           \A c \in ChildrenRanks(x) :
             (/\ ~reduce_outstanding[c] /\ msg[c][x] = <<>> /\ msg[x][c] = <<>>)
             <=> (/\ ~reduce_outstanding'[c] /\ msg'[c][x] = <<>>
                  /\ msg'[x][c] = <<>>),
         phase[x] \notin {"main", "cleanup"} =>
           \A c \in ChildrenRanks(x) :
             getParentRank(c) = x /\ sync_i'[x] = sync_i[x]
  PROVE  Heard(x)' = Heard(x)
  <1>1. /\ ChildrenRanks(x)' = ChildrenRanks(x)
        /\ \A c : getParentRank(c)' = getParentRank(c) /\ left(x)' = left(x)
    BY TreeFixed
  <1>2. CASE phase[x] \in {"main", "cleanup"}
    BY <1>1, <1>2 DEF Heard
  <1>3. CASE phase[x] \notin {"main", "cleanup"}
    <2>1. \A c \in ChildrenRanks(x) : SyncTaken(c)' = SyncTaken(c)
      BY <1>1, <1>3 DEF SyncTaken
    <2>. QED
      BY <1>1, <1>3, <2>1 DEF Heard
  <1>. QED
    BY <1>2, <1>3

-----------------------------------------------------------------------------
(* ReduceStart *)

\* The parent is asked to take part, or is the one that asks.
LEMMA AskedByParent ==
  ASSUME ControlOK, NEW r \in Rank, Asked(r), phase[r] \in {"main", "cleanup"}
  PROVE  /\ r \in Rank \ {0} /\ getParentRank(r) \in Rank
         /\ getParentRank(r) # r /\ r \in ChildrenRanks(getParentRank(r))
         /\ msg[getParentRank(r)][r] = <<START>> /\ msg[r][getParentRank(r)] = <<>>
         /\ reduce_outstanding[getParentRank(r)] /\ ~reduce_outstanding[r]
  <1>1. r \in Rank \ {0} /\ getParentRank(r) \in Rank
        /\ r \in ChildrenRanks(getParentRank(r))
    BY TreeEdges DEF Asked, ControlOK
  <1>. QED
    BY <1>1, EdgeCases DEF Asked

\* What ReduceStart does to the messages.
LEMMA StartMessages ==
  ASSUME ControlOK, NEW r \in Rank, ReduceStart(r)
  PROVE  \A s, d \in Rank :
           msg'[s][d] =
             IF s = r /\ d \in ChildrenRanks(r) THEN <<START>>
             ELSE IF d = r /\ s = getParentRank(r) THEN <<>> ELSE msg[s][d]
  <1>. DEFINE p == getParentRank(r)
              new == [d \in Rank |-> IF d \in ChildrenRanks(r) THEN <<START>> ELSE <<>>]
              taken == FromParent(r)
  <1>1. /\ phase[r] = "main" /\ ~reduce_outstanding[r]
        /\ r = 0 \/ Asked(r)
        /\ Exchange(r, taken, new)
    BY DEF ReduceStart
  <1>2. \A c \in ChildrenRanks(r) : c \in Rank /\ c # r /\ msg[r][c] = <<>>
    BY <1>1, EdgeCases
  <1>3. \A s \in Rank : Short(msg[s][r]) /\ taken[s] = IF s = p THEN 1 ELSE 0
    BY MessagesShort DEF FromParent, ControlOK
  <1>4. p \in Rank => msg[p][r] = <<START>> /\ Len(msg[p][r]) = 1
    <2>1. r = 0 => p \notin Rank
      BY TreeEdges DEF ControlOK
    <2>2. Len(<<START>>) = 1
      OBVIOUS
    <2>. QED
      BY <1>1, <2>1, <2>2, AskedByParent
  <1>5. \A d \in Rank : /\ Short(msg[r][d])
                        /\ new[d] = IF d \in ChildrenRanks(r) THEN <<START>> ELSE <<>>
    BY MessagesShort DEF ControlOK
  <1>6. \A d \in Rank : Short(new[d]) /\ (d # r => msg[r][d] = <<>> \/ new[d] = <<>>)
    BY <1>2, <1>5 DEF Short
  <1>7. \A s \in Rank : taken[s] \in {0, Len(msg[s][r])}
    BY <1>3, <1>4
  <1>. HIDE DEF new, taken
  <1>8. \A s, d \in Rank :
          msg'[s][d] =
            IF d = r THEN IF taken[s] = 0 THEN msg[s][r] ELSE <<>>
            ELSE IF s = r /\ new[d] # <<>> THEN new[d] ELSE msg[s][d]
    BY <1>1, <1>3, <1>5, <1>6, <1>7, ExchangeEffect DEF ControlOK
  <1>9. <<START>> # <<>>
    OBVIOUS
  <1>. QED
    BY <1>2, <1>3, <1>5, <1>8, <1>9

LEMMA StartControl ==
  ASSUME ControlOK, NEW r \in Rank, ReduceStart(r)
  PROVE  ControlOK' /\ (\A x \in Rank : reduce_outstanding'[x] =>
                          Heard(x)' = IF x = r THEN {} ELSE Heard(x))
  <1>. DEFINE p == getParentRank(r)
  <1>1. /\ phase[r] = "main" /\ ~reduce_outstanding[r]
        /\ r = 0 \/ Asked(r)
        /\ UNCHANGED jobVars /\ UNCHANGED <<sync_i, result>>
        /\ UNCHANGED <<nranks, maxChildren>>
        /\ reduce_outstanding' = [reduce_outstanding EXCEPT ![r] = TRUE]
        /\ reduce_replies' = [reduce_replies EXCEPT ![r] = 0]
        /\ local_valid' = [local_valid EXCEPT ![r] = TRUE]
        /\ local_total' = [local_total EXCEPT ![r] = 0]
        /\ inits' = [inits EXCEPT ![r] = @ + 1]
        /\ reduce_buf' = [reduce_buf EXCEPT ![r] = Contribution(r, inits[r] + 1)]
    BY DEF ReduceStart, NoReplies, jobVars
  <1>2. VariablesOK /\ CountersOK
    BY DEF ControlOK
  <1>3. /\ Rank' = Rank /\ \A x : getChildrenCount(x)' = getChildrenCount(x)
        /\ \A x : getParentRank(x)' = getParentRank(x)
        /\ \A x : ChildrenRanks(x)' = ChildrenRanks(x)
    BY <1>1, TreeFixed
  <1>4. \A x \in Rank : reduce_outstanding'[x] = IF x = r THEN TRUE ELSE reduce_outstanding[x]
    BY <1>1, <1>2 DEF VariablesOK
  <1>5. \A s, d \in Rank :
          msg'[s][d] = IF s = r /\ d \in ChildrenRanks(r) THEN <<START>>
                       ELSE IF d = r /\ s = p THEN <<>> ELSE msg[s][d]
    BY StartMessages
  <1>6. /\ r # 0 => /\ p \in Rank /\ p # r /\ msg[p][r] = <<START>> /\ msg[r][p] = <<>>
                    /\ reduce_outstanding[p]
        /\ \A c \in ChildrenRanks(r) : /\ c \in Rank \ {0} /\ getParentRank(c) = r
                                       /\ msg[r][c] = <<>> /\ msg[c][r] = <<>>
                                       /\ ~reduce_outstanding[c]
    <2>1. r # 0 => /\ p \in Rank /\ p # r /\ msg[p][r] = <<START>> /\ msg[r][p] = <<>>
                   /\ reduce_outstanding[p]
      BY <1>1, AskedByParent
    <2>2. ASSUME NEW c \in ChildrenRanks(r)
          PROVE  /\ c \in Rank \ {0} /\ getParentRank(c) = r
                 /\ msg[r][c] = <<>> /\ ~reduce_outstanding[c]
                 /\ msg[c][r] # <<>> => phase[c] = "return"
      BY <1>1, EdgeCases
    <2>3. \A c \in ChildrenRanks(r) : phase[c] # "return"
      BY <1>1, <2>2, NotInSync
    <2>. QED
      BY <2>1, <2>2, <2>3
  <1>7. VariablesOK'
    <2>1. msg' = [s \in Rank |-> [d \in Rank |-> msg'[s][d]]]
      BY <1>2 DEF ReduceStart, Exchange, VariablesOK
    <2>2. reduce_buf' = [x \in Rank |-> reduce_buf'[x]]
      BY <1>1, <1>2 DEF VariablesOK
    <2>. QED
      BY <1>1, <1>2, <1>3, <2>1, <2>2 DEF VariablesOK, jobVars
  <1>8. CountersOK'
    <2>1. \A x \in Rank : getChildrenCount(x) \in Nat
      BY <1>2, TreeEdges
    <2>. QED
      BY <1>1, <1>2, <1>3, <2>1 DEF CountersOK, jobVars
  <1>9. PhasesOK'
    BY <1>1, <1>2, <1>3, <1>4 DEF ControlOK, PhasesOK, VariablesOK, jobVars
  <1>10. \A x, y \in Rank : y \in ChildrenRanks(x) => ~SyncTaken(y) /\ phase[y] # "return"
    BY <1>1, <1>2, NotInSync, TreeEdges
  <1>11. ReduceEdges'
    <2>1. ASSUME NEW c \in Rank \ {0} PROVE ReduceEdge(c)'
      <3>. DEFINE q == getParentRank(c)
      <3>1. q \in Rank /\ c \in ChildrenRanks(q) /\ c # q /\ ReduceEdge(c)
        BY <1>2, TreeEdges, EdgeCases DEF ControlOK, ReduceEdges
      <3>2. SyncTaken(c)' = SyncTaken(c)
        BY <1>1, TreeFixed DEF SyncTaken
      <3>3. CASE c = r
        <4>1. /\ msg'[q][c] = <<>> /\ msg'[c][q] = <<>>
              /\ reduce_outstanding'[q] /\ phase'[c] # "return"
          BY <1>1, <1>4, <1>5, <1>6, <3>1, <3>3 DEF jobVars
        <4>. QED
          BY <1>3, <1>10, <3>1, <3>2, <4>1 DEF ReduceEdge
      <3>4. CASE q = r
        <4>1. /\ msg'[q][c] = <<START>> /\ msg'[c][q] = <<>>
              /\ reduce_outstanding'[q] /\ ~reduce_outstanding'[c]
          BY <1>4, <1>5, <1>6, <3>1, <3>4
        <4>. QED
          BY <1>3, <4>1 DEF ReduceEdge
      <3>5. CASE c # r /\ q # r
        <4>1. msg'[q][c] = msg[q][c] /\ msg'[c][q] = msg[c][q]
          BY <1>5, <3>1, <3>5
        <4>. QED
          BY <1>1, <1>4, <3>1, <3>5, <4>1, EdgeFrame DEF jobVars
      <3>. QED
        BY <3>3, <3>4, <3>5
    <2>2. ASSUME NEW s \in Rank, NEW d \in Rank, msg'[s][d] # <<>>
          PROVE  s = getParentRank(d) \/ d = getParentRank(s)
      BY <1>5, <1>6, <2>2 DEF ControlOK, ReduceEdges
    <2>. QED
      BY <1>3, <2>1, <2>2 DEF ReduceEdges
  <1>12. ASSUME NEW x \in Rank, reduce_outstanding'[x]
         PROVE  Heard(x)' = IF x = r THEN {} ELSE Heard(x)
    <2>1. phase'[x] \in {"main", "cleanup"} /\ phase[x] \in {"main", "cleanup"}
      BY <1>1, NotInSync DEF jobVars
    <2>2. CASE x = r
      <3>1. \A c \in ChildrenRanks(r) : msg'[r][c] # <<>>
        <4>1. <<START>> # <<>>
          OBVIOUS
        <4>. QED
          BY <1>5, <1>6, <4>1
      <3>. QED
        BY <1>3, <2>1, <2>2, <3>1 DEF Heard
    <2>3. CASE x # r
      <3>1. ASSUME NEW c \in ChildrenRanks(x)
            PROVE  (/\ ~reduce_outstanding[c] /\ msg[c][x] = <<>> /\ msg[x][c] = <<>>)
                   <=> (/\ ~reduce_outstanding'[c] /\ msg'[c][x] = <<>>
                        /\ msg'[x][c] = <<>>)
        <4>1. c \in Rank \ {0} /\ getParentRank(c) = x /\ c # x
          BY <1>2, EdgeCases
        <4>2. CASE c = r
          <5>1. msg[x][c] # <<>> /\ reduce_outstanding'[c]
            <6>1. <<START>> # <<>>
              OBVIOUS
            <6>. QED
              BY <1>4, <1>6, <4>1, <4>2, <6>1
          <5>. QED
            BY <5>1
        <4>3. CASE c # r
          BY <1>4, <1>5, <2>3, <4>1, <4>3
        <4>. QED
          BY <4>2, <4>3
      <3>. QED
        BY <1>1, <2>1, <2>3, <3>1, HeardFrame
    <2>. QED
      BY <2>2, <2>3
  <1>13. RepliesCounted'
    <2>1. ASSUME NEW x \in Rank, reduce_outstanding'[x]
          PROVE  reduce_replies'[x] = Cardinality(Heard(x)')
      <3>1. CASE x = r
        BY <1>1, <1>2, <1>12, <2>1, <3>1, FS_EmptySet DEF CountersOK
      <3>2. CASE x # r
        <4>1. reduce_replies'[x] = reduce_replies[x] /\ reduce_outstanding[x]
              /\ Heard(x)' = Heard(x)
          BY <1>1, <1>2, <1>4, <1>12, <2>1, <3>2 DEF CountersOK
        <4>. QED
          BY <4>1 DEF ControlOK, RepliesCounted
      <3>. QED
        BY <3>1, <3>2
    <2>. QED
      BY <1>3, <2>1 DEF RepliesCounted
  <1>. QED
    BY <1>7, <1>8, <1>9, <1>11, <1>12, <1>13 DEF ControlOK

-----------------------------------------------------------------------------
(* ReduceRefuse *)

\* What ReduceRefuse does to the messages.
LEMMA RefuseMessages ==
  ASSUME ControlOK, NEW r \in Rank, ReduceRefuse(r)
  PROVE  \A s, d \in Rank :
           msg'[s][d] =
             IF s = r /\ d = getParentRank(r) THEN <<Header(FALSE, local_total[r])>>
             ELSE IF d = r /\ s = getParentRank(r) THEN <<>> ELSE msg[s][d]
  <1>. DEFINE p == getParentRank(r)
              reply == <<Header(FALSE, local_total[r])>>
              new == ToParent(r, reply)
              taken == FromParent(r)
  <1>1. /\ phase[r] = "cleanup" /\ Asked(r) /\ Exchange(r, taken, new)
    BY DEF ReduceRefuse, Refusal
  <1>2. /\ p \in Rank /\ p # r /\ msg[r][p] = <<>> /\ msg[p][r] = <<START>>
        /\ Len(msg[p][r]) = 1
    <2>1. Len(<<START>>) = 1
      OBVIOUS
    <2>. QED
      BY <1>1, <2>1, AskedByParent
  <1>3. Short(reply) /\ reply # <<>>
    <2>. DEFINE h == Header(FALSE, local_total[r])
    <2>1. <<h>> # <<>>
      OBVIOUS
    <2>. QED
      BY <2>1 DEF Short
  <1>4. \A s \in Rank : Short(msg[s][r]) /\ taken[s] = IF s = p THEN 1 ELSE 0
    BY MessagesShort DEF FromParent, ControlOK
  <1>. HIDE DEF reply
  <1>5. \A d \in Rank : Short(msg[r][d]) /\ new[d] = IF d = p THEN reply ELSE <<>>
    BY MessagesShort DEF ToParent, ControlOK
  <1>6. \A d \in Rank : Short(new[d]) /\ (d # r => msg[r][d] = <<>> \/ new[d] = <<>>)
    BY <1>2, <1>3, <1>5 DEF Short
  <1>7. \A s \in Rank : taken[s] \in {0, Len(msg[s][r])}
    BY <1>2, <1>4
  <1>. HIDE DEF new, taken
  <1>8. \A s, d \in Rank :
          msg'[s][d] =
            IF d = r THEN IF taken[s] = 0 THEN msg[s][r] ELSE <<>>
            ELSE IF s = r /\ new[d] # <<>> THEN new[d] ELSE msg[s][d]
    BY <1>1, <1>4, <1>5, <1>6, <1>7, ExchangeEffect DEF ControlOK
  <1>9. \A s, d \in Rank :
          msg'[s][d] = IF s = r /\ d = p THEN reply
                       ELSE IF d = r /\ s = p THEN <<>> ELSE msg[s][d]
    BY <1>2, <1>3, <1>4, <1>5, <1>8
  <1>. QED
    BY <1>9 DEF reply

LEMMA RefuseControl ==
  ASSUME ControlOK, NEW r \in Rank, ReduceRefuse(r)
  PROVE  ControlOK' /\ (\A x \in Rank : reduce_outstanding'[x] => Heard(x)' = Heard(x))
  <1>. DEFINE p == getParentRank(r)
              reply == <<Header(FALSE, local_total[r])>>
  <1>1. /\ phase[r] = "cleanup" /\ ~reduce_outstanding[r] /\ Asked(r)
        /\ UNCHANGED jobVars /\ UNCHANGED <<nranks, maxChildren>>
        /\ UNCHANGED <<reduce_outstanding, reduce_replies, local_total, reduce_buf,
                       sync_i, rounds, inits, result>>
        /\ local_valid' = [local_valid EXCEPT ![r] = FALSE]
    BY DEF ReduceRefuse, jobVars
  <1>2. VariablesOK /\ CountersOK
    BY DEF ControlOK
  <1>3. /\ Rank' = Rank /\ \A x : getChildrenCount(x)' = getChildrenCount(x)
        /\ \A x : getParentRank(x)' = getParentRank(x)
        /\ \A x : ChildrenRanks(x)' = ChildrenRanks(x)
    BY <1>1, TreeFixed
  <1>4. /\ r # 0 /\ p \in Rank /\ p # r /\ msg[p][r] = <<START>> /\ msg[r][p] = <<>>
        /\ reduce_outstanding[p]
    BY <1>1, AskedByParent
  <1>5. \A s, d \in Rank :
          msg'[s][d] = IF s = r /\ d = p THEN reply
                       ELSE IF d = r /\ s = p THEN <<>> ELSE msg[s][d]
    BY RefuseMessages
  <1>6. InvalidReply(reply) /\ reply # <<>>
    <2>1. local_total[r] \in Nat
      BY <1>2 DEF VariablesOK
    <2>2. InvalidReply(reply)
      BY <2>1, MakeReply
    <2>. HIDE DEF reply
    <2>. QED
      BY <2>2, ReplyForms
  <1>. HIDE DEF reply
  <1>7. VariablesOK'
    <2>1. msg' = [s \in Rank |-> [d \in Rank |-> msg'[s][d]]]
      BY <1>2 DEF ReduceRefuse, Exchange, VariablesOK
    <2>. QED
      BY <1>1, <1>2, <1>3, <2>1 DEF VariablesOK, jobVars
  <1>8. CountersOK'
    BY <1>1, <1>2, <1>3 DEF CountersOK, jobVars
  <1>9. PhasesOK'
    BY <1>1, <1>2, <1>3 DEF ControlOK, PhasesOK, VariablesOK, jobVars
  <1>10. ReduceEdges'
    <2>1. ASSUME NEW c \in Rank \ {0} PROVE ReduceEdge(c)'
      <3>. DEFINE q == getParentRank(c)
      <3>1. q \in Rank /\ c \in ChildrenRanks(q) /\ c # q /\ ReduceEdge(c)
        BY <1>2, TreeEdges, EdgeCases DEF ControlOK, ReduceEdges
      <3>2. CASE c = r
        <4>1. /\ msg'[q][c] = <<>> /\ msg'[c][q] = reply
              /\ reduce_outstanding'[q] /\ ~reduce_outstanding'[c]
          BY <1>1, <1>4, <1>5, <3>1, <3>2
        <4>2. InvalidReply(msg[c][q])'
          <5>1. /\ reply = <<Header(FALSE, reply[1].total)>>
                /\ reply[1].total \in Nat
            BY <1>6 DEF InvalidReply
          <5>2. msg'[c][getParentRank(c)'] = reply
            BY <1>3, <4>1
          <5>. QED
            BY <5>1, <5>2 DEF InvalidReply
        <4>. QED
          BY <1>3, <4>1, <4>2 DEF ReduceEdge
      <3>3. CASE c # r
        <4>1. msg'[q][c] = msg[q][c] /\ msg'[c][q] = msg[c][q]
          <5>1. ~(c = p /\ q = r)
            BY <1>2, <1>4, <3>1, TreeEdges, EdgeCases
          <5>. QED
            BY <1>5, <3>1, <3>3, <5>1
        <4>. QED
          BY <1>1, <3>1, <4>1, EdgeFrame DEF jobVars
      <3>. QED
        BY <3>2, <3>3
    <2>2. ASSUME NEW s \in Rank, NEW d \in Rank, msg'[s][d] # <<>>
          PROVE  s = getParentRank(d) \/ d = getParentRank(s)
      BY <1>5, <2>2 DEF ControlOK, ReduceEdges
    <2>. QED
      BY <1>3, <2>1, <2>2 DEF ReduceEdges
  <1>11. ASSUME NEW x \in Rank, reduce_outstanding'[x]
         PROVE  Heard(x)' = Heard(x)
    <2>1. phase'[x] \in {"main", "cleanup"} /\ phase[x] \in {"main", "cleanup"}
          /\ reduce_outstanding[x] /\ x # r
      BY <1>1, <1>11, NotInSync DEF jobVars
    <2>2. ASSUME NEW c \in ChildrenRanks(x)
          PROVE  (/\ ~reduce_outstanding[c] /\ msg[c][x] = <<>> /\ msg[x][c] = <<>>)
                 <=> (/\ ~reduce_outstanding'[c] /\ msg'[c][x] = <<>>
                      /\ msg'[x][c] = <<>>)
      <3>1. c \in Rank \ {0} /\ getParentRank(c) = x /\ c # x
        BY <1>2, EdgeCases
      <3>2. CASE c = r
        <4>1. msg[x][c] # <<>> /\ msg'[c][x] # <<>>
          <5>1. <<START>> # <<>>
            OBVIOUS
          <5>. QED
            BY <1>4, <1>5, <1>6, <3>1, <3>2, <5>1
        <4>. QED
          BY <4>1
      <3>3. CASE c # r
        BY <1>1, <1>5, <2>1, <3>1, <3>3
      <3>. QED
        BY <3>2, <3>3
    <2>. QED
      BY <1>1, <2>1, <2>2, HeardFrame
  <1>12. RepliesCounted'
    BY <1>1, <1>3, <1>11 DEF ControlOK, RepliesCounted
  <1>. QED
    BY <1>7, <1>8, <1>9, <1>10, <1>11, <1>12 DEF ControlOK

-----------------------------------------------------------------------------
(* ReduceGather *)

\* A reply that reduceCheck finds, with what it makes of it.
LEMMA ReplyFound ==
  ASSUME ControlOK, NEW r \in Rank, Gathers(r), NEW c \in Replied(r)
  PROVE  /\ c \in ChildrenRanks(r) /\ c \in Rank \ {0} /\ c # r /\ getParentRank(c) = r
         /\ msg[c][r] # <<>> /\ msg[r][c] = <<>>
         /\ reduce_outstanding[r] /\ ~reduce_outstanding[c]
         /\ InvalidReply(msg[c][r]) \/ ValidReply(msg[c][r])
         /\ Sender(c, r).valid \in BOOLEAN /\ Sender(c, r).total \in Nat
         /\ Sender(c, r).valid <=> ValidReply(msg[c][r])
         /\ Combined(r, c).valid \in BOOLEAN /\ Combined(r, c).total \in Nat
         /\ Combined(r, c).replies = reduce_replies[r] + 1
         /\ \A s \in Rank : Taken(r, c)[s] = IF s = c THEN Len(msg[c][r]) ELSE 0
  <1>1. c \in ChildrenRanks(r) /\ msg[c][r] # <<>> /\ reduce_outstanding[r]
    BY DEF Replied, Gathers
  <1>2. /\ c \in Rank \ {0} /\ c # r /\ getParentRank(c) = r
        /\ msg[r][c] = <<>> /\ ~reduce_outstanding[c]
        /\ InvalidReply(msg[c][r]) \/ ValidReply(msg[c][r])
    BY <1>1, EdgeCases
  <1>3. /\ Sender(c, r).valid \in BOOLEAN /\ Sender(c, r).total \in Nat
        /\ Sender(c, r).valid <=> ValidReply(msg[c][r])
        /\ Len(msg[c][r]) = IF Sender(c, r).valid THEN 2 ELSE 1
    BY <1>2, ReplyForms DEF Sender
  <1>4. /\ Combined(r, c).valid \in BOOLEAN /\ Combined(r, c).total \in Nat
        /\ Combined(r, c).replies = reduce_replies[r] + 1
    <2>1. local_total[r] \in Nat /\ local_valid[r] \in BOOLEAN
      BY DEF ControlOK, VariablesOK
    <2>2. /\ Combined(r, c).valid = (local_valid[r] /\ Sender(c, r).valid)
          /\ Combined(r, c).total =
               local_total[r] + (IF Sender(c, r).valid THEN Sender(c, r).total ELSE 0)
          /\ Combined(r, c).replies = reduce_replies[r] + 1
      BY DEF Combined
    <2>3. Combined(r, c).valid \in BOOLEAN
      BY <1>3, <2>1, <2>2
    <2>. QED
      BY <1>3, <2>1, <2>2, <2>3
  <1>5. \A s \in Rank : Taken(r, c)[s] = IF s = c THEN Len(msg[c][r]) ELSE 0
    BY <1>2, <1>3 DEF Taken, None
  <1>. QED
    BY <1>1, <1>2, <1>3, <1>4, <1>5

\* A message less: what a step does to the messages that takes those of c.
LEMMA TakeMessages ==
  ASSUME ControlOK, NEW r \in Rank, NEW c \in Rank, NEW taken,
         \A s \in Rank : taken[s] = IF s = c THEN Len(msg[c][r]) ELSE 0,
         Exchange(r, taken, Silent)
  PROVE  \A s, d \in Rank :
           msg'[s][d] = IF s = c /\ d = r THEN <<>> ELSE msg[s][d]
  <1>1. \A s \in Rank : Short(msg[s][r]) /\ taken[s] \in {0, Len(msg[s][r])}
    BY MessagesShort DEF ControlOK
  <1>2. \A d \in Rank : Short(msg[r][d]) /\ Silent[d] = <<>> /\ Short(Silent[d])
    BY MessagesShort DEF ControlOK, Silent, Short
  <1>3. \A s, d \in Rank :
          msg'[s][d] =
            IF d = r THEN IF taken[s] = 0 THEN msg[s][r] ELSE <<>>
            ELSE IF s = r /\ Silent[d] # <<>> THEN Silent[d] ELSE msg[s][d]
    BY <1>1, <1>2, ExchangeEffect DEF ControlOK
  <1>4. Len(msg[c][r]) = 0 <=> msg[c][r] = <<>>
    BY <1>1, ShortSequences
  <1>. QED
    BY <1>2, <1>3, <1>4

LEMMA GatherControl ==
  ASSUME ControlOK, NEW r \in Rank, Gathers(r), NEW c \in Replied(r),
         Combined(r, c).replies # getChildrenCount(r),
         Keep(r, Combined(r, c)),
         local_total' = [local_total EXCEPT ![r] = Combined(r, c).total],
         Exchange(r, Taken(r, c), Silent),
         UNCHANGED <<jobVars, reduce_outstanding, sync_i, rounds, inits, result>>
  PROVE  /\ ControlOK'
         /\ \A s, d \in Rank : msg'[s][d] = IF s = c /\ d = r THEN <<>> ELSE msg[s][d]
         /\ c \notin Heard(r)
         /\ \A x \in Rank : reduce_outstanding[x] =>
              Heard(x)' = IF x = r THEN Heard(r) \cup {c} ELSE Heard(x)
  <1>1. /\ UNCHANGED jobVars /\ UNCHANGED <<nranks, maxChildren>>
        /\ UNCHANGED <<reduce_outstanding, sync_i, rounds, inits, result>>
        /\ reduce_replies' = [reduce_replies EXCEPT ![r] = reduce_replies[r] + 1]
        /\ local_valid' = [local_valid EXCEPT ![r] = Combined(r, c).valid]
        /\ reduce_buf' = [reduce_buf EXCEPT ![r] = Combined(r, c).buf]
    BY ReplyFound DEF Keep, jobVars
  <1>2. VariablesOK /\ CountersOK
    BY DEF ControlOK
  <1>3. /\ Rank' = Rank /\ \A x : getChildrenCount(x)' = getChildrenCount(x)
        /\ \A x : getParentRank(x)' = getParentRank(x)
        /\ \A x : ChildrenRanks(x)' = ChildrenRanks(x)
    BY <1>1, TreeFixed
  <1>4. /\ c \in ChildrenRanks(r) /\ c \in Rank \ {0} /\ c # r /\ getParentRank(c) = r
        /\ msg[c][r] # <<>> /\ msg[r][c] = <<>>
        /\ reduce_outstanding[r] /\ ~reduce_outstanding[c]
        /\ Combined(r, c).valid \in BOOLEAN /\ Combined(r, c).total \in Nat
        /\ Combined(r, c).replies = reduce_replies[r] + 1
    BY ReplyFound
  <1>5. \A s, d \in Rank : msg'[s][d] = IF s = c /\ d = r THEN <<>> ELSE msg[s][d]
    <2>. DEFINE taken == Taken(r, c)
    <2>1. \A s \in Rank : taken[s] = IF s = c THEN Len(msg[c][r]) ELSE 0
      BY ReplyFound
    <2>. HIDE DEF taken
    <2>2. Exchange(r, taken, Silent)
      BY DEF taken
    <2>. QED
      BY <1>4, <2>1, <2>2, TakeMessages, SMTT(30)
  <1>6. VariablesOK'
    <2>1. msg' = [s \in Rank |-> [d \in Rank |-> msg'[s][d]]]
      BY <1>2 DEF Exchange, VariablesOK
    <2>2. reduce_buf' = [x \in Rank |-> reduce_buf'[x]]
      BY <1>1, <1>2 DEF VariablesOK
    <2>3. local_total' \in [Rank -> Nat] /\ local_valid' \in [Rank -> BOOLEAN]
      BY <1>1, <1>2, <1>4 DEF VariablesOK
    <2>. QED
      BY <1>1, <1>2, <1>3, <2>1, <2>2, <2>3 DEF VariablesOK, jobVars
  <1>7. ASSUME NEW x \in Rank, reduce_outstanding[x]
        PROVE  Heard(x)' = IF x = r THEN Heard(r) \cup {c} ELSE Heard(x)
    <2>1. phase'[x] \in {"main", "cleanup"} /\ phase[x] \in {"main", "cleanup"}
      BY <1>1, <1>7, NotInSync DEF jobVars
    <2>2. \A y \in ChildrenRanks(x) : y \in Rank \ {0} /\ getParentRank(y) = x /\ y # x
      BY EdgeCases
    <2>3. CASE x = r
      <3>1. \A y \in ChildrenRanks(r) :
              /\ msg'[y][r] = IF y = c THEN <<>> ELSE msg[y][r]
              /\ msg'[r][y] = msg[r][y]
        BY <1>4, <1>5, <2>2, <2>3
      <3>. QED
        BY <1>1, <1>3, <1>4, <2>1, <2>3, <3>1 DEF Heard
    <2>4. CASE x # r
      <3>1. \A y \in ChildrenRanks(x) : msg'[y][x] = msg[y][x] /\ msg'[x][y] = msg[x][y]
        <4>. SUFFICES ASSUME NEW y \in ChildrenRanks(x)
                      PROVE  msg'[y][x] = msg[y][x] /\ msg'[x][y] = msg[x][y]
          OBVIOUS
        <4>1. ~(x = c /\ y = r)
          BY <1>2, <1>4, <2>2, TreeEdges
        <4>. QED
          BY <1>5, <2>2, <2>4, <4>1
      <3>. QED
        BY <1>1, <2>1, <2>4, <3>1, HeardFrame
    <2>. QED
      BY <2>3, <2>4
  <1>8. c \notin Heard(r)
    <2>1. phase[r] \in {"main", "cleanup"}
      BY DEF Gathers
    <2>. QED
      BY <1>4, <2>1 DEF Heard
  <1>9. /\ IsFiniteSet(Heard(r)) /\ Cardinality(Heard(r)) = reduce_replies[r]
        /\ Cardinality(Heard(r) \cup {c}) = reduce_replies[r] + 1
        /\ reduce_replies[r] + 1 <= getChildrenCount(r)
    <2>1. /\ IsFiniteSet(ChildrenRanks(r))
          /\ Cardinality(ChildrenRanks(r)) = getChildrenCount(r)
      BY <1>2, TreeEdges
    <2>2. Heard(r) \in SUBSET ChildrenRanks(r) /\ Heard(r) \cup {c} \in SUBSET ChildrenRanks(r)
      BY <1>4 DEF Heard
    <2>3. IsFiniteSet(Heard(r)) /\ Cardinality(Heard(r) \cup {c}) <= getChildrenCount(r)
      BY <2>1, <2>2, FS_Subset
    <2>4. Cardinality(Heard(r)) = reduce_replies[r]
      BY <1>4 DEF ControlOK, RepliesCounted
    <2>5. Cardinality(Heard(r) \cup {c}) = Cardinality(Heard(r)) + 1
      BY <1>8, <2>3, FS_AddElement
    <2>. QED
      BY <2>3, <2>4, <2>5
  <1>10. CountersOK'
    BY <1>1, <1>2, <1>3, <1>9 DEF CountersOK, jobVars
  <1>11. PhasesOK'
    <2>1. phase[r] # "sync"
      BY DEF Gathers
    <2>. QED
      BY <1>1, <1>2, <1>3, <2>1 DEF ControlOK, PhasesOK, VariablesOK, jobVars
  <1>12. ReduceEdges'
    <2>1. ASSUME NEW y \in Rank \ {0} PROVE ReduceEdge(y)'
      <3>. DEFINE q == getParentRank(y)
      <3>1. q \in Rank /\ y \in ChildrenRanks(q) /\ y # q /\ q < y /\ ReduceEdge(y)
        BY <1>2, TreeEdges, EdgeCases DEF ControlOK, ReduceEdges
      <3>2. CASE y = c
        <4>1. msg'[q][y] = <<>> /\ msg'[y][q] = <<>> /\ ~reduce_outstanding'[y]
          BY <1>1, <1>4, <1>5, <3>1, <3>2
        <4>2. ~SyncTaken(y)' /\ phase'[y] # "return"
          <5>1. SyncTaken(y)' = SyncTaken(y)
            BY <1>1, TreeFixed DEF SyncTaken
          <5>. QED
            BY <1>1, <1>4, <3>1, <5>1, NotInSync DEF jobVars
        <4>. QED
          BY <1>3, <4>1, <4>2 DEF ReduceEdge
      <3>3. CASE y # c
        <4>1. msg'[q][y] = msg[q][y] /\ msg'[y][q] = msg[y][q]
          <5>1. ~(q = c /\ y = r)
            BY <1>2, <1>4, <3>1, TreeEdges
          <5>. QED
            BY <1>5, <3>1, <3>3, <5>1
        <4>. QED
          BY <1>1, <3>1, <4>1, EdgeFrame DEF jobVars
      <3>. QED
        BY <3>2, <3>3
    <2>2. ASSUME NEW s \in Rank, NEW d \in Rank, msg'[s][d] # <<>>
          PROVE  s = getParentRank(d) \/ d = getParentRank(s)
      BY <1>5, <2>2 DEF ControlOK, ReduceEdges
    <2>. QED
      BY <1>3, <2>1, <2>2 DEF ReduceEdges
  <1>13. RepliesCounted'
    <2>1. ASSUME NEW x \in Rank, reduce_outstanding'[x]
          PROVE  reduce_replies'[x] = Cardinality(Heard(x)')
      <3>1. CASE x = r
        BY <1>1, <1>2, <1>4, <1>7, <1>9, <3>1 DEF CountersOK
      <3>2. CASE x # r
        <4>1. reduce_replies'[x] = reduce_replies[x] /\ reduce_outstanding[x]
              /\ Heard(x)' = Heard(x)
          BY <1>1, <1>2, <1>7, <2>1, <3>2 DEF CountersOK
        <4>. QED
          BY <4>1 DEF ControlOK, RepliesCounted
      <3>. QED
        BY <3>1, <3>2
    <2>. QED
      BY <1>3, <2>1 DEF RepliesCounted
  <1>. QED
    BY <1>5, <1>6, <1>7, <1>8, <1>10, <1>11, <1>12, <1>13 DEF ControlOK

-----------------------------------------------------------------------------
(* ReduceFinish *)

\* The two ways to finish, as one: `done' are the children taken in this call,
\* none or one.
LEMMA FinishForms ==
  ASSUME ControlOK, NEW r \in Rank, ReduceFinish(r)
  PROVE  /\ Gathers(r)
         /\ reduce_outstanding' = [reduce_outstanding EXCEPT ![r] = FALSE]
         /\ UNCHANGED <<jobVars, sync_i, rounds, inits>>
         /\ \/ Complete(r, Gathered(r), None)
            \/ \E c \in Replied(r) : Complete(r, Combined(r, c), Taken(r, c))
  BY DEF ReduceFinish

\* The reply that is sent to the parent.
Answer(r, got) == Reply(got.valid, got.total + local_objects_processed[r], got.buf)

LEMMA AnswerForms ==
  ASSUME ControlOK, NEW r \in Rank, NEW got, got.valid \in BOOLEAN, got.total \in Nat
  PROVE  /\ got.total + local_objects_processed[r] \in Nat
         /\ Answer(r, got) # <<>> /\ Short(Answer(r, got))
         /\ InvalidReply(Answer(r, got)) \/ ValidReply(Answer(r, got))
         /\ Len(Answer(r, got)) = IF got.valid THEN 2 ELSE 1
         /\ got.valid =>
              /\ Answer(r, got)[1].total = got.total + local_objects_processed[r]
              /\ Answer(r, got)[2].buf = got.buf
  <1>. DEFINE total == got.total + local_objects_processed[r]
  <1>1. total \in Nat
    <2>1. local_objects_processed[r] \in 0 .. Items /\ Items \in Nat
      BY ReductionAssumption DEF ControlOK, VariablesOK
    <2>. QED
      BY <2>1
  <1>. HIDE DEF total
  <1>2. /\ InvalidReply(<<Header(FALSE, total)>>)
        /\ ValidReply(<<Header(TRUE, total), Data(got.buf)>>)
        /\ <<Header(TRUE, total), Data(got.buf)>>[1].total = total
        /\ <<Header(TRUE, total), Data(got.buf)>>[2].buf = got.buf
        /\ Answer(r, got) = IF got.valid THEN <<Header(TRUE, total), Data(got.buf)>>
                            ELSE <<Header(FALSE, total)>>
    BY <1>1, MakeReply DEF Answer, total
  <1>3. CASE got.valid
    <2>1. Answer(r, got) = <<Header(TRUE, total), Data(got.buf)>>
      BY <1>2, <1>3
    <2>2. ValidReply(Answer(r, got)) /\ Short(Answer(r, got))
      BY <1>2, <2>1 DEF Short
    <2>3. Answer(r, got) # <<>> /\ Len(Answer(r, got)) = 2
      BY <2>2, ReplyForms
    <2>. QED
      BY <1>1, <1>2, <1>3, <2>1, <2>2, <2>3 DEF total
  <1>4. CASE ~got.valid
    <2>1. Answer(r, got) = <<Header(FALSE, total)>>
      BY <1>2, <1>4
    <2>2. InvalidReply(Answer(r, got)) /\ Short(Answer(r, got))
      BY <1>2, <2>1 DEF Short
    <2>3. Answer(r, got) # <<>> /\ Len(Answer(r, got)) = 1
      BY <2>2, ReplyForms
    <2>. QED
      BY <1>1, <1>4, <2>2, <2>3 DEF total
  <1>. QED
    BY <1>3, <1>4

\* A rank that takes all messages of the children in `done' and sends `reply'
\* to its parent.
LEMMA TakeAndReply ==
  ASSUME ControlOK, NEW r \in Rank, NEW done, done \subseteq ChildrenRanks(r),
         NEW taken, \A s \in Rank : taken[s] = IF s \in done THEN Len(msg[s][r]) ELSE 0,
         NEW reply, Short(reply), reply # <<>>,
         getParentRank(r) \in Rank => msg[r][getParentRank(r)] = <<>>,
         Exchange(r, taken, ToParent(r, reply))
  PROVE  \A s, d \in Rank :
           msg'[s][d] = IF s = r /\ d = getParentRank(r) THEN reply
                        ELSE IF d = r /\ s \in done THEN <<>> ELSE msg[s][d]
  <1>. DEFINE p == getParentRank(r)
              new == ToParent(r, reply)
  <1>1. p # r
    BY TreeEdges DEF ControlOK
  <1>2. \A s \in Rank : Short(msg[s][r]) /\ taken[s] \in {0, Len(msg[s][r])}
    BY MessagesShort DEF ControlOK
  <1>3. \A d \in Rank : Short(msg[r][d]) /\ new[d] = IF d = p THEN reply ELSE <<>>
    BY MessagesShort DEF ToParent, ControlOK
  <1>4. \A d \in Rank : Short(new[d]) /\ (d # r => msg[r][d] = <<>> \/ new[d] = <<>>)
    BY <1>3 DEF Short
  <1>. HIDE DEF new
  <1>5. Exchange(r, taken, new)
    BY DEF new
  <1>6. \A s, d \in Rank :
          msg'[s][d] =
            IF d = r THEN IF taken[s] = 0 THEN msg[s][r] ELSE <<>>
            ELSE IF s = r /\ new[d] # <<>> THEN new[d] ELSE msg[s][d]
    BY <1>2, <1>3, <1>4, <1>5, ExchangeEffect DEF ControlOK
  <1>7. \A s \in Rank : Len(msg[s][r]) = 0 <=> msg[s][r] = <<>>
    BY <1>2, ShortSequences
  <1>. QED
    BY <1>1, <1>3, <1>6, <1>7

\* The call of reduceCheck that finishes: it takes the replies of the children
\* in `done', and `got' is what it has gathered then.
FinishStep(r, done, taken, got) ==
  /\ Gathers(r) /\ done \subseteq Replied(r)
  /\ \A s \in Rank : taken[s] = IF s \in done THEN Len(msg[s][r]) ELSE 0
  /\ got.valid \in BOOLEAN /\ got.total \in Nat
  /\ got.replies = reduce_replies[r] + Cardinality(done)
  /\ Complete(r, got, taken)
  /\ reduce_outstanding' = [reduce_outstanding EXCEPT ![r] = FALSE]
  /\ UNCHANGED <<jobVars, sync_i, rounds, inits>>

LEMMA FinishControl ==
  ASSUME ControlOK, NEW r \in Rank, NEW done, NEW taken, NEW got,
         FinishStep(r, done, taken, got)
  PROVE  /\ ControlOK'
         /\ \A s, d \in Rank :
              msg'[s][d] = IF s = r /\ d = getParentRank(r) THEN Answer(r, got)
                           ELSE IF d = r /\ s \in done THEN <<>> ELSE msg[s][d]
         /\ Heard(r) \cup done = ChildrenRanks(r)
         /\ \A x \in Rank : reduce_outstanding'[x] =>
              x # r /\ reduce_outstanding[x] /\ Heard(x)' = Heard(x)
  <1>. /\ Gathers(r) /\ done \subseteq Replied(r)
       /\ \A s \in Rank : taken[s] = IF s \in done THEN Len(msg[s][r]) ELSE 0
       /\ got.valid \in BOOLEAN /\ got.total \in Nat
       /\ got.replies = reduce_replies[r] + Cardinality(done)
       /\ Complete(r, got, taken)
       /\ reduce_outstanding' = [reduce_outstanding EXCEPT ![r] = FALSE]
       /\ UNCHANGED <<jobVars, sync_i, rounds, inits>>
    BY DEF FinishStep
  <1>. DEFINE p == getParentRank(r)
              total == got.total + local_objects_processed[r]
              reply == Answer(r, got)
  <1>1. /\ UNCHANGED <<nranks, maxChildren>>
        /\ got.replies = getChildrenCount(r)
        /\ reduce_replies' = [reduce_replies EXCEPT ![r] = got.replies]
        /\ local_valid' = [local_valid EXCEPT ![r] = got.valid]
        /\ reduce_buf' = [reduce_buf EXCEPT ![r] = got.buf]
        /\ local_total' = [local_total EXCEPT ![r] = total]
        /\ Exchange(r, taken, ToParent(r, reply))
        /\ result' = IF Delivers(r, got.valid)
                     THEN [buf |-> got.buf, total |-> total] ELSE result
        /\ phase[r] \in {"main", "cleanup"} /\ reduce_outstanding[r]
    BY DEF Complete, Keep, Answer, jobVars, Gathers
  <1>2. VariablesOK /\ CountersOK
    BY DEF ControlOK
  <1>3. /\ Rank' = Rank /\ \A x : getChildrenCount(x)' = getChildrenCount(x)
        /\ \A x : getParentRank(x)' = getParentRank(x)
        /\ \A x : ChildrenRanks(x)' = ChildrenRanks(x)
    BY <1>1, TreeFixed
  <1>4. /\ total \in Nat /\ reply # <<>> /\ Short(reply)
        /\ InvalidReply(reply) \/ ValidReply(reply)
    BY AnswerForms
  <1>. HIDE DEF total, reply
  <1>5. \A c \in done : /\ c \in ChildrenRanks(r) /\ c \in Rank \ {0} /\ c # r
                        /\ msg[c][r] # <<>> /\ ~reduce_outstanding[c]
    BY <1>1, EdgeCases DEF Replied
  <1>6. r # 0 => /\ p \in Rank /\ r \in ChildrenRanks(p) /\ p < r
                 /\ msg[p][r] = <<>> /\ msg[r][p] = <<>> /\ reduce_outstanding[p]
    <2>. SUFFICES ASSUME r # 0
                  PROVE  /\ p \in Rank /\ r \in ChildrenRanks(p) /\ p < r
                         /\ msg[p][r] = <<>> /\ msg[r][p] = <<>> /\ reduce_outstanding[p]
      OBVIOUS
    <2>1. p \in Rank /\ r \in ChildrenRanks(p)
      BY <1>2, TreeEdges
    <2>. QED
      BY <1>1, <2>1, EdgeCases
  <1>7. r = 0 => p \notin Rank
    BY <1>2, TreeEdges
  <1>8. \A s, d \in Rank :
          msg'[s][d] = IF s = r /\ d = p THEN reply
                       ELSE IF d = r /\ s \in done THEN <<>> ELSE msg[s][d]
    <2>1. done \subseteq ChildrenRanks(r)
      BY <1>5
    <2>2. getParentRank(r) \in Rank => msg[r][getParentRank(r)] = <<>>
      BY <1>6, <1>7
    <2>3. Exchange(r, taken, ToParent(r, reply))
      BY <1>1
    <2>. QED
      BY <1>4, <2>1, <2>2, <2>3, TakeAndReply, SMTT(30)
  <1>9. Heard(r) \cup done = ChildrenRanks(r)
    <2>1. /\ IsFiniteSet(ChildrenRanks(r))
          /\ Cardinality(ChildrenRanks(r)) = getChildrenCount(r)
      BY <1>2, TreeEdges
    <2>2. /\ Heard(r) \in SUBSET ChildrenRanks(r) /\ done \in SUBSET ChildrenRanks(r)
          /\ Heard(r) \cup done \in SUBSET ChildrenRanks(r)
          /\ Heard(r) \cap done = {}
      BY <1>1, <1>5 DEF Heard
    <2>3. IsFiniteSet(Heard(r)) /\ IsFiniteSet(done)
      BY <2>1, <2>2, FS_Subset
    <2>4. Cardinality(Heard(r)) = reduce_replies[r]
      BY <1>1 DEF ControlOK, RepliesCounted
    <2>5. Cardinality(Heard(r) \cup done) = Cardinality(Heard(r)) + Cardinality(done) - 0
      BY <2>2, <2>3, FS_Union, FS_EmptySet
    <2>6. Cardinality(done) \in Nat /\ Cardinality(Heard(r)) \in Nat
      BY <2>3, FS_CardinalityType
    <2>7. Cardinality(Heard(r) \cup done) = Cardinality(ChildrenRanks(r))
      BY <1>1, <2>1, <2>4, <2>5, <2>6
    <2>. QED
      BY <2>1, <2>2, <2>7, FS_Subset
  <1>10. \A c \in ChildrenRanks(r) :
           /\ c \in Rank \ {0} /\ getParentRank(c) = r /\ c # r /\ r < c
           /\ ~reduce_outstanding[c] /\ msg[r][c] = <<>>
           /\ c \notin done => msg[c][r] = <<>>
    BY <1>1, <1>5, <1>9, EdgeCases DEF Heard
  <1>11. \A c \in ChildrenRanks(r) : msg'[c][r] = <<>> /\ msg'[r][c] = <<>>
    <2>. SUFFICES ASSUME NEW c \in ChildrenRanks(r)
                  PROVE  msg'[c][r] = <<>> /\ msg'[r][c] = <<>>
      OBVIOUS
    <2>1. c # p
      BY <1>2, <1>6, <1>7, <1>10, TreeEdges
    <2>. QED
      BY <1>8, <1>10, <2>1
  <1>12. \A x \in Rank : reduce_outstanding'[x] <=> (reduce_outstanding[x] /\ x # r)
    BY <1>2 DEF VariablesOK
  <1>13. VariablesOK'
    <2>1. msg' = [s \in Rank |-> [d \in Rank |-> msg'[s][d]]]
      BY <1>1, <1>2 DEF Exchange, VariablesOK
    <2>2. reduce_buf' = [x \in Rank |-> reduce_buf'[x]]
      BY <1>1, <1>2 DEF VariablesOK
    <2>3. /\ local_total' \in [Rank -> Nat] /\ local_valid' \in [Rank -> BOOLEAN]
          /\ reduce_outstanding' \in [Rank -> BOOLEAN]
      BY <1>1, <1>2, <1>4 DEF VariablesOK
    <2>4. result'.total \in Nat
      BY <1>1, <1>2, <1>4 DEF VariablesOK
    <2>. QED
      BY <1>1, <1>2, <1>3, <2>1, <2>2, <2>3, <2>4 DEF VariablesOK, jobVars
  <1>14. CountersOK'
    <2>1. getChildrenCount(r) \in Nat
      BY <1>2, TreeEdges
    <2>. QED
      BY <1>1, <1>2, <1>3, <2>1 DEF CountersOK, jobVars
  <1>15. PhasesOK'
    BY <1>1, <1>2, <1>3, <1>12 DEF ControlOK, PhasesOK, VariablesOK, jobVars
  <1>16. \A x, y \in Rank : y \in ChildrenRanks(x) => ~SyncTaken(y) /\ phase[y] # "return"
    BY <1>1, <1>2, NotInSync, TreeEdges
  <1>17. ReduceEdges'
    <2>1. ASSUME NEW c \in Rank \ {0} PROVE ReduceEdge(c)'
      <3>. DEFINE q == getParentRank(c)
      <3>1. q \in Rank /\ c \in ChildrenRanks(q) /\ c # q /\ q < c /\ ReduceEdge(c)
        BY <1>2, TreeEdges, EdgeCases DEF ControlOK, ReduceEdges
      <3>2. SyncTaken(c)' = SyncTaken(c)
        BY <1>1, TreeFixed DEF SyncTaken
      <3>3. CASE c = r
        <4>1. /\ msg'[q][c] = <<>> /\ msg'[c][q] = reply
              /\ reduce_outstanding'[q] /\ ~reduce_outstanding'[c]
          <5>1. p \notin done
            BY <1>2, <1>6, <1>10, <1>5, <3>1, <3>3, TreeEdges
          <5>. QED
            BY <1>6, <1>8, <1>12, <3>1, <3>3, <5>1
        <4>2. InvalidReply(msg[c][q])' \/ ValidReply(msg[c][q])'
          <5>1. msg'[c][getParentRank(c)'] = reply
            BY <1>3, <4>1
          <5>2. \/ reply = <<Header(FALSE, reply[1].total)>> /\ reply[1].total \in Nat
                \/ /\ reply = <<Header(TRUE, reply[1].total), Data(reply[2].buf)>>
                   /\ reply[1].total \in Nat
            BY <1>4 DEF InvalidReply, ValidReply
          <5>. QED
            BY <5>1, <5>2 DEF InvalidReply, ValidReply
        <4>. QED
          BY <1>3, <4>1, <4>2 DEF ReduceEdge
      <3>4. CASE q = r
        <4>1. /\ msg'[q][c] = <<>> /\ msg'[c][q] = <<>> /\ ~reduce_outstanding'[c]
          BY <1>10, <1>11, <1>12, <3>1, <3>4
        <4>2. ~SyncTaken(c)' /\ phase'[c] # "return"
          BY <1>16, <3>1, <3>2 DEF jobVars
        <4>. QED
          BY <1>3, <4>1, <4>2 DEF ReduceEdge
      <3>5. CASE c # r /\ q # r
        <4>1. msg'[q][c] = msg[q][c] /\ msg'[c][q] = msg[c][q]
          BY <1>8, <3>1, <3>5
        <4>2. /\ reduce_outstanding'[c] = reduce_outstanding[c]
              /\ reduce_outstanding'[q] = reduce_outstanding[q]
          BY <1>2, <3>1, <3>5 DEF VariablesOK
        <4>. QED
          BY <1>1, <3>1, <4>1, <4>2, EdgeFrame DEF jobVars
      <3>. QED
        BY <3>3, <3>4, <3>5
    <2>2. ASSUME NEW s \in Rank, NEW d \in Rank, msg'[s][d] # <<>>
          PROVE  s = getParentRank(d) \/ d = getParentRank(s)
      BY <1>8, <2>2 DEF ControlOK, ReduceEdges
    <2>. QED
      BY <1>3, <2>1, <2>2 DEF ReduceEdges
  <1>18. ASSUME NEW x \in Rank, reduce_outstanding'[x]
         PROVE  x # r /\ reduce_outstanding[x] /\ Heard(x)' = Heard(x)
    <2>1. /\ phase'[x] \in {"main", "cleanup"} /\ phase[x] \in {"main", "cleanup"}
          /\ x # r /\ reduce_outstanding[x]
      BY <1>1, <1>12, <1>18, NotInSync DEF jobVars
    <2>2. ASSUME NEW c \in ChildrenRanks(x)
          PROVE  (/\ ~reduce_outstanding[c] /\ msg[c][x] = <<>> /\ msg[x][c] = <<>>)
                 <=> (/\ ~reduce_outstanding'[c] /\ msg'[c][x] = <<>>
                      /\ msg'[x][c] = <<>>)
      <3>1. c \in Rank \ {0} /\ getParentRank(c) = x /\ c # x
        BY <1>2, EdgeCases
      <3>2. CASE c = r
        <4>1. reduce_outstanding[c] /\ msg'[c][x] # <<>>
          BY <1>1, <1>4, <1>8, <3>1, <3>2
        <4>. QED
          BY <4>1
      <3>3. CASE c # r
        <4>1. msg'[c][x] = msg[c][x] /\ msg'[x][c] = msg[x][c]
          <5>1. ~(x \in done /\ c = r)
            BY <3>3
          <5>. QED
            BY <1>8, <2>1, <3>1, <3>3, <5>1
        <4>2. reduce_outstanding'[c] <=> reduce_outstanding[c]
          BY <1>12, <3>1, <3>3
        <4>. QED
          BY <4>1, <4>2
      <3>. QED
        BY <3>2, <3>3
    <2>. QED
      BY <1>1, <2>1, <2>2, HeardFrame
  <1>19. RepliesCounted'
    <2>1. ASSUME NEW x \in Rank, reduce_outstanding'[x]
          PROVE  reduce_replies'[x] = Cardinality(Heard(x)')
      BY <1>1, <1>2, <1>18, <2>1 DEF ControlOK, RepliesCounted, CountersOK
    <2>. QED
      BY <1>3, <2>1 DEF RepliesCounted
  <1>20. \A s, d \in Rank :
          msg'[s][d] = IF s = r /\ d = getParentRank(r) THEN Answer(r, got)
                       ELSE IF d = r /\ s \in done THEN <<>> ELSE msg[s][d]
    BY <1>8 DEF reply
  <1>. QED
    BY <1>9, <1>13, <1>14, <1>15, <1>17, <1>18, <1>19, <1>20 DEF ControlOK

-----------------------------------------------------------------------------
(* Steps that send nothing *)

\* They leave the edges alone.
LEMMA EdgesUntouched ==
  ASSUME ControlOK,
         UNCHANGED <<nranks, maxChildren, msg, reduce_outstanding, sync_i>>,
         \A x \in Rank : phase'[x] = "return" <=> phase[x] = "return"
  PROVE  ReduceEdges'
  <1>1. Rank' = Rank /\ \A x : getParentRank(x)' = getParentRank(x)
    BY TreeFixed
  <1>2. ASSUME NEW c \in Rank \ {0} PROVE ReduceEdge(c)'
    BY TreeEdges, EdgeFrame DEF ControlOK, ReduceEdges
  <1>3. \A s, d \in Rank :
          msg'[s][d] # <<>> => s = getParentRank(d) \/ d = getParentRank(s)
    BY DEF ControlOK, ReduceEdges
  <1>. QED
    BY <1>1, <1>2, <1>3 DEF ReduceEdges

\* A rank that stays in the loops, or out of them, has heard the same children.
LEMMA HeardUntouched ==
  ASSUME ControlOK,
         UNCHANGED <<nranks, maxChildren, msg, reduce_outstanding, sync_i>>,
         NEW x \in Rank,
         phase'[x] \in {"main", "cleanup"} <=> phase[x] \in {"main", "cleanup"}
  PROVE  Heard(x)' = Heard(x)
  BY EdgeCases, HeardFrame

LEMMA LeaveControl ==
  ASSUME ControlOK, NEW r \in Rank, LeaveMain(r)
  PROVE  ControlOK' /\ (\A x \in Rank : Heard(x)' = Heard(x))
  <1>1. /\ phase[r] = "main"
        /\ phase' = [phase EXCEPT ![r] = "cleanup"]
        /\ UNCHANGED <<nranks, maxChildren, unprocessed, local_objects_processed,
                       barrier_started>>
        /\ UNCHANGED reduceVars
        /\ UNCHANGED <<nranks, maxChildren, msg, reduce_outstanding, sync_i>>
    BY DEF LeaveMain, reduceVars
  <1>2. VariablesOK /\ CountersOK
    BY DEF ControlOK
  <1>3. \A x \in Rank : phase'[x] = IF x = r THEN "cleanup" ELSE phase[x]
    BY <1>1, <1>2 DEF CountersOK
  <1>4. /\ Rank' = Rank /\ \A x : getChildrenCount(x)' = getChildrenCount(x)
    BY <1>1, TreeFixed
  <1>5. VariablesOK' /\ CountersOK'
    BY <1>1, <1>2, <1>4 DEF VariablesOK, CountersOK, Phase, reduceVars
  <1>6. PhasesOK'
    BY <1>1, <1>3, <1>4 DEF ControlOK, PhasesOK, reduceVars
  <1>7. ReduceEdges'
    BY <1>1, <1>3, EdgesUntouched
  <1>8. \A x \in Rank : Heard(x)' = Heard(x)
    BY <1>1, <1>3, HeardUntouched
  <1>9. RepliesCounted'
    BY <1>1, <1>4, <1>8 DEF ControlOK, RepliesCounted, reduceVars
  <1>. QED
    BY <1>5, <1>6, <1>7, <1>8, <1>9 DEF ControlOK

LEMMA BarrierControl ==
  ASSUME ControlOK, NEW r \in Rank, BarrierStart(r)
  PROVE  ControlOK' /\ (\A x \in Rank : Heard(x)' = Heard(x))
  <1>1. /\ phase[r] = "cleanup" /\ ~reduce_outstanding[r]
        /\ barrier_started' = [barrier_started EXCEPT ![r] = TRUE]
        /\ UNCHANGED <<nranks, maxChildren, phase, unprocessed, local_objects_processed>>
        /\ UNCHANGED reduceVars
        /\ UNCHANGED <<nranks, maxChildren, msg, reduce_outstanding, sync_i>>
    BY DEF BarrierStart, reduceVars
  <1>2. VariablesOK /\ CountersOK
    BY DEF ControlOK
  <1>3. \A x \in Rank : barrier_started'[x] = IF x = r THEN TRUE ELSE barrier_started[x]
    BY <1>1, <1>2 DEF VariablesOK
  <1>4. /\ Rank' = Rank /\ \A x : getChildrenCount(x)' = getChildrenCount(x)
    BY <1>1, TreeFixed
  <1>5. VariablesOK' /\ CountersOK'
    BY <1>1, <1>2, <1>4 DEF VariablesOK, CountersOK, reduceVars
  <1>6. PhasesOK'
    BY <1>1, <1>3, <1>4 DEF ControlOK, PhasesOK, reduceVars
  <1>7. ReduceEdges'
    BY <1>1, EdgesUntouched
  <1>8. \A x \in Rank : Heard(x)' = Heard(x)
    BY <1>1, HeardUntouched
  <1>9. RepliesCounted'
    BY <1>1, <1>4, <1>8 DEF ControlOK, RepliesCounted, reduceVars
  <1>. QED
    BY <1>5, <1>6, <1>7, <1>8, <1>9 DEF ControlOK

\* The callback; that a rank does not count more items than there are follows
\* from ItemsConserved.
LEMMA ProcessControl ==
  ASSUME ControlOK, NEW r \in Rank, ProcessCallback(r),
         local_objects_processed[r] + 1 \in 0 .. Items
  PROVE  ControlOK' /\ (\A x \in Rank : Heard(x)' = Heard(x))
  <1>1. /\ phase[r] = "main" /\ unprocessed > 0 /\ unprocessed' = unprocessed - 1
        /\ local_objects_processed' = [local_objects_processed EXCEPT ![r] = @ + 1]
        /\ UNCHANGED <<nranks, maxChildren, phase, barrier_started>>
        /\ UNCHANGED reduceVars
        /\ UNCHANGED <<nranks, maxChildren, msg, reduce_outstanding, sync_i>>
    BY DEF ProcessCallback, reduceVars
  <1>2. VariablesOK /\ CountersOK /\ Items \in Nat
    BY ReductionAssumption DEF ControlOK
  <1>3. /\ Rank' = Rank /\ \A x : getChildrenCount(x)' = getChildrenCount(x)
    BY <1>1, TreeFixed
  <1>4. VariablesOK' /\ CountersOK'
    BY <1>1, <1>2, <1>3 DEF VariablesOK, CountersOK, reduceVars
  <1>5. PhasesOK'
    BY <1>1, <1>3 DEF ControlOK, PhasesOK, reduceVars
  <1>6. ReduceEdges'
    BY <1>1, EdgesUntouched
  <1>7. \A x \in Rank : Heard(x)' = Heard(x)
    BY <1>1, HeardUntouched
  <1>8. RepliesCounted'
    BY <1>1, <1>3, <1>7 DEF ControlOK, RepliesCounted, reduceVars
  <1>. QED
    BY <1>4, <1>5, <1>6, <1>7, <1>8 DEF ControlOK

LEMMA SyncStartControl ==
  ASSUME ControlOK, NEW r \in Rank, SyncStart(r)
  PROVE  /\ ControlOK' /\ Heard(r)' = {}
         /\ \A x \in Rank : ~reduce_outstanding[x]
         /\ \A x \in Rank \ {r} : Heard(x)' = Heard(x)
  <1>1. /\ phase[r] = "cleanup" /\ \A s \in Rank : barrier_started[s]
        /\ phase' = [phase EXCEPT ![r] = "sync"]
        /\ local_valid' = [local_valid EXCEPT ![r] = TRUE]
        /\ local_total' = [local_total EXCEPT ![r] = local_objects_processed[r]]
        /\ inits' = [inits EXCEPT ![r] = @ + 1]
        /\ reduce_buf' = [reduce_buf EXCEPT ![r] = Contribution(r, inits[r] + 1)]
        /\ UNCHANGED <<nranks, maxChildren, unprocessed, local_objects_processed,
                       barrier_started, reduce_outstanding, reduce_replies, sync_i,
                       msg, rounds, result>>
        /\ UNCHANGED <<nranks, maxChildren>>
        /\ UNCHANGED <<nranks, maxChildren, msg, reduce_outstanding, sync_i>>
    BY DEF SyncStart, SyncCount
  <1>2. VariablesOK /\ CountersOK /\ Items \in Nat
    BY ReductionAssumption DEF ControlOK
  <1>3. \A x \in Rank : /\ phase'[x] = IF x = r THEN "sync" ELSE phase[x]
                        /\ local_valid'[x] = IF x = r THEN TRUE ELSE local_valid[x]
    BY <1>1, <1>2 DEF CountersOK, VariablesOK
  <1>4. /\ Rank' = Rank /\ \A x : getChildrenCount(x)' = getChildrenCount(x)
        /\ \A x : ChildrenRanks(x)' = ChildrenRanks(x)
        /\ \A x : getParentRank(x)' = getParentRank(x)
        /\ \A x : left(x)' = left(x)
    BY <1>1, TreeFixed
  <1>5. VariablesOK' /\ CountersOK'
    <2>1. local_objects_processed[r] \in Nat
      BY <1>2 DEF VariablesOK
    <2>2. reduce_buf' = [x \in Rank |-> reduce_buf'[x]]
      BY <1>1, <1>2 DEF VariablesOK
    <2>. QED
      BY <1>1, <1>2, <1>4, <2>1, <2>2 DEF VariablesOK, CountersOK, Phase
  <1>6. PhasesOK'
    <2>1. PhasesOK
      BY DEF ControlOK
    <2>2. ASSUME NEW x \in Rank
          PROVE  /\ barrier_started'[x] => phase'[x] # "main" /\ ~reduce_outstanding'[x]
                 /\ phase'[x] \in {"sync", "return"} => \A s \in Rank : barrier_started'[s]
                 /\ phase'[x] \in {"main", "cleanup"} => sync_i'[x] = 0
                 /\ phase'[x] = "return" => sync_i'[x] = getChildrenCount(x)
                 /\ phase'[x] = "sync" => local_valid'[x]
      <3>1. CASE x = r
        <4>1. phase'[r] = "sync" /\ local_valid'[r] = TRUE
          BY <1>3
        <4>2. ~reduce_outstanding'[r]
          BY <1>1, <2>1 DEF PhasesOK
        <4>3. \A s \in Rank : barrier_started'[s]
          BY <1>1
        <4>. QED
          BY <3>1, <4>1, <4>2, <4>3
      <3>2. CASE x # r
        BY <1>1, <1>3, <2>1, <3>2 DEF PhasesOK
      <3>. QED
        BY <3>1, <3>2
    <2>. QED
      BY <1>4, <2>2 DEF PhasesOK
  <1>7. ReduceEdges'
    BY <1>1, <1>3, EdgesUntouched
  <1>8. \A x \in Rank : ~reduce_outstanding[x]
    BY <1>1 DEF ControlOK, PhasesOK
  <1>9. Heard(r)' = {}
    <2>1. sync_i[r] = 0
      BY <1>1 DEF ControlOK, PhasesOK
    <2>2. \A c \in ChildrenRanks(r) : ~SyncTaken(c)'
      <3>. SUFFICES ASSUME NEW c \in ChildrenRanks(r) PROVE ~SyncTaken(c)'
        OBVIOUS
      <3>1. /\ getParentRank(c) = r /\ left(r) \in Nat
            /\ c \in left(r) .. left(r) + getChildrenCount(r) - 1
            /\ getChildrenCount(r) \in Nat
        BY <1>2, EdgeCases, TreeEdges
      <3>. QED
        BY <1>1, <1>4, <2>1, <3>1 DEF SyncTaken
    <2>. QED
      BY <1>3, <1>4, <2>2 DEF Heard
  <1>10. \A x \in Rank \ {r} : Heard(x)' = Heard(x)
    BY <1>1, <1>3, HeardUntouched
  <1>11. RepliesCounted'
    BY <1>1, <1>4, <1>8 DEF RepliesCounted
  <1>. QED
    BY <1>5, <1>6, <1>7, <1>8, <1>9, <1>10, <1>11 DEF ControlOK

-----------------------------------------------------------------------------
(* reduceSync *)

\* The child whose result is received next.
NextChild(r) == left(r) + sync_i[r]

LEMMA ReceiveForms ==
  ASSUME ControlOK, NEW r \in Rank, SyncReceive(r)
  PROVE  /\ phase[r] = "sync"
         /\ NextChild(r) \in ChildrenRanks(r) /\ NextChild(r) \in Rank \ {0}
         /\ getParentRank(NextChild(r)) = r /\ NextChild(r) # r
         /\ sync_i[r] + 1 <= getChildrenCount(r)
         /\ ValidReply(msg[NextChild(r)][r]) /\ msg[r][NextChild(r)] = <<>>
         /\ phase[NextChild(r)] = "return" /\ ~SyncTaken(NextChild(r))
         /\ local_total' = [local_total EXCEPT ![r] = @ + Sender(NextChild(r), r).total]
         /\ reduce_buf' = [reduce_buf EXCEPT ![r] = @ (+) SentData(NextChild(r), r)]
         /\ sync_i' = [sync_i EXCEPT ![r] = @ + 1]
         /\ \A s, d \in Rank :
              msg'[s][d] = IF s = NextChild(r) /\ d = r THEN <<>> ELSE msg[s][d]
         /\ msg' = [s \in Rank |-> [d \in Rank |-> msg'[s][d]]]
         /\ UNCHANGED jobVars
         /\ UNCHANGED <<reduce_outstanding, reduce_replies, local_valid,
                        rounds, inits, result>>
  <1>. DEFINE child == getChildrenRanks(r)[sync_i[r]]
  <1>1. /\ phase[r] = "sync" /\ sync_i[r] < Cardinality(ChildrenRanks(r))
        /\ Len(msg[child][r]) >= 2
        /\ local_total' = [local_total EXCEPT ![r] = @ + Sender(child, r).total]
        /\ reduce_buf' = [reduce_buf EXCEPT ![r] = @ (+) SentData(child, r)]
        /\ Exchange(r, [None EXCEPT ![child] = 2], Silent)
        /\ sync_i' = [sync_i EXCEPT ![r] = @ + 1]
        /\ UNCHANGED jobVars
        /\ UNCHANGED <<reduce_outstanding, reduce_replies, local_valid,
                       rounds, inits, result>>
    BY DEF SyncReceive, SyncSources
  <1>2. /\ left(r) \in Nat /\ getChildrenCount(r) \in Nat /\ sync_i[r] \in Nat
        /\ ChildrenRanks(r) = left(r) .. left(r) + getChildrenCount(r) - 1
        /\ Cardinality(ChildrenRanks(r)) = getChildrenCount(r)
    BY TreeEdges DEF ControlOK, CountersOK
  <1>3. child = NextChild(r)
    BY <1>1, <1>2 DEF getChildrenRanks, NextChild
  <1>. HIDE DEF child
  <1>4. child \in ChildrenRanks(r) /\ sync_i[r] + 1 <= getChildrenCount(r)
    BY <1>1, <1>2, <1>3 DEF NextChild
  <1>5. child \in Rank \ {0} /\ getParentRank(child) = r /\ child # r
    BY <1>4, EdgeCases
  <1>6. ~SyncTaken(child)
    BY <1>2, <1>3, <1>5 DEF SyncTaken, NextChild
  <1>7. msg[child][r] # <<>>
    <2>1. Len(<<>>) = 0
      OBVIOUS
    <2>. QED
      BY <1>1, <2>1
  <1>8. ~reduce_outstanding[r]
    BY <1>1, SyncQuiet
  <1>9. ValidReply(msg[child][r]) /\ phase[child] = "return" /\ msg[r][child] = <<>>
    BY <1>4, <1>7, <1>8, EdgeCases
  <1>10. Len(msg[child][r]) = 2
    BY <1>9, ReplyForms
  <1>11. \A s, d \in Rank :
           msg'[s][d] = IF s = child /\ d = r THEN <<>> ELSE msg[s][d]
    <2>. DEFINE taken == [None EXCEPT ![child] = 2]
    <2>1. \A s \in Rank : taken[s] = IF s = child THEN Len(msg[child][r]) ELSE 0
      BY <1>5, <1>10 DEF None
    <2>2. Exchange(r, taken, Silent)
      BY <1>1
    <2>. HIDE DEF taken
    <2>. QED
      BY <1>5, <2>1, <2>2, TakeMessages, SMTT(30)
  <1>12. msg' = [s \in Rank |-> [d \in Rank |-> msg'[s][d]]]
    BY <1>1 DEF Exchange
  <1>. QED
    BY <1>1, <1>3, <1>4, <1>5, <1>6, <1>9, <1>11, <1>12

LEMMA ReceiveControl ==
  ASSUME ControlOK, NEW r \in Rank, SyncReceive(r)
  PROVE  /\ ControlOK'
         /\ \A x \in Rank : ~reduce_outstanding[x]
         /\ NextChild(r) \notin Heard(r)
         /\ \A x \in Rank :
              Heard(x)' = IF x = r THEN Heard(r) \cup {NextChild(r)} ELSE Heard(x)
  <1>. DEFINE child == NextChild(r)
  <1>1. /\ phase[r] = "sync"
        /\ child \in ChildrenRanks(r) /\ child \in Rank \ {0}
        /\ getParentRank(child) = r /\ child # r
        /\ sync_i[r] + 1 <= getChildrenCount(r)
        /\ ValidReply(msg[child][r]) /\ msg[r][child] = <<>>
        /\ phase[child] = "return" /\ ~SyncTaken(child)
        /\ local_total' = [local_total EXCEPT ![r] = @ + Sender(child, r).total]
        /\ reduce_buf' = [reduce_buf EXCEPT ![r] = @ (+) SentData(child, r)]
        /\ sync_i' = [sync_i EXCEPT ![r] = @ + 1]
        /\ \A s, d \in Rank : msg'[s][d] = IF s = child /\ d = r THEN <<>> ELSE msg[s][d]
        /\ msg' = [s \in Rank |-> [d \in Rank |-> msg'[s][d]]]
        /\ UNCHANGED jobVars
        /\ UNCHANGED <<reduce_outstanding, reduce_replies, local_valid,
                       rounds, inits, result>>
    BY ReceiveForms
  <1>. HIDE DEF child
  <1>2. VariablesOK /\ CountersOK /\ UNCHANGED <<nranks, maxChildren>>
    BY <1>1 DEF ControlOK, jobVars
  <1>3. /\ Rank' = Rank /\ \A x : getChildrenCount(x)' = getChildrenCount(x)
        /\ \A x : getParentRank(x)' = getParentRank(x)
        /\ \A x : ChildrenRanks(x)' = ChildrenRanks(x)
        /\ \A x : left(x)' = left(x)
    BY <1>2, TreeFixed
  <1>4. \A x \in Rank : ~reduce_outstanding[x]
    BY <1>1, SyncQuiet
  <1>5. \A x \in Rank : sync_i'[x] = IF x = r THEN sync_i[x] + 1 ELSE sync_i[x]
    BY <1>1, <1>2 DEF CountersOK
  <1>6. VariablesOK'
    <2>1. Sender(child, r).total \in Nat
      BY <1>1, ReplyForms DEF Sender
    <2>2. reduce_buf' = [x \in Rank |-> reduce_buf'[x]]
      BY <1>1, <1>2 DEF VariablesOK
    <2>3. local_total' \in [Rank -> Nat]
      BY <1>1, <1>2, <2>1 DEF VariablesOK
    <2>. QED
      BY <1>1, <1>2, <1>3, <2>2, <2>3 DEF VariablesOK, jobVars
  <1>7. CountersOK'
    BY <1>1, <1>2, <1>3 DEF CountersOK, jobVars
  <1>8. PhasesOK'
    BY <1>1, <1>3, <1>5 DEF ControlOK, PhasesOK, jobVars
  <1>9. \A c \in Rank \ {0} : SyncTaken(c)' <=> (SyncTaken(c) \/ c = child)
    <2>. SUFFICES ASSUME NEW c \in Rank \ {0}
                  PROVE  SyncTaken(c)' <=> (SyncTaken(c) \/ c = child)
      OBVIOUS
    <2>1. getParentRank(c) \in Rank /\ left(r) \in Nat /\ sync_i[r] \in Nat /\ c \in Nat
      BY <1>2, TreeEdges DEF CountersOK
    <2>2. child = left(r) + sync_i[r]
      BY DEF child, NextChild
    <2>3. CASE getParentRank(c) = r
      <3>1. SyncTaken(c)' <=> c < left(r) + sync_i[r] + 1
        BY <1>3, <1>5, <2>1, <2>3 DEF SyncTaken
      <3>2. SyncTaken(c) <=> c < left(r) + sync_i[r]
        BY <2>3 DEF SyncTaken
      <3>. QED
        BY <2>1, <2>2, <3>1, <3>2
    <2>4. CASE getParentRank(c) # r
      BY <1>1, <1>3, <1>5, <2>1, <2>4 DEF SyncTaken
    <2>. QED
      BY <2>3, <2>4
  <1>10. ReduceEdges'
    <2>1. ASSUME NEW c \in Rank \ {0} PROVE ReduceEdge(c)'
      <3>. DEFINE q == getParentRank(c)
      <3>1. q \in Rank /\ c \in ChildrenRanks(q) /\ c # q /\ q < c /\ ReduceEdge(c)
        BY <1>2, TreeEdges, EdgeCases DEF ControlOK, ReduceEdges
      <3>2. CASE c = child
        <4>1. /\ msg'[q][c] = <<>> /\ msg'[c][q] = <<>> /\ ~reduce_outstanding'[c]
              /\ phase'[c] = "return"
          BY <1>1, <1>4, <3>1, <3>2 DEF jobVars
        <4>2. SyncTaken(c)'
          BY <1>9, <3>2
        <4>. QED
          BY <1>3, <4>1, <4>2 DEF ReduceEdge
      <3>3. CASE c # child
        <4>1. msg'[q][c] = msg[q][c] /\ msg'[c][q] = msg[c][q]
          <5>1. ~(q = child /\ c = r)
            BY <1>1, <1>2, <3>1, TreeEdges
          <5>. QED
            BY <1>1, <3>1, <3>3, <5>1
        <4>2. /\ SyncTaken(c)' <=> SyncTaken(c)
              /\ reduce_outstanding' = reduce_outstanding /\ phase' = phase
          BY <1>1, <1>9, <3>3 DEF jobVars
        <4>. QED
          BY <1>3, <3>1, <4>1, <4>2 DEF ReduceEdge, InvalidReply, ValidReply
      <3>. QED
        BY <3>2, <3>3
    <2>2. ASSUME NEW s \in Rank, NEW d \in Rank, msg'[s][d] # <<>>
          PROVE  s = getParentRank(d) \/ d = getParentRank(s)
      BY <1>1, <2>2 DEF ControlOK, ReduceEdges
    <2>. QED
      BY <1>3, <2>1, <2>2 DEF ReduceEdges
  <1>11. child \notin Heard(r)
    BY <1>1 DEF Heard
  <1>12. ASSUME NEW x \in Rank
         PROVE  Heard(x)' = IF x = r THEN Heard(r) \cup {child} ELSE Heard(x)
    <2>1. phase' = phase /\ reduce_outstanding' = reduce_outstanding
      BY <1>1 DEF jobVars
    <2>2. \A c \in ChildrenRanks(x) : c \in Rank \ {0} /\ getParentRank(c) = x /\ c # x /\ x < c
      BY EdgeCases
    <2>3. CASE x = r
      BY <1>1, <1>3, <1>9, <2>1, <2>2, <2>3 DEF Heard
    <2>4. CASE x # r
      <3>1. \A c \in ChildrenRanks(x) : SyncTaken(c)' <=> SyncTaken(c)
        BY <1>1, <1>9, <2>2, <2>4
      <3>2. \A c \in ChildrenRanks(x) : msg'[c][x] = msg[c][x] /\ msg'[x][c] = msg[x][c]
        <4>. SUFFICES ASSUME NEW c \in ChildrenRanks(x)
                      PROVE  msg'[c][x] = msg[c][x] /\ msg'[x][c] = msg[x][c]
          OBVIOUS
        <4>1. ~(x = child /\ c = r)
          BY <1>1, <1>2, <2>2, TreeEdges
        <4>. QED
          BY <1>1, <2>2, <2>4, <4>1
      <3>. QED
        BY <1>3, <2>1, <2>4, <3>1, <3>2 DEF Heard
    <2>. QED
      BY <2>3, <2>4
  <1>13. RepliesCounted'
    BY <1>1, <1>3, <1>4 DEF RepliesCounted
  <1>. QED
    BY <1>4, <1>6, <1>7, <1>8, <1>10, <1>11, <1>12, <1>13 DEF ControlOK, child

\* What reduceSync sends to the parent.
SyncReply(r) == <<Header(TRUE, local_total[r]), Data(reduce_buf[r])>>

LEMMA SyncFinishControl ==
  ASSUME ControlOK, NEW r \in Rank, SyncFinish(r)
  PROVE  /\ ControlOK'
         /\ \A x \in Rank : ~reduce_outstanding[x]
         /\ Heard(r) = ChildrenRanks(r)
         /\ \A x \in Rank : phase[x] = "sync" => Heard(x)' = Heard(x)
         /\ \A s, d \in Rank :
              msg'[s][d] = IF s = r /\ d = getParentRank(r) THEN SyncReply(r)
                           ELSE msg[s][d]
  <1>. DEFINE p == getParentRank(r)
              reply == SyncReply(r)
  <1>1. /\ phase[r] = "sync" /\ sync_i[r] = Cardinality(ChildrenRanks(r))
        /\ Exchange(r, None, ToParent(r, <<Header(local_valid[r], local_total[r]),
                                           Data(reduce_buf[r])>>))
        /\ result' = IF r = 0 THEN [buf |-> reduce_buf[r], total |-> local_total[r]]
                              ELSE result
        /\ phase' = [phase EXCEPT ![r] = "return"]
        /\ UNCHANGED <<nranks, maxChildren, unprocessed, local_objects_processed,
                       barrier_started, reduce_outstanding, reduce_replies,
                       local_valid, local_total, reduce_buf, sync_i, rounds, inits>>
        /\ UNCHANGED <<nranks, maxChildren>>
    BY DEF SyncFinish, SyncSources
  <1>2. VariablesOK /\ CountersOK
    BY DEF ControlOK
  <1>3. /\ Rank' = Rank /\ \A x : getChildrenCount(x)' = getChildrenCount(x)
        /\ \A x : getParentRank(x)' = getParentRank(x)
        /\ \A x : ChildrenRanks(x)' = ChildrenRanks(x)
        /\ \A x : left(x)' = left(x)
    BY <1>1, TreeFixed
  <1>4. local_valid[r] = TRUE
    BY <1>1, <1>2 DEF ControlOK, PhasesOK, VariablesOK
  <1>5. /\ Exchange(r, None, ToParent(r, reply))
        /\ ValidReply(reply) /\ reply # <<>> /\ Short(reply)
    <2>1. ValidReply(reply)
      BY <1>2, MakeReply DEF SyncReply, VariablesOK
    <2>2. Short(reply)
      BY DEF Short, SyncReply
    <2>. QED
      BY <1>1, <1>4, <2>1, <2>2, ReplyForms DEF SyncReply
  <1>. HIDE DEF reply
  <1>6. \A x \in Rank : ~reduce_outstanding[x]
    BY <1>1, SyncQuiet
  <1>7. r # 0 => /\ p \in Rank /\ r \in ChildrenRanks(p) /\ p < r
                 /\ msg[p][r] = <<>> /\ msg[r][p] = <<>> /\ ~SyncTaken(r)
    <2>. SUFFICES ASSUME r # 0
                  PROVE  /\ p \in Rank /\ r \in ChildrenRanks(p) /\ p < r
                         /\ msg[p][r] = <<>> /\ msg[r][p] = <<>> /\ ~SyncTaken(r)
      OBVIOUS
    <2>1. p \in Rank /\ r \in ChildrenRanks(p)
      BY <1>2, TreeEdges
    <2>. QED
      BY <1>1, <1>6, <2>1, EdgeCases
  <1>8. r = 0 => p \notin Rank
    BY <1>2, TreeEdges
  <1>9. \A s, d \in Rank :
          msg'[s][d] = IF s = r /\ d = p THEN reply ELSE msg[s][d]
    <2>. DEFINE done == {}
                taken == None
    <2>1. done \subseteq ChildrenRanks(r)
      OBVIOUS
    <2>2. \A s \in Rank : taken[s] = IF s \in done THEN Len(msg[s][r]) ELSE 0
      BY DEF None
    <2>3. getParentRank(r) \in Rank => msg[r][getParentRank(r)] = <<>>
      BY <1>7, <1>8
    <2>4. Exchange(r, taken, ToParent(r, reply))
      BY <1>5
    <2>5. \A s \in Rank : s \notin done
      OBVIOUS
    <2>. HIDE DEF taken, done
    <2>6. \A s, d \in Rank :
           msg'[s][d] = IF s = r /\ d = getParentRank(r) THEN reply
                        ELSE IF d = r /\ s \in done THEN <<>> ELSE msg[s][d]
      BY <1>5, <2>1, <2>2, <2>3, <2>4, TakeAndReply, SMTT(30)
    <2>. QED
      BY <2>5, <2>6
  <1>10. \A x \in Rank : phase'[x] = IF x = r THEN "return" ELSE phase[x]
    BY <1>1, <1>2 DEF CountersOK
  <1>11. sync_i[r] = getChildrenCount(r)
    BY <1>1, <1>2, TreeEdges
  <1>12. VariablesOK' /\ CountersOK'
    <2>1. msg' = [s \in Rank |-> [d \in Rank |-> msg'[s][d]]]
      BY <1>5 DEF Exchange
    <2>2. result'.total \in Nat
      BY <1>1, <1>2 DEF VariablesOK
    <2>. QED
      BY <1>1, <1>2, <1>3, <2>1, <2>2 DEF VariablesOK, CountersOK, Phase
  <1>13. PhasesOK'
    BY <1>1, <1>3, <1>10, <1>11 DEF ControlOK, PhasesOK
  <1>14. \A c : SyncTaken(c)' <=> SyncTaken(c)
    BY <1>1, <1>3 DEF SyncTaken
  <1>15. ReduceEdges'
    <2>1. ASSUME NEW c \in Rank \ {0} PROVE ReduceEdge(c)'
      <3>. DEFINE q == getParentRank(c)
      <3>1. q \in Rank /\ c \in ChildrenRanks(q) /\ c # q /\ q < c /\ ReduceEdge(c)
        BY <1>2, TreeEdges, EdgeCases DEF ControlOK, ReduceEdges
      <3>2. CASE c = r
        <4>1. /\ msg'[q][c] = <<>> /\ msg'[c][q] = reply
              /\ phase'[c] = "return" /\ ~SyncTaken(c)'
          BY <1>7, <1>9, <1>10, <1>14, <3>1, <3>2
        <4>2. ValidReply(msg[c][q])'
          <5>1. msg'[c][getParentRank(c)'] = reply
            BY <1>3, <4>1
          <5>2. /\ reply = <<Header(TRUE, reply[1].total), Data(reply[2].buf)>>
                /\ reply[1].total \in Nat
            BY <1>5 DEF ValidReply
          <5>. QED
            BY <5>1, <5>2 DEF ValidReply
        <4>. QED
          BY <1>3, <4>1, <4>2 DEF ReduceEdge
      <3>3. CASE c # r
        <4>1. msg'[q][c] = msg[q][c] /\ msg'[c][q] = msg[c][q]
          <5>1. ~(q = r /\ c = p)
            BY <1>2, <1>7, <1>8, <3>1, TreeEdges
          <5>. QED
            BY <1>9, <3>1, <3>3, <5>1
        <4>2. phase'[c] = phase[c]
          BY <1>10, <3>3
        <4>. QED
          BY <1>1, <3>1, <4>1, <4>2, EdgeFrame
      <3>. QED
        BY <3>2, <3>3
    <2>2. ASSUME NEW s \in Rank, NEW d \in Rank, msg'[s][d] # <<>>
          PROVE  s = getParentRank(d) \/ d = getParentRank(s)
      BY <1>9, <2>2 DEF ControlOK, ReduceEdges
    <2>. QED
      BY <1>3, <2>1, <2>2 DEF ReduceEdges
  <1>16. \A x \in Rank : phase[x] = "sync" => Heard(x)' = Heard(x)
    BY <1>3, <1>10, <1>14 DEF Heard
  <1>17. Heard(r) = ChildrenRanks(r)
    <2>1. ASSUME NEW c \in ChildrenRanks(r) PROVE SyncTaken(c)
      <3>1. /\ getParentRank(c) = r /\ left(r) \in Nat /\ getChildrenCount(r) \in Nat
            /\ c \in left(r) .. left(r) + getChildrenCount(r) - 1
        BY <1>2, EdgeCases, TreeEdges
      <3>. QED
        BY <1>11, <3>1 DEF SyncTaken
    <2>. QED
      BY <1>1, <2>1 DEF Heard
  <1>18. RepliesCounted'
    BY <1>1, <1>3, <1>6 DEF RepliesCounted
  <1>. QED
    BY <1>6, <1>9, <1>12, <1>13, <1>15, <1>16, <1>17, <1>18 DEF ControlOK, reply

-----------------------------------------------------------------------------
(* Contributions *)

\* Contributions of different ranks are combined without loss.
LEMMA LatestUnion ==
  ASSUME NEW S, NEW T, S \cap T = {}
  PROVE  Latest(S) (+) Latest(T) = Latest(S \cup T)
  <1>. DEFINE A == {<<q, inits[q]>> : q \in S}
              B == {<<q, inits[q]>> : q \in T}
              C == {<<q, inits[q]>> : q \in S \cup T}
  <1>1. A \cup B = C
    OBVIOUS
  <1>2. A \cap B = {}
    OBVIOUS
  <1>3. Latest(S) = SetToBag(A) /\ Latest(T) = SetToBag(B) /\ Latest(S \cup T) = SetToBag(C)
    BY DEF Latest
  <1>. HIDE DEF A, B, C
  <1>4. SetToBag(A) (+) SetToBag(B) = SetToBag(A \cup B)
    <2>1. DOMAIN SetToBag(A) = A /\ DOMAIN SetToBag(B) = B
      BY DEF SetToBag
    <2>2. SetToBag(A) (+) SetToBag(B) =
            [e \in A \cup B |-> (IF e \in A THEN SetToBag(A)[e] ELSE 0)
                              + (IF e \in B THEN SetToBag(B)[e] ELSE 0)]
      BY <2>1 DEF (+)
    <2>3. \A e \in A \cup B :
            (IF e \in A THEN SetToBag(A)[e] ELSE 0)
            + (IF e \in B THEN SetToBag(B)[e] ELSE 0) = 1
      BY <1>2 DEF SetToBag
    <2>. QED
      BY <2>2, <2>3 DEF SetToBag
  <1>. QED
    BY <1>1, <1>3, <1>4

\* They are bags.
LEMMA LatestIsABag == ASSUME NEW S PROVE IsABag(Latest(S))
  BY DEF Latest, SetToBag, IsABag

\* A new contribution of r, as the only one.
LEMMA NewContribution ==
  ASSUME NEW r \in Rank, inits \in [Rank -> Nat], inits' = [inits EXCEPT ![r] = @ + 1]
  PROVE  Contribution(r, inits[r] + 1) = Latest({r})'
  <1>1. {<<r, inits[r] + 1>>} = {<<q, inits'[q]>> : q \in {r}}
    OBVIOUS
  <1>. QED
    BY <1>1 DEF Contribution, Latest

\* It leaves the contributions of other ranks alone.
LEMMA LatestFrame ==
  ASSUME NEW S, \A q \in S : inits'[q] = inits[q]
  PROVE  SetToBag({<<q, inits'[q]>> : q \in S}) = Latest(S)
  <1>1. {<<q, inits'[q]>> : q \in S} = {<<q, inits[q]>> : q \in S}
    OBVIOUS
  <1>. QED
    BY <1>1 DEF Latest

-----------------------------------------------------------------------------
(* Items *)

\* How items are counted.
LEMMA ItemsCounted ==
  ASSUME VariablesOK, NEW counts \in [Rank -> 0 .. Items]
  PROVE  /\ \A S : ItemsOf(counts, S) \in Nat
         /\ \A S, T : S \subseteq T => ItemsOf(counts, S) <= ItemsOf(counts, T)
         /\ \A S, T : S \cap T = {} =>
              ItemsOf(counts, S \cup T) = ItemsOf(counts, S) + ItemsOf(counts, T)
         /\ \A q \in Rank : ItemsOf(counts, {q}) = counts[q]
         /\ ItemsOf(counts, {}) = 0
         /\ \A more \in [Rank -> 0 .. Items] :
              \A S : (\A q \in Rank : q \in S => counts[q] <= more[q]) =>
                     ItemsOf(counts, S) <= ItemsOf(more, S)
  <1>. DEFINE all == Rank \X (1 .. Items)
              set(c, S) == {qk \in all : qk[1] \in S /\ qk[2] <= c[qk[1]]}
  <1>1. IsFiniteSet(all)
    <2>1. IsFiniteSet(1 .. Items)
      BY ReductionAssumption, FS_Interval
    <2>. QED
      BY <2>1, TreeEdges, FS_Product
  <1>2. \A c, S : ItemsOf(c, S) = Cardinality(set(c, S))
    BY DEF ItemsOf
  <1>3. \A c, S : set(c, S) \in SUBSET all
    OBVIOUS
  <1>4. \A c, S : IsFiniteSet(set(c, S)) /\ Cardinality(set(c, S)) \in Nat
    <2>. HIDE DEF set, all
    <2>. QED
      BY <1>1, <1>3, FS_Subset, FS_CardinalityType
  <1>5. ASSUME NEW c, NEW d, NEW S, NEW T, set(c, S) \subseteq set(d, T)
        PROVE  ItemsOf(c, S) <= ItemsOf(d, T)
    <2>. HIDE DEF set, all
    <2>. QED
      BY <1>2, <1>4, <1>5, FS_Subset
  <1>6. ASSUME NEW S, NEW T, S \subseteq T
        PROVE  ItemsOf(counts, S) <= ItemsOf(counts, T)
    <2>1. set(counts, S) \subseteq set(counts, T)
      BY <1>6
    <2>. QED
      BY <1>5, <2>1
  <1>7. ASSUME NEW S, NEW T, S \cap T = {}
        PROVE  ItemsOf(counts, S \cup T) = ItemsOf(counts, S) + ItemsOf(counts, T)
    <2>1. /\ set(counts, S \cup T) = set(counts, S) \cup set(counts, T)
          /\ set(counts, S) \cap set(counts, T) = {}
      BY <1>7
    <2>. DEFINE A == set(counts, S)
                B == set(counts, T)
    <2>2. /\ IsFiniteSet(A) /\ IsFiniteSet(B)
          /\ Cardinality(A) \in Nat /\ Cardinality(B) \in Nat
      BY <1>4
    <2>3. ItemsOf(counts, S \cup T) = Cardinality(A \cup B) /\ A \cap B = {}
      BY <1>2, <2>1
    <2>. HIDE DEF A, B
    <2>4. /\ Cardinality(A \cap B) = 0
          /\ Cardinality(A \cup B) =
               Cardinality(A) + Cardinality(B) - Cardinality(A \cap B)
      <3>1. Cardinality(A \cap B) = 0
        BY <2>3, FS_EmptySet
      <3>2. Cardinality(A \cup B) =
              Cardinality(A) + Cardinality(B) - Cardinality(A \cap B)
        BY <2>2, FS_Union
      <3>. QED
        BY <3>1, <3>2
    <2>5. Cardinality(A \cup B) = Cardinality(A) + Cardinality(B)
      BY <2>2, <2>4
    <2>. QED
      BY <1>2, <2>3, <2>5 DEF A, B
  <1>8. ASSUME NEW q \in Rank PROVE ItemsOf(counts, {q}) = counts[q]
    <2>. DEFINE n == counts[q]
                f == [k \in 1 .. n |-> <<q, k>>]
    <2>1. n \in 0 .. Items /\ Items \in Nat
      BY ReductionAssumption
    <2>2. IsFiniteSet(1 .. n) /\ Cardinality(1 .. n) = n
      BY <2>1, FS_Interval
    <2>3. set(counts, {q}) = {<<q, k>> : k \in 1 .. n}
      <3>1. ASSUME NEW x \in set(counts, {q}) PROVE x \in {<<q, k>> : k \in 1 .. n}
        <4>1. x \in all /\ x[1] = q /\ x[2] <= n /\ x = <<x[1], x[2]>> /\ x[2] \in 1 .. Items
          OBVIOUS
        <4>2. x[2] \in 1 .. n /\ x = <<q, x[2]>>
          BY <2>1, <4>1
        <4>. QED
          BY <4>2
      <3>2. ASSUME NEW k \in 1 .. n PROVE <<q, k>> \in set(counts, {q})
        <4>1. k \in 1 .. Items /\ k <= n
          BY <2>1
        <4>. QED
          BY <4>1
      <3>. QED
        BY <3>1, <3>2
    <2>4. f \in Bijection(1 .. n, set(counts, {q}))
      <3>1. f \in [1 .. n -> set(counts, {q})]
        BY <2>3
      <3>2. \A a, b \in 1 .. n : f[a] = f[b] => a = b
        OBVIOUS
      <3>3. \A x \in set(counts, {q}) : \E k \in 1 .. n : f[k] = x
        BY <2>3
      <3>. HIDE DEF f, set, n
      <3>. QED
        BY <3>1, <3>2, <3>3 DEF Bijection, Injection, Surjection, IsInjective
    <2>5. Cardinality(set(counts, {q})) = n
      <3>. HIDE DEF f, set, n
      <3>1. ExistsBijection(1 .. n, set(counts, {q}))
        BY <2>4 DEF ExistsBijection
      <3>. QED
        BY <2>2, <3>1, FS_Bijection
    <2>. QED
      BY <1>2, <2>5
  <1>9. ItemsOf(counts, {}) = 0
    <2>1. set(counts, {}) = {}
      OBVIOUS
    <2>. QED
      BY <1>2, <2>1, FS_EmptySet
  <1>10. ASSUME NEW more \in [Rank -> 0 .. Items], NEW S,
                \A q \in Rank : q \in S => counts[q] <= more[q]
         PROVE  ItemsOf(counts, S) <= ItemsOf(more, S)
    <2>1. ASSUME NEW x \in set(counts, S) PROVE x \in set(more, S)
      <3>1. x \in all /\ x[1] \in Rank /\ x[1] \in S /\ x[2] \in 1 .. Items
            /\ x[2] <= counts[x[1]]
        OBVIOUS
      <3>2. counts[x[1]] \in 0 .. Items /\ more[x[1]] \in 0 .. Items /\ Items \in Nat
            /\ counts[x[1]] <= more[x[1]]
        BY <1>10, <3>1, ReductionAssumption
      <3>3. x[2] <= more[x[1]]
        BY <3>1, <3>2
      <3>. QED
        BY <3>1, <3>3
    <2>. QED
      BY <1>5, <2>1
  <1>11. \A S : ItemsOf(counts, S) \in Nat
    <2>. HIDE DEF set
    <2>. QED
      BY <1>2, <1>4
  <1>. QED
    BY <1>6, <1>7, <1>8, <1>9, <1>10, <1>11

LEMMA ItemsUnion ==
  ASSUME VariablesOK, NEW counts \in [Rank -> 0 .. Items],
         NEW S, NEW T, S \cap T = {}
  PROVE  /\ ItemsOf(counts, S) \in Nat /\ ItemsOf(counts, T) \in Nat
         /\ ItemsOf(counts, S \cup T) = ItemsOf(counts, S) + ItemsOf(counts, T)
  BY ItemsCounted

LEMMA ItemsMore ==
  ASSUME VariablesOK, NEW counts \in [Rank -> 0 .. Items],
         NEW more \in [Rank -> 0 .. Items],
         NEW S, \A q \in Rank : q \in S => counts[q] <= more[q]
  PROVE  /\ ItemsOf(counts, S) \in Nat /\ ItemsOf(more, S) \in Nat
         /\ ItemsOf(counts, S) <= ItemsOf(more, S)
  BY ItemsCounted

-----------------------------------------------------------------------------
(* What is below the children a rank has heard *)

\* The rank r with the subtrees of the children in H.
Part(r, H) == {r} \cup UNION {Below(c) : c \in H}

LEMMA Parts ==
  ASSUME VariablesOK, NEW r \in Rank, NEW H, H \subseteq ChildrenRanks(r)
  PROVE  /\ Part(r, H) \subseteq Rank
         /\ Part(r, {}) = {r}
         /\ Part(r, ChildrenRanks(r)) = Below(r)
         /\ \A c \in ChildrenRanks(r) \ H :
              /\ Part(r, H \cup {c}) = Part(r, H) \cup Below(c)
              /\ Part(r, H) \cap Below(c) = {}
              /\ Part(r, H \cup {c}) \ {r} = (Part(r, H) \ {r}) \cup Below(c)
              /\ (Part(r, H) \ {r}) \cap Below(c) = {}
  <1>1. /\ Below(r) = {r} \cup UNION {Below(c) : c \in ChildrenRanks(r)}
        /\ \A c \in ChildrenRanks(r) : r \notin Below(c)
        /\ \A c, d \in ChildrenRanks(r) : c # d => Below(c) \cap Below(d) = {}
    BY BelowChildren
  <1>2. \A c \in ChildrenRanks(r) : c \in Rank /\ Below(c) \subseteq Rank
    BY TreeEdges, BelowBasics
  <1>3. Part(r, H) \subseteq Rank
    BY <1>2 DEF Part
  <1>4. Part(r, {}) = {r} /\ Part(r, ChildrenRanks(r)) = Below(r)
    BY <1>1 DEF Part
  <1>5. ASSUME NEW c \in ChildrenRanks(r) \ H
        PROVE  /\ Part(r, H \cup {c}) = Part(r, H) \cup Below(c)
               /\ Part(r, H) \cap Below(c) = {}
               /\ Part(r, H \cup {c}) \ {r} = (Part(r, H) \ {r}) \cup Below(c)
               /\ (Part(r, H) \ {r}) \cap Below(c) = {}
    <2>1. Part(r, H \cup {c}) = Part(r, H) \cup Below(c)
      BY DEF Part
    <2>2. Part(r, H) \cap Below(c) = {}
      BY <1>1 DEF Part
    <2>3. r \notin Below(c)
      BY <1>1
    <2>. QED
      BY <2>1, <2>2, <2>3
  <1>. QED
    BY <1>3, <1>4, <1>5

\* Covered after a step.
LEMMA CoveredParts ==
  ASSUME UNCHANGED <<nranks, maxChildren>>, NEW x, NEW H, Heard(x)' = H
  PROVE  Covered(x)' = Part(x, H)
  <1>1. Covered(x)' = {x} \cup UNION {Below(c)' : c \in Heard(x)'}
    BY DEF Covered
  <1>2. \A c : Below(c)' = Below(c)
    BY TreeFixed
  <1>. QED
    BY <1>1, <1>2 DEF Part

\* Below a rank that takes part in no reduction, none does.
LEMMA BelowQuiet ==
  ASSUME ControlOK, NEW c \in Rank, ~reduce_outstanding[c]
  PROVE  \A y \in Below(c) : ~reduce_outstanding[y]
  <1>. DEFINE S == {y \in Rank : ~reduce_outstanding[y]}
  <1>1. c \in S
    OBVIOUS
  <1>2. ASSUME NEW x \in S, NEW y \in ChildrenRanks(x) PROVE y \in S
    BY EdgeCases
  <1>3. S \in SUBSET Rank
    OBVIOUS
  <1>4. Below(c) \subseteq S
    <2>. HIDE DEF S
    <2>. QED
      BY <1>1, <1>2, <1>3, BelowInduction
  <1>. QED
    BY <1>4

\* A rank that starts a reduction is not below a child that has answered or
\* has not been asked.
LEMMA NotBelow ==
  ASSUME ControlOK, NEW r \in Rank, r = 0 \/ Asked(r), phase[r] \in {"main", "cleanup"},
         NEW c \in Rank \ {0}, ~reduce_outstanding[c], msg[getParentRank(c)][c] = <<>>
  PROVE  r \notin Below(c)
  <1>. SUFFICES ASSUME r \in Below(c) PROVE FALSE
    OBVIOUS
  <1>1. c \in Rank /\ VariablesOK
    BY DEF ControlOK
  <1>2. r # 0
    <2>1. c <= r /\ c \in Nat /\ c # 0
      BY <1>1, TreeEdges, BelowBasics
    <2>. QED
      BY <2>1
  <1>3. msg[getParentRank(r)][r] # <<>> /\ reduce_outstanding[getParentRank(r)]
    BY <1>2, AskedByParent DEF Asked
  <1>4. r # c
    BY <1>3
  <1>5. getParentRank(r) \in Below(c)
    BY <1>1, <1>4, BelowBasics
  <1>. QED
    BY <1>1, <1>3, <1>5, BelowQuiet

\* A child from which reduceSync has received has returned.
LEMMA TakenReturned ==
  ASSUME ControlOK, NEW p \in Rank, phase[p] \in {"sync", "return"},
         NEW c \in ChildrenRanks(p), SyncTaken(c)
  PROVE  phase[c] = "return"
  <1>1. ~reduce_outstanding[p]
    BY SyncQuiet
  <1>. QED
    BY <1>1, EdgeCases

\* Below a rank that has returned all ranks have.
LEMMA BelowReturned ==
  ASSUME ControlOK, NEW c \in Rank, phase[c] = "return"
  PROVE  \A y \in Below(c) : phase[y] = "return"
  <1>. DEFINE S == {y \in Rank : phase[y] = "return"}
  <1>1. c \in S
    OBVIOUS
  <1>2. ASSUME NEW x \in S, NEW y \in ChildrenRanks(x) PROVE y \in S
    <2>1. y \in Rank /\ getParentRank(y) = x
      BY EdgeCases
    <2>2. SyncTaken(y)
      <3>1. sync_i[x] = getChildrenCount(x)
        BY DEF ControlOK, PhasesOK
      <3>2. /\ left(x) \in Nat /\ getChildrenCount(x) \in Nat
            /\ y \in left(x) .. left(x) + getChildrenCount(x) - 1
        BY TreeEdges DEF ControlOK
      <3>. QED
        BY <2>1, <3>1, <3>2 DEF SyncTaken
    <2>3. phase[y] = "return"
      BY <2>2, TakenReturned
    <2>. QED
      BY <2>1, <2>3
  <1>3. S \in SUBSET Rank
    OBVIOUS
  <1>4. Below(c) \subseteq S
    <2>. HIDE DEF S
    <2>. QED
      BY <1>1, <1>2, <1>3, BelowInduction
  <1>. QED
    BY <1>4

\* A rank that takes part in a reduction has heard children that do not, and
\* have nothing under way.
LEMMA HeardQuiet ==
  ASSUME ControlOK, NEW x \in Rank, reduce_outstanding[x], NEW c \in Heard(x)
  PROVE  /\ c \in ChildrenRanks(x) /\ c \in Rank \ {0} /\ getParentRank(c) = x
         /\ ~reduce_outstanding[c] /\ msg[x][c] = <<>> /\ msg[c][x] = <<>>
  <1>1. phase[x] \in {"main", "cleanup"}
    BY NotInSync
  <1>2. c \in ChildrenRanks(x)
    BY DEF Heard
  <1>. QED
    BY <1>1, <1>2, EdgeCases DEF Heard

\* In reduceSync it has heard children that have returned.
LEMMA HeardReturned ==
  ASSUME ControlOK, NEW x \in Rank, phase[x] \in {"sync", "return"}, NEW c \in Heard(x)
  PROVE  /\ c \in ChildrenRanks(x) /\ c \in Rank \ {0} /\ getParentRank(c) = x
         /\ phase[c] = "return"
  <1>1. c \in ChildrenRanks(x) /\ SyncTaken(c)
    BY DEF Heard
  <1>. QED
    BY <1>1, EdgeCases, TakenReturned

\* A valid reply on its way to the parent, of a reduction or of reduceSync.
LEMMA ReplyingCases ==
  ASSUME ControlOK, NEW c \in Rank \ {0}, Replying(c)
  PROVE  /\ getParentRank(c) \in Rank /\ c \in ChildrenRanks(getParentRank(c))
         /\ ValidReply(msg[c][getParentRank(c)])
         /\ msg[getParentRank(c)][c] = <<>>
         /\ ~reduce_outstanding[c]
         /\ Sender(c, getParentRank(c)).total \in Nat
         /\ reduce_outstanding[getParentRank(c)]
              \/ (phase[c] = "return" /\ ~SyncTaken(c))
  <1>. DEFINE p == getParentRank(c)
  <1>1. p \in Rank /\ c \in ChildrenRanks(p)
    BY TreeEdges DEF ControlOK
  <1>2. Len(msg[c][p]) = 2
    BY DEF Replying
  <1>3. msg[c][p] # <<>>
    <2>1. Len(<<>>) = 0
      OBVIOUS
    <2>. QED
      BY <1>2, <2>1
  <1>4. /\ InvalidReply(msg[c][p]) \/ ValidReply(msg[c][p])
        /\ msg[p][c] = <<>> /\ ~reduce_outstanding[c]
        /\ ~reduce_outstanding[p] => phase[c] = "return" /\ ~SyncTaken(c)
    BY <1>1, <1>3, EdgeCases
  <1>5. ValidReply(msg[c][p])
    <2>1. InvalidReply(msg[c][p]) => Len(msg[c][p]) = 1
      BY ReplyForms
    <2>. QED
      BY <1>2, <1>4, <2>1
  <1>. QED
    BY <1>1, <1>4, <1>5, ReplyForms DEF Sender

-----------------------------------------------------------------------------
(* The data of the reductions, rank by rank and edge by edge *)

\* What rank x holds.
RankData(x, reported) ==
  /\ IsABag(reduce_buf[x])
  /\ Combining(x) => reduce_buf[x] = Latest(Covered(x))
  /\ reduce_outstanding[x] /\ local_valid[x] =>
       /\ ItemsOf(reported, Covered(x) \ {x}) <= local_total[x]
       /\ local_total[x] <= Processed(Covered(x) \ {x})
  /\ phase[x] = "sync" => local_total[x] = Processed(Covered(x))

\* What the reply of rank c holds.
ReplyData(c, reported) ==
  Replying(c) =>
    /\ SentData(c, getParentRank(c)) = Latest(Below(c))
    /\ ItemsOf(reported, Below(c)) <= Sender(c, getParentRank(c)).total
    /\ Sender(c, getParentRank(c)).total <= Processed(Below(c))
    /\ phase[c] = "return" =>
         Sender(c, getParentRank(c)).total = Processed(Below(c))

\* What rank 0 has delivered.
RootData(reported) ==
  /\ reported \in [Rank -> 0 .. Items]
  /\ \A q \in Rank : reported[q] <= local_objects_processed[q]
  /\ result.total <= ItemsOf(reported, Rank)
  /\ FinalResult

AllData(reported) ==
  /\ RootData(reported)
  /\ \A x \in Rank : RankData(x, reported)
  /\ \A c \in Rank \ {0} : ReplyData(c, reported)

DataOK == ItemsConserved /\ \E reported : AllData(reported)

\* Control and data make the invariant; ReduceMatching follows.
LEMMA Matching == ControlOK => ReduceMatching
  <1>. SUFFICES ASSUME ControlOK, NEW s \in Rank, NEW d \in Rank, msg[s][d] # <<>>
                PROVE  \/ /\ d \in ChildrenRanks(s) /\ msg[s][d] = <<START>>
                          /\ reduce_outstanding[s] /\ ~reduce_outstanding[d]
                          /\ msg[d][s] = <<>>
                       \/ /\ s \in ChildrenRanks(d)
                          /\ Sender(s, d).kind = "header"
                          /\ Len(msg[s][d]) = IF Sender(s, d).valid THEN 2 ELSE 1
                          /\ Sender(s, d).valid => msg[s][d][2].kind = "data"
                          /\ ~reduce_outstanding[s]
                          /\ reduce_outstanding[d] \/ phase[s] = "return"
    BY DEF ReduceMatching
  <1>1. s = getParentRank(d) \/ d = getParentRank(s)
    BY DEF ControlOK, ReduceEdges
  <1>2. CASE s = getParentRank(d)
    <2>1. d \in ChildrenRanks(s)
      BY <1>2, TreeEdges DEF ControlOK
    <2>. QED
      BY <2>1, EdgeCases
  <1>3. CASE d = getParentRank(s)
    <2>1. s \in ChildrenRanks(d)
      BY <1>3, TreeEdges DEF ControlOK
    <2>2. /\ InvalidReply(msg[s][d]) \/ ValidReply(msg[s][d])
          /\ ~reduce_outstanding[s]
          /\ reduce_outstanding[d] \/ phase[s] = "return"
      BY <2>1, EdgeCases
    <2>3. /\ Sender(s, d).kind = "header"
          /\ Len(msg[s][d]) = IF Sender(s, d).valid THEN 2 ELSE 1
          /\ Sender(s, d).valid => msg[s][d][2].kind = "data"
      BY <2>2, ReplyForms DEF Sender
    <2>. QED
      BY <2>1, <2>2, <2>3
  <1>. QED
    BY <1>1, <1>2, <1>3

LEMMA InvariantParts == ReduceInv <=> ControlOK /\ DataOK
  <1>1. ASSUME ControlOK, DataOK PROVE ReduceInv
    <2>1. PICK reported : AllData(reported)
      BY <1>1 DEF DataOK
    <2>2. reported \in [Rank -> 0 .. Items] /\ TotalsAbove(reported)
      BY <2>1 DEF AllData, RootData, RankData, ReplyData, TotalsAbove
    <2>3. BuffersOK /\ SyncTotals
      BY <2>1 DEF AllData, RootData, RankData, ReplyData, BuffersOK, SyncTotals
    <2>4. TypeOK
      BY <1>1, <2>1 DEF TypeOK, ControlOK, CountersOK, AllData, RankData
    <2>5. TotalsOK
      BY <2>2 DEF TotalsOK
    <2>. QED
      BY <1>1, <2>3, <2>4, <2>5, Matching DEF ReduceInv, ReduceOK, ControlOK, DataOK
  <1>2. ASSUME ReduceInv PROVE ControlOK /\ DataOK
    <2>1. PICK reported \in [Rank -> 0 .. Items] : TotalsAbove(reported)
      BY <1>2 DEF ReduceInv, TotalsOK
    <2>2. RootData(reported)
      BY <1>2, <2>1 DEF ReduceInv, RootData, TotalsAbove, SyncTotals
    <2>3. \A x \in Rank : RankData(x, reported)
      BY <1>2, <2>1 DEF ReduceInv, ReduceOK, TypeOK, BuffersOK, SyncTotals, RankData,
                        TotalsAbove
    <2>4. \A c \in Rank \ {0} : ReplyData(c, reported)
      BY <1>2, <2>1 DEF ReduceInv, BuffersOK, SyncTotals, ReplyData, TotalsAbove
    <2>5. DataOK
      BY <1>2, <2>2, <2>3, <2>4 DEF DataOK, AllData, ReduceInv
    <2>. QED
      BY <1>2, <2>5 DEF ReduceInv, ReduceOK, TypeOK, ControlOK, CountersOK
  <1>. QED
    BY <1>1, <1>2

\* A rank that a step leaves alone.
LEMMA RankFrame ==
  ASSUME UNCHANGED <<nranks, maxChildren, local_objects_processed>>,
         NEW x \in Rank, NEW reported, NEW next, RankData(x, reported),
         UNCHANGED <<reduce_buf[x], local_total[x]>>,
         reduce_outstanding'[x] /\ local_valid'[x] =>
           reduce_outstanding[x] /\ local_valid[x] /\ next = reported,
         phase'[x] = "sync" => phase[x] = "sync",
         Combining(x)' => /\ Heard(x)' = Heard(x)
                          /\ \A q \in Covered(x) : inits'[q] = inits[q]
  PROVE  RankData(x, next)'
  <1>1. IsABag(reduce_buf'[x])
    BY DEF RankData
  <1>2. Combining(x)' => Combining(x)
    BY DEF Combining
  <1>3. Combining(x)' => Covered(x)' = Covered(x)
    <2>1. Combining(x)' => Covered(x)' = Part(x, Heard(x))
      BY CoveredParts
    <2>. QED
      BY <2>1 DEF Covered, Part
  <1>4. Combining(x)' => reduce_buf'[x] = Latest(Covered(x))'
    <2>. SUFFICES ASSUME Combining(x)' PROVE reduce_buf'[x] = Latest(Covered(x))'
      OBVIOUS
    <2>1. Latest(Covered(x))' = SetToBag({<<q, inits'[q]>> : q \in Covered(x)})
      BY <1>3 DEF Latest
    <2>2. Latest(Covered(x))' = Latest(Covered(x))
      BY <2>1, LatestFrame
    <2>. QED
      BY <1>2, <2>2 DEF RankData
  <1>5. reduce_outstanding'[x] /\ local_valid'[x] =>
          /\ ItemsOf(next, Covered(x) \ {x})' <= local_total'[x]
          /\ local_total'[x] <= Processed(Covered(x) \ {x})'
    <2>. SUFFICES ASSUME reduce_outstanding'[x], local_valid'[x]
                  PROVE  /\ ItemsOf(next, Covered(x) \ {x})' <= local_total'[x]
                         /\ local_total'[x] <= Processed(Covered(x) \ {x})'
      OBVIOUS
    <2>1. Covered(x)' = Covered(x)
      BY <1>3 DEF Combining
    <2>2. /\ ItemsOf(next, Covered(x) \ {x})' = ItemsOf(reported, Covered(x) \ {x})
          /\ Processed(Covered(x) \ {x})' = Processed(Covered(x) \ {x})
      <3>1. Rank' = Rank
        BY TreeFixed
      <3>. QED
        BY <2>1, <3>1 DEF Processed, ItemsOf
    <2>. QED
      BY <2>2 DEF RankData
  <1>6. phase'[x] = "sync" => local_total'[x] = Processed(Covered(x))'
    <2>. SUFFICES ASSUME phase'[x] = "sync"
                  PROVE  local_total'[x] = Processed(Covered(x))'
      OBVIOUS
    <2>1. Covered(x)' = Covered(x)
      BY <1>3 DEF Combining
    <2>2. Processed(Covered(x))' = Processed(Covered(x))
      <3>1. Rank' = Rank
        BY TreeFixed
      <3>. QED
        BY <2>1, <3>1 DEF Processed, ItemsOf
    <2>. QED
      BY <2>2 DEF RankData
  <1>. QED
    BY <1>1, <1>4, <1>5, <1>6 DEF RankData

\* An edge to the parent that a step leaves alone.
LEMMA ReplyFrame ==
  ASSUME UNCHANGED <<nranks, maxChildren, local_objects_processed>>,
         NEW c \in Rank \ {0}, NEW reported, ReplyData(c, reported),
         msg'[c][getParentRank(c)] = msg[c][getParentRank(c)],
         phase'[c] = "return" => phase[c] = "return",
         Replying(c) => \A q \in Below(c) : inits'[q] = inits[q]
  PROVE  ReplyData(c, reported)'
  <1>1. /\ getParentRank(c)' = getParentRank(c) /\ Below(c)' = Below(c) /\ Rank' = Rank
    BY TreeFixed
  <1>2. Replying(c)' <=> Replying(c)
    BY <1>1 DEF Replying
  <1>3. /\ SentData(c, getParentRank(c))' = SentData(c, getParentRank(c))
        /\ Sender(c, getParentRank(c))' = Sender(c, getParentRank(c))
    BY <1>1 DEF SentData, Sender
  <1>4. /\ ItemsOf(reported, Below(c))' = ItemsOf(reported, Below(c))
        /\ Processed(Below(c))' = Processed(Below(c))
    BY <1>1 DEF Processed, ItemsOf
  <1>5. Replying(c) => Latest(Below(c))' = Latest(Below(c))
    <2>1. Latest(Below(c))' = SetToBag({<<q, inits'[q]>> : q \in Below(c)})
      BY <1>1 DEF Latest
    <2>. QED
      BY <2>1, LatestFrame
  <1>. QED
    BY <1>2, <1>3, <1>4, <1>5 DEF ReplyData

\* What rank 0 has delivered, after a step that delivers nothing.
LEMMA RootFrame ==
  ASSUME UNCHANGED <<nranks, maxChildren, local_objects_processed, unprocessed, result>>,
         NEW reported, RootData(reported), ItemsConserved,
         phase'[0] = "return" => phase[0] = "return"
  PROVE  RootData(reported)' /\ ItemsConserved'
  <1>1. Rank' = Rank
    BY TreeFixed
  <1>. QED
    BY <1>1 DEF RootData, FinalResult, ItemsConserved, Processed, ItemsOf

\* Steps that neither send nor receive, nor begin anything new.
LEMMA QuietData ==
  ASSUME ControlOK, DataOK,
         UNCHANGED <<nranks, maxChildren, local_objects_processed, unprocessed>>,
         UNCHANGED reduceVars,
         \A x \in Rank : /\ phase'[x] = "sync" => phase[x] = "sync"
                         /\ phase'[x] = "return" => phase[x] = "return"
                         /\ Heard(x)' = Heard(x)
  PROVE  DataOK'
  <1>1. PICK reported : AllData(reported)
    BY DEF DataOK
  <1>2. 0 \in Rank /\ Rank' = Rank
    BY TreeEdges, TreeFixed DEF ControlOK
  <1>3. RootData(reported)' /\ ItemsConserved'
    BY <1>1, <1>2, RootFrame DEF AllData, DataOK, reduceVars
  <1>4. ASSUME NEW x \in Rank PROVE RankData(x, reported)'
    BY <1>1, RankFrame DEF AllData, reduceVars
  <1>5. ASSUME NEW c \in Rank \ {0} PROVE ReplyData(c, reported)'
    BY <1>1, ReplyFrame DEF AllData, reduceVars
  <1>. QED
    BY <1>2, <1>3, <1>4, <1>5 DEF DataOK, AllData

\* No rank has processed more items than there are.
LEMMA EnoughItems ==
  ASSUME ControlOK, DataOK, NEW r \in Rank, unprocessed > 0
  PROVE  local_objects_processed[r] + 1 \in 0 .. Items
  <1>. DEFINE counts == local_objects_processed
  <1>1. /\ counts \in [Rank -> 0 .. Items] /\ Items \in Nat /\ unprocessed \in Nat
        /\ VariablesOK
    BY ReductionAssumption DEF ControlOK, VariablesOK, CountersOK
  <1>. HIDE DEF counts
  <1>2. /\ ItemsOf(counts, {r}) = counts[r]
        /\ ItemsOf(counts, {r}) <= ItemsOf(counts, Rank)
        /\ ItemsOf(counts, Rank) \in Nat
    BY <1>1, ItemsCounted
  <1>3. ItemsOf(counts, Rank) + unprocessed = Items
    BY DEF DataOK, ItemsConserved, Processed, counts
  <1>4. counts[r] \in Nat
    BY <1>1
  <1>5. counts[r] + 1 \in 0 .. Items
    BY <1>1, <1>2, <1>3, <1>4
  <1>. QED
    BY <1>5 DEF counts

\* An item is processed: what has been gathered is still bounded.
LEMMA ProcessData ==
  ASSUME ControlOK, DataOK, NEW r \in Rank, ProcessCallback(r)
  PROVE  DataOK'
  <1>. DEFINE counts == local_objects_processed
              more == local_objects_processed'
  <1>1. /\ phase[r] = "main" /\ unprocessed > 0 /\ unprocessed' = unprocessed - 1
        /\ more = [counts EXCEPT ![r] = counts[r] + 1]
        /\ UNCHANGED <<nranks, maxChildren, phase, barrier_started>>
        /\ UNCHANGED reduceVars
    BY DEF ProcessCallback
  <1>2. counts[r] + 1 \in 0 .. Items
    BY <1>1, EnoughItems
  <1>3. /\ counts \in [Rank -> 0 .. Items] /\ Items \in Nat /\ unprocessed \in Nat
        /\ VariablesOK
    BY ReductionAssumption DEF ControlOK, VariablesOK, CountersOK
  <1>4. PICK reported : AllData(reported)
    BY DEF DataOK
  <1>5. /\ Rank' = Rank
        /\ \A x : getParentRank(x)' = getParentRank(x)
        /\ \A x : Below(x)' = Below(x)
    BY <1>1, TreeFixed
  <1>6. \A x \in Rank : phase[x] # "sync" /\ phase[x] # "return"
    BY <1>1 DEF ControlOK, PhasesOK
  <1>7. \A x \in Rank : Heard(x)' = Heard(x)
    BY <1>1, <1>2, ProcessControl
  <1>8. \A S : ItemsOf(reported, S)' = ItemsOf(reported, S)
    BY <1>5 DEF ItemsOf
  <1>9. \A S : Processed(S) = ItemsOf(counts, S) /\ Processed(S)' = ItemsOf(more, S)
    BY <1>5 DEF Processed, ItemsOf
  <1>. HIDE DEF counts, more
  <1>10. /\ more \in [Rank -> 0 .. Items]
         /\ \A x \in Rank : more[x] = IF x = r THEN counts[r] + 1 ELSE counts[x]
         /\ \A x \in Rank : counts[x] \in Nat /\ counts[x] <= more[x]
    BY <1>1, <1>2, <1>3
  <1>11. \A S : Processed(S) \in Nat /\ Processed(S)' \in Nat
                /\ Processed(S) <= Processed(S)'
    <2>1. \A S : ItemsOf(counts, S) \in Nat /\ ItemsOf(counts, S) <= ItemsOf(more, S)
      BY <1>3, <1>10, ItemsCounted
    <2>2. \A S : ItemsOf(more, S) \in Nat
      BY <1>3, <1>10, ItemsCounted
    <2>. QED
      BY <1>9, <2>1, <2>2
  <1>12. ItemsConserved'
    <2>. DEFINE S == Rank \ {r}
    <2>1. Rank = S \cup {r} /\ S \cap {r} = {}
      OBVIOUS
    <2>2. \A q \in Rank : q \in S => counts[q] <= more[q] /\ more[q] <= counts[q]
      BY <1>10
    <2>. HIDE DEF S
    <2>3. /\ ItemsOf(counts, S) <= ItemsOf(more, S)
          /\ ItemsOf(more, S) <= ItemsOf(counts, S)
          /\ ItemsOf(more, S) \in Nat /\ ItemsOf(counts, S) \in Nat
      BY <1>3, <1>10, <2>2, ItemsMore
    <2>4. /\ ItemsOf(counts, S \cup {r}) = ItemsOf(counts, S) + counts[r]
          /\ ItemsOf(more, S \cup {r}) = ItemsOf(more, S) + more[r]
      <3>. DEFINE R == {r}
      <3>1. ItemsOf(counts, R) = counts[r] /\ ItemsOf(more, R) = more[r]
        BY <1>3, <1>10, ItemsCounted
      <3>2. S \cap R = {}
        BY <2>1
      <3>. HIDE DEF R
      <3>3. ItemsOf(counts, S \cup R) = ItemsOf(counts, S) + ItemsOf(counts, R)
        BY <1>3, <3>2, ItemsUnion
      <3>4. ItemsOf(more, S \cup R) = ItemsOf(more, S) + ItemsOf(more, R)
        BY <1>3, <1>10, <3>2, ItemsUnion
      <3>. QED
        BY <3>1, <3>3, <3>4 DEF R
    <2>5. Processed(Rank) + unprocessed = Items
      BY DEF DataOK, ItemsConserved
    <2>6. ItemsOf(more, Rank) = ItemsOf(counts, Rank) + 1
      BY <1>10, <2>1, <2>3, <2>4
    <2>7. (Processed(Rank))' = ItemsOf(more, Rank)
      BY <1>5 DEF Processed, ItemsOf, more
    <2>. QED
      BY <1>1, <1>3, <1>9, <1>11, <2>5, <2>6, <2>7 DEF ItemsConserved
  <1>13. RootData(reported)'
    <2>1. RootData(reported)
      BY <1>4 DEF AllData
    <2>2. ASSUME NEW q \in Rank PROVE reported[q] <= more[q]
      <3>1. /\ reported[q] \in Nat /\ reported[q] <= counts[q]
            /\ counts[q] \in Nat /\ counts[q] <= more[q] /\ more[q] \in Nat
        BY <1>3, <1>10, <2>1 DEF RootData, counts
      <3>. QED
        BY <3>1
    <2>3. phase'[0] # "return"
      BY <1>1, <1>3, <1>6, TreeEdges
    <2>. QED
      BY <1>1, <1>5, <1>8, <2>1, <2>2, <2>3 DEF RootData, FinalResult, reduceVars, more
  <1>14. ASSUME NEW x \in Rank PROVE RankData(x, reported)'
    <2>1. RankData(x, reported)
      BY <1>4 DEF AllData
    <2>2. Covered(x)' = Covered(x)
      BY <1>5, <1>7 DEF Covered
    <2>3. Combining(x)' <=> Combining(x)
      BY <1>1 DEF Combining, reduceVars
    <2>4. Latest(Covered(x))' = Latest(Covered(x))
      BY <1>1, <2>2 DEF Latest, reduceVars
    <2>5. /\ ItemsOf(reported, Covered(x) \ {x})' = ItemsOf(reported, Covered(x) \ {x})
          /\ Processed(Covered(x) \ {x})' = ItemsOf(more, Covered(x) \ {x})
      BY <1>5, <2>2 DEF Processed, ItemsOf, more
    <2>6. local_total[x] \in Nat
      BY <1>3 DEF VariablesOK
    <2>7. local_total[x] <= Processed(Covered(x) \ {x}) =>
            local_total'[x] <= Processed(Covered(x) \ {x})'
      <3>1. /\ Processed(Covered(x) \ {x}) \in Nat
            /\ ItemsOf(more, Covered(x) \ {x}) \in Nat
            /\ Processed(Covered(x) \ {x}) <= ItemsOf(more, Covered(x) \ {x})
        BY <1>9, <1>11
      <3>2. local_total' = local_total
        BY <1>1 DEF reduceVars
      <3>. QED
        BY <2>5, <2>6, <3>1, <3>2
    <2>. QED
      BY <1>1, <1>6, <2>1, <2>3, <2>4, <2>5, <2>7 DEF RankData, reduceVars
  <1>15. ASSUME NEW c \in Rank \ {0} PROVE ReplyData(c, reported)'
    <2>. DEFINE p == getParentRank(c)
    <2>1. ReplyData(c, reported)
      BY <1>4 DEF AllData
    <2>2. /\ getParentRank(c)' = getParentRank(c) /\ Below(c)' = Below(c)
          /\ msg' = msg /\ inits' = inits
      BY <1>1, <1>5 DEF reduceVars
    <2>3. /\ Replying(c)' <=> Replying(c)
          /\ SentData(c, p)' = SentData(c, p)
          /\ Sender(c, p)' = Sender(c, p)
          /\ Latest(Below(c))' = Latest(Below(c))
      BY <2>2 DEF Replying, SentData, Sender, Latest
    <2>4. /\ ItemsOf(reported, Below(c))' = ItemsOf(reported, Below(c))
          /\ Processed(Below(c))' = ItemsOf(more, Below(c))
      BY <1>5, <2>2 DEF Processed, ItemsOf, more
    <2>5. Replying(c) => Sender(c, p).total \in Nat
      BY ReplyingCases
    <2>6. /\ Processed(Below(c)) \in Nat
          /\ ItemsOf(more, Below(c)) \in Nat
          /\ Processed(Below(c)) <= ItemsOf(more, Below(c))
      BY <1>9, <1>11
    <2>7. phase'[c] # "return"
      BY <1>1, <1>6
    <2>. QED
      BY <2>1, <2>3, <2>4, <2>5, <2>6, <2>7 DEF ReplyData
  <1>. QED
    BY <1>4, <1>5, <1>12, <1>13, <1>14, <1>15 DEF DataOK, AllData

\* A reduction begins: nothing gathered depends on what the rank contributed
\* before.
LEMMA StartData ==
  ASSUME ControlOK, DataOK, NEW r \in Rank, ReduceStart(r)
  PROVE  DataOK'
  <1>1. /\ phase[r] = "main" /\ ~reduce_outstanding[r]
        /\ r = 0 \/ Asked(r)
        /\ UNCHANGED <<nranks, maxChildren, local_objects_processed, unprocessed, phase>>
        /\ UNCHANGED <<sync_i, result>>
        /\ reduce_outstanding' = [reduce_outstanding EXCEPT ![r] = TRUE]
        /\ local_valid' = [local_valid EXCEPT ![r] = TRUE]
        /\ local_total' = [local_total EXCEPT ![r] = 0]
        /\ inits' = [inits EXCEPT ![r] = @ + 1]
        /\ reduce_buf' = [reduce_buf EXCEPT ![r] = Contribution(r, inits[r] + 1)]
    BY DEF ReduceStart, jobVars
  <1>2. VariablesOK
    BY DEF ControlOK
  <1>3. PICK reported : AllData(reported)
    BY DEF DataOK
  <1>4. 0 \in Rank /\ Rank' = Rank
    BY <1>1, <1>2, TreeEdges, TreeFixed
  <1>5. \A x \in Rank : reduce_outstanding'[x] =>
          Heard(x)' = IF x = r THEN {} ELSE Heard(x)
    BY StartControl
  <1>6. \A x \in Rank : phase[x] \in {"main", "cleanup"}
    BY <1>1, NotInSync
  <1>7. RootData(reported)' /\ ItemsConserved'
    BY <1>1, <1>3, RootFrame DEF AllData, DataOK
  <1>8. \A q \in Rank : q # r => inits'[q] = inits[q]
    BY <1>1, <1>2 DEF VariablesOK
  <1>9. \A a, d \in Rank :
           msg'[a][d] =
             IF a = r /\ d \in ChildrenRanks(r) THEN <<START>>
             ELSE IF d = r /\ a = getParentRank(r) THEN <<>> ELSE msg[a][d]
    BY StartMessages
  <1>10. ASSUME NEW x \in Rank PROVE RankData(x, reported)'
    <2>1. RankData(x, reported)
      BY <1>3 DEF AllData
    <2>2. CASE x = r
      <3>1. reduce_outstanding'[r] = TRUE /\ local_total'[r] = 0
            /\ reduce_buf'[r] = Contribution(r, inits[r] + 1)
        BY <1>1, <1>2 DEF VariablesOK
      <3>2. Covered(r)' = {r}
        <4>1. Covered(r)' = Part(r, {})
          BY <1>1, <1>5, <3>1, CoveredParts
        <4>2. {} \subseteq ChildrenRanks(r)
          OBVIOUS
        <4>. QED
          BY <1>2, <4>1, <4>2, Parts
      <3>3. reduce_buf'[r] = Latest({r})'
        BY <1>1, <1>2, <3>1, NewContribution DEF VariablesOK
      <3>4. IsABag(reduce_buf'[r])
        <4>1. IsABag(Latest({r})')
          BY DEF Latest, IsABag, SetToBag
        <4>. QED
          BY <3>3, <4>1
      <3>5. reduce_buf'[r] = Latest(Covered(r))'
        BY <3>2, <3>3 DEF Latest
      <3>6. ItemsOf(reported, Covered(r) \ {r})' = 0 /\ Processed(Covered(r) \ {r})' = 0
        <4>1. /\ reported \in [Rank -> 0 .. Items]
              /\ local_objects_processed \in [Rank -> 0 .. Items]
          BY <1>2, <1>3 DEF AllData, RootData, VariablesOK
        <4>2. ItemsOf(reported, {}) = 0 /\ Processed({}) = 0
          BY <1>2, <4>1, ItemsCounted DEF Processed
        <4>3. Covered(r)' \ {r} = {}
          BY <3>2
        <4>4. /\ ItemsOf(reported, Covered(r) \ {r})' = ItemsOf(reported, {})
              /\ Processed(Covered(r) \ {r})' = Processed({})
          BY <1>1, <1>4, <4>3 DEF ItemsOf, Processed
        <4>. QED
          BY <4>2, <4>4
      <3>7. phase'[r] # "sync"
        BY <1>1
      <3>8. 0 <= 0
        OBVIOUS
      <3>. QED
        BY <2>2, <3>1, <3>4, <3>5, <3>6, <3>7, <3>8 DEF RankData
    <2>3. CASE x # r
      <3>1. /\ UNCHANGED <<reduce_buf[x], local_total[x]>>
            /\ reduce_outstanding'[x] = reduce_outstanding[x]
            /\ local_valid'[x] = local_valid[x]
        BY <1>1, <1>2, <2>3 DEF VariablesOK
      <3>2. Combining(x)' => reduce_outstanding[x] /\ reduce_outstanding'[x]
        BY <1>1, <1>6, <3>1 DEF Combining
      <3>3. ASSUME reduce_outstanding[x], NEW q \in Covered(x) PROVE inits'[q] = inits[q]
        <4>1. CASE q = x
          BY <1>8, <2>3, <4>1
        <4>2. CASE q # x
          <5>1. PICK c \in Heard(x) : q \in Below(c)
            BY <4>2 DEF Covered
          <5>2. /\ c \in Rank \ {0} /\ getParentRank(c) = x
                /\ ~reduce_outstanding[c] /\ msg[x][c] = <<>>
            BY <3>3, HeardQuiet
          <5>3. r \notin Below(c) /\ Below(c) \subseteq Rank
            BY <1>1, <1>2, <5>2, NotBelow, BelowBasics
          <5>. QED
            BY <1>8, <5>1, <5>3
        <4>. QED
          BY <4>1, <4>2
      <3>4. Combining(x)' => /\ Heard(x)' = Heard(x)
                             /\ \A q \in Covered(x) : inits'[q] = inits[q]
        BY <1>5, <2>3, <3>2, <3>3
      <3>. QED
        BY <1>1, <2>1, <3>1, <3>4, RankFrame
    <2>. QED
      BY <2>2, <2>3
  <1>11. ASSUME NEW c \in Rank \ {0} PROVE ReplyData(c, reported)'
    <2>. DEFINE p == getParentRank(c)
    <2>1. ReplyData(c, reported)
      BY <1>3 DEF AllData
    <2>2. p \in Rank /\ p < c /\ c \in Nat
      BY <1>2, TreeEdges
    <2>3. msg'[c][p] = msg[c][p]
      <3>1. ~(c = r /\ p \in ChildrenRanks(r)) /\ ~(p = r /\ c = getParentRank(r))
        <4>1. p \in ChildrenRanks(r) => r < p /\ r \in Nat /\ p \in Nat
          BY <1>2, <2>2, TreeEdges
        <4>2. c = getParentRank(r) => c < r /\ r \in Nat
          BY <1>2, TreeEdges
        <4>. QED
          BY <2>2, <4>1, <4>2
      <3>2. msg'[c][p] = IF c = r /\ p \in ChildrenRanks(r) THEN <<START>>
                         ELSE IF p = r /\ c = getParentRank(r) THEN <<>> ELSE msg[c][p]
        <4>1. c \in Rank
          OBVIOUS
        <4>. HIDE DEF p
        <4>. QED
          BY <1>9, <2>2, <4>1
      <3>. QED
        BY <3>1, <3>2
    <2>4. Replying(c) => \A q \in Below(c) : inits'[q] = inits[q]
      <3>. SUFFICES ASSUME Replying(c), NEW q \in Below(c) PROVE inits'[q] = inits[q]
        OBVIOUS
      <3>1. ~reduce_outstanding[c] /\ msg[p][c] = <<>>
        BY ReplyingCases
      <3>2. r \notin Below(c) /\ Below(c) \subseteq Rank
        BY <1>1, <1>2, <3>1, NotBelow, BelowBasics
      <3>. QED
        BY <1>8, <3>2
    <2>. QED
      BY <1>1, <2>1, <2>3, <2>4, ReplyFrame
  <1>. QED
    BY <1>4, <1>7, <1>10, <1>11 DEF DataOK, AllData

\* A refusal carries no data.
LEMMA RefuseData ==
  ASSUME ControlOK, DataOK, NEW r \in Rank, ReduceRefuse(r)
  PROVE  DataOK'
  <1>1. /\ phase[r] = "cleanup" /\ ~reduce_outstanding[r] /\ Asked(r)
        /\ UNCHANGED <<nranks, maxChildren, local_objects_processed, unprocessed, phase>>
        /\ UNCHANGED <<reduce_outstanding, reduce_replies, local_total, reduce_buf,
                       sync_i, rounds, inits, result>>
        /\ local_valid' = [local_valid EXCEPT ![r] = FALSE]
    BY DEF ReduceRefuse, jobVars
  <1>2. VariablesOK
    BY DEF ControlOK
  <1>3. PICK reported : AllData(reported)
    BY DEF DataOK
  <1>4. 0 \in Rank /\ Rank' = Rank /\ \A x : getParentRank(x)' = getParentRank(x)
    BY <1>1, <1>2, TreeEdges, TreeFixed
  <1>5. RootData(reported)' /\ ItemsConserved'
    BY <1>1, <1>3, RootFrame DEF AllData, DataOK
  <1>6. \A x \in Rank : reduce_outstanding'[x] => Heard(x)' = Heard(x)
    BY RefuseControl
  <1>7. reduce_outstanding[getParentRank(r)] /\ getParentRank(r) \in Rank
    BY <1>1, AskedByParent
  <1>8. \A a, d \in Rank :
           msg'[a][d] =
             IF a = r /\ d = getParentRank(r) THEN <<Header(FALSE, local_total[r])>>
             ELSE IF d = r /\ a = getParentRank(r) THEN <<>> ELSE msg[a][d]
    BY RefuseMessages
  <1>9. ASSUME NEW x \in Rank PROVE RankData(x, reported)'
    <2>1. RankData(x, reported)
      BY <1>3 DEF AllData
    <2>2. reduce_outstanding'[x] /\ local_valid'[x] =>
            reduce_outstanding[x] /\ local_valid[x]
      BY <1>1, <1>2 DEF VariablesOK
    <2>3. Combining(x)' => reduce_outstanding'[x]
      BY <1>1, <1>7, NotInSync DEF Combining
    <2>. QED
      BY <1>1, <1>6, <2>1, <2>2, <2>3, RankFrame
  <1>10. ASSUME NEW c \in Rank \ {0} PROVE ReplyData(c, reported)'
    <2>. DEFINE p == getParentRank(c)
    <2>1. ReplyData(c, reported)
      BY <1>3 DEF AllData
    <2>2. p \in Rank /\ p < c /\ c \in Nat
      BY <1>2, TreeEdges
    <2>3. CASE c = r
      <3>1. msg'[c][p] = <<Header(FALSE, local_total[r])>>
        BY <2>2, <2>3, RefuseMessages
      <3>2. InvalidReply(<<Header(FALSE, local_total[r])>>)
        <4>1. local_total[r] \in Nat
          BY <1>2 DEF VariablesOK
        <4>. QED
          BY <4>1, MakeReply
      <3>3. Len(msg'[c][p]) = 1
        BY <3>1, <3>2, ReplyForms
      <3>4. ~Replying(c)'
        BY <1>4, <3>3 DEF Replying
      <3>. QED
        BY <3>4 DEF ReplyData
    <2>4. CASE c # r
      <3>1. ~(p = r /\ c = getParentRank(r))
        <4>1. c = getParentRank(r) => c < r /\ r \in Nat
          BY <1>2, TreeEdges
        <4>. QED
          BY <2>2, <4>1
      <3>2. msg'[c][p] = IF c = r /\ p = getParentRank(r)
                         THEN <<Header(FALSE, local_total[r])>>
                         ELSE IF p = r /\ c = getParentRank(r) THEN <<>> ELSE msg[c][p]
        <4>1. c \in Rank
          OBVIOUS
        <4>. HIDE DEF p
        <4>. QED
          BY <1>8, <2>2, <4>1
      <3>3. msg'[c][p] = msg[c][p]
        BY <2>4, <3>1, <3>2
      <3>. QED
        BY <1>1, <2>1, <3>3, ReplyFrame
    <2>. QED
      BY <2>3, <2>4
  <1>. QED
    BY <1>4, <1>5, <1>9, <1>10 DEF DataOK, AllData

\* What a rank that has heard the children in H has gathered.
GotData(r, got, H, reported) ==
  /\ IsABag(got.buf)
  /\ got.valid =>
       /\ got.buf = Latest(Part(r, H))
       /\ ItemsOf(reported, Part(r, H) \ {r}) <= got.total
       /\ got.total <= Processed(Part(r, H) \ {r})

LEMMA GatheredData ==
  ASSUME ControlOK, NEW reported, AllData(reported), NEW r \in Rank, Gathers(r)
  PROVE  GotData(r, Gathered(r), Heard(r), reported)
  <1>1. /\ Gathered(r).valid = local_valid[r] /\ Gathered(r).total = local_total[r]
        /\ Gathered(r).buf = reduce_buf[r]
    BY DEF Gathered
  <1>2. Covered(r) = Part(r, Heard(r))
    BY DEF Covered, Part
  <1>3. RankData(r, reported)
    BY DEF AllData
  <1>. QED
    BY <1>1, <1>2, <1>3 DEF RankData, Combining, Gathers, GotData

\* The reply of a child adds its subtree.
LEMMA CombinedData ==
  ASSUME ControlOK, NEW reported, AllData(reported), NEW r \in Rank, Gathers(r),
         NEW c \in Replied(r)
  PROVE  GotData(r, Combined(r, c), Heard(r) \cup {c}, reported)
  <1>. DEFINE H == Heard(r)
              got == Combined(r, c)
              old == Part(r, H) \ {r}
              new == Part(r, H \cup {c}) \ {r}
  <1>1. /\ c \in ChildrenRanks(r) /\ c \in Rank \ {0} /\ getParentRank(c) = r
        /\ msg[c][r] # <<>> /\ reduce_outstanding[r]
        /\ InvalidReply(msg[c][r]) \/ ValidReply(msg[c][r])
        /\ Sender(c, r).valid \in BOOLEAN /\ Sender(c, r).total \in Nat
        /\ Sender(c, r).valid <=> ValidReply(msg[c][r])
    BY ReplyFound
  <1>2. VariablesOK /\ local_valid[r] \in BOOLEAN /\ local_total[r] \in Nat
    BY DEF ControlOK, VariablesOK
  <1>3. /\ got.valid = (local_valid[r] /\ Sender(c, r).valid)
        /\ got.total = local_total[r] + (IF Sender(c, r).valid THEN Sender(c, r).total ELSE 0)
        /\ got.buf = IF got.valid THEN reduce_buf[r] (+) SentData(c, r) ELSE reduce_buf[r]
    BY DEF Combined
  <1>. HIDE DEF got
  <1>4. H \subseteq ChildrenRanks(r) /\ c \notin H
    <2>1. phase[r] \in {"main", "cleanup"}
      BY DEF Gathers
    <2>. QED
      BY <1>1, <2>1 DEF Heard
  <1>5. /\ Part(r, H \cup {c}) = Part(r, H) \cup Below(c)
        /\ Part(r, H) \cap Below(c) = {}
        /\ new = old \cup Below(c) /\ old \cap Below(c) = {}
    <2>1. c \in ChildrenRanks(r) \ H
      BY <1>1, <1>4
    <2>. HIDE DEF H
    <2>. QED
      BY <1>2, <1>4, <2>1, Parts DEF H
  <1>6. RankData(r, reported) /\ ReplyData(c, reported)
    BY <1>1 DEF AllData
  <1>7. Covered(r) = Part(r, H)
    BY DEF Covered, Part
  <1>8. CASE got.valid
    <2>1. local_valid[r] /\ Sender(c, r).valid /\ ValidReply(msg[c][r])
      BY <1>1, <1>2, <1>3, <1>8
    <2>2. Replying(c)
      BY <1>1, <2>1, ReplyForms DEF Replying
    <2>3. /\ reduce_buf[r] = Latest(Part(r, H))
          /\ ItemsOf(reported, old) <= local_total[r]
          /\ local_total[r] <= Processed(old)
      BY <1>1, <1>6, <1>7, <2>1 DEF RankData, Combining
    <2>4. /\ SentData(c, r) = Latest(Below(c))
          /\ ItemsOf(reported, Below(c)) <= Sender(c, r).total
          /\ Sender(c, r).total <= Processed(Below(c))
      BY <1>1, <1>6, <2>2 DEF ReplyData
    <2>5. got.buf = Latest(Part(r, H \cup {c}))
      BY <1>3, <1>5, <1>8, <2>3, <2>4, LatestUnion
    <2>6. /\ reported \in [Rank -> 0 .. Items]
          /\ local_objects_processed \in [Rank -> 0 .. Items]
      BY <1>2 DEF AllData, RootData, VariablesOK
    <2>. HIDE DEF old, new
    <2>7. /\ ItemsOf(reported, old) \in Nat /\ ItemsOf(reported, Below(c)) \in Nat
          /\ ItemsOf(reported, old \cup Below(c)) =
               ItemsOf(reported, old) + ItemsOf(reported, Below(c))
      BY <1>2, <1>5, <2>6, ItemsUnion
    <2>8. /\ Processed(old) \in Nat /\ Processed(Below(c)) \in Nat
          /\ Processed(old \cup Below(c)) = Processed(old) + Processed(Below(c))
      BY <1>2, <1>5, <2>6, ItemsUnion DEF Processed
    <2>9. got.total = local_total[r] + Sender(c, r).total
      BY <1>3, <2>1
    <2>10. ItemsOf(reported, new) <= got.total /\ got.total <= Processed(new)
      BY <1>1, <1>2, <1>5, <2>3, <2>4, <2>7, <2>8, <2>9
    <2>11. IsABag(got.buf)
      BY <2>5, LatestIsABag
    <2>. QED
      BY <2>5, <2>10, <2>11 DEF GotData, got, new
  <1>9. CASE ~got.valid
    <2>1. IsABag(got.buf)
      BY <1>3, <1>6, <1>9 DEF RankData
    <2>. QED
      BY <1>9, <2>1 DEF GotData, got
  <1>. QED
    BY <1>8, <1>9

\* One reply is taken, and others are to come.
LEMMA GatherData ==
  ASSUME ControlOK, DataOK, NEW r \in Rank, Gathers(r), NEW c \in Replied(r),
         Combined(r, c).replies # getChildrenCount(r),
         Keep(r, Combined(r, c)),
         local_total' = [local_total EXCEPT ![r] = Combined(r, c).total],
         Exchange(r, Taken(r, c), Silent),
         UNCHANGED <<jobVars, reduce_outstanding, sync_i, rounds, inits, result>>
  PROVE  DataOK'
  <1>. DEFINE got == Combined(r, c)
              H == Heard(r) \cup {c}
  <1>1. /\ UNCHANGED <<nranks, maxChildren, local_objects_processed, unprocessed, phase>>
        /\ UNCHANGED <<reduce_outstanding, sync_i, rounds, inits, result>>
        /\ local_valid' = [local_valid EXCEPT ![r] = got.valid]
        /\ reduce_buf' = [reduce_buf EXCEPT ![r] = got.buf]
        /\ local_total' = [local_total EXCEPT ![r] = got.total]
        /\ reduce_outstanding[r]
    BY DEF Keep, jobVars, Gathers
  <1>2. VariablesOK
    BY DEF ControlOK
  <1>3. PICK reported : AllData(reported)
    BY DEF DataOK
  <1>4. 0 \in Rank /\ Rank' = Rank /\ \A x : getParentRank(x)' = getParentRank(x)
    BY <1>1, <1>2, TreeEdges, TreeFixed
  <1>5. RootData(reported)' /\ ItemsConserved'
    BY <1>1, <1>3, RootFrame DEF AllData, DataOK
  <1>6. /\ \A s, d \in Rank : msg'[s][d] = IF s = c /\ d = r THEN <<>> ELSE msg[s][d]
        /\ \A x \in Rank : reduce_outstanding[x] =>
             Heard(x)' = IF x = r THEN H ELSE Heard(x)
    BY GatherControl
  <1>7. GotData(r, got, H, reported)
    BY <1>3, CombinedData
  <1>8. \A x \in Rank : phase[x] # "sync" /\ phase[x] # "return"
    BY <1>1, NotInSync
  <1>9. c \in Rank \ {0} /\ getParentRank(c) = r
    BY ReplyFound
  <1>. HIDE DEF got, H
  <1>10. ASSUME NEW x \in Rank PROVE RankData(x, reported)'
    <2>1. RankData(x, reported)
      BY <1>3 DEF AllData
    <2>2. CASE x = r
      <3>1. local_valid'[r] = got.valid /\ reduce_buf'[r] = got.buf /\ local_total'[r] = got.total
        BY <1>1, <1>2 DEF VariablesOK
      <3>2. Covered(r)' = Part(r, H)
        BY <1>1, <1>6, CoveredParts
      <3>3. Combining(r)' => got.valid
        BY <1>1, <1>8, <3>1 DEF Combining
      <3>4. /\ Latest(Covered(r))' = Latest(Part(r, H))
            /\ ItemsOf(reported, Covered(r) \ {r})' = ItemsOf(reported, Part(r, H) \ {r})
            /\ Processed(Covered(r) \ {r})' = Processed(Part(r, H) \ {r})
        BY <1>1, <1>4, <3>2 DEF Latest, ItemsOf, Processed
      <3>. QED
        BY <1>1, <1>7, <1>8, <2>2, <3>1, <3>3, <3>4 DEF RankData, GotData
    <2>3. CASE x # r
      <3>1. /\ UNCHANGED <<reduce_buf[x], local_total[x]>>
            /\ local_valid'[x] = local_valid[x]
        BY <1>1, <1>2, <2>3 DEF VariablesOK
      <3>2. Combining(x)' => reduce_outstanding[x]
        BY <1>1, <1>8 DEF Combining
      <3>. QED
        BY <1>1, <1>6, <2>1, <2>3, <3>1, <3>2, RankFrame
    <2>. QED
      BY <2>2, <2>3
  <1>11. ASSUME NEW y \in Rank \ {0} PROVE ReplyData(y, reported)'
    <2>. DEFINE p == getParentRank(y)
    <2>1. ReplyData(y, reported)
      BY <1>3 DEF AllData
    <2>2. p \in Rank /\ y \in Rank
      BY <1>2, TreeEdges
    <2>3. CASE y = c
      <3>1. msg'[y][p] = <<>>
        BY <1>6, <1>9, <2>2, <2>3
      <3>2. Len(<<>>) # 2
        OBVIOUS
      <3>3. ~Replying(y)'
        BY <1>4, <3>1, <3>2 DEF Replying
      <3>. QED
        BY <3>3 DEF ReplyData
    <2>4. CASE y # c
      <3>1. msg'[y][p] = msg[y][p]
        BY <1>6, <2>2, <2>4
      <3>. QED
        BY <1>1, <2>1, <3>1, ReplyFrame
    <2>. QED
      BY <2>3, <2>4
  <1>. QED
    BY <1>4, <1>5, <1>10, <1>11 DEF DataOK, AllData

\* The total of a rank that has heard all its children, its own count added.
LEMMA OwnCount ==
  ASSUME ControlOK, NEW r \in Rank, NEW counts \in [Rank -> 0 .. Items]
  PROVE  /\ ItemsOf(counts, Below(r) \ {r}) \in Nat /\ ItemsOf(counts, Below(r)) \in Nat
         /\ ItemsOf(counts, Below(r)) = ItemsOf(counts, Below(r) \ {r}) + counts[r]
  <1>. DEFINE S == Below(r) \ {r}
              R == {r}
  <1>1. VariablesOK /\ S \cap R = {} /\ S \cup R = Below(r)
    BY BelowBasics DEF ControlOK
  <1>2. ItemsOf(counts, R) = counts[r]
    BY <1>1, ItemsCounted
  <1>. HIDE DEF S, R
  <1>3. /\ ItemsOf(counts, S) \in Nat /\ ItemsOf(counts, R) \in Nat
        /\ ItemsOf(counts, S \cup R) = ItemsOf(counts, S) + ItemsOf(counts, R)
    BY <1>1, ItemsUnion
  <1>4. ItemsOf(counts, Below(r)) = ItemsOf(counts, S) + counts[r]
    BY <1>1, <1>2, <1>3
  <1>5. ItemsOf(counts, Below(r)) \in Nat
    BY <1>1, <1>3
  <1>. QED
    BY <1>3, <1>4, <1>5 DEF S

\* A rank has all replies: what it passes on, or delivers, is complete.
LEMMA FinishData ==
  ASSUME ControlOK, DataOK, NEW r \in Rank, NEW done, NEW taken, NEW got,
         FinishStep(r, done, taken, got),
         \A reported : AllData(reported) =>
           GotData(r, got, Heard(r) \cup done, reported)
  PROVE  /\ DataOK'
         /\ result'.total >= result.total
         /\ result' # result => result'.buf = Latest(Rank)'
  <1>. /\ Gathers(r) /\ done \subseteq Replied(r)
       /\ \A s \in Rank : taken[s] = IF s \in done THEN Len(msg[s][r]) ELSE 0
       /\ got.valid \in BOOLEAN /\ got.total \in Nat
       /\ got.replies = reduce_replies[r] + Cardinality(done)
       /\ Complete(r, got, taken)
       /\ reduce_outstanding' = [reduce_outstanding EXCEPT ![r] = FALSE]
       /\ UNCHANGED <<jobVars, sync_i, rounds, inits>>
    BY DEF FinishStep
  <1>. DEFINE counts == local_objects_processed
              total == got.total + counts[r]
              reply == Answer(r, got)
  <1>1. /\ UNCHANGED <<nranks, maxChildren, local_objects_processed, unprocessed, phase>>
        /\ UNCHANGED <<sync_i, rounds, inits>>
        /\ local_valid' = [local_valid EXCEPT ![r] = got.valid]
        /\ reduce_buf' = [reduce_buf EXCEPT ![r] = got.buf]
        /\ local_total' = [local_total EXCEPT ![r] = total]
        /\ reduce_outstanding[r]
        /\ result' = IF r = 0 /\ got.valid
                     THEN [buf |-> got.buf, total |-> total] ELSE result
    BY DEF Complete, Keep, Gathers, jobVars, Delivers
  <1>2. /\ VariablesOK /\ counts \in [Rank -> 0 .. Items] /\ counts[r] \in Nat
        /\ result.total \in Nat
    BY DEF ControlOK, VariablesOK
  <1>3. PICK reported : AllData(reported)
    BY DEF DataOK
  <1>4. 0 \in Rank /\ Rank' = Rank /\ (\A x : getParentRank(x)' = getParentRank(x))
        /\ (\A x : Below(x)' = Below(x))
    BY <1>1, <1>2, TreeEdges, TreeFixed
  <1>5. /\ \A s, d \in Rank :
             msg'[s][d] = IF s = r /\ d = getParentRank(r) THEN reply
                          ELSE IF d = r /\ s \in done THEN <<>> ELSE msg[s][d]
        /\ Heard(r) \cup done = ChildrenRanks(r)
        /\ \A x \in Rank : reduce_outstanding'[x] =>
             x # r /\ reduce_outstanding[x] /\ Heard(x)' = Heard(x)
    BY FinishControl
  <1>6. /\ total \in Nat
        /\ Len(reply) = IF got.valid THEN 2 ELSE 1
        /\ got.valid => reply[1].total = total /\ reply[2].buf = got.buf
    BY AnswerForms
  <1>7. /\ IsABag(got.buf)
        /\ got.valid => /\ got.buf = Latest(Below(r))
                        /\ ItemsOf(reported, Below(r) \ {r}) <= got.total
                        /\ got.total <= Processed(Below(r) \ {r})
    <2>1. GotData(r, got, ChildrenRanks(r), reported)
      BY <1>3, <1>5
    <2>2. Part(r, ChildrenRanks(r)) = Below(r)
      BY <1>2, Parts
    <2>. QED
      BY <2>1, <2>2 DEF GotData
  <1>8. \A x \in Rank : phase[x] # "sync" /\ phase[x] # "return"
    BY <1>1, NotInSync
  <1>9. /\ reported \in [Rank -> 0 .. Items] /\ reported[r] \in Nat
        /\ reported[r] <= counts[r] /\ result.total <= ItemsOf(reported, Rank)
    BY <1>3 DEF AllData, RootData
  <1>. HIDE DEF reply
  <1>10. got.valid => /\ ItemsOf(reported, Below(r)) <= total
                      /\ total <= Processed(Below(r))
    <2>1. /\ ItemsOf(reported, Below(r) \ {r}) \in Nat /\ ItemsOf(reported, Below(r)) \in Nat
          /\ ItemsOf(reported, Below(r)) = ItemsOf(reported, Below(r) \ {r}) + reported[r]
      BY <1>9, OwnCount
    <2>2. /\ Processed(Below(r) \ {r}) \in Nat /\ Processed(Below(r)) \in Nat
          /\ Processed(Below(r)) = Processed(Below(r) \ {r}) + counts[r]
      BY <1>2, OwnCount DEF Processed
    <2>. QED
      BY <1>2, <1>7, <1>9, <2>1, <2>2
  <1>. HIDE DEF total
  <1>11. ItemsConserved'
    BY <1>1, <1>4 DEF DataOK, ItemsConserved, Processed, ItemsOf
  <1>12. ASSUME NEW x \in Rank, NEW next,
                reduce_outstanding'[x] => next = reported
         PROVE  RankData(x, next)'
    <2>1. RankData(x, reported)
      BY <1>3 DEF AllData
    <2>2. CASE x = r
      <3>1. ~reduce_outstanding'[r] /\ reduce_buf'[r] = got.buf
        BY <1>2 , <1>1 DEF VariablesOK
      <3>2. ~Combining(r)' /\ phase'[r] # "sync"
        BY <1>1, <1>8, <3>1 DEF Combining
      <3>. QED
        BY <1>7, <2>2, <3>1, <3>2 DEF RankData
    <2>3. CASE x # r
      <3>1. /\ UNCHANGED <<reduce_buf[x], local_total[x]>>
            /\ local_valid'[x] = local_valid[x]
        BY <1>1, <1>2, <2>3 DEF VariablesOK
      <3>2. Combining(x)' => reduce_outstanding'[x]
        BY <1>1, <1>8 DEF Combining
      <3>3. reduce_outstanding'[x] => reduce_outstanding[x] /\ Heard(x)' = Heard(x)
        BY <1>5
      <3>. QED
        BY <1>1, <1>12, <2>1, <3>1, <3>2, <3>3, RankFrame
    <2>. QED
      BY <2>2, <2>3
  <1>13. ASSUME NEW y \in Rank \ {0} PROVE ReplyData(y, reported)'
    <2>. DEFINE p == getParentRank(y)
    <2>1. ReplyData(y, reported)
      BY <1>3 DEF AllData
    <2>2. p \in Rank /\ y \in Rank /\ p < y /\ p \in Nat /\ y \in Nat
          /\ (\A c \in ChildrenRanks(r) : c \in Rank \ {0} /\ getParentRank(c) = r)
      BY <1>2, TreeEdges
    <2>3. done \subseteq ChildrenRanks(r)
      BY DEF Replied
    <2>4. CASE y = r
      <3>1. msg'[y][p] = reply
        BY <1>5, <2>2, <2>4
      <3>2. Replying(y)' => got.valid
        <4>1. msg'[y][getParentRank(y)'] = reply
          BY <1>4, <3>1
        <4>2. Len(reply) = 2 => got.valid
          <5>1. Len(reply) = IF got.valid THEN 2 ELSE 1
            BY <1>6
          <5>2. 1 # 2
            OBVIOUS
          <5>. QED
            BY <5>1, <5>2
        <4>. QED
          BY <4>1, <4>2 DEF Replying
      <3>3. got.valid =>
              /\ SentData(y, getParentRank(y))' = got.buf
              /\ Sender(y, getParentRank(y)).total' = total
        BY <1>4, <1>6, <3>1 DEF SentData, Sender
      <3>4. /\ Latest(Below(y))' = Latest(Below(y))
            /\ ItemsOf(reported, Below(y))' = ItemsOf(reported, Below(y))
            /\ Processed(Below(y))' = Processed(Below(y))
        BY <1>1, <1>4 DEF Latest, ItemsOf, Processed
      <3>5. phase'[y] # "return"
        BY <1>1, <1>8
      <3>. QED
        BY <1>7, <1>10, <2>4, <3>2, <3>3, <3>4, <3>5 DEF ReplyData
    <2>5. CASE y \in done
      <3>1. msg'[y][p] = <<>>
        <4>1. p = r /\ y # r
          BY <2>2, <2>3, <2>5
        <4>. QED
          BY <1>5, <2>2, <2>5, <4>1
      <3>2. Len(<<>>) # 2
        OBVIOUS
      <3>3. ~Replying(y)'
        BY <1>4, <3>1, <3>2 DEF Replying
      <3>. QED
        BY <3>3 DEF ReplyData
    <2>6. CASE y # r /\ y \notin done
      <3>1. msg'[y][p] = msg[y][p]
        BY <1>5, <2>2, <2>6
      <3>. QED
        BY <1>1, <2>1, <3>1, ReplyFrame
    <2>. QED
      BY <2>4, <2>5, <2>6
  <1>14. CASE ~(r = 0 /\ got.valid)
    <2>1. result' = result
      BY <1>1, <1>14
    <2>2. RootData(reported)'
      BY <1>1, <1>3, <1>4, <1>8, <2>1, RootFrame DEF AllData, DataOK
    <2>3. \A x \in Rank : RankData(x, reported)'
      BY <1>12
    <2>4. DataOK'
      BY <1>4, <1>11, <1>13, <2>2, <2>3 DEF DataOK, AllData
    <2>. QED
      BY <1>2, <2>1, <2>4
  <1>15. CASE r = 0 /\ got.valid
    <2>1. result' = [buf |-> got.buf, total |-> total]
      BY <1>1, <1>15
    <2>2. Below(r) = Rank
      BY <1>2, <1>15, BelowRoot
    <2>3. ItemsOf(reported, Rank) \in Nat /\ Processed(Rank) \in Nat
      BY <1>2, <1>9, ItemsCounted DEF Processed
    <2>4. result.total <= total /\ total <= Processed(Rank)
      BY <1>2, <1>6, <1>9, <1>10, <1>15, <2>2, <2>3
    <2>5. result'.buf = Latest(Rank)'
      <3>1. result'.buf = Latest(Rank)
        BY <1>7, <1>15, <2>1, <2>2
      <3>2. Latest(Rank)' = Latest(Rank)
        BY <1>1, <1>4 DEF Latest
      <3>. QED
        BY <3>1, <3>2
    <2>6. \A x \in Rank : ~reduce_outstanding'[x]
      <3>. SUFFICES ASSUME NEW x \in Rank, reduce_outstanding'[x] PROVE FALSE
        OBVIOUS
      <3>1. x # r /\ reduce_outstanding[x]
        BY <1>5
      <3>2. x \in Below(r) /\ x # r
        BY <2>2, <3>1
      <3>3. PICK c \in ChildrenRanks(r) : x \in Below(c)
        BY <1>2, <3>2, BelowChildren
      <3>4. c \in Rank /\ ~reduce_outstanding[c]
        <4>1. c \in Heard(r) \/ c \in Replied(r)
          BY <1>5
        <4>2. c \in Heard(r) => ~reduce_outstanding[c]
          BY <1>1, HeardQuiet
        <4>3. c \in Replied(r) => ~reduce_outstanding[c]
          BY ReplyFound
        <4>. QED
          BY <1>2, <4>1, <4>2, <4>3, TreeEdges
      <3>. QED
        BY <3>1, <3>3, <3>4, BelowQuiet
    <2>7. ASSUME NEW y \in Rank \ {0} PROVE ~Replying(y)'
      <3>. DEFINE p == getParentRank(y)
      <3>1. p \in Rank /\ y \in Rank /\ y # r /\ y \in ChildrenRanks(p)
        BY <1>2, <1>15, TreeEdges
      <3>2. CASE y \in done
        <4>1. p = r
          BY <1>2, <3>1, <3>2, TreeEdges DEF Replied
        <4>2. msg'[y][p] = <<>>
          BY <1>5, <3>1, <3>2, <4>1
        <4>3. Len(<<>>) # 2
          OBVIOUS
        <4>. QED
          BY <1>4, <4>2, <4>3 DEF Replying
      <3>3. CASE y \notin done
        <4>1. msg'[y][p] = msg[y][p]
          BY <1>5, <3>1, <3>3
        <4>. SUFFICES ASSUME Replying(y) PROVE FALSE
          BY <1>4, <4>1 DEF Replying
        <4>2. reduce_outstanding[p] /\ msg[y][p] # <<>>
          BY <1>8, <3>1, ReplyingCases, ReplyForms
        <4>3. p = r
          BY <1>2, <2>6, <3>1, <4>2 DEF VariablesOK
        <4>4. y \in Heard(r)
          BY <1>5, <3>1, <3>3, <4>3
        <4>. QED
          BY <1>1, <4>2, <4>3, <4>4, HeardQuiet
      <3>. QED
        BY <3>2, <3>3
    <2>8. PICK next : next = counts
      OBVIOUS
    <2>9. \A x \in Rank : RankData(x, next)'
      BY <1>12, <2>6
    <2>10. \A y \in Rank \ {0} : ReplyData(y, next)'
      BY <2>7 DEF ReplyData
    <2>11. RootData(next)'
      <3>1. \A q \in Rank : next[q] <= counts[q]
        <4>1. \A q \in Rank : counts[q] \in Nat
          BY <1>2
        <4>. QED
          BY <2>8, <4>1
      <3>2. ItemsOf(next, Rank)' = Processed(Rank)
        BY <1>4, <2>8 DEF ItemsOf, Processed
      <3>3. result'.total = total /\ phase'[0] # "return"
        BY <1>1, <1>4, <1>8, <2>1
      <3>. QED
        BY <1>1, <1>2, <1>4, <2>4, <2>8, <3>1, <3>2, <3>3 DEF RootData, FinalResult
    <2>12. DataOK'
      BY <1>4, <1>11, <2>9, <2>10, <2>11 DEF DataOK, AllData
    <2>13. result'.total >= result.total
      BY <1>2, <1>6, <2>1, <2>4
    <2>. QED
      BY <2>5, <2>12, <2>13
  <1>. QED
    BY <1>14, <1>15

\* The ranks whose contributions reduceSync has combined, and those below a
\* rank whose result is on its way, have returned.
LEMMA SyncSettled ==
  ASSUME ControlOK, \A x \in Rank : ~reduce_outstanding[x]
  PROVE  /\ \A x \in Rank : Combining(x) =>
              \A q \in Covered(x) \ {x} : q \in Rank /\ phase[q] = "return"
         /\ \A c \in Rank \ {0} : Replying(c) =>
              phase[c] = "return" /\ \A q \in Below(c) : q \in Rank /\ phase[q] = "return"
  <1>1. VariablesOK
    BY DEF ControlOK
  <1>2. ASSUME NEW x \in Rank, Combining(x), NEW q \in Covered(x), q # x
        PROVE  q \in Rank /\ phase[q] = "return"
    <2>1. phase[x] = "sync"
      BY <1>2 DEF Combining
    <2>2. PICK c \in Heard(x) : q \in Below(c)
      BY <1>2 DEF Covered
    <2>3. c \in Rank /\ phase[c] = "return"
      BY <2>1, HeardReturned
    <2>. QED
      BY <1>1, <2>2, <2>3, BelowReturned, BelowBasics
  <1>3. ASSUME NEW c \in Rank \ {0}, Replying(c)
        PROVE  phase[c] = "return" /\ \A q \in Below(c) : q \in Rank /\ phase[q] = "return"
    <2>1. phase[c] = "return"
      BY <1>3, ReplyingCases
    <2>2. c \in Rank
      OBVIOUS
    <2>. QED
      BY <1>1, <2>1, <2>2, BelowReturned, BelowBasics
  <1>. QED
    BY <1>2, <1>3

LEMMA SyncStartData ==
  ASSUME ControlOK, DataOK, NEW r \in Rank, SyncStart(r)
  PROVE  DataOK'
  <1>. DEFINE counts == local_objects_processed
  <1>1. /\ phase[r] = "cleanup"
        /\ phase' = [phase EXCEPT ![r] = "sync"]
        /\ local_valid' = [local_valid EXCEPT ![r] = TRUE]
        /\ local_total' = [local_total EXCEPT ![r] = counts[r]]
        /\ inits' = [inits EXCEPT ![r] = @ + 1]
        /\ reduce_buf' = [reduce_buf EXCEPT ![r] = Contribution(r, inits[r] + 1)]
        /\ UNCHANGED <<nranks, maxChildren, local_objects_processed, unprocessed>>
        /\ UNCHANGED <<reduce_outstanding, sync_i, msg, rounds, result>>
    BY DEF SyncStart, SyncCount
  <1>2. VariablesOK /\ CountersOK /\ counts \in [Rank -> 0 .. Items]
    BY DEF ControlOK, VariablesOK
  <1>3. PICK reported : AllData(reported)
    BY DEF DataOK
  <1>4. 0 \in Rank /\ Rank' = Rank
    BY <1>1, <1>2, TreeEdges, TreeFixed
  <1>5. /\ Heard(r)' = {} /\ \A x \in Rank : ~reduce_outstanding[x]
        /\ \A x \in Rank \ {r} : Heard(x)' = Heard(x)
    BY SyncStartControl
  <1>6. \A x \in Rank : phase'[x] = IF x = r THEN "sync" ELSE phase[x]
    BY <1>1, <1>2 DEF CountersOK
  <1>7. \A q \in Rank : q # r => inits'[q] = inits[q]
    BY <1>1, <1>2 DEF VariablesOK
  <1>8. /\ \A x \in Rank : Combining(x) =>
             \A q \in Covered(x) \ {x} : q \in Rank /\ phase[q] = "return"
        /\ \A c \in Rank \ {0} : Replying(c) =>
             phase[c] = "return" /\ \A q \in Below(c) : q \in Rank /\ phase[q] = "return"
    BY <1>5, SyncSettled
  <1>9. RootData(reported)' /\ ItemsConserved'
    BY <1>1, <1>3, <1>4, <1>6, RootFrame DEF AllData, DataOK
  <1>10. ASSUME NEW x \in Rank PROVE RankData(x, reported)'
    <2>1. RankData(x, reported)
      BY <1>3 DEF AllData
    <2>2. CASE x = r
      <3>1. /\ local_total'[r] = counts[r]
            /\ reduce_buf'[r] = Contribution(r, inits[r] + 1)
            /\ ~reduce_outstanding'[r]
        BY <1>1, <1>2, <1>5 DEF VariablesOK
      <3>2. Covered(r)' = {r}
        <4>1. Covered(r)' = Part(r, {})
          BY <1>1, <1>5, CoveredParts
        <4>2. {} \subseteq ChildrenRanks(r)
          OBVIOUS
        <4>. QED
          BY <1>2, <4>1, <4>2, Parts
      <3>3. reduce_buf'[r] = Latest({r})'
        BY <1>1, <1>2, <3>1, NewContribution DEF VariablesOK
      <3>4. IsABag(reduce_buf'[r])
        <4>1. IsABag(Latest({r})')
          BY DEF Latest, IsABag, SetToBag
        <4>. QED
          BY <3>3, <4>1
      <3>5. reduce_buf'[r] = Latest(Covered(r))'
        BY <3>2, <3>3 DEF Latest
      <3>6. local_total'[r] = Processed(Covered(r))'
        <4>1. Processed({r}) = counts[r]
          BY <1>2, ItemsCounted DEF Processed
        <4>2. Processed(Covered(r))' = Processed({r})
          BY <1>1, <1>4, <3>2 DEF Processed, ItemsOf
        <4>. QED
          BY <3>1, <4>1, <4>2
      <3>. QED
        BY <2>2, <3>1, <3>4, <3>5, <3>6 DEF RankData
    <2>3. CASE x # r
      <3>1. /\ UNCHANGED <<reduce_buf[x], local_total[x]>>
            /\ ~reduce_outstanding'[x] /\ phase'[x] = phase[x]
        BY <1>1, <1>2, <1>5, <1>6, <2>3 DEF VariablesOK
      <3>2. Combining(x)' => Combining(x)
        BY <3>1 DEF Combining
      <3>3. Combining(x)' => /\ Heard(x)' = Heard(x)
                             /\ \A q \in Covered(x) : inits'[q] = inits[q]
        <4>. SUFFICES ASSUME Combining(x)', NEW q \in Covered(x)
                      PROVE  inits'[q] = inits[q]
          BY <1>5, <2>3
        <4>1. q = x \/ (q \in Rank /\ phase[q] = "return")
          BY <1>8, <3>2
        <4>. QED
          BY <1>1, <1>7, <2>3, <4>1
      <3>. QED
        BY <1>1, <2>1, <3>1, <3>3, RankFrame
    <2>. QED
      BY <2>2, <2>3
  <1>11. ASSUME NEW c \in Rank \ {0} PROVE ReplyData(c, reported)'
    <2>1. ReplyData(c, reported)
      BY <1>3 DEF AllData
    <2>2. ASSUME Replying(c), NEW q \in Below(c) PROVE inits'[q] = inits[q]
      <3>1. q \in Rank /\ phase[q] = "return"
        BY <1>8, <2>2
      <3>2. q # r
        BY <1>1, <3>1
      <3>. QED
        BY <1>7, <3>1, <3>2
    <2>3. phase'[c] = "return" => phase[c] = "return"
      BY <1>6
    <2>. QED
      BY <1>1, <2>1, <2>2, <2>3, ReplyFrame
  <1>. QED
    BY <1>4, <1>9, <1>10, <1>11 DEF DataOK, AllData

LEMMA ReceiveData ==
  ASSUME ControlOK, DataOK, NEW r \in Rank, SyncReceive(r)
  PROVE  DataOK'
  <1>. DEFINE c == NextChild(r)
              H == Heard(r)
              data == SentData(c, r)
              more == Sender(c, r).total
  <1>1. /\ phase[r] = "sync"
        /\ c \in ChildrenRanks(r) /\ c \in Rank \ {0} /\ getParentRank(c) = r
        /\ ValidReply(msg[c][r]) /\ phase[c] = "return"
        /\ local_total' = [local_total EXCEPT ![r] = local_total[r] + more]
        /\ reduce_buf' = [reduce_buf EXCEPT ![r] = reduce_buf[r] (+) data]
        /\ \A s, d \in Rank : msg'[s][d] = IF s = c /\ d = r THEN <<>> ELSE msg[s][d]
        /\ UNCHANGED <<nranks, maxChildren, local_objects_processed, unprocessed, phase>>
        /\ UNCHANGED <<reduce_outstanding, local_valid, rounds, inits, result>>
    BY ReceiveForms DEF jobVars
  <1>2. VariablesOK /\ local_objects_processed \in [Rank -> 0 .. Items]
    BY DEF ControlOK, VariablesOK
  <1>3. PICK reported : AllData(reported)
    BY DEF DataOK
  <1>4. 0 \in Rank /\ Rank' = Rank /\ \A x : getParentRank(x)' = getParentRank(x)
    BY <1>1, <1>2, TreeEdges, TreeFixed
  <1>5. /\ \A x \in Rank : ~reduce_outstanding[x]
        /\ c \notin H
        /\ \A x \in Rank : Heard(x)' = IF x = r THEN H \cup {c} ELSE Heard(x)
    BY ReceiveControl
  <1>6. RootData(reported)' /\ ItemsConserved'
    BY <1>1, <1>3, RootFrame DEF AllData, DataOK
  <1>7. /\ data = Latest(Below(c)) /\ more = Processed(Below(c))
    <2>1. ReplyData(c, reported)
      BY <1>1, <1>3 DEF AllData
    <2>2. Replying(c)
      BY <1>1, ReplyForms DEF Replying
    <2>. QED
      BY <1>1, <2>1, <2>2 DEF ReplyData
  <1>8. /\ reduce_buf[r] = Latest(Part(r, H)) /\ local_total[r] = Processed(Part(r, H))
    <2>1. RankData(r, reported)
      BY <1>3 DEF AllData
    <2>2. Covered(r) = Part(r, H)
      BY DEF Covered, Part
    <2>. QED
      BY <1>1, <2>1, <2>2 DEF RankData, Combining
  <1>9. /\ Part(r, H \cup {c}) = Part(r, H) \cup Below(c)
        /\ Part(r, H) \cap Below(c) = {}
    <2>1. c \in ChildrenRanks(r) \ H /\ H \subseteq ChildrenRanks(r)
      BY <1>1, <1>5 DEF Heard
    <2>. HIDE DEF H, c
    <2>. QED
      BY <1>2, <2>1, Parts DEF H
  <1>. HIDE DEF c, H, data, more
  <1>10. /\ reduce_buf[r] (+) data = Latest(Part(r, H \cup {c}))
         /\ local_total[r] + more = Processed(Part(r, H \cup {c}))
    <2>1. reduce_buf[r] (+) data = Latest(Part(r, H \cup {c}))
      BY <1>7, <1>8, <1>9, LatestUnion
    <2>2. Processed(Part(r, H) \cup Below(c)) = Processed(Part(r, H)) + Processed(Below(c))
      BY <1>2, <1>9, ItemsUnion DEF Processed
    <2>. QED
      BY <1>7, <1>8, <1>9, <2>1, <2>2
  <1>11. ASSUME NEW x \in Rank PROVE RankData(x, reported)'
    <2>1. RankData(x, reported)
      BY <1>3 DEF AllData
    <2>2. CASE x = r
      <3>1. /\ local_total'[r] = local_total[r] + more
            /\ reduce_buf'[r] = reduce_buf[r] (+) data
            /\ ~reduce_outstanding'[r]
        BY <1>1, <1>2, <1>5 DEF VariablesOK
      <3>2. Covered(r)' = Part(r, H \cup {c})
        BY <1>1, <1>5, CoveredParts
      <3>3. /\ Latest(Covered(r))' = Latest(Part(r, H \cup {c}))
            /\ Processed(Covered(r))' = Processed(Part(r, H \cup {c}))
        BY <1>1, <1>4, <3>2 DEF Latest, Processed, ItemsOf
      <3>4. IsABag(reduce_buf'[r])
        BY <1>10, <3>1, LatestIsABag
      <3>. QED
        BY <1>10, <2>2, <3>1, <3>3, <3>4 DEF RankData
    <2>3. CASE x # r
      <3>1. UNCHANGED <<reduce_buf[x], local_total[x]>>
        BY <1>1, <1>2, <2>3 DEF VariablesOK
      <3>. QED
        BY <1>1, <1>5, <2>1, <2>3, <3>1, RankFrame
    <2>. QED
      BY <2>2, <2>3
  <1>12. ASSUME NEW y \in Rank \ {0} PROVE ReplyData(y, reported)'
    <2>. DEFINE p == getParentRank(y)
    <2>1. ReplyData(y, reported)
      BY <1>3 DEF AllData
    <2>2. p \in Rank /\ y \in Rank
      BY <1>2, TreeEdges
    <2>3. CASE y = c
      <3>1. msg'[y][p] = <<>>
        BY <1>1, <2>2, <2>3
      <3>2. Len(<<>>) # 2
        OBVIOUS
      <3>3. ~Replying(y)'
        BY <1>4, <3>1, <3>2 DEF Replying
      <3>. QED
        BY <3>3 DEF ReplyData
    <2>4. CASE y # c
      <3>1. msg'[y][p] = msg[y][p]
        BY <1>1, <2>2, <2>4
      <3>. QED
        BY <1>1, <2>1, <3>1, ReplyFrame
    <2>. QED
      BY <2>3, <2>4
  <1>. QED
    BY <1>4, <1>6, <1>11, <1>12 DEF DataOK, AllData

\* A rank passes its result of reduceSync on, or rank 0 delivers it.
LEMMA SyncFinishData ==
  ASSUME ControlOK, DataOK, NEW r \in Rank, SyncFinish(r)
  PROVE  /\ DataOK'
         /\ result'.total >= result.total
         /\ result' # result => result'.buf = Latest(Rank)'
  <1>. DEFINE counts == local_objects_processed
              total == local_total[r]
              buf == reduce_buf[r]
  <1>1. /\ phase[r] = "sync"
        /\ phase' = [phase EXCEPT ![r] = "return"]
        /\ result' = IF r = 0 THEN [buf |-> buf, total |-> total] ELSE result
        /\ UNCHANGED <<nranks, maxChildren, local_objects_processed>>
        /\ UNCHANGED <<nranks, maxChildren, unprocessed, local_objects_processed,
                       reduce_outstanding, local_valid, local_total, reduce_buf,
                       sync_i, rounds, inits>>
    BY DEF SyncFinish
  <1>2. /\ VariablesOK /\ CountersOK /\ counts \in [Rank -> 0 .. Items]
        /\ result.total \in Nat /\ total \in Nat /\ Items \in Nat
    BY ReductionAssumption DEF ControlOK, VariablesOK
  <1>3. PICK reported : AllData(reported)
    BY DEF DataOK
  <1>4. 0 \in Rank /\ Rank' = Rank /\ (\A x : getParentRank(x)' = getParentRank(x))
        /\ (\A x : Below(x)' = Below(x))
    BY <1>1, <1>2, TreeEdges, TreeFixed
  <1>5. /\ \A x \in Rank : ~reduce_outstanding[x]
        /\ Heard(r) = ChildrenRanks(r)
        /\ \A x \in Rank : phase[x] = "sync" => Heard(x)' = Heard(x)
        /\ \A s, d \in Rank :
             msg'[s][d] = IF s = r /\ d = getParentRank(r) THEN SyncReply(r)
                          ELSE msg[s][d]
    BY SyncFinishControl
  <1>6. \A x \in Rank : phase'[x] = IF x = r THEN "return" ELSE phase[x]
    BY <1>1, <1>2 DEF CountersOK
  <1>7. \A c \in Rank \ {0} : Replying(c) => phase[c] = "return"
    BY <1>5, SyncSettled
  <1>8. buf = Latest(Below(r)) /\ total = Processed(Below(r))
    <2>1. RankData(r, reported)
      BY <1>3 DEF AllData
    <2>2. Covered(r) = Below(r)
      <3>1. Part(r, ChildrenRanks(r)) = Below(r)
        BY <1>2, Parts
      <3>. QED
        BY <1>5, <3>1 DEF Covered, Part
    <2>. QED
      BY <1>1, <2>1, <2>2 DEF RankData, Combining
  <1>9. SyncReply(r)[1].total = total /\ SyncReply(r)[2].buf = buf
    BY <1>2, MakeReply DEF SyncReply
  <1>. HIDE DEF total, buf
  <1>10. ItemsConserved'
    BY <1>1, <1>4 DEF DataOK, ItemsConserved, Processed, ItemsOf
  <1>11. ASSUME NEW x \in Rank, NEW next PROVE RankData(x, next)'
    <2>1. RankData(x, reported) /\ reduce_buf'[x] = reduce_buf[x]
      BY <1>1, <1>3 DEF AllData
    <2>2. CASE x = r
      <3>1. ~Combining(r)' /\ ~reduce_outstanding'[r] /\ phase'[r] # "sync"
        BY <1>1, <1>5, <1>6 DEF Combining
      <3>. QED
        BY <2>1, <2>2, <3>1 DEF RankData
    <2>3. CASE x # r
      <3>1. ~reduce_outstanding'[x] /\ phase'[x] = phase[x]
        BY <1>1, <1>5, <1>6, <2>3
      <3>2. Combining(x)' => phase[x] = "sync"
        BY <3>1 DEF Combining
      <3>. QED
        BY <1>1, <1>5, <2>1, <3>1, <3>2, RankFrame
    <2>. QED
      BY <2>2, <2>3
  <1>12. /\ reported \in [Rank -> 0 .. Items]
         /\ \A q \in Rank : reported[q] <= counts[q]
         /\ result.total <= ItemsOf(reported, Rank)
    BY <1>3 DEF AllData, RootData
  <1>13. \A S : /\ ItemsOf(reported, S) \in Nat /\ Processed(S) \in Nat
                /\ ItemsOf(reported, S) <= Processed(S)
    BY <1>2, <1>12, ItemsMore DEF Processed
  <1>14. ASSUME NEW y \in Rank \ {0} PROVE ReplyData(y, reported)'
    <2>. DEFINE p == getParentRank(y)
    <2>1. ReplyData(y, reported)
      BY <1>3 DEF AllData
    <2>2. p \in Rank /\ y \in Rank
      BY <1>2, TreeEdges
    <2>3. CASE y = r
      <3>1. msg'[y][p] = SyncReply(r) /\ getParentRank(y)' = p /\ Below(y)' = Below(r)
        BY <1>4, <1>5, <2>2, <2>3
      <3>2. /\ SentData(y, getParentRank(y))' = buf
            /\ Sender(y, getParentRank(y)).total' = total
        BY <1>9, <3>1 DEF SentData, Sender
      <3>3. /\ Latest(Below(y))' = Latest(Below(r))
            /\ ItemsOf(reported, Below(y))' = ItemsOf(reported, Below(r))
            /\ Processed(Below(y))' = Processed(Below(r))
        BY <1>1, <1>4, <3>1 DEF Latest, ItemsOf, Processed
      <3>4. Processed(Below(r)) <= Processed(Below(r))
        BY <1>13
      <3>. QED
        BY <1>8, <1>13, <3>2, <3>3, <3>4 DEF ReplyData
    <2>4. CASE y # r
      <3>1. msg'[y][p] = msg[y][p] /\ phase'[y] = phase[y]
        BY <1>5, <1>6, <2>2, <2>4
      <3>. QED
        BY <1>1, <2>1, <3>1, ReplyFrame
    <2>. QED
      BY <2>3, <2>4
  <1>15. CASE r # 0
    <2>1. result' = result
      BY <1>1, <1>15
    <2>2. phase'[0] = phase[0]
      BY <1>4, <1>6, <1>15
    <2>3. RootData(reported)'
      BY <1>1, <1>3, <2>1, <2>2, RootFrame DEF AllData, DataOK
    <2>4. \A x \in Rank : RankData(x, reported)'
      BY <1>11
    <2>5. DataOK'
      BY <1>4, <1>10, <1>14, <2>3, <2>4 DEF DataOK, AllData
    <2>. QED
      BY <1>2, <2>1, <2>5
  <1>16. CASE r = 0
    <2>1. result' = [buf |-> buf, total |-> total]
      BY <1>1, <1>16
    <2>2. Below(r) = Rank
      BY <1>2, <1>16, BelowRoot
    <2>3. total = (Processed(Rank))'
      BY <1>1, <1>4, <1>8, <2>2 DEF Processed, ItemsOf
    <2>4. result.total <= total
      BY <1>2, <1>8, <1>12, <1>13, <2>2
    <2>5. result'.buf = Latest(Rank)'
      <3>1. result'.buf = Latest(Rank)
        BY <1>8, <2>1, <2>2
      <3>2. Latest(Rank)' = Latest(Rank)
        BY <1>1, <1>4 DEF Latest
      <3>. QED
        BY <3>1, <3>2
    <2>6. PICK next : next = counts
      OBVIOUS
    <2>7. \A x \in Rank : RankData(x, next)'
      BY <1>11
    <2>8. ASSUME NEW y \in Rank \ {0} PROVE ReplyData(y, next)'
      <3>1. ReplyData(y, reported)'
        BY <1>14
      <3>2. Replying(y)' => phase'[y] = "return"
        <4>1. y \in Rank /\ y # r /\ getParentRank(y) \in Rank
          BY <1>2, <1>16, TreeEdges
        <4>2. msg'[y][getParentRank(y)] = msg[y][getParentRank(y)] /\ phase'[y] = phase[y]
          BY <1>5, <1>6, <4>1
        <4>3. Replying(y)' => Replying(y)
          BY <1>4, <4>2 DEF Replying
        <4>. QED
          BY <1>7, <4>2, <4>3
      <3>3. ItemsOf(next, Below(y))' = Processed(Below(y))'
        BY <1>1, <2>6 DEF Processed, ItemsOf
      <3>4. Processed(Below(y))' <= Processed(Below(y))'
        <4>1. Processed(Below(y))' = Processed(Below(y))
          BY <1>1, <1>4 DEF Processed, ItemsOf
        <4>. QED
          BY <1>13, <4>1
      <3>. QED
        BY <3>1, <3>2, <3>3, <3>4 DEF ReplyData
    <2>9. RootData(next)'
      <3>1. \A q \in Rank : next[q] <= counts[q]
        <4>1. \A q \in Rank : counts[q] \in Nat
          BY <1>2
        <4>. QED
          BY <2>6, <4>1
      <3>2. ItemsOf(next, Rank)' = Processed(Rank)
        BY <1>4, <2>6 DEF ItemsOf, Processed
      <3>3. result'.total = total /\ total <= Processed(Rank)
        BY <1>8, <1>13, <2>1, <2>2
      <3>. QED
        BY <1>1, <1>2, <1>4, <2>3, <2>6, <3>1, <3>2, <3>3 DEF RootData, FinalResult
    <2>10. DataOK'
      BY <1>4, <1>10, <2>7, <2>8, <2>9 DEF DataOK, AllData
    <2>11. result'.total >= result.total
      BY <1>2, <2>1, <2>4
    <2>. QED
      BY <2>5, <2>10, <2>11
  <1>. QED
    BY <1>15, <1>16

-----------------------------------------------------------------------------
(* The invariant *)

LEMMA InitControl == Init => ControlOK
  <1>. SUFFICES ASSUME Init PROVE ControlOK
    OBVIOUS
  <1>1. MaxRanks \in Nat /\ MaxWidth \in Nat /\ Items \in Nat
    BY ReductionAssumption
  <1>2. VariablesOK
    BY <1>1 DEF Init, VariablesOK
  <1>3. \A r \in Rank : getChildrenCount(r) \in Nat
    BY <1>2, TreeEdges
  <1>4. CountersOK
    BY <1>1, <1>3 DEF Init, CountersOK, Phase
  <1>5. PhasesOK
    BY DEF Init, PhasesOK
  <1>6. ASSUME NEW c \in Rank \ {0} PROVE ReduceEdge(c)
    <2>. DEFINE p == getParentRank(c)
    <2>1. /\ p \in Rank /\ left(p) \in Nat /\ c \in left(p) .. left(p) + getChildrenCount(p) - 1
          /\ getChildrenCount(p) \in Nat /\ c \in Rank
      BY <1>2, TreeEdges
    <2>2. /\ msg[p][c] = <<>> /\ msg[c][p] = <<>> /\ ~reduce_outstanding[c]
          /\ phase[c] = "main" /\ sync_i[p] = 0
      BY <2>1 DEF Init
    <2>3. ~SyncTaken(c)
      BY <2>1, <2>2 DEF SyncTaken
    <2>. QED
      BY <2>2, <2>3 DEF ReduceEdge
  <1>7. ReduceEdges
    BY <1>6 DEF Init, ReduceEdges
  <1>8. RepliesCounted
    BY DEF Init, RepliesCounted
  <1>. QED
    BY <1>2, <1>4, <1>5, <1>7, <1>8 DEF ControlOK

LEMMA InitData == Init => DataOK
  <1>. SUFFICES ASSUME Init PROVE DataOK
    OBVIOUS
  <1>1. /\ VariablesOK /\ Items \in Nat /\ 0 \in Rank
    BY InitControl, ReductionAssumption, TreeEdges DEF ControlOK
  <1>2. PICK reported : reported = [r \in Rank |-> 0]
    OBVIOUS
  <1>3. /\ reported \in [Rank -> 0 .. Items] /\ local_objects_processed = reported
    BY <1>1, <1>2 DEF Init
  <1>4. ItemsOf(reported, Rank) = 0
    <2>1. {qk \in Rank \X (1 .. Items) : qk[1] \in Rank /\ qk[2] <= reported[qk[1]]} = {}
      <3>. SUFFICES ASSUME NEW q \in Rank, NEW k \in 1 .. Items, k <= reported[q]
                    PROVE  FALSE
        OBVIOUS
      <3>1. reported[q] = 0
        BY <1>2
      <3>. QED
        BY <1>1, <3>1
    <2>. QED
      BY <2>1, FS_EmptySet DEF ItemsOf
  <1>5. ItemsConserved
    BY <1>1, <1>3, <1>4 DEF Init, ItemsConserved, Processed
  <1>6. RootData(reported)
    <2>1. \A q \in Rank : reported[q] <= local_objects_processed[q]
      BY <1>1, <1>2, <1>3
    <2>2. result.total = 0 /\ phase[0] = "main"
      BY <1>1 DEF Init
    <2>. QED
      BY <1>3, <1>4, <2>1, <2>2 DEF RootData, FinalResult
  <1>7. ASSUME NEW x \in Rank PROVE RankData(x, reported)
    <2>1. reduce_buf[x] = EmptyBag /\ ~reduce_outstanding[x] /\ phase[x] = "main"
      BY DEF Init
    <2>2. IsABag(EmptyBag)
      BY DEF IsABag, EmptyBag, SetToBag
    <2>. QED
      BY <2>1, <2>2 DEF RankData, Combining
  <1>8. ASSUME NEW c \in Rank \ {0} PROVE ReplyData(c, reported)
    <2>1. msg[c][getParentRank(c)] = <<>>
      BY <1>1, TreeEdges DEF Init
    <2>2. Len(<<>>) # 2
      OBVIOUS
    <2>. QED
      BY <2>1, <2>2 DEF ReplyData, Replying
  <1>. QED
    BY <1>5, <1>6, <1>7, <1>8 DEF DataOK, AllData

\* ReduceGather and ReduceFinish are the steps of the lemmas about them.
LEMMA GatherStep ==
  ASSUME ControlOK, DataOK, NEW r \in Rank, ReduceGather(r)
  PROVE  ControlOK' /\ DataOK' /\ result' = result
  <1>1. /\ Gathers(r)
        /\ UNCHANGED <<jobVars, reduce_outstanding, sync_i, rounds, inits, result>>
    BY DEF ReduceGather
  <1>2. PICK c \in Replied(r) :
          /\ Combined(r, c).replies # getChildrenCount(r)
          /\ Keep(r, Combined(r, c))
          /\ local_total' = [local_total EXCEPT ![r] = Combined(r, c).total]
          /\ Exchange(r, Taken(r, c), Silent)
    BY DEF ReduceGather
  <1>3. ControlOK'
    BY <1>1, <1>2, GatherControl
  <1>4. DataOK'
    BY <1>1, <1>2, GatherData
  <1>. QED
    BY <1>1, <1>3, <1>4

LEMMA FinishAll ==
  ASSUME ControlOK, DataOK, NEW r \in Rank, ReduceFinish(r)
  PROVE  /\ ControlOK' /\ DataOK'
         /\ result'.total >= result.total
         /\ result' # result => result'.buf = Latest(Rank)'
  <1>1. /\ Gathers(r)
        /\ reduce_outstanding' = [reduce_outstanding EXCEPT ![r] = FALSE]
        /\ UNCHANGED <<jobVars, sync_i, rounds, inits>>
        /\ \/ Complete(r, Gathered(r), None)
           \/ \E c \in Replied(r) : Complete(r, Combined(r, c), Taken(r, c))
    BY FinishForms
  <1>2. /\ local_valid[r] \in BOOLEAN /\ local_total[r] \in Nat
        /\ reduce_replies[r] \in Nat
    BY DEF ControlOK, VariablesOK, CountersOK
  <1>3. CASE Complete(r, Gathered(r), None)
    <2>1. /\ Gathered(r).valid \in BOOLEAN /\ Gathered(r).total \in Nat
          /\ Gathered(r).replies = reduce_replies[r] + Cardinality({})
      BY <1>2, FS_EmptySet DEF Gathered
    <2>2. \A s \in Rank : None[s] = IF s \in {} THEN Len(msg[s][r]) ELSE 0
      BY DEF None
    <2>3. FinishStep(r, {}, None, Gathered(r))
      BY <1>1, <1>3, <2>1, <2>2 DEF FinishStep
    <2>4. \A reported : AllData(reported) =>
            GotData(r, Gathered(r), Heard(r) \cup {}, reported)
      <3>1. Heard(r) \cup {} = Heard(r)
        OBVIOUS
      <3>. QED
        BY <1>1, <3>1, GatheredData
    <2>5. ControlOK'
      BY <2>3, FinishControl
    <2>. QED
      BY <2>3, <2>4, <2>5, FinishData
  <1>4. ASSUME NEW c \in Replied(r), Complete(r, Combined(r, c), Taken(r, c))
        PROVE  /\ ControlOK' /\ DataOK'
               /\ result'.total >= result.total
               /\ result' # result => result'.buf = Latest(Rank)'
    <2>1. /\ Combined(r, c).valid \in BOOLEAN /\ Combined(r, c).total \in Nat
          /\ Combined(r, c).replies = reduce_replies[r] + Cardinality({c})
          /\ \A s \in Rank : Taken(r, c)[s] = IF s = c THEN Len(msg[c][r]) ELSE 0
      <3>1. /\ Combined(r, c).valid \in BOOLEAN /\ Combined(r, c).total \in Nat
            /\ Combined(r, c).replies = reduce_replies[r] + 1
        BY <1>1, ReplyFound
      <3>2. \A s \in Rank : Taken(r, c)[s] = IF s = c THEN Len(msg[c][r]) ELSE 0
        BY <1>1, ReplyFound
      <3>3. Cardinality({c}) = 1
        BY FS_Singleton
      <3>. QED
        BY <3>1, <3>2, <3>3
    <2>2. \A s \in Rank : Taken(r, c)[s] = IF s \in {c} THEN Len(msg[s][r]) ELSE 0
      BY <2>1
    <2>3. {c} \subseteq Replied(r)
      OBVIOUS
    <2>4. FinishStep(r, {c}, Taken(r, c), Combined(r, c))
      BY <1>1, <1>4, <2>1, <2>2, <2>3 DEF FinishStep
    <2>5. \A reported : AllData(reported) =>
            GotData(r, Combined(r, c), Heard(r) \cup {c}, reported)
      BY <1>1, CombinedData
    <2>6. ControlOK'
      BY <2>4, FinishControl
    <2>. QED
      BY <2>4, <2>5, <2>6, FinishData
  <1>. QED
    BY <1>1, <1>3, <1>4

\* Every step keeps the invariant, and what rank 0 delivers is as it should be.
LEMMA StepKeeps ==
  ASSUME ControlOK, DataOK, [Next]_vars
  PROVE  /\ ControlOK' /\ DataOK'
         /\ result'.total >= result.total
         /\ result' # result => result'.buf = Latest(Rank)'
         /\ Rank' = Rank
  <1>1. result.total \in Nat
    BY DEF ControlOK, VariablesOK
  <1>2. ASSUME NEW r \in Rank, Step(r)
        PROVE  /\ ControlOK' /\ DataOK'
               /\ result'.total >= result.total
               /\ result' # result => result'.buf = Latest(Rank)'
               /\ Rank' = Rank
    <2>1. CASE ProcessCallback(r)
      <3>1. /\ unprocessed > 0 /\ result' = result /\ UNCHANGED <<nranks, maxChildren>>
        BY <2>1 DEF ProcessCallback, reduceVars
      <3>2. local_objects_processed[r] + 1 \in 0 .. Items
        BY <3>1, EnoughItems
      <3>. QED
        BY <1>1, <2>1, <3>1, <3>2, ProcessControl, ProcessData, TreeFixed
    <2>2. CASE LeaveMain(r)
      <3>1. /\ phase' = [phase EXCEPT ![r] = "cleanup"] /\ UNCHANGED reduceVars
            /\ UNCHANGED <<nranks, maxChildren, unprocessed, local_objects_processed>>
            /\ result' = result /\ UNCHANGED <<nranks, maxChildren>>
        BY <2>2 DEF LeaveMain, reduceVars
      <3>2. ControlOK' /\ (\A x \in Rank : Heard(x)' = Heard(x))
        BY <2>2, LeaveControl
      <3>3. \A x \in Rank : /\ phase'[x] = "sync" => phase[x] = "sync"
                            /\ phase'[x] = "return" => phase[x] = "return"
        BY <3>1 DEF ControlOK, CountersOK
      <3>4. DataOK'
        BY <3>1, <3>2, <3>3, QuietData
      <3>. QED
        BY <1>1, <3>1, <3>2, <3>4, TreeFixed
    <2>3. CASE BarrierStart(r)
      <3>1. /\ phase' = phase /\ UNCHANGED reduceVars
            /\ UNCHANGED <<nranks, maxChildren, unprocessed, local_objects_processed>>
            /\ result' = result /\ UNCHANGED <<nranks, maxChildren>>
        BY <2>3 DEF BarrierStart, reduceVars
      <3>2. ControlOK' /\ (\A x \in Rank : Heard(x)' = Heard(x))
        BY <2>3, BarrierControl
      <3>3. DataOK'
        BY <3>1, <3>2, QuietData
      <3>. QED
        BY <1>1, <3>1, <3>2, <3>3, TreeFixed
    <2>4. CASE ReduceStart(r)
      <3>1. result' = result /\ UNCHANGED <<nranks, maxChildren>>
        BY <2>4 DEF ReduceStart, jobVars
      <3>. QED
        BY <1>1, <2>4, <3>1, StartControl, StartData, TreeFixed
    <2>5. CASE ReduceRefuse(r)
      <3>1. result' = result /\ UNCHANGED <<nranks, maxChildren>>
        BY <2>5 DEF ReduceRefuse, jobVars
      <3>. QED
        BY <1>1, <2>5, <3>1, RefuseControl, RefuseData, TreeFixed
    <2>6. CASE ReduceGather(r)
      <3>1. UNCHANGED <<nranks, maxChildren>>
        BY <2>6 DEF ReduceGather, jobVars
      <3>. QED
        BY <1>1, <2>6, <3>1, GatherStep, TreeFixed
    <2>7. CASE ReduceFinish(r)
      <3>1. UNCHANGED <<nranks, maxChildren>>
        BY <2>7 DEF ReduceFinish, jobVars
      <3>. QED
        BY <2>7, <3>1, FinishAll, TreeFixed
    <2>8. CASE SyncStart(r)
      <3>1. result' = result /\ UNCHANGED <<nranks, maxChildren>>
        BY <2>8 DEF SyncStart
      <3>. QED
        BY <1>1, <2>8, <3>1, SyncStartControl, SyncStartData, TreeFixed
    <2>9. CASE SyncReceive(r)
      <3>1. result' = result /\ UNCHANGED <<nranks, maxChildren>>
        BY <2>9, ReceiveForms DEF jobVars
      <3>. QED
        BY <1>1, <2>9, <3>1, ReceiveControl, ReceiveData, TreeFixed
    <2>10. CASE SyncFinish(r)
      <3>1. UNCHANGED <<nranks, maxChildren>>
        BY <2>10 DEF SyncFinish
      <3>. QED
        BY <2>10, <3>1, SyncFinishControl, SyncFinishData, TreeFixed
    <2>. QED
      BY <1>2, <2>1, <2>2, <2>3, <2>4, <2>5, <2>6, <2>7, <2>8, <2>9, <2>10
      DEF Step, ReduceCheck, ReduceSync
  <1>3. ASSUME UNCHANGED vars
        PROVE  /\ ControlOK' /\ DataOK'
               /\ result'.total >= result.total
               /\ result' # result => result'.buf = Latest(Rank)'
               /\ Rank' = Rank
    <2>1. /\ UNCHANGED <<nranks, maxChildren>> /\ UNCHANGED reduceVars
          /\ UNCHANGED <<nranks, maxChildren, local_objects_processed, unprocessed>>
          /\ UNCHANGED <<nranks, maxChildren, msg, reduce_outstanding, sync_i>>
          /\ phase' = phase /\ result' = result /\ barrier_started' = barrier_started
      BY <1>3 DEF vars, jobVars, reduceVars
    <2>2. /\ Rank' = Rank /\ \A x : getChildrenCount(x)' = getChildrenCount(x)
      BY <2>1, TreeFixed
    <2>3. \A x \in Rank : Heard(x)' = Heard(x)
      BY <2>1, HeardUntouched
    <2>4. ReduceEdges'
      BY <2>1, EdgesUntouched
    <2>5. VariablesOK' /\ CountersOK' /\ PhasesOK' /\ RepliesCounted'
      BY <2>1, <2>2, <2>3
      DEF ControlOK, VariablesOK, CountersOK, PhasesOK, RepliesCounted, reduceVars
    <2>6. DataOK'
      BY <2>1, <2>3, QuietData
    <2>. QED
      BY <1>1, <2>1, <2>2, <2>4, <2>5, <2>6 DEF ControlOK
  <1>. QED
    BY <1>2, <1>3 DEF Next, Idle, Finished

-----------------------------------------------------------------------------
(* The theorems *)

\* Nothing that reduceCheck and reduceSync rely on is ever violated, whatever
\* the order of the calls of the ranks: messages are never mistaken for those
\* of another reduction (ReduceMatching), and what has been gathered is the
\* latest contribution of each rank of a part of the tree, once.
THEOREM ReduceInvariant == Spec => []ReduceInv
  <1>1. Init => ControlOK /\ DataOK
    BY InitControl, InitData
  <1>2. ControlOK /\ DataOK /\ [Next]_vars => (ControlOK /\ DataOK)'
    BY StepKeeps
  <1>3. ControlOK /\ DataOK => ReduceInv
    BY InvariantParts
  <1>. QED
    BY <1>1, <1>2, <1>3, PTL DEF Spec

\* What reduceFinalizeCallback gets holds the latest contribution of every
\* rank, each once.
THEOREM ResultsComplete == Spec => ResultComplete
  <1>1. ReduceInv /\ [Next]_vars =>
          [result' # result =>
             result'.buf = SetToBag({<<r, inits'[r]>> : r \in Rank})]_vars
    <2>. SUFFICES ASSUME ReduceInv, [Next]_vars, result' # result
                  PROVE  result'.buf = SetToBag({<<r, inits'[r]>> : r \in Rank})
      OBVIOUS
    <2>1. result'.buf = Latest(Rank)' /\ Rank' = Rank
      BY InvariantParts, StepKeeps
    <2>. QED
      BY <2>1 DEF Latest
  <1>. QED
    BY <1>1, ReduceInvariant, PTL DEF Spec, ResultComplete

\* The number of objects processed that it gets never goes back.
THEOREM ProgressNeverGoesBack == Spec => ProgressMonotone
  <1>1. ReduceInv /\ [Next]_vars => [result'.total >= result.total]_vars
    BY InvariantParts, StepKeeps
  <1>. QED
    BY <1>1, ReduceInvariant, PTL DEF Spec, ProgressMonotone

\* The result of reduceSync counts every item that was processed, whenever the
\* ranks were told to leave the main loop.
THEOREM FinalResultComplete == Spec => []FinalResult
  <1>1. ReduceInv => FinalResult
    BY DEF ReduceInv, SyncTotals, FinalResult
  <1>. QED
    BY <1>1, ReduceInvariant, PTL

\* No message is left when all ranks have returned.
THEOREM NothingLeftBehind == Spec => []ReduceDrained
  <1>1. ASSUME ReduceInv, \A r \in Rank : phase[r] = "return",
               NEW s \in Rank, NEW d \in Rank
        PROVE  msg[s][d] = <<>>
    <2>. SUFFICES ASSUME msg[s][d] # <<>> PROVE FALSE
      OBVIOUS
    <2>1. ControlOK
      BY <1>1, InvariantParts
    <2>2. \A x \in Rank : ~reduce_outstanding[x] /\ sync_i[x] = getChildrenCount(x)
      BY <1>1, <2>1, SyncQuiet DEF ControlOK, PhasesOK
    <2>3. s = getParentRank(d) \/ d = getParentRank(s)
      BY <2>1 DEF ControlOK, ReduceEdges
    <2>4. CASE s = getParentRank(d)
      <3>1. d \in ChildrenRanks(s)
        BY <2>1, <2>4, TreeEdges DEF ControlOK
      <3>. QED
        BY <2>1, <2>2, <3>1, EdgeCases
    <2>5. CASE d = getParentRank(s)
      <3>1. s \in ChildrenRanks(d)
        BY <2>1, <2>5, TreeEdges DEF ControlOK
      <3>2. ~SyncTaken(s)
        BY <2>1, <2>2, <3>1, EdgeCases
      <3>3. /\ left(d) \in Nat /\ getChildrenCount(d) \in Nat
            /\ s \in left(d) .. left(d) + getChildrenCount(d) - 1
        BY <2>1, <3>1, TreeEdges DEF ControlOK
      <3>4. SyncTaken(s)
        BY <2>2, <2>5, <3>3 DEF SyncTaken
      <3>. QED
        BY <3>2, <3>4
    <2>. QED
      BY <2>3, <2>4, <2>5
  <1>2. ReduceInv => ReduceDrained
    BY <1>1 DEF ReduceDrained
  <1>. QED
    BY <1>2, ReduceInvariant, PTL

\* The tree the ranks reduce along is a tree on whose edges both ends agree
\* (TreeState::TreeState), whatever the number of ranks and the width.
THEOREM TreesAreTrees == Spec => []CommunicationTree
  <1>1. VariablesOK => CommunicationTree
    <2>. SUFFICES ASSUME VariablesOK PROVE CommunicationTree
      OBVIOUS
    <2>. nranks \in Nat \ {0} /\ maxChildren \in Nat \ {0}
      BY ReductionAssumption DEF VariablesOK
    <2>1. /\ Tree!TreeRank = TreeRank
          /\ \A r : Tree!getParentRank(r) = getParentRank(r)
          /\ \A r : Tree!ChildrenRanks(r) = ChildrenRanks(r)
          /\ \A r : Tree!getChildrenCount(r) = getChildrenCount(r)
      BY DEF Tree!TreeRank, TreeRank, Tree!getParentRank, getParentRank,
             Tree!ChildrenRanks, ChildrenRanks, Tree!getChildrenRanks,
             getChildrenRanks, Tree!getChildrenCount, getChildrenCount,
             Tree!left, left, Tree!right, right
    <2>2. Tree!CommunicationTree
      BY Tree!TreeIsATree
    <2>. QED
      BY <2>1, <2>2
         DEF Tree!CommunicationTree, Tree!ParentChildAgree, Tree!ChildrenFit,
             Tree!ParentBelow, CommunicationTree, ParentChildAgree, ChildrenFit,
             ParentBelow
  <1>2. ReduceInv => VariablesOK
    BY InvariantParts DEF ControlOK
  <1>. QED
    BY <1>1, <1>2, ReduceInvariant, PTL

=============================================================================
