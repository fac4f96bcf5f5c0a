-------------------------- MODULE CircleTreeProofs --------------------------
(***************************************************************************)
(* Tree termination detection leaves nothing under way, for any number of  *)
(* ranks and any width of the tree, whatever probes miss: TreeInv is an    *)
(* invariant of CircleTree, and the properties of the cleanup follow.      *)
(***************************************************************************)
EXTENDS CircleTreeInv, MainLoopProofs

Tree == INSTANCE TreeTopologyProofs WITH nranks <- N, maxChildren <- TreeWidth

\* What the proofs use of the tree: who is whose parent and child, and how
\* many children there are.
LEMMA TreeEdges ==
  /\ 0 \in Rank /\ getParentRank(0) = MPI_PROC_NULL /\ MPI_PROC_NULL \notin Rank
  /\ \A c \in Rank \ {0} : getParentRank(c) \in Rank \ {c}
  /\ \A p, c \in Rank : c \in ChildrenRanks(p) <=> getParentRank(c) = p
  /\ \A p \in Rank \ {0} : getParentRank(p) \notin ChildrenRanks(p)
  /\ \A p \in Rank : /\ ChildrenRanks(p) \subseteq Rank \ {0, p}
                     /\ IsFiniteSet(ChildrenRanks(p))
                     /\ Cardinality(ChildrenRanks(p)) = getChildrenCount(p)
                     /\ getChildrenCount(p) \in Nat
  <1>1. /\ Tree!TreeRank = Rank
        /\ \A r : Tree!getParentRank(r) = getParentRank(r)
        /\ \A r : Tree!ChildrenRanks(r) = ChildrenRanks(r)
        /\ \A r : Tree!getChildrenCount(r) = getChildrenCount(r)
    BY DEF Tree!TreeRank, Rank, Tree!getParentRank, getParentRank,
           Tree!ChildrenRanks, ChildrenRanks, Tree!getChildrenRanks,
           getChildrenRanks, Tree!getChildrenCount, getChildrenCount,
           Tree!left, left, Tree!right, right
  <1>2. N \in Nat \ {0} /\ TreeWidth \in Nat \ {0}
    BY SharingAssumption, TreeWidthAssumption
  <1>3. 0 \in Rank /\ getParentRank(0) = MPI_PROC_NULL /\ MPI_PROC_NULL \notin Rank
    BY <1>2 DEF Rank, getParentRank, MPI_PROC_NULL
  <1>4. Tree!CommunicationTree
    BY <1>2, Tree!TreeIsATree
  <1>5. /\ \A c \in Rank \ {0} : getParentRank(c) \in 0 .. c - 1
        /\ \A p, c \in Rank : c \in ChildrenRanks(p) <=> getParentRank(c) = p
        /\ \A p \in Rank : /\ ChildrenRanks(p) \subseteq Rank \ {0}
                           /\ getChildrenCount(p) \in 0 .. TreeWidth
    BY <1>1, <1>4 DEF Tree!CommunicationTree, Tree!ParentChildAgree,
                      Tree!ChildrenFit, Tree!ParentBelow
  <1>6. \A p \in Rank : /\ IsFiniteSet(ChildrenRanks(p))
                        /\ Cardinality(ChildrenRanks(p)) = getChildrenCount(p)
    <2>. SUFFICES ASSUME NEW p \in Rank
                  PROVE  /\ IsFiniteSet(ChildrenRanks(p))
                         /\ Cardinality(ChildrenRanks(p)) = getChildrenCount(p)
      OBVIOUS
    <2>. DEFINE a == Tree!left(p)
                n == getChildrenCount(p)
    <2>1. a \in Int /\ n \in Nat /\ ChildrenRanks(p) = a .. a + n - 1
      BY <1>1, <1>2, Tree!ChildrenInterval
    <2>. HIDE DEF a, n
    <2>2. /\ IsFiniteSet(a .. a + n - 1)
          /\ Cardinality(a .. a + n - 1) =
               IF a > a + n - 1 THEN 0 ELSE a + n - 1 - a + 1
      BY <2>1, FS_Interval
    <2>3. Cardinality(a .. a + n - 1) = n
      BY <2>1, <2>2
    <2>. QED
      BY <2>1, <2>2, <2>3 DEF n
  <1>7. \A c \in Rank \ {0} : getParentRank(c) \in Rank /\ getParentRank(c) < c
    BY <1>2, <1>5 DEF Rank
  <1>8. \A c \in Rank \ {0} : getParentRank(c) \in Rank \ {c}
    BY <1>7 DEF Rank
  <1>9. \A p \in Rank \ {0} : getParentRank(p) \notin ChildrenRanks(p)
    <2>. SUFFICES ASSUME NEW p \in Rank \ {0}, getParentRank(p) \in ChildrenRanks(p)
                  PROVE  FALSE
      OBVIOUS
    <2>1. PICK q \in Rank : q = getParentRank(p)
      BY <1>7
    <2>2. getParentRank(q) = p /\ q # 0
      BY <1>5, <2>1
    <2>3. q < p /\ p < q
      BY <1>7, <2>1, <2>2
    <2>. QED
      BY <2>3 DEF Rank
  <1>10. \A p \in Rank : ChildrenRanks(p) \subseteq Rank \ {0, p}
    BY <1>5, <1>8
  <1>. QED
    BY <1>3, <1>5, <1>6, <1>8, <1>9, <1>10

\* The contents a TERM channel can have.
LEMMA FlagMessages ==
  /\ <<>> \in Seq(Flag) /\ <<0>> \in Seq(Flag) /\ <<1>> \in Seq(Flag)
  /\ <<0>> # <<>> /\ <<1>> # <<>> /\ Len(<<0>>) = 1 /\ Len(<<1>>) = 1
  /\ Head(<<0>>) = 0 /\ Head(<<1>>) = 1
  /\ Tail(<<0>>) = <<>> /\ Tail(<<1>>) = <<>>
  /\ <<>> \o <<0>> = <<0>> /\ <<>> \o <<1>> = <<1>>
  /\ \A s \in Seq(Flag) : s \o <<>> = s
  BY DEF Flag

-----------------------------------------------------------------------------
\* The inductive part of TreeInv; TermMatching follows from it.
TreeCore ==
  /\ TypeOK /\ RequestMatching /\ AskOnEmpty /\ ReceiptAccounting
  /\ TermEdges /\ TermCounts /\ TermBarrier

LEMMA TreeCoreInv == TreeCore => TreeInv
  <1>. SUFFICES ASSUME TreeCore PROVE TermMatching
    BY DEF TreeCore, TreeInv, MessagesMatch
  <1>. SUFFICES ASSUME NEW s \in Rank, NEW d \in Rank, term[s][d] # <<>>
                PROVE  /\ Len(term[s][d]) = 1
                       /\ \/ s \in ChildrenRanks(d) /\ term_up[s]
                          \/ s = getParentRank(d) /\ term_up[d]
    BY DEF TermMatching
  <1>1. CASE s = getParentRank(d)
    <2>1. d \in Rank \ {0} /\ TermEdge(d)
      BY <1>1, TreeEdges DEF TreeCore, TermEdges
    <2>. QED
      BY <1>1, <2>1, FlagMessages DEF TermEdge
  <1>2. CASE d = getParentRank(s)
    <2>1. s \in Rank \ {0} /\ TermEdge(s) /\ s \in ChildrenRanks(d)
      BY <1>2, TreeEdges DEF TreeCore, TermEdges
    <2>. QED
      BY <1>2, <2>1, FlagMessages DEF TermEdge
  <1>. QED
    BY <1>1, <1>2 DEF TreeCore, TermEdges

-----------------------------------------------------------------------------
(* checkForTermAllReduce: what a rank in the main loop can gather *)

\* The gathered children of a rank are finitely many children.
LEMMA GatheredChildren ==
  ASSUME NEW p \in Rank
  PROVE  /\ Gathered(p) \subseteq ChildrenRanks(p)
         /\ IsFiniteSet(Gathered(p))
         /\ Cardinality(Gathered(p)) \in Nat
  <1>1. Gathered(p) \in SUBSET ChildrenRanks(p)
    BY DEF Gathered
  <1>2. IsFiniteSet(Gathered(p))
    BY <1>1, TreeEdges, FS_Subset
  <1>. QED
    BY <1>1, <1>2, FS_CardinalityType

\* A rank in the main loop that has sent its flag has gathered all children.
LEMMA AllGathered ==
  ASSUME TreeCore, NEW r \in Rank, term_replies[r] = getChildrenCount(r)
  PROVE  Gathered(r) = ChildrenRanks(r)
  <1>1. Cardinality(ChildrenRanks(r)) = Cardinality(Gathered(r))
    BY TreeEdges DEF TreeCore, TermCounts
  <1>. QED
    BY <1>1, GatheredChildren, TreeEdges, FS_Subset

\* The gather loop takes no more messages than are wanted.
LEMMA GathersBound ==
  ASSUME TreeCore, NEW r \in Rank, NEW T \in Gathers(r)
  PROVE  /\ T \subseteq {s \in Rank : term[s][r] # <<>>}
         /\ IsFiniteSet(T) /\ Cardinality(T) \in Nat
         /\ Cardinality(T) <= getChildrenCount(r) - term_replies[r]
  <1>. DEFINE sources == {s \in Rank : term[s][r] # <<>>}
              wanted  == getChildrenCount(r) - term_replies[r]
              full    == IF Cardinality(sources) < wanted THEN Cardinality(sources)
                                                          ELSE wanted
  <1>1. T \in SUBSET sources /\ (Cardinality(T) = full \/ Cardinality(T) <= full)
    BY DEF Gathers
  <1>2. T \in SUBSET Rank /\ sources \in SUBSET Rank
    BY <1>1
  <1>3. IsFiniteSet(T) /\ Cardinality(T) \in Nat /\ Cardinality(sources) \in Nat
    BY <1>2, RankFinite
  <1>4. wanted \in Int
    BY TreeEdges DEF TreeCore, TypeOK
  <1>. HIDE DEF sources, wanted
  <1>5. Cardinality(T) <= wanted
    BY <1>1, <1>3, <1>4
  <1>. QED
    BY <1>1, <1>3, <1>5 DEF sources, wanted

\* A rank that has sent its flag gathers nothing; before, it takes flags of
\* children it has not gathered, and term_replies stays the number gathered.
LEMMA GatherFacts ==
  ASSUME TreeCore, NEW r \in Rank, ~Done(r), NEW T \in Gathers(r)
  PROVE  /\ term_up[r] => T = {}
         /\ T \subseteq ChildrenRanks(r)
         /\ \A c \in T : /\ term_up[c] /\ ~Done(c)
                         /\ term[c][r] = <<0>> /\ term[r][c] = <<>>
         /\ Replied(r, T) = Cardinality(Gathered(r) \cup T)
         /\ Replied(r, T) = getChildrenCount(r) =>
              Gathered(r) \cup T = ChildrenRanks(r)
  <1>1. /\ T \subseteq {s \in Rank : term[s][r] # <<>>}
        /\ IsFiniteSet(T) /\ Cardinality(T) \in Nat
        /\ Cardinality(T) <= getChildrenCount(r) - term_replies[r]
    BY GathersBound
  <1>2. term_up[r] => T = {}
    <2>. SUFFICES ASSUME term_up[r] PROVE T = {}
      OBVIOUS
    <2>1. term_replies[r] = getChildrenCount(r) /\ getChildrenCount(r) \in Nat
      BY TreeEdges DEF TreeCore, TermCounts
    <2>2. Cardinality(T) = 0
      BY <1>1, <2>1
    <2>. QED
      BY <1>1, <2>2, FS_EmptySet
  <1>3. ASSUME NEW c \in T
        PROVE  /\ c \in ChildrenRanks(r) /\ term_up[c] /\ ~Done(c)
               /\ term[c][r] = <<0>> /\ term[r][c] = <<>>
    <2>1. c \in Rank /\ term[c][r] # <<>> /\ ~term_up[r]
      BY <1>1, <1>2, <1>3
    <2>2. c # getParentRank(r)
      <3>. SUFFICES ASSUME c = getParentRank(r) PROVE FALSE
        OBVIOUS
      <3>1. r \in Rank \ {0} /\ TermEdge(r)
        BY <2>1, TreeEdges DEF TreeCore, TermEdges
      <3>. QED
        BY <2>1, <3>1 DEF TermEdge
    <2>3. getParentRank(c) = r
      BY <2>1, <2>2 DEF TreeCore, TermEdges
    <2>4. c \in Rank \ {0} /\ c \in ChildrenRanks(r) /\ TermEdge(c)
      BY <2>1, <2>3, TreeEdges DEF TreeCore, TermEdges
    <2>. QED
      BY <2>1, <2>3, <2>4 DEF TermEdge
  <1>4. Gathered(r) \cap T = {}
    BY <1>1 DEF Gathered
  <1>5. Replied(r, T) = Cardinality(Gathered(r) \cup T)
    <2>1. Cardinality(Gathered(r) \cup T) =
            Cardinality(Gathered(r)) + Cardinality(T) - Cardinality(Gathered(r) \cap T)
      BY <1>1, GatheredChildren, FS_Union
    <2>2. Cardinality(Gathered(r) \cap T) = 0
      BY <1>4, FS_EmptySet
    <2>3. term_replies[r] = Cardinality(Gathered(r))
      BY DEF TreeCore, TermCounts
    <2>4. \A x, y \in Nat : x + y - 0 = x + y
      OBVIOUS
    <2>. QED
      BY <1>1, <2>1, <2>2, <2>3, <2>4, GatheredChildren DEF Replied
  <1>6. T \subseteq ChildrenRanks(r)
    BY <1>3
  <1>7. Replied(r, T) = getChildrenCount(r) => Gathered(r) \cup T = ChildrenRanks(r)
    <2>1. Gathered(r) \cup T \in SUBSET ChildrenRanks(r)
      BY <1>6, GatheredChildren
    <2>. QED
      BY <1>5, <2>1, TreeEdges, FS_Subset
  <1>. QED
    BY <1>2, <1>3, <1>5, <1>6, <1>7

\* What a handler that takes the message of each source of T does to the
\* channels.
Exchanged(r, T, new) ==
  /\ term' \in [Rank -> [Rank -> Seq(Flag)]]
  /\ \A s, d \in Rank :
       term'[s][d] = IF d = r /\ s \in T THEN <<>>
                     ELSE IF s = r THEN term[s][d] \o new[d]
                     ELSE term[s][d]

LEMMA ExchangeEffect ==
  ASSUME TreeCore, NEW r \in Rank, NEW T \in SUBSET Rank, NEW new,
         Exchange(r, T, new), \A c \in T : term[c][r] = << 0 >> \/ term[c][r] = << 1 >>,
         \A d \in Rank : new[d] \in Seq(Flag)
  PROVE  Exchanged(r, T, new)
  <1>1. \A s, d \in Rank : term[s][d] \in Seq(Flag)
    BY DEF TreeCore, TypeOK
  <1>2. \A s, d \in Rank :
          term'[s][d] = IF d = r /\ s \in T THEN Tail(term[s][d])
                        ELSE IF s = r THEN term[s][d] \o new[d]
                        ELSE term[s][d]
    BY DEF Exchange
  <1>3. \A s, d \in Rank :
          term'[s][d] = IF d = r /\ s \in T THEN <<>>
                        ELSE IF s = r THEN term[s][d] \o new[d]
                        ELSE term[s][d]
    BY <1>2, FlagMessages
  <1>4. \A s, d \in Rank : term'[s][d] \in Seq(Flag)
    <2>. SUFFICES ASSUME NEW s \in Rank, NEW d \in Rank
                  PROVE  term'[s][d] \in Seq(Flag)
      OBVIOUS
    <2>1. term[s][d] \o new[d] \in Seq(Flag)
      BY <1>1, ConcatProperties
    <2>. QED
      BY ZenonT(60), <1>1, <1>3, <2>1, FlagMessages
  <1>5. term' = [s \in Rank |-> [d \in Rank |-> term'[s][d]]]
    BY DEF Exchange
  <1>. QED
    BY <1>3, <1>4, <1>5 DEF Exchanged

-----------------------------------------------------------------------------
(* Each step keeps TermEdges, TermCounts and TermBarrier *)

\* A step that leaves the allreduce alone and every rank in its loop.
LEMMA TermlessEdges ==
  ASSUME TreeCore, UNCHANGED <<term_up, term_replies, term>>,
         \A q \in Rank : Done(q)' <=> Done(q)
  PROVE  TermEdges' /\ TermCounts'
  <1>1. TermEdges'
    <2>1. ASSUME NEW c \in Rank \ {0} PROVE TermEdge(c)'
      <3>1. getParentRank(c) \in Rank /\ TermEdge(c)
        BY TreeEdges DEF TreeCore, TermEdges
      <3>. QED
        BY <3>1 DEF TermEdge
    <2>. QED
      BY <2>1 DEF TreeCore, TermEdges
  <1>2. \A q \in Rank : Gathered(q)' = Gathered(q)
    BY DEF Gathered
  <1>3. TermCounts'
    BY <1>2 DEF TreeCore, TermCounts
  <1>. QED
    BY <1>1, <1>3

\* A handler of MainLoop other than ShareWork.
LEMMA PlainTermInv ==
  ASSUME TreeCore, NEW r \in Rank, PlainHandler(r, TRUE, "barrierTest"),
         UNCHANGED <<term_up, term_replies, term>>
  PROVE  /\ MatchInv' /\ ReceiptAccounting'
         /\ TermEdges' /\ TermCounts' /\ TermBarrier'
  <1>0. MatchInv /\ ReceiptAccounting /\ LoopTypeOK
    BY DEF TreeCore, TypeOK, MatchInv
  <1>1. "barrierTest" \in Cleanup \ {"return"} /\ "barrierTest" \in Label \ {"requestWork"}
    BY DEF Cleanup, Label
  <1>2. MatchInv'
    BY <1>0, <1>1, HandlerOK
  <1>3. /\ ReceiptAccounting'
        /\ \A q \in Rank \ {r} : work_outstanding'[q] = work_outstanding[q]
        /\ Done(r) => work_outstanding' = work_outstanding
    BY <1>0, HandlerAccount DEF Done
  <1>4. /\ \A q \in Rank \ {r} : /\ pc'[q] = pc[q]
                                 /\ barrier_started'[q] = barrier_started[q]
                                 /\ work_requested_rank'[q] = work_requested_rank[q]
        /\ pc'[r] \in Cleanup <=> pc[r] \in Cleanup
        /\ barrier_started[r] => barrier_started'[r]
        /\ barrier_started'[r] /\ ~barrier_started[r] =>
             pc[r] \in Cleanup /\ work_requested_rank[r] = MPI_PROC_NULL
        /\ pc'[r] = "return" => \A s \in Rank : barrier_started'[s]
        /\ pc[r] \in Cleanup /\ work_requested_rank[r] = MPI_PROC_NULL =>
             work_requested_rank'[r] = MPI_PROC_NULL
    BY <1>0, <1>1, HandlerMoves
  <1>5. \A q \in Rank : Done(q)' <=> Done(q)
    BY <1>4 DEF Done
  <1>6. TermEdges' /\ TermCounts'
    BY <1>5, TermlessEdges
  <1>7. \A q \in Rank : barrier_started[q] =>
          Done(q) /\ work_requested_rank[q] = MPI_PROC_NULL
    BY DEF TreeCore, TermBarrier
  <1>8. ASSUME NEW q \in Rank
        PROVE  /\ Done(q)' => work_outstanding'[q] = 0
               /\ barrier_started'[q] =>
                    Done(q)' /\ work_requested_rank'[q] = MPI_PROC_NULL
    <2>1. Done(q) => work_outstanding[q] = 0
      BY DEF TreeCore, TermBarrier
    <2>2. CASE q = r
      BY <1>3, <1>4, <1>5, <1>7, <2>1, <2>2 DEF Done
    <2>3. CASE q # r
      BY <1>3, <1>4, <1>5, <1>7, <2>1, <2>3
    <2>. QED
      BY <2>2, <2>3
  <1>9. ASSUME NEW q \in Rank, NEW s \in Rank, pc'[q] = "return"
        PROVE  barrier_started'[s]
    <2>1. CASE q = r
      BY <1>4, <1>9, <2>1
    <2>2. CASE q # r
      <3>1. barrier_started[s]
        BY <1>4, <1>9, <2>2 DEF TreeCore, TermBarrier
      <3>. QED
        BY <1>4, <3>1
    <2>. QED
      BY <2>1, <2>2
  <1>10. TermBarrier'
    BY <1>8, <1>9 DEF TermBarrier
  <1>. QED
    BY <1>2, <1>3, <1>6, <1>10

\* A rank in the main loop that stays there and touches only its own counters.
LEMMA MainLoopBarrier ==
  ASSUME TreeCore, NEW r \in Rank, ~Done(r), ~Done(r)',
         \A q \in Rank \ {r} : pc'[q] = pc[q] /\ work_outstanding'[q] = work_outstanding[q],
         UNCHANGED <<barrier_started, work_requested_rank>>
  PROVE  /\ \A q \in Rank : Done(q)' <=> Done(q)
         /\ TermBarrier'
  <1>1. \A q \in Rank : Done(q)' <=> Done(q)
    BY DEF Done
  <1>2. ~barrier_started[r]
    BY DEF TreeCore, TermBarrier
  <1>3. pc'[r] # "return"
    BY DEF Done, Cleanup
  <1>4. ASSUME NEW q \in Rank
        PROVE  /\ Done(q)' => work_outstanding'[q] = 0
               /\ barrier_started'[q] =>
                    Done(q)' /\ work_requested_rank'[q] = MPI_PROC_NULL
    <2>1. /\ Done(q) => work_outstanding[q] = 0
          /\ barrier_started[q] =>
               Done(q) /\ work_requested_rank[q] = MPI_PROC_NULL
      BY DEF TreeCore, TermBarrier
    <2>. QED
      BY <1>1, <2>1
  <1>5. ASSUME NEW q \in Rank, NEW s \in Rank, pc'[q] = "return"
        PROVE  barrier_started'[s]
    <2>1. pc[q] = "return"
      BY <1>3, <1>5
    <2>. QED
      BY <2>1 DEF TreeCore, TermBarrier
  <1>6. TermBarrier'
    BY <1>4, <1>5 DEF TermBarrier
  <1>. QED
    BY <1>1, <1>6

\* Work is shared only in the main loop.
LEMMA ShareTermInv ==
  ASSUME TreeCore, NEW r \in Rank, NEW S, NEW sizes, NEW order,
         ShareWork(r, S, sizes, order), UNCHANGED <<term_up, term_replies, term>>
  PROVE  /\ MatchInv' /\ ReceiptAccounting'
         /\ TermEdges' /\ TermCounts' /\ TermBarrier'
  <1>0. MatchInv /\ ReceiptAccounting /\ LoopTypeOK
    BY DEF TreeCore, TypeOK, MatchInv
  <1>1. MatchInv'
    BY <1>0, ShareWorkOK
  <1>2. /\ ReceiptAccounting'
        /\ \A q \in Rank \ {r} : work_outstanding'[q] = work_outstanding[q]
    BY <1>0, ShareWorkAccount
  <1>3. /\ pc[r] = "workreqCheck" /\ pc' = [pc EXCEPT ![r] = "workreceiptCheck"]
        /\ UNCHANGED <<barrier_started, work_requested_rank>>
    BY DEF ShareWork, Goto, ShareQueue, SendReplies
  <1>4. ~Done(r) /\ ~Done(r)' /\ \A q \in Rank \ {r} : pc'[q] = pc[q]
    BY <1>0, <1>3 DEF LoopTypeOK, Done, Cleanup
  <1>5. TermBarrier' /\ \A q \in Rank : Done(q)' <=> Done(q)
    BY <1>2, <1>3, <1>4, MainLoopBarrier
  <1>6. TermEdges' /\ TermCounts'
    BY <1>5, TermlessEdges
  <1>. QED
    BY <1>1, <1>2, <1>5, <1>6

\* The part of checkForTermAllReduce that touches no variable of MainLoop but
\* pc.
LEMMA IdleEffect ==
  ASSUME TreeCore, NEW r \in Rank, NEW terminated \in BOOLEAN,
         IdleStep(r, terminated)
  PROVE  /\ MatchInv' /\ ReceiptAccounting'
         /\ ~Done(r) /\ (Done(r)' <=> terminated) /\ pc'[r] # "return"
         /\ \A q \in Rank \ {r} : pc'[q] = pc[q]
         /\ UNCHANGED <<work_outstanding, barrier_started, work_requested_rank>>
  <1>0. MatchInv /\ ReceiptAccounting /\ LoopTypeOK
    BY DEF TreeCore, TypeOK, MatchInv
  <1>1. MatchInv'
    BY <1>0, IdleStepOK
  <1>2. UNCHANGED <<work_outstanding, receipt, reply, barrier_started,
                    work_requested_rank>>
    BY DEF IdleStep, sharingVars
  <1>3. ReceiptAccounting'
    BY <1>0, <1>2, UnchangedAccount
  <1>4. /\ pc[r] = "work"
        /\ pc' = [pc EXCEPT ![r] = IF terminated THEN "barrierTest"
                                                 ELSE "workreqCheck"]
    BY DEF IdleStep, Goto
  <1>5. /\ pc'[r] = IF terminated THEN "barrierTest" ELSE "workreqCheck"
        /\ \A q \in Rank \ {r} : pc'[q] = pc[q]
    BY <1>0, <1>4 DEF LoopTypeOK
  <1>6. ~Done(r) /\ (Done(r)' <=> terminated) /\ pc'[r] # "return"
    BY <1>4, <1>5 DEF Done, Cleanup
  <1>. QED
    BY <1>1, <1>2, <1>3, <1>5, <1>6

\* The flags of the children in T are taken, and perhaps the rank's own flag
\* is sent to its parent (`sends').
GatherMove(r, T, sends) ==
  /\ \A s, d \in Rank :
       term'[s][d] = IF d = r /\ s \in T THEN <<>>
                     ELSE IF sends /\ s = r /\ d = getParentRank(r) THEN <<0>>
                     ELSE term[s][d]
  /\ \A q \in Rank :
       term_replies'[q] = IF q = r THEN Replied(r, T) ELSE term_replies[q]
  /\ \A q \in Rank : term_up'[q] <=> term_up[q] \/ (sends /\ q = r)

LEMMA GatherEdges ==
  ASSUME TreeCore, NEW r \in Rank, ~Done(r), NEW T \in Gathers(r),
         NEW sends \in BOOLEAN,
         sends => r # 0 /\ ~term_up[r] /\ Replied(r, T) = getChildrenCount(r),
         GatherMove(r, T, sends),
         \A q \in Rank : Done(q)' <=> Done(q)
  PROVE  TermEdges' /\ TermCounts'
  <1>. DEFINE p == getParentRank(r)
  <1>1. /\ term_up[r] => T = {}
        /\ T \subseteq ChildrenRanks(r)
        /\ \A c \in T : /\ term_up[c] /\ ~Done(c)
                        /\ term[c][r] = <<0>> /\ term[r][c] = <<>>
        /\ Replied(r, T) = Cardinality(Gathered(r) \cup T)
    BY GatherFacts
  <1>2. /\ \A q \in Rank : term_replies'[q] =
             IF q = r THEN Replied(r, T) ELSE term_replies[q]
        /\ \A q \in Rank : term_up'[q] <=> term_up[q] \/ (sends /\ q = r)
    BY DEF GatherMove
  <1>0. \A s, d \in Rank :
          term'[s][d] = IF d = r /\ s \in T THEN <<>>
                        ELSE IF sends /\ s = r /\ d = p THEN <<0>>
                        ELSE term[s][d]
    BY DEF GatherMove
  <1>3. sends => /\ p \in Rank \ {r} /\ ~Done(p)
                 /\ term[r][p] = <<>> /\ term[p][r] = <<>>
                 /\ p \notin T
    <2>1. sends => r \in Rank \ {0} /\ p \in Rank \ {r} /\ TermEdge(r)
      BY TreeEdges DEF TreeCore, TermEdges
    <2>2. sends => p \notin ChildrenRanks(r)
      BY TreeEdges
    <2>. QED
      BY <1>1, <2>1, <2>2 DEF TermEdge
  <1>4. TermEdges'
    <2>1. ASSUME NEW c \in Rank \ {0} PROVE TermEdge(c)'
      <3>. DEFINE q == getParentRank(c)
      <3>1. q \in Rank \ {c} /\ TermEdge(c)
        BY TreeEdges DEF TreeCore, TermEdges
      <3>2. CASE c \in T
        <4>1. q = r /\ c # r
          BY <1>1, <3>1, <3>2, TreeEdges
        <4>2. c # p \/ ~sends
          BY <1>3, <3>2
        <4>3. term'[c][q] = <<>> /\ term'[q][c] = <<>>
          BY <1>0, <1>1, <3>1, <3>2, <4>1, <4>2
        <4>. QED
          BY <1>1, <3>2, <4>1, <4>3 DEF TermEdge
      <3>3. CASE c = r /\ sends
        <4>1. term'[c][q] = <<0>> /\ term'[q][c] = <<>>
          BY <1>0, <1>3, <3>1, <3>3
        <4>2. term_up'[c]
          BY <1>2, <3>3
        <4>. QED
          BY <1>3, <3>3, <4>1, <4>2 DEF TermEdge
      <3>4. CASE c \notin T /\ ~(c = r /\ sends)
        <4>1. ~(q \in T /\ c = r)
          BY <1>1, TreeEdges
        <4>2. ~(sends /\ q = r /\ c = p)
          BY <3>1, TreeEdges
        <4>3. term'[c][q] = term[c][q] /\ term'[q][c] = term[q][c]
          BY <1>0, <3>1, <3>4, <4>1, <4>2
        <4>. QED
          BY <1>2, <3>1, <3>4, <4>3 DEF TermEdge
      <3>. QED
        BY <3>2, <3>3, <3>4
    <2>2. \A x, y \in Rank :
            term'[x][y] # <<>> => x = getParentRank(y) \/ y = getParentRank(x)
      BY <1>0, <1>3 DEF TreeCore, TermEdges
    <2>. QED
      BY <2>1, <2>2 DEF TermEdges
  <1>5. Gathered(r)' = Gathered(r) \cup T
    <2>1. ASSUME NEW c \in ChildrenRanks(r)
          PROVE  /\ term_up'[c] <=> term_up[c]
                 /\ term'[c][r] = IF c \in T THEN <<>> ELSE term[c][r]
                 /\ term'[r][c] = term[r][c]
      <3>1. c \in Rank \ {r} /\ (sends => c # p)
        BY TreeEdges
      <3>. QED
        BY <1>0, <1>1, <1>2, <3>1
    <2>. QED
      BY <1>1, <2>1 DEF Gathered
  <1>6. ASSUME NEW q \in Rank, q # r PROVE Gathered(q)' = Gathered(q)
    <2>1. ASSUME NEW c \in ChildrenRanks(q), c = r, sends
          PROVE  c \notin Gathered(q) /\ c \notin Gathered(q)'
      <3>1. q = p
        BY <2>1, TreeEdges
      <3>2. term'[c][q] = <<0>>
        BY <1>0, <1>3, <2>1, <3>1
      <3>. QED
        BY <2>1, <3>2, FlagMessages DEF Gathered
    <2>2. ASSUME NEW c \in ChildrenRanks(q), ~(c = r /\ sends)
          PROVE  /\ term_up'[c] <=> term_up[c]
                 /\ term'[c][q] = term[c][q] /\ term'[q][c] = term[q][c]
      <3>1. c \in Rank /\ getParentRank(c) = q
        BY TreeEdges
      <3>2. ~(q \in T /\ c = r)
        BY <1>1, <3>1, TreeEdges
      <3>. QED
        BY <1>0, <1>2, <1>6, <2>2, <3>1, <3>2
    <2>. QED
      BY <2>1, <2>2 DEF Gathered
  <1>7. TermCounts'
    <2>. SUFFICES ASSUME NEW q \in Rank
                  PROVE  /\ term_replies'[q] = Cardinality(Gathered(q)')
                         /\ term_up'[q] => /\ q # 0 /\ ~Done(q)'
                                           /\ term_replies'[q] = getChildrenCount(q)
      BY DEF TermCounts
    <2>0. /\ term_replies[q] = Cardinality(Gathered(q))
          /\ term_up[q] => /\ q # 0 /\ ~Done(q)
                           /\ term_replies[q] = getChildrenCount(q)
      BY DEF TreeCore, TermCounts
    <2>1. CASE q # r
      BY <1>2, <1>6, <2>0, <2>1
    <2>2. CASE q = r
      <3>1. term_replies'[q] = Cardinality(Gathered(q)')
        BY <1>1, <1>2, <1>5, <2>2
      <3>2. CASE term_up[q]
        <4>1. Gathered(q)' = Gathered(q)
          BY <1>1, <1>5, <2>2, <3>2
        <4>. QED
          BY <2>0, <3>1, <3>2, <4>1
      <3>3. CASE ~term_up[q]
        BY <1>2, <2>2, <3>1, <3>3
      <3>. QED
        BY <3>2, <3>3
    <2>. QED
      BY <2>1, <2>2
  <1>. QED
    BY <1>4, <1>7

\* The gather loop ran, and the allreduce goes no further.
LEMMA TermGatherInv ==
  ASSUME TreeCore, NEW r \in Rank, NEW T \in Gathers(r), TermGather(r, T)
  PROVE  /\ MatchInv' /\ ReceiptAccounting'
         /\ TermEdges' /\ TermCounts' /\ TermBarrier'
         /\ term' \in [Rank -> [Rank -> Seq(Flag)]]
  <1>1. /\ Exchange(r, T, Silent) /\ IdleStep(r, FALSE)
        /\ term_replies' = [term_replies EXCEPT ![r] = Replied(r, T)]
        /\ term_up' = term_up
    BY DEF TermGather
  <1>2. /\ MatchInv' /\ ReceiptAccounting' /\ ~Done(r) /\ ~Done(r)'
        /\ \A q \in Rank \ {r} : pc'[q] = pc[q]
        /\ UNCHANGED <<work_outstanding, barrier_started, work_requested_rank>>
    BY <1>1, IdleEffect
  <1>3. TermBarrier' /\ \A q \in Rank : Done(q)' <=> Done(q)
    BY <1>2, MainLoopBarrier
  <1>4. T \in SUBSET Rank /\ \A c \in T : term[c][r] = <<0>> \/ term[c][r] = <<1>>
    BY <1>2, GatherFacts, TreeEdges
  <1>5. \A d \in Rank : Silent[d] = <<>> /\ Silent[d] \in Seq(Flag)
    BY FlagMessages DEF Silent
  <1>6. Exchanged(r, T, Silent)
    BY <1>1, <1>4, <1>5, ExchangeEffect
  <1>7. GatherMove(r, T, FALSE)
    <2>1. ASSUME NEW s \in Rank, NEW d \in Rank
          PROVE  term'[s][d] = IF d = r /\ s \in T THEN <<>> ELSE term[s][d]
      <3>1. term[s][d] \o <<>> = term[s][d]
        BY FlagMessages DEF TreeCore, TypeOK
      <3>2. term'[s][d] = IF d = r /\ s \in T THEN <<>>
                          ELSE IF s = r THEN term[s][d] \o Silent[d]
                          ELSE term[s][d]
        BY <1>6 DEF Exchanged
      <3>. QED
        BY <1>5, <3>1, <3>2
    <2>2. \A q \in Rank :
            term_replies'[q] = IF q = r THEN Replied(r, T) ELSE term_replies[q]
      BY <1>1 DEF TreeCore, TypeOK
    <2>. QED
      BY <1>1, <2>1, <2>2 DEF GatherMove
  <1>8. TermEdges' /\ TermCounts'
    BY <1>2, <1>3, <1>7, GatherEdges
  <1>. QED
    BY <1>2, <1>3, <1>6, <1>8 DEF Exchanged

\* The last reply is in: the flag goes up.
LEMMA TermSendUpInv ==
  ASSUME TreeCore, NEW r \in Rank, NEW T \in Gathers(r), TermSendUp(r, T)
  PROVE  /\ MatchInv' /\ ReceiptAccounting'
         /\ TermEdges' /\ TermCounts' /\ TermBarrier'
         /\ term' \in [Rank -> [Rank -> Seq(Flag)]]
  <1>. DEFINE p   == getParentRank(r)
              new == [Silent EXCEPT ![p] = <<0>>]
  <1>1. /\ pc[r] = "work" /\ p # MPI_PROC_NULL
        /\ ~term_up[r] /\ Replied(r, T) = getChildrenCount(r)
        /\ Exchange(r, T, new)
        /\ term_replies' = [term_replies EXCEPT ![r] = Replied(r, T)]
        /\ term_up' = [term_up EXCEPT ![r] = TRUE]
        /\ UNCHANGED loopVars
    BY DEF TermSendUp
  <1>2. MatchInv /\ MatchInv' /\ ReceiptAccounting' /\ TermBarrier'
    <2>1. MatchInv
      BY DEF TreeCore, TypeOK, MatchInv
    <2>2. /\ UNCHANGED <<count, budget, work_requested_rank, work_outstanding>>
          /\ UNCHANGED <<req, reply, receipt, pc, barrier_started>>
      BY <1>1 DEF loopVars, sharingVars
    <2>3. MatchInv'
      BY <2>1, <2>2 DEF MatchInv, LoopTypeOK, SharingTypeOK, RequestMatching, AskOnEmpty
    <2>4. ReceiptAccounting'
      BY <2>2, UnchangedAccount DEF TreeCore
    <2>5. TermBarrier'
      BY <2>2 DEF TreeCore, TermBarrier, Done
    <2>. QED
      BY <2>1, <2>3, <2>4, <2>5
  <1>3. ~Done(r) /\ \A q \in Rank : Done(q)' <=> Done(q)
    BY <1>1 DEF Done, Cleanup, loopVars
  <1>4. T \in SUBSET Rank /\ \A c \in T : term[c][r] = <<0>> \/ term[c][r] = <<1>>
    BY <1>3, GatherFacts, TreeEdges
  <1>5. r # 0 /\ p \in Rank
    BY <1>1, TreeEdges
  <1>6. \A d \in Rank : new[d] = (IF d = p THEN <<0>> ELSE <<>>) /\ new[d] \in Seq(Flag)
    BY <1>5, FlagMessages DEF Silent
  <1>. HIDE DEF new
  <1>7. Exchanged(r, T, new)
    BY <1>1, <1>4, <1>6, ExchangeEffect
  <1>8. term[r][p] = <<>>
    <2>1. TermEdge(r)
      BY <1>5 DEF TreeCore, TermEdges
    <2>. QED
      BY <1>1, <1>3, <2>1 DEF TermEdge
  <1>9. GatherMove(r, T, TRUE)
    <2>1. ASSUME NEW s \in Rank, NEW d \in Rank
          PROVE  term'[s][d] = IF d = r /\ s \in T THEN <<>>
                               ELSE IF s = r /\ d = p THEN <<0>>
                               ELSE term[s][d]
      <3>1. term[s][d] \o <<>> = term[s][d]
        BY FlagMessages DEF TreeCore, TypeOK
      <3>2. term[r][p] \o <<0>> = <<0>>
        BY <1>8, FlagMessages
      <3>3. term'[s][d] = IF d = r /\ s \in T THEN <<>>
                          ELSE IF s = r THEN term[s][d] \o new[d]
                          ELSE term[s][d]
        BY <1>7 DEF Exchanged
      <3>. QED
        BY <1>6, <3>1, <3>2, <3>3
    <2>2. \A q \in Rank :
            term_replies'[q] = IF q = r THEN Replied(r, T) ELSE term_replies[q]
      BY <1>1 DEF TreeCore, TypeOK
    <2>3. \A q \in Rank : term_up'[q] <=> term_up[q] \/ q = r
      BY <1>1 DEF TreeCore, TypeOK
    <2>. QED
      BY <2>1, <2>2, <2>3 DEF GatherMove
  <1>10. TermEdges' /\ TermCounts'
    BY <1>1, <1>3, <1>5, <1>9, GatherEdges
  <1>. QED
    BY <1>2, <1>7, <1>10 DEF Exchanged

\* The allreduce is complete: the rank, which all its children wait for, tells
\* them 1 and leaves the main loop; nothing more is on its way to it.
LEMMA DeliverInv ==
  ASSUME TreeCore, NEW r \in Rank, NEW T \in SUBSET Rank,
         work_outstanding[r] = 0, TermDeliver(r, T, 1),
         \A s \in T : term[s][r] = << 0 >> \/ term[s][r] = << 1 >>,
         \A s \in Rank \ T : term[s][r] = <<>>,
         \A c \in ChildrenRanks(r) : term_up[c] /\ term[r][c] = <<>>,
         r # 0 => term[r][getParentRank(r)] = <<>> /\ Done(getParentRank(r))
  PROVE  /\ MatchInv' /\ ReceiptAccounting'
         /\ TermEdges' /\ TermCounts' /\ TermBarrier'
         /\ term' \in [Rank -> [Rank -> Seq(Flag)]]
  <1>. DEFINE p   == getParentRank(r)
              new == [d \in Rank |-> IF d \in ChildrenRanks(r) THEN <<1>> ELSE <<>>]
  <1>1. /\ Exchange(r, T, new) /\ IdleStep(r, TRUE)
        /\ term_replies' = [term_replies EXCEPT ![r] = 0]
        /\ term_up' = [term_up EXCEPT ![r] = FALSE]
    BY DEF TermDeliver
  <1>2. /\ MatchInv' /\ ReceiptAccounting' /\ ~Done(r) /\ Done(r)' /\ pc'[r] # "return"
        /\ \A q \in Rank \ {r} : pc'[q] = pc[q]
        /\ UNCHANGED <<work_outstanding, barrier_started, work_requested_rank>>
    BY <1>1, IdleEffect
  <1>3. \A q \in Rank \ {r} : Done(q)' <=> Done(q)
    BY <1>2 DEF Done
  <1>4. \A d \in Rank : /\ new[d] = IF d \in ChildrenRanks(r) THEN <<1>> ELSE <<>>
                        /\ new[d] \in Seq(Flag)
    BY FlagMessages
  <1>. HIDE DEF new
  <1>5. Exchanged(r, T, new)
    BY <1>1, <1>4, ExchangeEffect
  <1>6. \A s \in Rank : term'[s][r] = <<>>
    <2>. SUFFICES ASSUME NEW s \in Rank PROVE term'[s][r] = <<>>
      OBVIOUS
    <2>1. term'[s][r] = IF s \in T THEN <<>>
                        ELSE IF s = r THEN term[s][r] \o new[r] ELSE term[s][r]
      BY <1>5 DEF Exchanged
    <2>2. new[r] = <<>>
      BY <1>4, TreeEdges
    <2>3. s \notin T => term[s][r] = <<>> /\ term[s][r] \o new[r] = <<>>
      BY <2>2, FlagMessages
    <2>. QED
      BY <2>1, <2>3
  <1>7. ASSUME NEW d \in Rank \ {r}
        PROVE  term'[r][d] = IF d \in ChildrenRanks(r) THEN <<1>> ELSE <<>>
    <2>1. term'[r][d] = term[r][d] \o new[d]
      BY <1>5 DEF Exchanged
    <2>2. term[r][d] = <<>>
      <3>1. CASE d \in ChildrenRanks(r)
        BY <3>1
      <3>2. CASE d = p
        <4>1. r # 0
          BY <3>2, TreeEdges
        <4>. QED
          BY <3>2, <4>1
      <3>3. CASE d \notin ChildrenRanks(r) /\ d # p
        <4>1. r # getParentRank(d)
          BY <3>3, TreeEdges
        <4>. QED
          BY <3>3, <4>1 DEF TreeCore, TermEdges
      <3>. QED
        BY <3>1, <3>2, <3>3
    <2>. QED
      BY <1>4, <2>1, <2>2, FlagMessages
  <1>8. \A s, d \in Rank \ {r} : term'[s][d] = term[s][d]
    BY <1>5 DEF Exchanged
  <1>9. /\ \A q \in Rank : term_replies'[q] = IF q = r THEN 0 ELSE term_replies[q]
        /\ \A q \in Rank : term_up'[q] = IF q = r THEN FALSE ELSE term_up[q]
    BY <1>1 DEF TreeCore, TypeOK
  <1>10. TermEdges'
    <2>1. ASSUME NEW c \in Rank \ {0} PROVE TermEdge(c)'
      <3>. DEFINE q == getParentRank(c)
      <3>1. q \in Rank \ {c} /\ TermEdge(c) /\ c \in ChildrenRanks(q)
        BY TreeEdges DEF TreeCore, TermEdges
      <3>2. CASE c = r
        <4>1. q \notin ChildrenRanks(r) /\ Done(q)'
          BY <1>3, <3>1, <3>2, TreeEdges
        <4>2. term'[c][q] = <<>> /\ term'[q][c] = <<>>
          BY <1>6, <1>7, <3>1, <3>2, <4>1
        <4>. QED
          BY <1>2, <3>2, <4>1, <4>2 DEF TermEdge
      <3>3. CASE q = r
        <4>1. term_up[c] /\ c # r
          BY <3>1, <3>3
        <4>2. ~Done(c)
          BY <4>1 DEF TreeCore, TermCounts
        <4>3. term_up'[c] /\ ~Done(c)'
          BY <1>3, <1>9, <4>1, <4>2
        <4>4. term'[c][q] = <<>> /\ term'[q][c] = <<1>>
          BY <1>6, <1>7, <3>1, <3>3, <4>1
        <4>. QED
          BY <1>2, <3>3, <4>3, <4>4 DEF TermEdge
      <3>4. CASE c # r /\ q # r
        <4>1. term'[c][q] = term[c][q] /\ term'[q][c] = term[q][c]
          BY <1>8, <3>1, <3>4
        <4>2. (Done(c)' <=> Done(c)) /\ (Done(q)' <=> Done(q))
          BY <1>3, <3>1, <3>4
        <4>3. term_up'[c] = term_up[c]
          BY <1>9, <3>4
        <4>. QED
          BY <3>1, <4>1, <4>2, <4>3 DEF TermEdge
      <3>. QED
        BY <3>2, <3>3, <3>4
    <2>2. ASSUME NEW x \in Rank, NEW y \in Rank, term'[x][y] # <<>>
          PROVE  x = getParentRank(y) \/ y = getParentRank(x)
      <3>1. y # r
        BY <1>6, <2>2
      <3>2. CASE x = r
        <4>1. y \in ChildrenRanks(r)
          BY <1>7, <2>2, <3>1, <3>2
        <4>. QED
          BY <3>2, <4>1, TreeEdges
      <3>3. CASE x # r
        BY <1>8, <2>2, <3>1, <3>3 DEF TreeCore, TermEdges
      <3>. QED
        BY <3>2, <3>3
    <2>. QED
      BY <2>1, <2>2 DEF TermEdges
  <1>11. Gathered(r)' = {}
    <2>1. \A c \in ChildrenRanks(r) : term'[r][c] = <<1>>
      BY <1>7, TreeEdges
    <2>. QED
      BY <2>1, FlagMessages DEF Gathered
  <1>12. ASSUME NEW q \in Rank, q # r PROVE Gathered(q)' = Gathered(q)
    <2>1. ASSUME NEW c \in ChildrenRanks(q), c = r
          PROVE  c \notin Gathered(q) /\ c \notin Gathered(q)'
      <3>1. q = p /\ r # 0
        BY <2>1, TreeEdges
      <3>2. TermEdge(r) /\ ~term_up'[r]
        BY <1>9, <3>1 DEF TreeCore, TermEdges
      <3>3. term[q][r] # <<>>
        BY <1>2, <3>1, <3>2, FlagMessages DEF TermEdge
      <3>. QED
        BY <2>1, <3>2, <3>3 DEF Gathered
    <2>2. ASSUME NEW c \in ChildrenRanks(q), c # r
          PROVE  /\ term_up'[c] = term_up[c]
                 /\ term'[c][q] = term[c][q] /\ term'[q][c] = term[q][c]
      <3>1. c \in Rank
        BY TreeEdges
      <3>. QED
        BY <1>8, <1>9, <1>12, <2>2, <3>1
    <2>. QED
      BY <2>1, <2>2 DEF Gathered
  <1>13. TermCounts'
    <2>. SUFFICES ASSUME NEW q \in Rank
                  PROVE  /\ term_replies'[q] = Cardinality(Gathered(q)')
                         /\ term_up'[q] => /\ q # 0 /\ ~Done(q)'
                                           /\ term_replies'[q] = getChildrenCount(q)
      BY DEF TermCounts
    <2>1. CASE q = r
      <3>1. term_replies'[q] = 0 /\ ~term_up'[q]
        BY <1>9, <2>1
      <3>. QED
        BY <1>11, <2>1, <3>1, FS_EmptySet
    <2>2. CASE q # r
      BY ZenonT(60), <1>3, <1>9, <1>12, <2>2 DEF TreeCore, TermCounts
    <2>. QED
      BY <2>1, <2>2
  <1>14. TermBarrier'
    <2>1. ~barrier_started[r]
      BY <1>2 DEF TreeCore, TermBarrier
    <2>2. \A q \in Rank : /\ Done(q)' => work_outstanding'[q] = 0
                          /\ barrier_started'[q] =>
                               Done(q)' /\ work_requested_rank'[q] = MPI_PROC_NULL
      BY <1>2, <1>3, <2>1 DEF TreeCore, TermBarrier
    <2>3. \A q, s \in Rank : pc'[q] = "return" => barrier_started'[s]
      BY <1>2 DEF TreeCore, TermBarrier
    <2>. QED
      BY <2>2, <2>3 DEF TermBarrier
  <1>. QED
    BY <1>2, <1>5, <1>10, <1>13, <1>14 DEF Exchanged

\* The root has gathered all its children, and decides.
LEMMA TermRootDecideInv ==
  ASSUME TreeCore, NEW r \in Rank, NEW T \in Gathers(r), TermRootDecide(r, T)
  PROVE  /\ MatchInv' /\ ReceiptAccounting'
         /\ TermEdges' /\ TermCounts' /\ TermBarrier'
         /\ term' \in [Rank -> [Rank -> Seq(Flag)]]
  <1>1. /\ work_outstanding[r] = 0 /\ TermDeliver(r, T, 1)
        /\ Replied(r, T) = getChildrenCount(r)
        /\ getParentRank(r) = MPI_PROC_NULL
    BY DEF TermRootDecide
  <1>2. ~Done(r)
    BY <1>1, IdleEffect DEF TermDeliver
  <1>3. r = 0
    BY <1>1, TreeEdges
  <1>4. /\ T \in SUBSET Rank
        /\ \A c \in T : /\ term_up[c] /\ term[c][r] = <<0>> /\ term[r][c] = <<>>
        /\ Gathered(r) \cup T = ChildrenRanks(r)
    BY ZenonT(60), <1>1, <1>2, GatherFacts, TreeEdges
  <1>5. \A c \in ChildrenRanks(r) : term_up[c] /\ term[r][c] = <<>>
    BY <1>4 DEF Gathered
  <1>6. \A s \in Rank \ T : term[s][r] = <<>>
    <2>. SUFFICES ASSUME NEW s \in Rank \ T, term[s][r] # <<>> PROVE FALSE
      OBVIOUS
    <2>1. s # getParentRank(r)
      BY <1>1, TreeEdges
    <2>2. s \in ChildrenRanks(r)
      BY <2>1, TreeEdges DEF TreeCore, TermEdges
    <2>. QED
      BY <1>4, <2>2 DEF Gathered
  <1>. QED
    BY <1>1, <1>3, <1>4, <1>5, <1>6, DeliverInv

\* The result has come down to a rank that waits for it.
LEMMA TermReceiveInv ==
  ASSUME TreeCore, NEW r \in Rank, TermReceive(r)
  PROVE  /\ MatchInv' /\ ReceiptAccounting'
         /\ TermEdges' /\ TermCounts' /\ TermBarrier'
         /\ term' \in [Rank -> [Rank -> Seq(Flag)]]
  <1>. DEFINE p == getParentRank(r)
  <1>1. /\ work_outstanding[r] = 0 /\ term_up[r] /\ term[p][r] # <<>>
        /\ TermDeliver(r, {p}, Head(term[p][r]))
    BY DEF TermReceive
  <1>2. r \in Rank \ {0} /\ term_replies[r] = getChildrenCount(r)
    BY <1>1 DEF TreeCore, TermCounts
  <1>3. /\ p \in Rank /\ TermEdge(r) /\ p \notin ChildrenRanks(r)
    BY <1>2, TreeEdges DEF TreeCore, TermEdges
  <1>4. term[p][r] = <<1>> /\ term[r][p] = <<>> /\ Done(p)
    BY <1>1, <1>3 DEF TermEdge
  <1>5. TermDeliver(r, {p}, 1)
    BY <1>1, <1>4, FlagMessages
  <1>6. Gathered(r) = ChildrenRanks(r)
    BY <1>2, AllGathered
  <1>7. \A c \in ChildrenRanks(r) : term_up[c] /\ term[r][c] = <<>>
    BY <1>6 DEF Gathered
  <1>8. \A s \in Rank \ {p} : term[s][r] = <<>>
    <2>. SUFFICES ASSUME NEW s \in Rank \ {p}, term[s][r] # <<>> PROVE FALSE
      OBVIOUS
    <2>1. s \in ChildrenRanks(r)
      BY TreeEdges DEF TreeCore, TermEdges
    <2>. QED
      BY <1>6, <2>1 DEF Gathered
  <1>. QED
    BY <1>1, <1>3, <1>4, <1>5, <1>7, <1>8, DeliverInv

\* The rank waits for the result.
LEMMA TermAwaitInv ==
  ASSUME TreeCore, NEW r \in Rank, TermAwait(r)
  PROVE  /\ MatchInv' /\ ReceiptAccounting'
         /\ TermEdges' /\ TermCounts' /\ TermBarrier'
  <1>1. IdleStep(r, FALSE) /\ UNCHANGED <<term_up, term_replies, term>>
    BY DEF TermAwait, termVars
  <1>2. /\ MatchInv' /\ ReceiptAccounting' /\ ~Done(r) /\ ~Done(r)'
        /\ \A q \in Rank \ {r} : pc'[q] = pc[q]
        /\ UNCHANGED <<work_outstanding, barrier_started, work_requested_rank>>
    BY <1>1, IdleEffect
  <1>3. TermBarrier' /\ \A q \in Rank : Done(q)' <=> Done(q)
    BY <1>2, MainLoopBarrier
  <1>4. TermEdges' /\ TermCounts'
    BY <1>1, <1>3, TermlessEdges
  <1>. QED
    BY <1>2, <1>3, <1>4

-----------------------------------------------------------------------------
(* TreeInv is inductive *)

\* The types of the allreduce's variables, the channels left out.
TermTypeOK ==
  /\ term_flag \in [Rank -> Flag]
  /\ term_up \in [Rank -> BOOLEAN]
  /\ term_replies \in [Rank -> Nat]

\* How a step of a rank touches the allreduce.
LEMMA StepKinds ==
  ASSUME NEW r \in Rank, Step(r)
  PROVE  \/ /\ PlainHandler(r, TRUE, "barrierTest")
            /\ UNCHANGED <<term_up, term_replies, term>>
         \/ /\ \E S, sizes, order : ShareWork(r, S, sizes, order)
            /\ UNCHANGED <<term_up, term_replies, term>>
         \/ \E T \in Gathers(r) : \/ TermGather(r, T)
                                  \/ TermSendUp(r, T)
                                  \/ TermRootDecide(r, T)
         \/ TermReceive(r)
         \/ TermAwait(r)
  <1>1. CASE TermlessStep(r)
    <2>1. UNCHANGED <<term_up, term_replies, term>>
      BY <1>1 DEF TermlessStep, termVars
    <2>. QED
      BY <1>1, <2>1 DEF TermlessStep, PlainHandler
  <1>2. CASE TreeReceiptCheck(r)
    BY <1>2 DEF TreeReceiptCheck, PlainHandler
  <1>3. CASE Return(r)
    BY <1>3 DEF Return, PlainHandler, termVars
  <1>4. CASE CheckForTermAllReduce(r)
    BY <1>4 DEF CheckForTermAllReduce
  <1>. QED
    BY <1>1, <1>2, <1>3, <1>4 DEF Step

LEMMA TermTypeStep ==
  ASSUME TreeCore, NEW r \in Rank, Step(r)
  PROVE  TermTypeOK'
  <1>1. TermTypeOK
    BY DEF TreeCore, TypeOK, TermTypeOK
  <1>2. CASE UNCHANGED termVars
    BY <1>1, <1>2 DEF TermTypeOK, termVars
  <1>3. CASE TreeReceiptCheck(r)
    BY <1>1, <1>3 DEF TermTypeOK, TreeReceiptCheck, Flag
  <1>4. ASSUME NEW T \in Gathers(r), CombineFlags(r, T)
        PROVE  term_flag' \in [Rank -> Flag] /\ Replied(r, T) \in Nat
    <2>1. Replied(r, T) \in Nat
      BY <1>1, GathersBound DEF TermTypeOK, Replied
    <2>. QED
      BY <1>1, <1>4, <2>1 DEF TermTypeOK, CombineFlags, Flag
  <1>5. ASSUME NEW T, NEW flag, TermDeliver(r, T, flag)
        PROVE  term_up' \in [Rank -> BOOLEAN] /\ term_replies' \in [Rank -> Nat]
    BY <1>1, <1>5 DEF TermTypeOK, TermDeliver
  <1>6. ASSUME NEW T \in Gathers(r), TermGather(r, T) PROVE TermTypeOK'
    BY <1>1, <1>4, <1>6 DEF TermTypeOK, TermGather
  <1>7. ASSUME NEW T \in Gathers(r), TermSendUp(r, T) PROVE TermTypeOK'
    BY <1>1, <1>4, <1>7 DEF TermTypeOK, TermSendUp
  <1>8. ASSUME NEW T \in Gathers(r), TermRootDecide(r, T) PROVE TermTypeOK'
    BY <1>1, <1>4, <1>5, <1>8 DEF TermTypeOK, TermRootDecide
  <1>9. CASE TermReceive(r)
    BY <1>1, <1>5, <1>9 DEF TermTypeOK, TermReceive
  <1>10. TermlessStep(r) \/ TermAwait(r) \/ Return(r) => UNCHANGED termVars
    BY DEF TermlessStep, TermAwait, Return
  <1>. QED
    BY <1>2, <1>3, <1>6, <1>7, <1>8, <1>9, <1>10 DEF Step, CheckForTermAllReduce

LEMMA TreeCoreInit == Init => TreeCore
  <1>. SUFFICES ASSUME Init PROVE TreeCore
    OBVIOUS
  <1>1. SharingTypeOK
    BY SharingAssumption DEF Init, LoopInit, SharingInit, SharingTypeOK
  <1>2. TypeOK
    BY <1>1, FlagMessages DEF Init, LoopInit, TypeOK, LoopTypeOK, Label, Flag
  <1>3. RequestMatching /\ AskOnEmpty
    BY DEF Init, LoopInit, SharingInit, RequestMatching, AskOnEmpty
  <1>4. ReceiptAccounting
    <2>. SUFFICES ASSUME NEW r \in Rank
                  PROVE  work_outstanding[r] = receipt[r] + Cardinality(WorkSentTo(r))
      BY DEF ReceiptAccounting
    <2>1. WorkSentTo(r) = {}
      BY DEF Init, LoopInit, SharingInit, WorkSentTo
    <2>. QED
      BY <2>1, FS_EmptySet DEF Init, LoopInit, SharingInit
  <1>5. \A r \in Rank : ~Done(r) /\ pc[r] # "return" /\ ~barrier_started[r]
    BY DEF Init, LoopInit, Done, Cleanup
  <1>6. TermEdges
    <2>1. ASSUME NEW c \in Rank \ {0} PROVE TermEdge(c)
      <3>1. getParentRank(c) \in Rank
        BY TreeEdges
      <3>. QED
        BY <1>5, <3>1 DEF Init, TermEdge
    <2>. QED
      BY <2>1 DEF Init, TermEdges
  <1>7. TermCounts
    <2>. SUFFICES ASSUME NEW r \in Rank
                  PROVE  term_replies[r] = Cardinality(Gathered(r)) /\ ~term_up[r]
      BY DEF TermCounts
    <2>1. Gathered(r) = {}
      BY TreeEdges DEF Init, Gathered
    <2>. QED
      BY <2>1, FS_EmptySet DEF Init
  <1>8. TermBarrier
    BY <1>5 DEF TermBarrier
  <1>. QED
    BY <1>2, <1>3, <1>4, <1>6, <1>7, <1>8 DEF TreeCore

LEMMA TreeCoreStep == TreeCore /\ [Next]_vars => TreeCore'
  <1>. SUFFICES ASSUME TreeCore, [Next]_vars PROVE TreeCore'
    OBVIOUS
  <1>1. CASE UNCHANGED vars
    <2>1. /\ UNCHANGED <<sharingVars, pc, barrier_started>>
          /\ UNCHANGED <<term_flag, term_up, term_replies, term>>
      BY <1>1 DEF vars, loopVars, termVars
    <2>2. TypeOK' /\ RequestMatching' /\ AskOnEmpty'
      BY <2>1 DEF sharingVars, TreeCore, TypeOK, LoopTypeOK, SharingTypeOK,
                  RequestMatching, AskOnEmpty
    <2>3. ReceiptAccounting'
      BY <2>1, UnchangedAccount DEF sharingVars, TreeCore
    <2>4. TermEdges' /\ TermCounts'
      BY <2>1, TermlessEdges DEF Done
    <2>5. TermBarrier'
      BY <2>1 DEF sharingVars, TreeCore, TermBarrier, Done
    <2>. QED
      BY <2>2, <2>3, <2>4, <2>5 DEF TreeCore
  <1>2. ASSUME NEW r \in Rank, Step(r) PROVE TreeCore'
    <2>0. term \in [Rank -> [Rank -> Seq(Flag)]]
      BY DEF TreeCore, TypeOK
    <2>1. SUFFICES /\ MatchInv' /\ ReceiptAccounting'
                   /\ TermEdges' /\ TermCounts' /\ TermBarrier'
                   /\ term' \in [Rank -> [Rank -> Seq(Flag)]]
      BY <1>2, TermTypeStep DEF TreeCore, TypeOK, TermTypeOK, MatchInv
    <2>2. CASE PlainHandler(r, TRUE, "barrierTest")
               /\ UNCHANGED <<term_up, term_replies, term>>
      BY <2>0, <2>2, PlainTermInv
    <2>3. CASE (\E S, sizes, order : ShareWork(r, S, sizes, order))
               /\ UNCHANGED <<term_up, term_replies, term>>
      BY <2>0, <2>3, ShareTermInv
    <2>4. CASE \E T \in Gathers(r) : \/ TermGather(r, T)
                                     \/ TermSendUp(r, T)
                                     \/ TermRootDecide(r, T)
      BY <2>4, TermGatherInv, TermSendUpInv, TermRootDecideInv
    <2>5. CASE TermReceive(r)
      BY <2>5, TermReceiveInv
    <2>6. CASE TermAwait(r)
      <3>1. term' = term
        BY <2>6 DEF TermAwait, termVars
      <3>. QED
        BY <2>0, <2>6, <3>1, TermAwaitInv
    <2>. QED
      BY <1>2, <2>2, <2>3, <2>4, <2>5, <2>6, StepKinds
  <1>. QED
    BY <1>1, <1>2 DEF Next, Finished

\* Requests, receipts and TERM messages match what the ranks count of them, in
\* every run with any number of ranks and any width of the tree.
THEOREM TreeInvariant == Spec => []TreeInv
  BY TreeCoreInit, TreeCoreStep, TreeCoreInv, PTL DEF Spec

-----------------------------------------------------------------------------
(* What follows for the cleanup *)

\* work_outstanding, which holds the allreduce back, counts exactly the
\* transfers and receipts under way.
THEOREM ReceiptsAccounted == Spec => []ReceiptAccounting
  <1>1. TreeInv => ReceiptAccounting
    BY DEF TreeInv
  <1>. QED
    BY TreeInvariant, <1>1, PTL

\* "We can be sure that there is both no outstanding work transfer message for
\* this process nor any additional termination allreduce messages to cleanup"
\* (comment before the cleanup loop), but for the result on its way down.
THEOREM CleanupStartsClean == Spec => []TermCleanupOK
  <1>1. TreeInv => TermCleanupOK
    <2>. SUFFICES ASSUME TreeInv, NEW r \in Rank, Done(r)
                  PROVE  /\ work_outstanding[r] = 0 /\ receipt[r] = 0
                         /\ \A s \in Rank : term[s][r] = <<>>
                         /\ \A d \in Rank \ ChildrenRanks(r) : term[r][d] = <<>>
      BY DEF TermCleanupOK, Done
    <2>1. work_outstanding[r] = 0 /\ receipt[r] = 0
      <3>1. work_outstanding[r] = 0
        BY DEF TreeInv, TermBarrier
      <3>2. receipt[r] \in Nat /\ Cardinality(WorkSentTo(r)) \in Nat
        BY RankFinite DEF TreeInv, MessagesMatch, TypeOK, LoopTypeOK, SharingTypeOK,
                          WorkSentTo
      <3>3. work_outstanding[r] = receipt[r] + Cardinality(WorkSentTo(r))
        BY DEF TreeInv, ReceiptAccounting
      <3>. QED
        BY <3>1, <3>2, <3>3
    <2>2. \A c \in Rank \ {0} : TermEdge(c)
      BY DEF TreeInv, TermEdges
    <2>3. ASSUME NEW s \in Rank PROVE term[s][r] = <<>>
      <3>1. CASE s = getParentRank(r)
        <4>1. TermEdge(r)
          BY <2>2, <3>1, TreeEdges
        <4>. QED
          BY <3>1, <4>1 DEF TermEdge
      <3>2. CASE r = getParentRank(s)
        <4>1. TermEdge(s)
          BY <2>2, <3>2, TreeEdges
        <4>. QED
          BY <3>2, <4>1 DEF TermEdge
      <3>. QED
        BY <3>1, <3>2 DEF TreeInv, TermEdges
    <2>4. ASSUME NEW d \in Rank \ ChildrenRanks(r) PROVE term[r][d] = <<>>
      <3>1. r # getParentRank(d)
        BY <2>4, TreeEdges
      <3>2. CASE d = getParentRank(r)
        <4>1. TermEdge(r)
          BY <2>2, <3>2, TreeEdges
        <4>. QED
          BY <3>2, <4>1 DEF TermEdge
      <3>. QED
        BY <3>1, <3>2 DEF TreeInv, TermEdges
    <2>. QED
      BY <2>1, <2>3, <2>4
  <1>. QED
    BY TreeInvariant, <1>1, PTL

\* A rank that has returned has passed the barrier, which every rank enters in
\* the cleanup loop with no request unanswered.
LEMMA BarrierDrains ==
  ASSUME TreeInv, NEW r \in Rank, pc[r] = "return", NEW s \in Rank
  PROVE  Done(s) /\ work_requested_rank[s] = MPI_PROC_NULL
  BY DEF TreeInv, TermBarrier

\* The cleanup loop does its work: when mainLoop returns on any rank, no work
\* request or work reply is on its way between any two ranks.
THEOREM NothingInFlight == Spec => []DrainedAtReturn
  <1>1. TreeInv => DrainedAtReturn
    <2>. SUFFICES ASSUME TreeInv, NEW r \in Rank, pc[r] = "return"
                  PROVE  \A s, d \in Rank : req[s][d] = 0 /\ reply[s][d] = <<>>
      BY DEF DrainedAtReturn
    <2>1. \A s \in Rank : work_requested_rank[s] = MPI_PROC_NULL
      BY BarrierDrains
    <2>2. \A s \in Rank : MPI_PROC_NULL # s
      BY TreeEdges
    <2>3. \A s, d \in Rank : req[s][d] = 0 /\ reply[d][s] = <<>>
      BY <2>1, <2>2 DEF TreeInv, MessagesMatch, RequestMatching
    <2>. QED
      BY <2>3
  <1>. QED
    BY TreeInvariant, <1>1, PTL

\* Nor is a TERM message.
THEOREM NoTermInFlight == Spec => []TermDrainedAtReturn
  <1>1. TreeInv => TermDrainedAtReturn
    <2>. SUFFICES ASSUME TreeInv, NEW r \in Rank, pc[r] = "return",
                         NEW s \in Rank, NEW d \in Rank, term[s][d] # <<>>
                  PROVE  FALSE
      BY DEF TermDrainedAtReturn
    <2>1. Done(s) /\ Done(d)
      BY BarrierDrains
    <2>2. \A c \in Rank \ {0} : TermEdge(c)
      BY DEF TreeInv, TermEdges
    <2>3. CASE s = getParentRank(d)
      <3>1. TermEdge(d)
        BY <2>2, <2>3, TreeEdges
      <3>. QED
        BY <2>1, <2>3, <3>1 DEF TermEdge
    <2>4. CASE d = getParentRank(s)
      <3>1. TermEdge(s)
        BY <2>2, <2>4, TreeEdges
      <3>. QED
        BY <2>1, <2>4, <3>1 DEF TermEdge
    <2>. QED
      BY <2>3, <2>4 DEF TreeInv, TermEdges
  <1>. QED
    BY TreeInvariant, <1>1, PTL

\* "We need to be sure that all sent messages have been received before
\* returning control to the user" (comment before the cleanup loop): with tree
\* termination no receipt is left behind either.
THEOREM NoReceiptLeftBehind == Spec => []NoStrayReceipts
  <1>1. TermCleanupOK => NoStrayReceipts
    BY DEF TermCleanupOK, NoStrayReceipts, Cleanup
  <1>. QED
    BY CleanupStartsClean, <1>1, PTL

=============================================================================
