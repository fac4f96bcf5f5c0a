--------------------------- MODULE MainLoopProofs ---------------------------
(***************************************************************************)
(* Lemmas about the handlers of MainLoop, for any number of ranks: each of *)
(* them preserves LoopTypeOK, RequestMatching and AskOnEmpty, and a rank   *)
(* that is quiet stays quiet unless a rank with work sends it some.  They  *)
(* hold whatever detects termination.                                      *)
(***************************************************************************)
EXTENDS MainLoop, FiniteSetTheorems, SequenceTheorems, TLAPS

\* What the proofs know of the sharing state.
MatchInv == LoopTypeOK /\ RequestMatching /\ AskOnEmpty

-----------------------------------------------------------------------------
(* Constants *)

\* Rank is not empty, and sets of ranks have a cardinality.
LEMMA RankFinite ==
  /\ 0 \in Rank
  /\ \A S \in SUBSET Rank : IsFiniteSet(S) /\ Cardinality(S) \in Nat
  <1>1. N \in Nat \ {0}
    BY SharingAssumption
  <1>2. IsFiniteSet(Rank)
    BY <1>1, FS_Interval DEF Rank
  <1>3. ASSUME NEW S \in SUBSET Rank
        PROVE  IsFiniteSet(S) /\ Cardinality(S) \in Nat
    <2>1. IsFiniteSet(S)
      BY <1>2, FS_Subset
    <2>. QED
      BY <2>1, FS_CardinalityType
  <1>. QED
    BY <1>1, <1>3 DEF Rank

\* A probe comes back with sources that have sent.
LEMMA ProbedSubset ==
  ASSUME NEW tag, NEW sources, NEW S \in Probed(tag, sources)
  PROVE  S \subseteq sources
  BY DEF Probed

\* Every entry of spread_counts is a number of items.
LEMMA SpreadType ==
  ASSUME NEW items \in Nat, NEW ranks \in Nat \ {0}
  PROVE  spread_counts(ranks, items) \in [0 .. ranks - 1 -> Nat]
  <1>1. items \div ranks \in Nat
    BY Z3
  <1>. QED
    BY <1>1 DEF spread_counts

\* The shares of a split are numbers of items.
LEMMA SplitsType ==
  ASSUME NEW c \in Nat \ {0}, NEW rc \in Nat \ {0}, NEW sizes \in Splits(SplitEqual, c, rc)
  PROVE  sizes \in [0 .. rc -> Nat]
  <1>1. CASE SplitEqual
    BY <1>1, SpreadType, rc + 1 \in Nat \ {0}, (rc + 1) - 1 = rc DEF Splits
  <1>2. CASE ~SplitEqual
    <2>1. PICK k \in SendCounts(c) :
            sizes = [i \in 0 .. rc |->
                       IF i = 0 THEN c - k ELSE spread_counts(rc, k)[i - 1]]
      BY <1>2 DEF Splits
    <2>2. k \in 0 .. c - 1 /\ k \in Nat
      BY DEF SendCounts
    <2>3. spread_counts(rc, k) \in [0 .. rc - 1 -> Nat]
      BY <2>2, SpreadType
    <2>. QED
      BY <2>1, <2>2, <2>3
  <1>. QED
    BY <1>1, <1>2, SharingAssumption

-----------------------------------------------------------------------------
(* The sharing operations preserve the types and the matching of requests
   and replies *)

\* A requestor has asked this rank, waits for the answer and has no work.
LEMMA RequestorWaits ==
  ASSUME SharingTypeOK, RequestMatching,
         NEW r \in Rank, NEW s \in Requestors(r)
  PROVE  /\ s \in Rank /\ s # r
         /\ work_requested_rank[s] = r
         /\ count[s] = 0
         /\ req[s][r] = 1
         /\ reply[r][s] = <<>>
  <1>1. s \in Rank /\ req[s][r] \in Nat /\ req[s][r] > 0
    BY DEF Requestors, SharingTypeOK
  <1>2. work_requested_rank[s] = r
    BY <1>1 DEF RequestMatching
  <1>3. r # MPI_PROC_NULL
    BY SharingAssumption DEF Rank, MPI_PROC_NULL
  <1>4. s # r /\ count[s] = 0 /\ req[s][r] + Len(reply[r][s]) = 1
    BY <1>1, <1>2, <1>3 DEF RequestMatching
  <1>5. reply[r][s] \in Seq(Nat) /\ Len(reply[r][s]) \in Nat
    BY <1>1 DEF SharingTypeOK
  <1>6. Len(reply[r][s]) = 0 /\ req[s][r] = 1
    BY <1>1, <1>4, <1>5
  <1>. QED
    BY <1>1, <1>2, <1>4, <1>5, <1>6

\* A reply put on an empty channel is the only message there.
LEMMA AppendEmpty ==
  ASSUME NEW x \in Nat
  PROVE  /\ Append(<<>>, x) \in Seq(Nat)
         /\ Len(Append(<<>>, x)) = 1
         /\ Append(<<>>, x)[1] = x
  <1>1. <<>> \in Seq(Nat) /\ Len(<<>>) = 0
    OBVIOUS
  <1>. QED
    BY <1>1

\* What sendWork and sendNoWork to the requestors of S do to one channel.
LEMMA SendRepliesEffect ==
  ASSUME SharingTypeOK, RequestMatching,
         NEW r \in Rank, NEW S \in SUBSET Requestors(r),
         NEW keep, NEW share, SendReplies(r, S, keep, share),
         NEW q \in Rank, NEW d \in Rank
  PROVE  /\ q \in S /\ d = r => /\ req'[q][d] = 0
                                /\ reply'[d][q] = Append(<<>>, share[q])
         /\ ~(q \in S /\ d = r) => /\ req'[q][d] = req[q][d]
                                   /\ reply'[d][q] = reply[d][q]
  <1>1. \A s \in S : req[s][r] = 1 /\ reply[r][s] = <<>>
    BY RequestorWaits
  <1>2. req'[q] = [req[q] EXCEPT ![r] = IF q \in S THEN @ - 1 ELSE @]
    BY DEF SendReplies
  <1>3. req[q] \in [Rank -> Nat] /\ (q \in S => req[q][r] = 1)
    BY <1>1 DEF SharingTypeOK
  <1>4. reply'[d] = IF d = r THEN [p \in Rank |-> IF p \in S THEN Append(reply[r][p], share[p])
                                                           ELSE reply[r][p]]
                            ELSE reply[d]
    BY DEF SendReplies, SharingTypeOK
  <1>5. reply'[d][q] = IF d = r /\ q \in S THEN Append(reply[r][q], share[q])
                                          ELSE reply[d][q]
    BY <1>4
  <1>6. req'[q][d] = IF d = r /\ q \in S THEN 0 ELSE req[q][d]
    <2>1. CASE d = r /\ q \in S
      BY <1>2, <1>3, <2>1
    <2>2. CASE ~(d = r /\ q \in S)
      BY <1>2, <1>3, <2>2
    <2>. QED
      BY <2>1, <2>2
  <1>. QED
    BY <1>1, <1>5, <1>6

\* sendWork and sendNoWork to the requestors of S.
LEMMA SendRepliesMatch ==
  ASSUME SharingTypeOK, RequestMatching,
         NEW r \in Rank, NEW S \in SUBSET Requestors(r),
         NEW keep \in Nat, NEW share \in [S -> Nat],
         work_requested_rank[r] # MPI_PROC_NULL => keep = 0,
         SendReplies(r, S, keep, share)
  PROVE  SharingTypeOK' /\ RequestMatching'
  <1>1. \A s \in S : /\ s \in Rank /\ s # r /\ work_requested_rank[s] = r
                     /\ req[s][r] = 1 /\ reply[r][s] = <<>>
    BY RequestorWaits
  <1>2. Cardinality({d \in S : share[d] > 0}) \in Nat
    BY <1>1, RankFinite
  <1>3. SharingTypeOK'
    <2>1. req' \in [Rank -> [Rank -> Nat]]
      BY SMTT(30), <1>1 DEF SharingTypeOK, SendReplies
    <2>2. reply' \in [Rank -> [Rank -> Seq(Nat)]]
      BY <1>1 DEF SharingTypeOK, SendReplies
    <2>3. count' \in [Rank -> Nat]
      BY DEF SharingTypeOK, SendReplies
    <2>4. work_outstanding' \in [Rank -> Nat]
      BY <1>2 DEF SharingTypeOK, SendReplies
    <2>. QED
      BY <2>1, <2>2, <2>3, <2>4 DEF SharingTypeOK, SendReplies
  <1>4. ASSUME NEW q \in Rank, NEW d \in Rank
        PROVE  /\ q \in S /\ d = r => /\ req'[q][d] = 0
                                      /\ reply'[d][q] = Append(<<>>, share[q])
               /\ ~(q \in S /\ d = r) => /\ req'[q][d] = req[q][d]
                                         /\ reply'[d][q] = reply[d][q]
    BY SendRepliesEffect
  <1>5. ASSUME NEW q \in Rank
        PROVE  LET asked == work_requested_rank'[q]
               IN  /\ asked # MPI_PROC_NULL =>
                        /\ asked # q
                        /\ count'[q] = 0
                        /\ req'[q][asked] + Len(reply'[asked][q]) = 1
                   /\ \A d \in Rank \ {asked} :
                        req'[q][d] = 0 /\ reply'[d][q] = <<>>
    <2>0. work_requested_rank' = work_requested_rank
          /\ work_requested_rank[q] \in Rank \cup {MPI_PROC_NULL}
      BY DEF SendReplies, SharingTypeOK
    <2>1. CASE q \in S
      <3>1. r # MPI_PROC_NULL
        BY SharingAssumption DEF Rank, MPI_PROC_NULL
      <3>2. count'[q] = 0
        BY <1>1, <2>1, <3>1 DEF SendReplies, RequestMatching, SharingTypeOK
      <3>3. req'[q][r] = 0 /\ reply'[r][q] = Append(<<>>, share[q])
        BY <1>4, <2>1
      <3>4. Len(reply'[r][q]) = 1
        BY <2>1, <3>3, AppendEmpty
      <3>5. \A d \in Rank \ {r} : req'[q][d] = 0 /\ reply'[d][q] = <<>>
        BY <1>1, <1>4, <2>1 DEF RequestMatching
      <3>. QED
        BY <1>1, <2>0, <2>1, <3>2, <3>3, <3>4, <3>5, 0 + 1 = 1
    <2>2. CASE q \notin S
      <3>1. \A d \in Rank : req'[q][d] = req[q][d] /\ reply'[d][q] = reply[d][q]
        BY <1>4, <2>2
      <3>2. work_requested_rank[q] # MPI_PROC_NULL => count'[q] = 0
        BY <2>0 DEF SendReplies, RequestMatching, SharingTypeOK
      <3>. QED
        BY <2>0, <3>1, <3>2 DEF RequestMatching
    <2>. QED
      BY <2>1, <2>2
  <1>. QED
    BY <1>3, <1>5 DEF RequestMatching

\* workReceive takes the only reply there is to this rank.
LEMMA ReceiveReplyMatch ==
  ASSUME SharingTypeOK, RequestMatching, NEW r \in Rank, ReceiveReply(r)
  PROVE  SharingTypeOK' /\ RequestMatching'
  <1>. DEFINE source == work_requested_rank[r]
              items  == Head(reply[source][r])
  <1>1. source \in Rank /\ source # r
    BY DEF ReceiveReply, SharingTypeOK, RequestMatching
  <1>2. /\ reply[source][r] \in Seq(Nat) /\ reply[source][r] # <<>>
        /\ Len(reply[source][r]) \in Nat \ {0}
    BY <1>1 DEF ReceiveReply, SharingTypeOK
  <1>3. items \in Nat /\ Tail(reply[source][r]) \in Seq(Nat)
    BY <1>2
  <1>4. req[r][source] = 0 /\ Len(reply[source][r]) = 1
    <2>1. req[r][source] + Len(reply[source][r]) = 1
      BY DEF RequestMatching, ReceiveReply
    <2>2. req[r][source] \in Nat
      BY <1>1 DEF SharingTypeOK
    <2>3. \A x \in Nat, y \in Nat \ {0} : x + y = 1 => x = 0 /\ y = 1
      OBVIOUS
    <2>. QED
      BY <1>2, <2>1, <2>2, <2>3
  <1>5. Tail(reply[source][r]) = <<>>
    <2>1. Len(Tail(reply[source][r])) = 0
      BY <1>2, <1>4
    <2>. QED
      BY <1>3, <2>1, EmptySeq
  <1>6. reply' = [reply EXCEPT ![source][r] = Tail(reply[source][r])]
    BY DEF ReceiveReply
  <1>7. SharingTypeOK'
    <2>1. count' \in [Rank -> Nat]
      BY <1>3 DEF ReceiveReply, SharingTypeOK
    <2>2. receipt' \in [Rank -> Nat]
      <3>1. receipt' = [receipt EXCEPT ![source] = IF items > 0 THEN @ + 1 ELSE @]
        BY DEF ReceiveReply
      <3>. HIDE DEF source, items
      <3>. QED
        BY SMTT(30), <1>1, <1>3, <3>1 DEF SharingTypeOK
    <2>3. reply' \in [Rank -> [Rank -> Seq(Nat)]]
      BY <1>1, <1>3, <1>6 DEF SharingTypeOK
    <2>4. work_requested_rank' \in [Rank -> Rank \cup {MPI_PROC_NULL}]
      BY DEF ReceiveReply, SharingTypeOK
    <2>. QED
      BY <2>1, <2>2, <2>3, <2>4 DEF ReceiveReply, SharingTypeOK
  <1>8. ASSUME NEW q \in Rank, NEW d \in Rank
        PROVE  /\ q = r /\ d = source => reply'[d][q] = <<>>
               /\ ~(q = r /\ d = source) => reply'[d][q] = reply[d][q]
    BY <1>1, <1>5, <1>6 DEF SharingTypeOK
  <1>9. req' = req
    BY DEF ReceiveReply
  <1>10. \A q \in Rank : IF q = r THEN work_requested_rank'[q] = MPI_PROC_NULL
                                  ELSE /\ work_requested_rank'[q] = work_requested_rank[q]
                                       /\ count'[q] = count[q]
    BY DEF ReceiveReply, SharingTypeOK
  <1>11. \A d \in Rank : req'[r][d] = 0 /\ reply'[d][r] = <<>>
    BY <1>1, <1>4, <1>8, <1>9 DEF RequestMatching
  <1>12. \A q \in Rank \ {r} : \A d \in Rank : reply'[d][q] = reply[d][q]
    BY <1>8
  <1>13. \A q \in Rank : work_requested_rank[q] \in Rank \cup {MPI_PROC_NULL}
    BY DEF SharingTypeOK
  <1>. QED
    BY <1>7, <1>9, <1>10, <1>11, <1>12, <1>13 DEF RequestMatching

\* requestWork sends a request to another rank, or there is none to ask.
LEMMA SendRequestCases ==
  ASSUME SharingTypeOK, NEW r \in Rank, SendRequest(r)
  PROVE  \/ UNCHANGED sharingVars
         \/ \E source \in Rank \ {r} :
              /\ req' = [req EXCEPT ![r][source] = @ + 1]
              /\ work_requested_rank' = [work_requested_rank EXCEPT ![r] = source]
              /\ UNCHANGED <<count, budget, work_outstanding, reply, receipt>>
  <1>1. PICK source \in getNextProc(r) :
          /\ req' = [req EXCEPT ![r] = [d \in Rank |-> IF d = source THEN @[d] + 1
                                                                    ELSE @[d]]]
          /\ work_requested_rank' = [work_requested_rank EXCEPT ![r] = source]
    BY DEF SendRequest
  <1>2. /\ work_requested_rank[r] = MPI_PROC_NULL
        /\ UNCHANGED <<count, budget, work_outstanding, reply, receipt>>
        /\ req \in [Rank -> [Rank -> Nat]]
        /\ work_requested_rank \in [Rank -> Rank \cup {MPI_PROC_NULL}]
    BY DEF SendRequest, SharingTypeOK
  <1>3. CASE source = MPI_PROC_NULL
    <2>1. MPI_PROC_NULL \notin Rank
      BY SharingAssumption DEF Rank, MPI_PROC_NULL
    <2>2. [d \in Rank |-> IF d = source THEN req[r][d] + 1 ELSE req[r][d]] = req[r]
      BY <1>2, <1>3, <2>1
    <2>3. req' = req
      BY <1>1, <1>2, <2>2
    <2>4. work_requested_rank' = work_requested_rank
      BY <1>1, <1>2, <1>3
    <2>. QED
      BY <1>2, <2>3, <2>4 DEF sharingVars
  <1>4. CASE source # MPI_PROC_NULL
    <2>1. source \in Rank \ {r}
      BY <1>1, <1>4 DEF getNextProc
    <2>2. [d \in Rank |-> IF d = source THEN req[r][d] + 1 ELSE req[r][d]] =
            [req[r] EXCEPT ![source] = @ + 1]
      BY <1>2, <2>1
    <2>3. req' = [req EXCEPT ![r][source] = @ + 1]
      BY <1>1, <1>2, <2>2
    <2>. QED
      BY <1>1, <1>2, <2>1, <2>3
  <1>. QED
    BY <1>3, <1>4

\* requestWork sends a request on an empty queue, when none is out.
LEMMA SendRequestMatch ==
  ASSUME SharingTypeOK, RequestMatching, NEW r \in Rank,
         count[r] = 0, SendRequest(r)
  PROVE  SharingTypeOK' /\ RequestMatching'
  <1>1. CASE UNCHANGED sharingVars
    BY <1>1 DEF sharingVars, SharingTypeOK, RequestMatching
  <1>2. ASSUME NEW source \in Rank \ {r},
               req' = [req EXCEPT ![r][source] = @ + 1],
               work_requested_rank' = [work_requested_rank EXCEPT ![r] = source],
               UNCHANGED <<count, budget, work_outstanding, reply, receipt>>
        PROVE  SharingTypeOK' /\ RequestMatching'
    <2>1. \A d \in Rank : req[r][d] = 0 /\ reply[d][r] = <<>>
      BY SharingAssumption DEF SendRequest, RequestMatching, Rank, MPI_PROC_NULL
    <2>2. SharingTypeOK'
      BY SMTT(30), <1>2 DEF SharingTypeOK
    <2>3. \A q, d \in Rank : req'[q][d] = IF q = r /\ d = source THEN 1 ELSE req[q][d]
      <3>1. \A q \in Rank : req'[q] = IF q = r THEN [req[r] EXCEPT ![source] = @ + 1]
                                             ELSE req[q]
        BY <1>2 DEF SharingTypeOK
      <3>2. req[r] \in [Rank -> Nat] /\ req[r][source] + 1 = 1
        BY <1>2, <2>1 DEF SharingTypeOK
      <3>. QED
        BY <3>1, <3>2
    <2>4. \A q \in Rank : work_requested_rank'[q] =
                            IF q = r THEN source ELSE work_requested_rank[q]
      BY <1>2 DEF SharingTypeOK
    <2>5. \A q \in Rank : work_requested_rank[q] \in Rank \cup {MPI_PROC_NULL}
      BY DEF SharingTypeOK
    <2>6. req'[r][source] + Len(reply'[source][r]) = 1
      BY <1>2, <2>1, <2>3
    <2>. QED
      BY <1>2, <2>1, <2>2, <2>3, <2>4, <2>5, <2>6 DEF RequestMatching
  <1>. QED
    BY <1>1, <1>2, SendRequestCases

\* A rank that processes an item has no request out.
LEMMA ProcessItemMatch ==
  ASSUME SharingTypeOK, RequestMatching, NEW r \in Rank, ProcessItem(r)
  PROVE  SharingTypeOK' /\ RequestMatching'
  <1>1. work_requested_rank[r] = MPI_PROC_NULL
    BY DEF ProcessItem, RequestMatching, SharingTypeOK
  <1>2. SharingTypeOK'
    BY SharingAssumption DEF ProcessItem, SharingTypeOK
  <1>3. \A q \in Rank \ {r} : count'[q] = count[q]
    BY DEF ProcessItem, SharingTypeOK
  <1>. QED
    BY <1>1, <1>2, <1>3 DEF ProcessItem, RequestMatching

\* workreceiptCheck takes no more receipts than there are.
LEMMA DrainReceiptsMatch ==
  ASSUME SharingTypeOK, RequestMatching, NEW r \in Rank,
         NEW taken \in 0 .. Takeable(r), DrainReceipts(r, taken)
  PROVE  SharingTypeOK' /\ RequestMatching'
  <1>1. SharingTypeOK'
    BY DEF DrainReceipts, SharingTypeOK, Takeable
  <1>. QED
    BY <1>1 DEF DrainReceipts, RequestMatching

-----------------------------------------------------------------------------
(* A quiet rank stays quiet unless work is sent to it *)

\* At most one reply is on its way to a rank.
LEMMA OneReply ==
  ASSUME SharingTypeOK, RequestMatching, NEW s \in Rank, NEW q \in Rank
  PROVE  /\ reply[s][q] \in Seq(Nat)
         /\ Len(reply[s][q]) \in {0, 1}
         /\ reply[s][q] # <<>> => s = work_requested_rank[q]
  <1>1. reply[s][q] \in Seq(Nat) /\ Len(reply[s][q]) \in Nat
        /\ req[q][s] \in Nat
    BY DEF SharingTypeOK
  <1>2. CASE work_requested_rank[q] = s
    <2>1. s # MPI_PROC_NULL
      BY SharingAssumption DEF Rank, MPI_PROC_NULL
    <2>2. req[q][s] + Len(reply[s][q]) = 1
      BY <1>2, <2>1 DEF RequestMatching
    <2>3. \A x, y \in Nat : x + y = 1 => y \in {0, 1}
      OBVIOUS
    <2>. QED
      BY <1>1, <1>2, <2>2, <2>3
  <1>3. CASE work_requested_rank[q] # s
    <2>1. reply[s][q] = <<>>
      BY <1>3 DEF RequestMatching
    <2>. QED
      BY <1>1, <1>3, <2>1
  <1>. QED
    BY <1>2, <1>3

\* Replies wake no one but the ranks they carry work to.
LEMMA SendRepliesQuiet ==
  ASSUME SharingTypeOK, RequestMatching,
         NEW r \in Rank, NEW S \in SUBSET Requestors(r),
         NEW keep \in Nat, NEW share \in [S -> Nat],
         count[r] = 0 => keep = 0,
         SendReplies(r, S, keep, share),
         NEW q \in Rank
  PROVE  /\ WorkComing(q)' => WorkComing(q) \/ (q \in S /\ share[q] > 0)
         /\ Quiet(q) => Quiet(q)' \/ (q \in S /\ share[q] > 0)
  <1>0. ASSUME NEW s \in Rank
        PROVE  /\ q \in S /\ s = r => /\ req'[q][s] = 0
                                      /\ reply'[s][q] = Append(<<>>, share[q])
               /\ ~(q \in S /\ s = r) => /\ req'[q][s] = req[q][s]
                                         /\ reply'[s][q] = reply[s][q]
    BY ZenonT(60), SendRepliesEffect
  <1>1. ASSUME NEW s \in Rank, NEW i \in 1 .. Len(reply'[s][q]),
               reply'[s][q][i] > 0
        PROVE  WorkComing(q) \/ (q \in S /\ share[q] > 0)
    <2>1. CASE q \in S /\ s = r
      <3>1. reply'[s][q] = Append(<<>>, share[q])
        BY <1>0, <2>1
      <3>2. share[q] \in Nat
        BY <2>1
      <3>3. i = 1 /\ reply'[s][q][1] = share[q]
        BY <3>1, <3>2, AppendEmpty
      <3>. QED
        BY <1>1, <2>1, <3>3
    <2>2. CASE ~(q \in S /\ s = r)
      BY <1>0, <1>1, <2>2 DEF WorkComing
    <2>. QED
      BY <2>1, <2>2
  <1>2. WorkComing(q)' => WorkComing(q) \/ (q \in S /\ share[q] > 0)
    BY <1>1 DEF WorkComing
  <1>3. count[q] = 0 => count'[q] = 0
    BY DEF SendReplies, SharingTypeOK
  <1>. QED
    BY <1>2, <1>3 DEF Quiet

\* Taking a reply wakes no one: its work was already on the way.
LEMMA ReceiveReplyQuiet ==
  ASSUME SharingTypeOK, RequestMatching, NEW r \in Rank, ReceiveReply(r),
         NEW q \in Rank
  PROVE  /\ WorkComing(q)' => WorkComing(q) /\ q # r
         /\ Quiet(q) => Quiet(q)'
  <1>. DEFINE source == work_requested_rank[r]
  <1>1. source \in Rank /\ reply[source][r] # <<>>
    BY DEF ReceiveReply, SharingTypeOK
  <1>2. SharingTypeOK' /\ RequestMatching' /\ work_requested_rank'[r] = MPI_PROC_NULL
    BY ReceiveReplyMatch DEF ReceiveReply, SharingTypeOK
  <1>3. \A d \in Rank : reply'[d][r] = <<>>
    BY <1>2, SharingAssumption DEF RequestMatching, Rank, MPI_PROC_NULL
  <1>4. q # r => \A d \in Rank : reply'[d][q] = reply[d][q]
    BY DEF ReceiveReply, SharingTypeOK
  <1>5. q # r => count'[q] = count[q]
    BY DEF ReceiveReply, SharingTypeOK
  <1>6. WorkComing(q)' => WorkComing(q) /\ q # r
    BY <1>3, <1>4 DEF WorkComing
  <1>7. CASE q = r
    <2>1. Head(reply[source][r]) > 0 => WorkComing(r)
      <3>1. reply[source][r] \in Seq(Nat) /\ Len(reply[source][r]) = 1
        BY <1>1, OneReply, EmptySeq
      <3>2. Head(reply[source][r]) = reply[source][r][1]
        BY <3>1
      <3>. QED
        BY <1>1, <3>1, <3>2 DEF WorkComing
    <2>2. count'[r] = IF Head(reply[source][r]) > 0 THEN Head(reply[source][r])
                                                    ELSE count[r]
      BY DEF ReceiveReply, SharingTypeOK
    <2>. QED
      BY <1>6, <1>7, <2>1, <2>2 DEF Quiet
  <1>8. CASE q # r
    BY <1>5, <1>6, <1>8 DEF Quiet
  <1>. QED
    BY <1>6, <1>7, <1>8

-----------------------------------------------------------------------------
(* The handlers *)

\* No rank is sent work, and no quiet rank gets any.
NoWorkSent ==
  \A q \in Rank : /\ WorkComing(q)' => WorkComing(q)
                  /\ Quiet(q) => Quiet(q)'

LEMMA UnchangedSharing ==
  ASSUME SharingTypeOK, RequestMatching, UNCHANGED sharingVars
  PROVE  SharingTypeOK' /\ RequestMatching' /\ NoWorkSent
  BY DEF sharingVars, SharingTypeOK, RequestMatching, NoWorkSent, Quiet, WorkComing

LEMMA RefuseRequestsOK ==
  ASSUME SharingTypeOK, RequestMatching, NEW r \in Rank,
         NEW S \in SUBSET Requestors(r), RefuseRequests(r, S)
  PROVE  SharingTypeOK' /\ RequestMatching' /\ NoWorkSent /\ count' = count
  <1>. DEFINE share == [d \in S |-> 0]
  <1>1. share \in [S -> Nat] /\ count[r] \in Nat
    BY DEF SharingTypeOK
  <1>2. SendReplies(r, S, count[r], share)
    BY DEF RefuseRequests
  <1>3. work_requested_rank[r] # MPI_PROC_NULL => count[r] = 0
    BY DEF RequestMatching
  <1>4. \A d \in S : ~(share[d] > 0)
    OBVIOUS
  <1>5. count' = count
    BY <1>2 DEF SendReplies, SharingTypeOK
  <1>. HIDE DEF share
  <1>6. SharingTypeOK' /\ RequestMatching'
    BY <1>1, <1>2, <1>3, SendRepliesMatch
  <1>7. ASSUME NEW q \in Rank
        PROVE  /\ WorkComing(q)' => WorkComing(q) \/ (q \in S /\ share[q] > 0)
               /\ Quiet(q) => Quiet(q)' \/ (q \in S /\ share[q] > 0)
    BY <1>1, <1>2, SendRepliesQuiet
  <1>. QED
    BY <1>4, <1>5, <1>6, <1>7 DEF NoWorkSent

LEMMA ReceiveReplyOK ==
  ASSUME SharingTypeOK, RequestMatching, NEW r \in Rank, ReceiveReply(r)
  PROVE  SharingTypeOK' /\ RequestMatching' /\ NoWorkSent
  BY ReceiveReplyMatch, ReceiveReplyQuiet DEF NoWorkSent

LEMMA SendRequestOK ==
  ASSUME SharingTypeOK, RequestMatching, NEW r \in Rank,
         count[r] = 0, SendRequest(r)
  PROVE  SharingTypeOK' /\ RequestMatching' /\ NoWorkSent
  <1>1. count' = count /\ reply' = reply
    BY DEF SendRequest
  <1>. QED
    BY <1>1, SendRequestMatch DEF NoWorkSent, Quiet, WorkComing

LEMMA ProcessItemOK ==
  ASSUME SharingTypeOK, RequestMatching, NEW r \in Rank, ProcessItem(r)
  PROVE  SharingTypeOK' /\ RequestMatching' /\ NoWorkSent
  <1>1. reply' = reply /\ ~Quiet(r) /\ \A q \in Rank \ {r} : count'[q] = count[q]
    BY DEF ProcessItem, SharingTypeOK, Quiet
  <1>. QED
    BY <1>1, ProcessItemMatch DEF NoWorkSent, Quiet, WorkComing

LEMMA DrainReceiptsOK ==
  ASSUME SharingTypeOK, RequestMatching, NEW r \in Rank,
         NEW taken \in 0 .. Takeable(r), DrainReceipts(r, taken)
  PROVE  SharingTypeOK' /\ RequestMatching' /\ NoWorkSent /\ count' = count
  <1>1. reply' = reply /\ count' = count
    BY DEF DrainReceipts
  <1>. QED
    BY <1>1, DrainReceiptsMatch DEF NoWorkSent, Quiet, WorkComing

\* sendWorkToMany wakes only the requestors it gives work to, and the sender
\* had work.
LEMMA ShareQueueOK ==
  ASSUME SharingTypeOK, RequestMatching, NEW r \in Rank, count[r] > 0,
         NEW S \in SUBSET Requestors(r), S # {},
         NEW sizes \in Splits(SplitEqual, count[r], Cardinality(S)),
         NEW order \in Arrivals(S),
         ShareQueue(r, S, sizes, order)
  PROVE  /\ SharingTypeOK' /\ RequestMatching'
         /\ \A q \in Rank :
              /\ WorkComing(q)' => WorkComing(q) \/ (q \in S /\ sizes[order[q]] > 0)
              /\ Quiet(q) => Quiet(q)' \/ (q \in S /\ sizes[order[q]] > 0)
  <1>. DEFINE share == [d \in S |-> sizes[order[d]]]
  <1>1. IsFiniteSet(S) /\ Cardinality(S) \in Nat \ {0}
    <2>1. S \in SUBSET Rank
      BY DEF Requestors
    <2>2. IsFiniteSet(S) /\ Cardinality(S) \in Nat
      BY <2>1, RankFinite
    <2>. QED
      BY <2>2, FS_EmptySet
  <1>2. count[r] \in Nat \ {0}
    BY DEF SharingTypeOK
  <1>3. sizes \in [0 .. Cardinality(S) -> Nat]
    BY <1>1, <1>2, SplitsType
  <1>4. \A d \in S : order[d] \in 1 .. Cardinality(S)
    BY DEF Arrivals
  <1>5. share \in [S -> Nat] /\ sizes[0] \in Nat
    BY <1>1, <1>3, <1>4
  <1>6. SendReplies(r, S, sizes[0], share)
    BY DEF ShareQueue
  <1>7. work_requested_rank[r] = MPI_PROC_NULL
    BY <1>2 DEF RequestMatching
  <1>8. \A d \in S : share[d] = sizes[order[d]]
    OBVIOUS
  <1>. HIDE DEF share
  <1>9. SharingTypeOK' /\ RequestMatching'
    BY <1>5, <1>6, <1>7, SendRepliesMatch
  <1>10. ASSUME NEW q \in Rank
         PROVE  /\ WorkComing(q)' => WorkComing(q) \/ (q \in S /\ share[q] > 0)
                /\ Quiet(q) => Quiet(q)' \/ (q \in S /\ share[q] > 0)
    <2>1. count[r] = 0 => sizes[0] = 0
      BY <1>2
    <2>. QED
      BY <1>5, <1>6, <2>1, SendRepliesQuiet
  <1>. QED
    BY <1>8, <1>9, <1>10

\* The handlers of MainLoop other than ShareWork, with the arguments the
\* termination-detection modules give them.
PlainHandler(r, drained, next) ==
  \/ NoRequest(r)
  \/ RefuseWork(r)
  \/ \E taken \in 0 .. Takeable(r) : WorkreceiptCheck(r, taken)
  \/ RequestWork(r)
  \/ ProcessCallback(r)
  \/ BarrierPending(r, drained)
  \/ BarrierComplete(r, drained)
  \/ CleanupWorkreq(r)
  \/ CleanupRequest(r, next)

\* A move of one rank keeps AskOnEmpty if it does not bring that rank to
\* requestWork with work in its queue, nor add work to another's queue.
LEMMA AskOnEmptyStep ==
  ASSUME LoopTypeOK, AskOnEmpty, NEW r \in Rank, NEW label, Goto(r, label),
         \A q \in Rank \ {r} : count'[q] = count[q],
         label = "requestWork" => count'[r] = 0
  PROVE  AskOnEmpty'
  BY DEF AskOnEmpty, Goto, LoopTypeOK

LEMMA HandlerOK ==
  ASSUME MatchInv, NEW r \in Rank, NEW drained \in BOOLEAN,
         NEW next \in Label \ {"requestWork"},
         PlainHandler(r, drained, next)
  PROVE  MatchInv' /\ NoWorkSent
  <1>. USE DEF MatchInv
  <1>0. SharingTypeOK
    BY DEF LoopTypeOK
  <1>1. ASSUME NEW label \in Label, Goto(r, label), SharingTypeOK',
               RequestMatching', NoWorkSent, barrier_started' \in [Rank -> BOOLEAN],
               \A q \in Rank \ {r} : count'[q] = count[q],
               label = "requestWork" => count'[r] = 0
        PROVE  MatchInv' /\ NoWorkSent
    <2>1. pc' \in [Rank -> Label]
      BY <1>1 DEF Goto, LoopTypeOK
    <2>2. AskOnEmpty'
      BY <1>1, AskOnEmptyStep
    <2>. QED
      BY <1>1, <2>1, <2>2 DEF LoopTypeOK
  <1>2. CASE NoRequest(r)
    <2>1. count' = count /\ barrier_started' = barrier_started
      BY <1>2 DEF NoRequest, sharingVars
    <2>2. SharingTypeOK' /\ RequestMatching' /\ NoWorkSent
      BY <1>0, <1>2, UnchangedSharing DEF NoRequest
    <2>3. "workreceiptCheck" \in Label /\ Goto(r, "workreceiptCheck")
      BY <1>2 DEF NoRequest, Label
    <2>. QED
      BY <1>1, <2>1, <2>2, <2>3 DEF LoopTypeOK
  <1>3. CASE RefuseWork(r)
    <2>1. PICK S \in Probed("WORK_REQUEST", Requestors(r)) : RefuseRequests(r, S)
      BY <1>3 DEF RefuseWork
    <2>2. SharingTypeOK' /\ RequestMatching' /\ NoWorkSent /\ count' = count
      BY <1>0, <2>1, ProbedSubset, RefuseRequestsOK
    <2>3. "workreceiptCheck" \in Label /\ Goto(r, "workreceiptCheck")
      BY <1>3 DEF RefuseWork, Label
    <2>. QED
      BY <1>1, <1>3, <2>2, <2>3 DEF RefuseWork, LoopTypeOK
  <1>4. CASE \E taken \in 0 .. Takeable(r) : WorkreceiptCheck(r, taken)
    <2>1. PICK taken \in 0 .. Takeable(r) : WorkreceiptCheck(r, taken)
      BY <1>4
    <2>2. SharingTypeOK' /\ RequestMatching' /\ NoWorkSent /\ count' = count
      BY <1>0, <2>1, DrainReceiptsOK DEF WorkreceiptCheck
    <2>. DEFINE label == IF count[r] = 0 THEN "requestWork" ELSE "work"
    <2>3. label \in Label /\ Goto(r, label) /\ (label = "requestWork" => count'[r] = 0)
      BY <2>1, <2>2 DEF WorkreceiptCheck, Label
    <2>4. barrier_started' \in [Rank -> BOOLEAN]
      BY <2>1 DEF WorkreceiptCheck, LoopTypeOK
    <2>. HIDE DEF label
    <2>. QED
      BY <1>1, <2>2, <2>3, <2>4
  <1>5. CASE RequestWork(r)
    <2>1. count[r] = 0
      BY <1>5 DEF RequestWork, AskOnEmpty
    <2>2. CASE ReceiveReply(r)
      <3>1. SharingTypeOK' /\ RequestMatching' /\ NoWorkSent
        BY <1>0, <2>2, ReceiveReplyOK
      <3>2. \A q \in Rank \ {r} : count'[q] = count[q]
        BY <1>0, <2>2 DEF ReceiveReply, SharingTypeOK
      <3>. QED
        BY <1>1, <1>5, <3>1, <3>2, "work" \in Label DEF RequestWork, LoopTypeOK, Label
    <2>3. CASE AwaitReply(r)
      <3>1. SharingTypeOK' /\ RequestMatching' /\ NoWorkSent /\ count' = count
        BY <1>0, <2>3, UnchangedSharing DEF AwaitReply, sharingVars
      <3>. QED
        BY <1>1, <1>5, <3>1 DEF RequestWork, LoopTypeOK, Label
    <2>4. CASE SendRequest(r)
      <3>1. SharingTypeOK' /\ RequestMatching' /\ NoWorkSent
        BY <1>0, <2>1, <2>4, SendRequestOK
      <3>2. count' = count
        BY <2>4 DEF SendRequest
      <3>. QED
        BY <1>1, <1>5, <3>1, <3>2 DEF RequestWork, LoopTypeOK, Label
    <2>. QED
      BY <1>5, <2>2, <2>3, <2>4 DEF RequestWork
  <1>6. CASE ProcessCallback(r)
    <2>1. SharingTypeOK' /\ RequestMatching' /\ NoWorkSent
      BY <1>0, <1>6, ProcessItemOK DEF ProcessCallback
    <2>2. \A q \in Rank \ {r} : count'[q] = count[q]
      BY <1>0, <1>6 DEF ProcessCallback, ProcessItem, SharingTypeOK
    <2>. QED
      BY <1>1, <1>6, <2>1, <2>2 DEF ProcessCallback, LoopTypeOK, Label
  <1>7. CASE BarrierPending(r, drained)
    <2>1. SharingTypeOK' /\ RequestMatching' /\ NoWorkSent /\ count' = count
      BY <1>0, <1>7, UnchangedSharing DEF BarrierPending, sharingVars
    <2>2. barrier_started' \in [Rank -> BOOLEAN]
      BY <1>7 DEF BarrierPending, LoopTypeOK
    <2>. QED
      BY <1>1, <1>7, <2>1, <2>2 DEF BarrierPending, Label, Cleanup
  <1>8. CASE BarrierComplete(r, drained)
    <2>1. SharingTypeOK' /\ RequestMatching' /\ NoWorkSent /\ count' = count
      BY <1>0, <1>8, UnchangedSharing DEF BarrierComplete, sharingVars
    <2>2. barrier_started' \in [Rank -> BOOLEAN]
      BY <1>8 DEF BarrierComplete, LoopTypeOK
    <2>. QED
      BY <1>1, <1>8, <2>1, <2>2 DEF BarrierComplete, Label, Cleanup
  <1>9. CASE CleanupWorkreq(r)
    <2>1. PICK S \in Probed("WORK_REQUEST", Requestors(r)) : RefuseRequests(r, S)
      BY <1>9 DEF CleanupWorkreq
    <2>2. SharingTypeOK' /\ RequestMatching' /\ NoWorkSent /\ count' = count
      BY <1>0, <2>1, ProbedSubset, RefuseRequestsOK
    <2>. QED
      BY <1>1, <1>9, <2>2 DEF CleanupWorkreq, LoopTypeOK, Label, Cleanup
  <1>10. CASE CleanupRequest(r, next)
    <2>1. SharingTypeOK' /\ RequestMatching' /\ NoWorkSent
      BY <1>0, <1>10, ReceiveReplyOK, UnchangedSharing DEF CleanupRequest, AwaitReply
    <2>2. \A q \in Rank \ {r} : count'[q] = count[q]
      BY <1>0, <1>10
         DEF CleanupRequest, ReceiveReply, AwaitReply, sharingVars, SharingTypeOK
    <2>. QED
      BY <1>1, <1>10, <2>1, <2>2 DEF CleanupRequest, LoopTypeOK
  <1>. QED
    BY <1>2, <1>3, <1>4, <1>5, <1>6, <1>7, <1>8, <1>9, <1>10 DEF PlainHandler

LEMMA IdleStepOK ==
  ASSUME MatchInv, NEW r \in Rank, NEW terminated, IdleStep(r, terminated)
  PROVE  MatchInv' /\ NoWorkSent
  <1>. DEFINE label == IF terminated THEN "barrierTest" ELSE "workreqCheck"
  <1>1. label \in Label \ {"requestWork"} /\ Goto(r, label)
    BY DEF IdleStep, Label, Cleanup
  <1>2. UNCHANGED sharingVars /\ count' = count /\ barrier_started' = barrier_started
    BY DEF IdleStep, sharingVars
  <1>3. SharingTypeOK' /\ RequestMatching' /\ NoWorkSent
    BY <1>2, UnchangedSharing DEF MatchInv, LoopTypeOK
  <1>. HIDE DEF label
  <1>4. AskOnEmpty'
    BY <1>1, <1>2, AskOnEmptyStep DEF MatchInv
  <1>5. LoopTypeOK'
    BY <1>1, <1>2, <1>3 DEF Goto, MatchInv, LoopTypeOK
  <1>. QED
    BY <1>3, <1>4, <1>5 DEF MatchInv

LEMMA ShareWorkOK ==
  ASSUME MatchInv, NEW r \in Rank, NEW S, NEW sizes, NEW order,
         ShareWork(r, S, sizes, order)
  PROVE  /\ MatchInv'
         /\ ~Quiet(r)
         /\ S \subseteq Rank \ {r}
         /\ \A q \in Rank :
              /\ WorkComing(q)' => WorkComing(q) \/ (q \in S /\ sizes[order[q]] > 0)
              /\ Quiet(q) => Quiet(q)' \/ (q \in S /\ sizes[order[q]] > 0)
  <1>0. SharingTypeOK /\ RequestMatching
    BY DEF MatchInv, LoopTypeOK
  <1>1. S \in SUBSET Requestors(r) /\ S # {} /\ count[r] > 0
    BY ProbedSubset DEF ShareWork
  <1>2. /\ SharingTypeOK' /\ RequestMatching'
        /\ \A q \in Rank :
             /\ WorkComing(q)' => WorkComing(q) \/ (q \in S /\ sizes[order[q]] > 0)
             /\ Quiet(q) => Quiet(q)' \/ (q \in S /\ sizes[order[q]] > 0)
    BY <1>0, <1>1, ShareQueueOK DEF ShareWork
  <1>3. S \subseteq Rank \ {r}
    BY <1>0, <1>1, RequestorWaits
  <1>4. \A q \in Rank \ {r} : count'[q] = count[q]
    BY <1>0 DEF ShareWork, ShareQueue, SendReplies, SharingTypeOK
  <1>5. Goto(r, "workreceiptCheck") /\ "workreceiptCheck" \in Label
    BY DEF ShareWork, Label
  <1>6. AskOnEmpty'
    BY <1>4, <1>5, AskOnEmptyStep DEF MatchInv
  <1>7. LoopTypeOK'
    BY <1>2, <1>5 DEF ShareWork, Goto, MatchInv, LoopTypeOK
  <1>8. ~Quiet(r)
    BY <1>0, <1>1 DEF Quiet, SharingTypeOK
  <1>. QED
    BY <1>2, <1>3, <1>6, <1>7, <1>8 DEF MatchInv

\* A rank that has looked for its reply and still has no work has none coming,
\* if a probe does not miss a reply.
LEMMA LookedForWork ==
  ASSUME MatchInv, "WORK_REPLY" \in PromptTags, NEW r \in Rank, RequestWork(r)
  PROVE  ~WorkComing(r)'
  <1>0. SharingTypeOK /\ RequestMatching /\ count[r] = 0
    BY DEF MatchInv, LoopTypeOK, RequestWork, AskOnEmpty
  <1>1. CASE ReceiveReply(r)
    BY <1>0, <1>1, ReceiveReplyQuiet
  <1>2. CASE AwaitReply(r)
    <2>1. reply[work_requested_rank[r]][r] = <<>>
      BY <1>2 DEF AwaitReply, MayMiss
    <2>2. \A s \in Rank : reply[s][r] = <<>>
      BY <1>0, <2>1 DEF RequestMatching
    <2>. QED
      BY <1>2, <2>2 DEF AwaitReply, sharingVars, WorkComing
  <1>3. CASE SendRequest(r)
    <2>1. \A s \in Rank : reply[s][r] = <<>>
      BY <1>0, <1>3, SharingAssumption
         DEF SendRequest, RequestMatching, Rank, MPI_PROC_NULL
    <2>2. reply' = reply
      BY <1>3 DEF SendRequest
    <2>. QED
      BY <2>1, <2>2 DEF WorkComing
  <1>. QED
    BY <1>1, <1>2, <1>3 DEF RequestWork

\* How a handler moves its rank and the barrier: it stays in its loop, comes
\* to "work" on an empty queue only from requestWork, enters the barrier with
\* nothing outstanding and returns when every rank has entered.
LEMMA HandlerMoves ==
  ASSUME MatchInv, NEW r \in Rank, NEW drained \in BOOLEAN,
         NEW next \in Cleanup \ {"return"},
         PlainHandler(r, drained, next)
  PROVE  /\ \A q \in Rank \ {r} : /\ pc'[q] = pc[q]
                                  /\ count'[q] = count[q]
                                  /\ barrier_started'[q] = barrier_started[q]
                                  /\ work_requested_rank'[q] = work_requested_rank[q]
         /\ pc'[r] \in Cleanup <=> pc[r] \in Cleanup
         /\ pc'[r] = "work" /\ count'[r] = 0 => RequestWork(r)
         /\ barrier_started[r] => barrier_started'[r]
         /\ barrier_started'[r] /\ ~barrier_started[r] =>
              /\ pc[r] \in Cleanup /\ drained
              /\ work_requested_rank[r] = MPI_PROC_NULL
         /\ pc'[r] = "return" => \A s \in Rank : barrier_started'[s]
         /\ pc[r] \in Cleanup /\ work_requested_rank[r] = MPI_PROC_NULL =>
              work_requested_rank'[r] = MPI_PROC_NULL
  <1>0. LoopTypeOK /\ SharingTypeOK
    BY DEF MatchInv, LoopTypeOK
  <1>. USE DEF LoopTypeOK, SharingTypeOK, Goto, Cleanup
  <1>1. CASE NoRequest(r)
    BY <1>0, <1>1 DEF NoRequest, sharingVars
  <1>2. CASE RefuseWork(r)
    BY <1>0, <1>2 DEF RefuseWork, RefuseRequests, SendReplies
  <1>3. CASE \E taken \in 0 .. Takeable(r) : WorkreceiptCheck(r, taken)
    BY <1>0, <1>3 DEF WorkreceiptCheck, DrainReceipts
  <1>4. CASE RequestWork(r)
    <2>1. CASE ReceiveReply(r)
      BY <1>0, <1>4, <2>1 DEF RequestWork, ReceiveReply
    <2>2. CASE AwaitReply(r)
      BY <1>0, <1>4, <2>2 DEF RequestWork, AwaitReply, sharingVars
    <2>3. CASE SendRequest(r)
      BY <1>0, <1>4, <2>3 DEF RequestWork, SendRequest, sharingVars
    <2>. QED
      BY <1>4, <2>1, <2>2, <2>3 DEF RequestWork
  <1>5. CASE ProcessCallback(r)
    BY <1>0, <1>5 DEF ProcessCallback, ProcessItem
  <1>6. CASE BarrierPending(r, drained)
    BY <1>0, <1>6 DEF BarrierPending, sharingVars
  <1>7. CASE BarrierComplete(r, drained)
    BY <1>0, <1>7 DEF BarrierComplete, OthersEntered, sharingVars
  <1>8. CASE CleanupWorkreq(r)
    BY <1>0, <1>8 DEF CleanupWorkreq, RefuseRequests, SendReplies
  <1>9. CASE CleanupRequest(r, next)
    <2>1. CASE ReceiveReply(r)
      BY <1>0, <1>9, <2>1 DEF CleanupRequest, ReceiveReply
    <2>2. CASE UNCHANGED sharingVars
      BY <1>0, <1>9, <2>2 DEF CleanupRequest, sharingVars
    <2>. QED
      BY <1>9, <2>1, <2>2 DEF CleanupRequest, AwaitReply
  <1>. QED
    BY <1>1, <1>2, <1>3, <1>4, <1>5, <1>6, <1>7, <1>8, <1>9 DEF PlainHandler

-----------------------------------------------------------------------------
(* work_outstanding: every handler keeps the account of the transfers *)

\* A handler that moves no work and no receipt keeps the account.
LEMMA UnchangedAccount ==
  ASSUME ReceiptAccounting, UNCHANGED <<work_outstanding, receipt, reply>>
  PROVE  ReceiptAccounting'
  <1>1. \A q \in Rank : WorkSentTo(q)' = WorkSentTo(q)
    BY DEF WorkSentTo
  <1>. QED
    BY <1>1 DEF ReceiptAccounting

\* The only message on a channel.
LEMMA SingleMessage ==
  ASSUME NEW s \in Seq(Nat), Len(s) = 1
  PROVE  Head(s) = s[1] /\ Tail(s) = <<>>
  <1>1. s # <<>>
    BY EmptySeq, 0 # 1, Zenon
  <1>2. Head(s) = s[1]
    BY <1>1
  <1>3. Tail(s) \in Seq(Nat) /\ Len(Tail(s)) = 0
    BY <1>1
  <1>. QED
    BY <1>2, <1>3, EmptySeq

\* sendWork counts every transfer it starts, once: the receiver had no reply
\* on its way.
LEMMA SendRepliesAccount ==
  ASSUME SharingTypeOK, RequestMatching, ReceiptAccounting,
         NEW r \in Rank, NEW S \in SUBSET Requestors(r),
         NEW keep, NEW share \in [S -> Nat], SendReplies(r, S, keep, share)
  PROVE  ReceiptAccounting'
  <1>. DEFINE given == {d \in S : share[d] > 0}
  <1>1. \A s \in S : s \in Rank /\ reply[r][s] = <<>>
    BY RequestorWaits
  <1>2. ASSUME NEW q \in Rank, NEW d \in Rank
        PROVE  /\ q \in S /\ d = r => /\ req'[q][d] = 0
                                      /\ reply'[d][q] = Append(<<>>, share[q])
               /\ ~(q \in S /\ d = r) => /\ req'[q][d] = req[q][d]
                                         /\ reply'[d][q] = reply[d][q]
    BY SendRepliesEffect
  <1>3. ASSUME NEW q \in Rank, q # r PROVE WorkSentTo(q)' = WorkSentTo(q)
    <2>1. \A d \in Rank : reply'[q][d] = reply[q][d]
      BY <1>2, <1>3
    <2>. QED
      BY <2>1 DEF WorkSentTo
  <1>4. WorkSentTo(r)' = WorkSentTo(r) \cup given
    <2>1. ASSUME NEW d \in Rank
          PROVE  d \in WorkSentTo(r)' <=> d \in WorkSentTo(r) \cup given
      <3>1. CASE d \in S
        <4>1. reply'[r][d] = Append(<<>>, share[d]) /\ share[d] \in Nat
          BY <1>2, <3>1
        <4>2. Len(reply'[r][d]) = 1 /\ reply'[r][d][1] = share[d]
          BY <4>1, AppendEmpty
        <4>3. 1 \in 1 .. 1 /\ \A i \in 1 .. 1 : i = 1
          OBVIOUS
        <4>4. d \in WorkSentTo(r)' <=> share[d] > 0
          BY <4>2, <4>3 DEF WorkSentTo
        <4>5. d \notin WorkSentTo(r)
          BY <1>1, <3>1 DEF WorkSentTo
        <4>. QED
          BY <3>1, <4>4, <4>5
      <3>2. CASE d \notin S
        BY <1>2, <3>2 DEF WorkSentTo
      <3>. QED
        BY <3>1, <3>2
    <2>2. WorkSentTo(r)' \subseteq Rank /\ WorkSentTo(r) \subseteq Rank /\ given \subseteq Rank
      BY <1>1 DEF WorkSentTo
    <2>. QED
      BY <2>1, <2>2
  <1>5. WorkSentTo(r) \cap given = {}
    BY <1>1 DEF WorkSentTo
  <1>6. /\ IsFiniteSet(given) /\ IsFiniteSet(WorkSentTo(r))
        /\ Cardinality(given) \in Nat /\ Cardinality(WorkSentTo(r)) \in Nat
    BY <1>1, RankFinite DEF WorkSentTo
  <1>7. Cardinality(WorkSentTo(r)') = Cardinality(WorkSentTo(r)) + Cardinality(given)
    <2>. HIDE DEF given
    <2>1. Cardinality(WorkSentTo(r) \cup given) =
            Cardinality(WorkSentTo(r)) + Cardinality(given)
              - Cardinality(WorkSentTo(r) \cap given)
      BY <1>6, FS_Union
    <2>. QED
      <3>1. Cardinality(WorkSentTo(r) \cap given) = 0
        BY <1>5, FS_EmptySet
      <3>2. \A x, y \in Nat : x + y - 0 = x + y
        OBVIOUS
      <3>. QED
        BY <1>4, <1>6, <2>1, <3>1, <3>2
  <1>8. /\ receipt' = receipt
        /\ \A q \in Rank : work_outstanding'[q] =
             IF q = r THEN work_outstanding[r] + Cardinality(given)
                      ELSE work_outstanding[q]
    BY DEF SendReplies, SharingTypeOK
  <1>. HIDE DEF given
  <1>9. work_outstanding[r] \in Nat /\ receipt[r] \in Nat
    BY DEF SharingTypeOK
  <1>10. work_outstanding'[r] = receipt'[r] + Cardinality(WorkSentTo(r)')
    BY <1>6, <1>7, <1>8, <1>9 DEF ReceiptAccounting
  <1>. QED
    BY <1>3, <1>8, <1>10 DEF ReceiptAccounting

\* workReceive turns a transfer into its receipt.
LEMMA ReceiveReplyAccount ==
  ASSUME SharingTypeOK, RequestMatching, ReceiptAccounting,
         NEW r \in Rank, ReceiveReply(r)
  PROVE  ReceiptAccounting'
  <1>1. PICK source \in Rank : /\ source = work_requested_rank[r]
                               /\ reply[source][r] # <<>>
    BY DEF ReceiveReply, SharingTypeOK
  <1>. DEFINE items == Head(reply[source][r])
  <1>2. reply[source][r] \in Seq(Nat) /\ Len(reply[source][r]) = 1
    BY <1>1, OneReply, EmptySeq
  <1>3. items = reply[source][r][1] /\ Tail(reply[source][r]) = <<>>
    BY <1>2, SingleMessage
  <1>4. /\ reply' = [reply EXCEPT ![source][r] = Tail(reply[source][r])]
        /\ receipt' = [receipt EXCEPT ![source] = IF items > 0 THEN @ + 1 ELSE @]
        /\ work_outstanding' = work_outstanding
    BY <1>1 DEF ReceiveReply
  <1>. HIDE DEF items
  <1>5. \A s, d \in Rank :
          reply'[s][d] = IF s = source /\ d = r THEN <<>> ELSE reply[s][d]
    BY <1>1, <1>3, <1>4 DEF SharingTypeOK
  <1>6. ASSUME NEW q \in Rank, q # source PROVE WorkSentTo(q)' = WorkSentTo(q)
    <2>1. \A d \in Rank : reply'[q][d] = reply[q][d]
      BY <1>5, <1>6
    <2>. QED
      BY <2>1 DEF WorkSentTo
  <1>7. WorkSentTo(source)' = WorkSentTo(source) \ {r}
    <2>1. reply'[source][r] = <<>> /\ \A d \in Rank \ {r} : reply'[source][d] = reply[source][d]
      BY <1>1, <1>5
    <2>2. \A d \in Rank \ {r} : d \in WorkSentTo(source)' <=> d \in WorkSentTo(source)
      BY <2>1 DEF WorkSentTo
    <2>3. r \notin WorkSentTo(source)'
      BY <2>1 DEF WorkSentTo
    <2>4. WorkSentTo(source)' \subseteq Rank /\ WorkSentTo(source) \subseteq Rank
      BY DEF WorkSentTo
    <2>. QED
      BY <2>2, <2>3, <2>4
  <1>8. r \in WorkSentTo(source) <=> items > 0
    <2>1. 1 \in 1 .. 1 /\ \A i \in 1 .. 1 : i = 1
      OBVIOUS
    <2>. QED
      BY <1>2, <1>3, <2>1 DEF WorkSentTo
  <1>9. IsFiniteSet(WorkSentTo(source)) /\ Cardinality(WorkSentTo(source)) \in Nat
    BY RankFinite DEF WorkSentTo
  <1>10. Cardinality(WorkSentTo(source)') =
           IF items > 0 THEN Cardinality(WorkSentTo(source)) - 1
                        ELSE Cardinality(WorkSentTo(source))
    BY <1>7, <1>8, <1>9, FS_RemoveElement
  <1>11. \A q \in Rank : receipt'[q] =
           IF q = source /\ items > 0 THEN receipt[q] + 1 ELSE receipt[q]
    BY <1>1, <1>4 DEF SharingTypeOK
  <1>12. receipt[source] \in Nat /\ work_outstanding[source] \in Nat
    BY <1>1 DEF SharingTypeOK
  <1>13. work_outstanding'[source] = receipt'[source] + Cardinality(WorkSentTo(source)')
    <2>1. work_outstanding[source] = receipt[source] + Cardinality(WorkSentTo(source))
      BY <1>1 DEF ReceiptAccounting
    <2>2. receipt'[source] = IF items > 0 THEN receipt[source] + 1 ELSE receipt[source]
      BY <1>1, <1>11
    <2>. QED
      BY <1>4, <1>9, <1>10, <1>12, <2>1, <2>2
  <1>. QED
    BY <1>4, <1>6, <1>11, <1>13 DEF ReceiptAccounting

\* workreceiptCheck counts off the receipts it takes.
LEMMA DrainReceiptsAccount ==
  ASSUME SharingTypeOK, ReceiptAccounting, NEW r \in Rank,
         NEW taken \in 0 .. Takeable(r), DrainReceipts(r, taken)
  PROVE  ReceiptAccounting'
  <1>1. \A q \in Rank : WorkSentTo(q)' = WorkSentTo(q)
    BY DEF DrainReceipts, WorkSentTo
  <1>2. \A q \in Rank : Cardinality(WorkSentTo(q)) \in Nat
    BY RankFinite DEF WorkSentTo
  <1>3. /\ \A q \in Rank : receipt'[q] = IF q = r THEN receipt[q] - taken ELSE receipt[q]
        /\ \A q \in Rank : work_outstanding'[q] =
             IF q = r THEN work_outstanding[q] - taken ELSE work_outstanding[q]
    BY DEF DrainReceipts, SharingTypeOK
  <1>4. taken \in Int /\ receipt[r] \in Nat /\ work_outstanding[r] \in Nat
    BY DEF SharingTypeOK
  <1>. QED
    BY <1>1, <1>2, <1>3, <1>4 DEF ReceiptAccounting

\* The handlers keep the account, change only their own rank's counter, and
\* leave it alone in the cleanup loop.
LEMMA HandlerAccount ==
  ASSUME MatchInv, ReceiptAccounting, NEW r \in Rank, NEW drained, NEW next,
         PlainHandler(r, drained, next)
  PROVE  /\ ReceiptAccounting'
         /\ \A q \in Rank \ {r} : work_outstanding'[q] = work_outstanding[q]
         /\ pc[r] \in Cleanup => work_outstanding' = work_outstanding
  <1>0. SharingTypeOK /\ RequestMatching
    BY DEF MatchInv, LoopTypeOK
  <1>1. CASE UNCHANGED <<work_outstanding, receipt, reply>>
    BY <1>1, UnchangedAccount
  <1>2. ASSUME NEW S \in Probed("WORK_REQUEST", Requestors(r)), RefuseRequests(r, S)
        PROVE  ReceiptAccounting' /\ work_outstanding' = work_outstanding
    <2>. DEFINE share == [d \in S |-> 0]
    <2>1. share \in [S -> Nat] /\ SendReplies(r, S, count[r], share)
      BY <1>2 DEF RefuseRequests
    <2>2. {d \in S : share[d] > 0} = {}
      OBVIOUS
    <2>. HIDE DEF share
    <2>3. ReceiptAccounting'
      BY <1>0, <2>1, ProbedSubset, SendRepliesAccount
    <2>4. work_outstanding' = work_outstanding
      <3>1. work_outstanding' = [work_outstanding EXCEPT ![r] =
                                   @ + Cardinality({d \in S : share[d] > 0})]
        BY <2>1 DEF SendReplies
      <3>2. Cardinality({d \in S : share[d] > 0}) = 0
        BY <2>2, FS_EmptySet
      <3>. QED
        BY <1>0, <3>1, <3>2 DEF SharingTypeOK
    <2>. QED
      BY <2>3, <2>4
  <1>3. CASE ReceiveReply(r)
    BY <1>0, <1>3, ReceiveReplyAccount DEF ReceiveReply
  <1>4. ASSUME NEW taken \in 0 .. Takeable(r), WorkreceiptCheck(r, taken)
        PROVE  /\ ReceiptAccounting' /\ pc[r] \notin Cleanup
               /\ \A q \in Rank \ {r} : work_outstanding'[q] = work_outstanding[q]
    BY <1>0, <1>4, DrainReceiptsAccount
       DEF WorkreceiptCheck, DrainReceipts, SharingTypeOK, Cleanup
  <1>5. CASE RequestWork(r) \/ CleanupRequest(r, next)
    BY <1>1, <1>3, <1>5
       DEF RequestWork, CleanupRequest, AwaitReply, SendRequest, sharingVars
  <1>6. CASE RefuseWork(r) \/ CleanupWorkreq(r)
    BY <1>2, <1>6 DEF RefuseWork, CleanupWorkreq
  <1>7. CASE NoRequest(r) \/ ProcessCallback(r) \/ BarrierPending(r, drained)
             \/ BarrierComplete(r, drained)
    BY <1>1, <1>7 DEF NoRequest, ProcessCallback, ProcessItem, BarrierPending,
                      BarrierComplete, sharingVars
  <1>. QED
    BY <1>4, <1>5, <1>6, <1>7 DEF PlainHandler

LEMMA ShareWorkAccount ==
  ASSUME MatchInv, ReceiptAccounting, NEW r \in Rank, NEW S, NEW sizes, NEW order,
         ShareWork(r, S, sizes, order)
  PROVE  /\ ReceiptAccounting'
         /\ \A q \in Rank \ {r} : work_outstanding'[q] = work_outstanding[q]
  <1>. DEFINE share == [d \in S |-> sizes[order[d]]]
  <1>0. SharingTypeOK /\ RequestMatching
    BY DEF MatchInv, LoopTypeOK
  <1>1. S \in SUBSET Requestors(r) /\ S # {} /\ count[r] \in Nat \ {0}
    BY <1>0, ProbedSubset DEF ShareWork, SharingTypeOK
  <1>2. Cardinality(S) \in Nat \ {0}
    <2>1. S \in SUBSET Rank
      BY <1>1 DEF Requestors
    <2>. QED
      BY <1>1, <2>1, RankFinite, FS_EmptySet
  <1>3. sizes \in [0 .. Cardinality(S) -> Nat]
    BY <1>1, <1>2, SplitsType DEF ShareWork
  <1>4. \A d \in S : order[d] \in 1 .. Cardinality(S)
    BY DEF ShareWork, Arrivals
  <1>5. share \in [S -> Nat]
    BY <1>2, <1>3, <1>4
  <1>6. SendReplies(r, S, sizes[0], share)
    BY DEF ShareWork, ShareQueue
  <1>. HIDE DEF share
  <1>7. ReceiptAccounting'
    BY <1>0, <1>1, <1>5, <1>6, SendRepliesAccount
  <1>. QED
    BY <1>0, <1>6, <1>7 DEF SendReplies, SharingTypeOK

=============================================================================
