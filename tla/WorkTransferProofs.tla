------------------------- MODULE WorkTransferProofs -------------------------
(***************************************************************************)
(* The interrupted handlers of WorkTransfer, for any number of ranks and   *)
(* queues of any length, and whatever MPI does with the messages it need   *)
(* not copy: TransferInv is inductive, and with it the loop of a sender    *)
(* stays within its queue, the two messages of a transfer stay together,   *)
(* no rank waits for a rank that waits, and every step is one of the       *)
(* handlers of WorkSharing or none.                                        *)
(***************************************************************************)
EXTENDS WorkTransferInv, FiniteSetTheorems, SequenceTheorems, TLAPS

-----------------------------------------------------------------------------
(* sendWorkToMany's division of the queue, for queues of any length and any
   number of requestors *)

\* The quotient and the remainder spread_counts computes.
LEMMA DivisionLemma ==
  ASSUME NEW held \in Nat, NEW ranks \in Nat \ {0}
  PROVE  /\ held \div ranks \in Nat
         /\ (held \div ranks) * ranks \in Nat
         /\ held - (held \div ranks) * ranks \in 0 .. ranks - 1
  BY Z3

\* Every entry of spread_counts is a number of items: sendWork is never asked
\* to send a negative count.
LEMMA SpreadType ==
  ASSUME NEW held \in Nat, NEW ranks \in Nat \ {0}
  PROVE  spread_counts(ranks, held) \in [0 .. ranks - 1 -> Nat]
  <1>1. held \div ranks \in Nat
    BY DivisionLemma
  <1>. QED
    BY <1>1 DEF spread_counts

\* The sender keeps at least one item, whatever the split.
LEMMA SendCountsType ==
  ASSUME NEW held \in Nat \ {0}, NEW k \in SendCounts(held)
  PROVE  k \in 0 .. held - 1
  BY DEF SendCounts

\* Spread is the sum of the entries of spread_counts.
LEMMA SpreadSum ==
  ASSUME NEW held \in Nat, NEW ranks \in Nat \ {0}
  PROVE  /\ Spread(ranks, held, 0) = 0
         /\ Spread(ranks, held, ranks) = held
         /\ \A k \in 0 .. ranks - 1 :
              /\ Spread(ranks, held, k) \in Nat
              /\ Spread(ranks, held, k + 1) =
                   Spread(ranks, held, k) + spread_counts(ranks, held)[k]
              /\ Spread(ranks, held, k + 1) <= held
  <1>. DEFINE base  == held \div ranks
              extra == held - base * ranks
  <1>1. base \in Nat /\ extra \in 0 .. ranks - 1 /\ base * ranks = held - extra
    <2>1. base \in Nat /\ base * ranks \in Nat /\ extra \in 0 .. ranks - 1
      BY DivisionLemma
    <2>2. extra = held - base * ranks
      OBVIOUS
    <2>. HIDE DEF base, extra
    <2>. QED
      BY <2>1, <2>2
  <1>2. \A k \in 0 .. ranks : Spread(ranks, held, k) =
                                k * base + (IF k < extra THEN k ELSE extra)
    BY DEF Spread
  <1>3. \A k \in 0 .. ranks - 1 : spread_counts(ranks, held)[k] =
                                    IF k < extra THEN base + 1 ELSE base
    BY DEF spread_counts
  <1>. HIDE DEF base, extra
  <1>4. \A k \in 0 .. ranks - 1 : /\ k * base \in Nat
                                  /\ (k + 1) * base = k * base + base
                                  /\ (k + 1) * base <= base * ranks
    BY <1>1, Z3
  <1>5. 0 * base = 0 /\ ranks * base = base * ranks
    BY <1>1
  <1>6. 0 \in 0 .. ranks /\ ranks \in 0 .. ranks
    OBVIOUS
  <1>7. Spread(ranks, held, 0) = 0 /\ Spread(ranks, held, ranks) = held
    BY <1>1, <1>2, <1>5, <1>6
  <1>8. ASSUME NEW k \in 0 .. ranks - 1
        PROVE  /\ Spread(ranks, held, k) \in Nat
               /\ Spread(ranks, held, k + 1) =
                    Spread(ranks, held, k) + spread_counts(ranks, held)[k]
               /\ Spread(ranks, held, k + 1) <= held
    <2>1. /\ Spread(ranks, held, k) = k * base + (IF k < extra THEN k ELSE extra)
          /\ Spread(ranks, held, k + 1) =
               (k + 1) * base + (IF k + 1 < extra THEN k + 1 ELSE extra)
      BY <1>2
    <2>. QED
      BY <1>1, <1>3, <1>4, <2>1
  <1>. QED
    BY <1>7, <1>8

\* Whatever the split, every share is a number of items.
LEMMA SplitType ==
  ASSUME NEW equal \in BOOLEAN, NEW held \in Nat \ {0},
         NEW rcount \in Nat \ {0}, NEW shares \in Splits(equal, held, rcount)
  PROVE  shares \in [0 .. rcount -> Nat]
  <1>1. CASE equal
    <2>1. shares = spread_counts(rcount + 1, held) /\ (rcount + 1) - 1 = rcount
          /\ rcount + 1 \in Nat \ {0}
      BY <1>1 DEF Splits
    <2>. QED
      BY <2>1, SpreadType
  <1>2. CASE ~equal
    <2>1. PICK given \in SendCounts(held) :
            shares = [j \in 0 .. rcount |->
                       IF j = 0 THEN held - given
                                ELSE spread_counts(rcount, given)[j - 1]]
      BY <1>2 DEF Splits
    <2>2. given \in 0 .. held - 1 /\ given \in Nat
      BY <2>1, SendCountsType
    <2>3. spread_counts(rcount, given) \in [0 .. rcount - 1 -> Nat]
      BY <2>2, SpreadType
    <2>. QED
      BY <2>1, <2>2, <2>3
  <1>. QED
    BY <1>1, <1>2

\* The shares before the loop: the sender's own is positive, the next one is
\* the difference of two sums, and no sum exceeds what may be given away.
LEMMA Shares ==
  ASSUME NEW equal \in BOOLEAN, NEW held \in Nat \ {0},
         NEW rcount \in Nat \ {0}, NEW shares \in Splits(equal, held, rcount)
  PROVE  LET Given(k) == SentBefore(equal, held, rcount, shares[0], k)
         IN  /\ shares[0] >= 1
             /\ Given(0) = 0
             /\ Given(rcount) = held - shares[0]
             /\ \A k \in 0 .. rcount - 1 :
                  /\ Given(k) \in Int
                  /\ Given(k + 1) = Given(k) + shares[k + 1]
                  /\ Given(k + 1) <= held - shares[0]
  <1>. DEFINE Given(k) == SentBefore(equal, held, rcount, shares[0], k)
  <1>0. /\ held \in Nat \ {0} /\ rcount \in Nat \ {0} /\ rcount + 1 \in Nat \ {0}
        /\ shares \in [0 .. rcount -> Nat]
    BY SplitType
  <1>1. CASE equal
    <2>1. shares = spread_counts(rcount + 1, held)
      BY <1>1 DEF Splits
    <2>2. /\ 0 \in 0 .. rcount
          /\ \A k \in 0 .. rcount - 1 : k + 1 \in 0 .. rcount
          /\ 0 .. (rcount + 1) - 1 = 0 .. rcount
      BY <1>0
    <2>3. \A k \in Int : Given(k) = Spread(rcount + 1, held, k + 1) - shares[0]
      BY <1>1 DEF SentBefore
    <2>4. /\ Spread(rcount + 1, held, 0) = 0
          /\ Spread(rcount + 1, held, rcount + 1) = held
          /\ \A k \in 0 .. rcount :
               /\ Spread(rcount + 1, held, k) \in Nat
               /\ Spread(rcount + 1, held, k + 1) =
                    Spread(rcount + 1, held, k) + shares[k]
               /\ Spread(rcount + 1, held, k + 1) <= held
      <3>. DEFINE ranks == rcount + 1
      <3>1. ranks \in Nat \ {0} /\ held \in Nat /\ 0 .. ranks - 1 = 0 .. rcount
        BY <1>0
      <3>2. shares = spread_counts(ranks, held)
        BY <2>1
      <3>. HIDE DEF ranks
      <3>3. /\ Spread(ranks, held, 0) = 0
            /\ Spread(ranks, held, ranks) = held
            /\ \A k \in 0 .. rcount :
                 /\ Spread(ranks, held, k) \in Nat
                 /\ Spread(ranks, held, k + 1) = Spread(ranks, held, k) + shares[k]
                 /\ Spread(ranks, held, k + 1) <= held
        <4>1. /\ Spread(ranks, held, 0) = 0
              /\ Spread(ranks, held, ranks) = held
              /\ \A k \in 0 .. ranks - 1 :
                   /\ Spread(ranks, held, k) \in Nat
                   /\ Spread(ranks, held, k + 1) =
                        Spread(ranks, held, k) + spread_counts(ranks, held)[k]
                   /\ Spread(ranks, held, k + 1) <= held
          BY <3>1, SpreadSum, Zenon
        <4>. QED
          BY <3>1, <3>2, <4>1
      <3>. QED
        BY <3>3 DEF ranks
    <2>5. Spread(rcount + 1, held, 1) = shares[0]
      <3>1. Spread(rcount + 1, held, 0 + 1) = Spread(rcount + 1, held, 0) + shares[0]
        BY <2>2, <2>4
      <3>. QED
        BY <1>0, <2>2, <2>4, <3>1
    <2>6. shares[0] >= 1
      <3>. DEFINE base  == held \div (rcount + 1)
                  extra == held - base * (rcount + 1)
      <3>1. base \in Nat /\ extra \in 0 .. rcount /\ base * (rcount + 1) = held - extra
        <4>1. base \in Nat /\ base * (rcount + 1) \in Nat /\ extra \in 0 .. (rcount + 1) - 1
          BY <1>0, DivisionLemma
        <4>2. extra = held - base * (rcount + 1)
          OBVIOUS
        <4>. HIDE DEF base, extra
        <4>. QED
          BY <1>0, <4>1, <4>2
      <3>2. shares[0] = IF 0 < extra THEN base + 1 ELSE base
        BY <2>1, <2>2 DEF spread_counts
      <3>. HIDE DEF base, extra
      <3>3. base = 0 => base * (rcount + 1) = 0
        BY <1>0
      <3>. QED
        BY <1>0, <3>1, <3>2, <3>3
    <2>7. ASSUME NEW k \in 0 .. rcount - 1
          PROVE  /\ Given(k) \in Int
                 /\ Given(k + 1) = Given(k) + shares[k + 1]
                 /\ Given(k + 1) <= held - shares[0]
      <3>1. k + 1 \in 0 .. rcount /\ k \in Int /\ k + 1 \in Int /\ shares[0] \in Int
            /\ shares[k + 1] \in Int
        BY <1>0, <2>2
      <3>2. /\ Spread(rcount + 1, held, k + 1) \in Nat
            /\ Spread(rcount + 1, held, (k + 1) + 1) =
                 Spread(rcount + 1, held, k + 1) + shares[k + 1]
            /\ Spread(rcount + 1, held, (k + 1) + 1) <= held
        BY <2>4, <3>1
      <3>3. /\ Given(k) = Spread(rcount + 1, held, k + 1) - shares[0]
            /\ Given(k + 1) = Spread(rcount + 1, held, (k + 1) + 1) - shares[0]
        BY <2>3, <3>1
      <3>4. Spread(rcount + 1, held, (k + 1) + 1) \in Int
        BY <3>1, <3>2
      <3>. QED
        BY <1>0, <3>1, <3>2, <3>3, <3>4
    <2>8. Given(0) = 0 /\ Given(rcount) = held - shares[0]
      BY <1>0, <2>2, <2>3, <2>4, <2>5
    <2>. QED
      BY <2>6, <2>7, <2>8
  <1>2. CASE ~equal
    <2>1. PICK given \in SendCounts(held) :
            shares = [j \in 0 .. rcount |->
                       IF j = 0 THEN held - given
                                ELSE spread_counts(rcount, given)[j - 1]]
      BY <1>2 DEF Splits
    <2>2. given \in 0 .. held - 1
      BY <1>0, <2>1, SendCountsType
    <2>3. shares[0] = held - given /\ held - shares[0] = given /\ given \in Nat
      BY <1>0, <2>1, <2>2
    <2>4. \A k \in 0 .. rcount - 1 : shares[k + 1] = spread_counts(rcount, given)[k]
      BY <1>0, <2>1
    <2>5. \A k \in Int : Given(k) = Spread(rcount, given, k)
      BY <1>2, <2>3 DEF SentBefore
    <2>6. /\ Spread(rcount, given, 0) = 0
          /\ Spread(rcount, given, rcount) = given
          /\ \A k \in 0 .. rcount - 1 :
               /\ Spread(rcount, given, k) \in Nat
               /\ Spread(rcount, given, k + 1) = Spread(rcount, given, k) + shares[k + 1]
               /\ Spread(rcount, given, k + 1) <= given
      <3>1. /\ Spread(rcount, given, 0) = 0
            /\ Spread(rcount, given, rcount) = given
            /\ \A k \in 0 .. rcount - 1 :
                 /\ Spread(rcount, given, k) \in Nat
                 /\ Spread(rcount, given, k + 1) =
                      Spread(rcount, given, k) + spread_counts(rcount, given)[k]
                 /\ Spread(rcount, given, k + 1) <= given
        BY <1>0, <2>3, SpreadSum, Zenon
      <3>. QED
        BY <2>4, <3>1
    <2>7. shares[0] >= 1
      BY <1>0, <2>2, <2>3
    <2>8. Given(0) = 0 /\ Given(rcount) = held - shares[0]
      BY <1>0, <2>3, <2>5, <2>6
    <2>9. ASSUME NEW k \in 0 .. rcount - 1
          PROVE  /\ Given(k) \in Int
                 /\ Given(k + 1) = Given(k) + shares[k + 1]
                 /\ Given(k + 1) <= held - shares[0]
      <3>1. Given(k) = Spread(rcount, given, k)
            /\ Given(k + 1) = Spread(rcount, given, k + 1)
        BY <2>5
      <3>. QED
        BY <2>3, <2>6, <3>1
    <2>. QED
      BY <2>7, <2>8, <2>9
  <1>. QED
    BY <1>1, <1>2

-----------------------------------------------------------------------------
(* The parts of the invariant *)

\* The labels of the loop over the requestors.
LoopLabel == {"reply", "sendData", "sent"}

\* The part of Stages about one pair of ranks.
Pair(s, r) == IF s = work_requested_rank[r] THEN s # r /\ Stage(s, r)
                                            ELSE Unrelated(s, r)

\* The part of Stages about one rank.
Asker(r) ==
  /\ work_requested_rank[r] = MPI_PROC_NULL => pc[r] # "recvData"
  /\ work_requested_rank[r] # MPI_PROC_NULL => count[r] = 0
  /\ pc[r] = "requestWork" => count[r] = 0

LEMMA StagesParts == Stages <=> \A r \in Rank : Asker(r) /\ \A s \in Rank : Pair(s, r)
  BY DEF Stages, Asker, Pair

\* The ranks the loop of s has still to visit after the present one.
Rest(s, r) == \E k \in i[s] + 1 .. Len(requestors[s]) : requestors[s][k] = r

-----------------------------------------------------------------------------
(* Constants *)

LEMMA RankFinite ==
  /\ 0 \in Rank /\ MPI_PROC_NULL \notin Rank
  /\ \A S \in SUBSET Rank : IsFiniteSet(S) /\ Cardinality(S) \in Nat
  <1>1. N \in Nat \ {0}
    BY TransferAssumption
  <1>2. IsFiniteSet(Rank)
    BY <1>1, FS_Interval DEF Rank
  <1>3. ASSUME NEW S \in SUBSET Rank
        PROVE  IsFiniteSet(S) /\ Cardinality(S) \in Nat
    <2>1. IsFiniteSet(S)
      BY <1>2, FS_Subset
    <2>. QED
      BY <2>1, FS_CardinalityType
  <1>. QED
    BY <1>1, <1>3 DEF Rank, MPI_PROC_NULL

\* One entry of a function of two ranks is replaced.
LEMMA ExceptPair ==
  ASSUME NEW T, NEW f \in [Rank -> [Rank -> T]], NEW a \in Rank, NEW b \in Rank,
         NEW v \in T, NEW g, g = [f EXCEPT ![a][b] = v]
  PROVE  /\ g \in [Rank -> [Rank -> T]] /\ g[a][b] = v
         /\ \A s, r \in Rank : s # a \/ r # b => g[s][r] = f[s][r]
  <1>1. [f[a] EXCEPT ![b] = v] \in [Rank -> T]
    OBVIOUS
  <1>. QED
    BY <1>1

\* The orders of arrival are the sequences of the ranks of S, each once.
LEMMA ArrivalsType ==
  ASSUME NEW S \in SUBSET Rank, S # {}, NEW order \in Arrivals(S)
  PROVE  /\ order \in Seq(Rank) /\ Len(order) = Cardinality(S)
         /\ Cardinality(S) \in Nat \ {0}
         /\ \A k \in 1 .. Len(order) : order[k] \in S
         /\ \A d \in S : \E k \in 1 .. Len(order) : order[k] = d
         /\ \A j, k \in 1 .. Len(order) : order[j] = order[k] => j = k
  <1>. DEFINE n == Cardinality(S)
  <1>1. IsFiniteSet(S) /\ n \in Nat /\ n # 0
    BY RankFinite, FS_EmptySet
  <1>2. /\ order \in [1 .. n -> S] /\ DOMAIN order = 1 .. n
        /\ \A d \in S : \E k \in 1 .. n : order[k] = d
    BY DEF Arrivals
  <1>3. IsFiniteSet(1 .. n) /\ Cardinality(1 .. n) = n
    BY <1>1, FS_Interval
  <1>. HIDE DEF n
  <1>4. order \in Surjection(1 .. n, S)
    BY <1>2 DEF Surjection
  <1>5. order \in Injection(1 .. n, S)
    BY <1>1, <1>3, <1>4, FS_SurjSameCardinalityImpliesInj DEF n
  <1>6. \A j, k \in 1 .. n : order[j] = order[k] => j = k
    BY <1>5 DEF Injection, IsInjective
  <1>7. order \in Seq(S) /\ Len(order) = n
    BY <1>1, <1>2, IsASeq
  <1>8. order \in Seq(Rank)
    BY <1>7, SeqMonotonic
  <1>. QED
    BY <1>1, <1>2, <1>6, <1>7, <1>8 DEF n

\* Requests and no-work replies do not hold their sender.
LEMMA ShortSend ==
  ASSUME NEW r, NEW to, NEW kind \in {"request", "nowork"}, MPI_Send(r, to, kind)
  PROVE  sending' = [sending EXCEPT ![r] = NoSend]
  BY ShortMessagesCopied DEF MPI_Send

-----------------------------------------------------------------------------
(* The requestors that are still to be visited *)

\* Outside the loop there are none.
LEMMA OutsideLoop ==
  ASSUME TypeOK, LoopShape, NEW s \in Rank, NEW r \in Rank, pc[s] \notin LoopLabel
  PROVE  requestors[s] = <<>> /\ ~Owes(s, r) /\ ~Between(s, r)
  <1>1. requestors[s] = <<>> /\ i[s] = 0
    BY DEF LoopShape, LoopLabel, InLoop
  <1>2. Len(requestors[s]) = 0
    BY <1>1
  <1>. QED
    BY <1>1, <1>2 DEF Owes, Between, LoopLabel

\* Inside the loop the present one is not among the others.
LEMMA InsideLoop ==
  ASSUME TypeOK, LoopShape, NEW s \in Rank, pc[s] \in LoopLabel
  PROVE  /\ i[s] \in 1 .. Len(requestors[s]) /\ Len(requestors[s]) \in Nat
         /\ InLoop(s)
         /\ requestors[s] \in Seq(Rank) /\ requestors[s][i[s]] \in Rank
         /\ ~Rest(s, requestors[s][i[s]])
         /\ \A r \in Rank :
              /\ pc[s] = "reply" =>
                   (Owes(s, r) <=> r = requestors[s][i[s]] \/ Rest(s, r))
              /\ pc[s] # "reply" => (Owes(s, r) <=> Rest(s, r))
              /\ pc[s] # "sendData" => ~Between(s, r)
              /\ pc[s] = "sendData" => (Between(s, r) <=> r = requestors[s][i[s]])
  <1>1. /\ i[s] \in 1 .. Len(requestors[s]) /\ InLoop(s)
        /\ \A j, k \in 1 .. Len(requestors[s]) :
              requestors[s][j] = requestors[s][k] => j = k
    BY DEF LoopShape, LoopLabel
  <1>2. requestors[s] \in Seq(Rank) /\ Len(requestors[s]) \in Nat
    BY DEF TypeOK
  <1>3. requestors[s][i[s]] \in Rank
    BY <1>1, <1>2
  <1>4. ~Rest(s, requestors[s][i[s]])
    BY <1>1, <1>2 DEF Rest
  <1>5. \A r \in Rank : pc[s] = "reply" =>
                   (Owes(s, r) <=> r = requestors[s][i[s]] \/ Rest(s, r))
    BY <1>1, <1>2 DEF Owes, Rest
  <1>6. \A r \in Rank : pc[s] # "reply" => (Owes(s, r) <=> Rest(s, r))
    BY DEF Owes, Rest
  <1>. QED
    BY <1>1, <1>2, <1>3, <1>4, <1>5, <1>6 DEF Between

\* The loop variables of other ranks do not change.
LEMMA OwesFrame ==
  ASSUME NEW s \in Rank, NEW r \in Rank,
         pc'[s] = pc[s], i'[s] = i[s], requestors'[s] = requestors[s]
  PROVE  (Owes(s, r)' <=> Owes(s, r)) /\ (Between(s, r)' <=> Between(s, r))
  BY DEF Owes, Between

\* A pair whose messages, whose place in the loop and whose receiver stay as
\* they are keeps its stage.
LEMMA PairFrame ==
  ASSUME NEW s \in Rank, NEW r \in Rank, Pair(s, r),
         Owes(s, r)' <=> Owes(s, r), Between(s, r)' <=> Between(s, r),
         Between(s, r) => sizes'[s][i'[s]] = sizes[s][i[s]],
         req'[r][s] = req[r][s], wire'[s][r] = wire[s][r], items'[r] = items[r],
         work_requested_rank'[r] = work_requested_rank[r],
         pc'[r] = "recvData" <=> pc[r] = "recvData"
  PROVE  Pair(s, r)'
  BY DEF Pair, Stage, Asked, Owed, Refused, HalfSent, Sent, HalfTaken, Taken,
         Unrelated

-----------------------------------------------------------------------------
(* Steps outside the loop *)

LEMMA OutsideOwes ==
  ASSUME TypeOK, LoopShape, NEW p \in Rank, pc[p] \notin LoopLabel,
         NEW label \in Label \ LoopLabel, pc' = [pc EXCEPT ![p] = label],
         UNCHANGED <<requestors, i>>, NEW s \in Rank, NEW r \in Rank
  PROVE  (Owes(s, r)' <=> Owes(s, r)) /\ (Between(s, r)' <=> Between(s, r))
  <1>1. pc'[p] = label /\ (s # p => pc'[s] = pc[s])
    BY DEF TypeOK
  <1>2. CASE s # p
    BY <1>1, <1>2, OwesFrame
  <1>3. CASE s = p
    <2>1. requestors[p] = <<>> /\ i[p] = 0 /\ ~Owes(p, r) /\ ~Between(p, r)
      BY OutsideLoop DEF LoopShape, LoopLabel, InLoop
    <2>2. Len(requestors'[p]) = 0 /\ i'[p] = 0
      BY <2>1
    <2>3. ~Owes(p, r)' /\ ~Between(p, r)'
      BY <1>1, <2>2 DEF Owes, Between, LoopLabel
    <2>. QED
      BY <1>3, <2>1, <2>3
  <1>. QED
    BY <1>2, <1>3

\* A step outside the loop leaves the loops alone.
LEMMA OutsideInv ==
  ASSUME TransferInv, NEW p \in Rank, pc[p] \notin LoopLabel,
         NEW label \in Label \ LoopLabel, pc' = [pc EXCEPT ![p] = label],
         UNCHANGED loopVars, sending' = [sending EXCEPT ![p] = NoSend],
         \A r \in Rank \ {p} : count'[r] = count[r]
  PROVE  LoopShape' /\ LoopSum' /\ HeldInLoop'
  <1>0. TypeOK /\ LoopShape /\ LoopSum /\ HeldInLoop
    BY DEF TransferInv
  <1>1. /\ pc'[p] = label /\ sending'[p] = NoSend /\ requestors[p] = <<>>
        /\ \A r \in Rank \ {p} : pc'[r] = pc[r] /\ sending'[r] = sending[r]
        /\ total' = total /\ requestors' = requestors /\ sizes' = sizes /\ i' = i
    BY <1>0, OutsideLoop DEF TypeOK, loopVars
  <1>2. LoopShape'
    BY <1>0, <1>1 DEF LoopShape, InLoop, LoopLabel
  <1>3. LoopSum'
    BY <1>0, <1>1 DEF LoopSum, InLoop
  <1>4. HeldInLoop'
    BY <1>0, <1>1 DEF HeldInLoop
  <1>. QED
    BY <1>2, <1>3, <1>4

\* A step outside the loop that sends and takes neither request nor reply.
LEMMA QuietStep ==
  ASSUME TransferInv, NEW p \in Rank, pc[p] \notin LoopLabel \cup {"recvData"},
         NEW label \in Label \ (LoopLabel \cup {"recvData"}),
         pc' = [pc EXCEPT ![p] = label],
         UNCHANGED loopVars, sending' = [sending EXCEPT ![p] = NoSend],
         \A r \in Rank \ {p} : count'[r] = count[r],
         UNCHANGED <<work_requested_rank, items, req, wire>>,
         work_requested_rank[p] # MPI_PROC_NULL => count'[p] = 0,
         label = "requestWork" => count'[p] = 0,
         TypeOK'
  PROVE  TransferInv'
  <1>0. TypeOK /\ LoopShape /\ Stages
    BY DEF TransferInv
  <1>1. LoopShape' /\ LoopSum' /\ HeldInLoop'
    BY OutsideInv
  <1>2. /\ pc'[p] = label
        /\ \A r \in Rank \ {p} : pc'[r] = pc[r]
        /\ requestors' = requestors /\ sizes' = sizes /\ i' = i
    BY <1>0 DEF TypeOK, loopVars
  <1>3. ASSUME NEW r \in Rank PROVE Asker(r)'
    BY <1>0, <1>2, StagesParts DEF Asker
  <1>4. ASSUME NEW s \in Rank, NEW r \in Rank PROVE Pair(s, r)'
    <2>1. Pair(s, r)
      BY <1>0, StagesParts
    <2>2. (Owes(s, r)' <=> Owes(s, r)) /\ (Between(s, r)' <=> Between(s, r))
      BY <1>0, <1>2, OutsideOwes
    <2>3. pc'[r] = "recvData" <=> pc[r] = "recvData"
      BY <1>2
    <2>. QED
      BY <1>2, <2>1, <2>2, <2>3, PairFrame
  <1>5. Stages'
    BY <1>3, <1>4 DEF Stages, Asker, Pair
  <1>. QED
    BY <1>1, <1>5 DEF TransferInv

LEMMA NoRequestStep ==
  ASSUME TransferInv, NEW p \in Rank, NoRequest(p)
  PROVE  TransferInv'
  <1>1. TypeOK /\ Stages
    BY DEF TransferInv
  <1>2. TypeOK'
    BY <1>1 DEF TypeOK, NoRequest, Returned, Goto, Label, NoSend, Kind, loopVars, netVars
  <1>. QED
    BY <1>1, <1>2, QuietStep, StagesParts
       DEF NoRequest, Returned, Goto, Label, LoopLabel, netVars, Asker

LEMMA TakeReceiptsStep ==
  ASSUME TransferInv, NEW p \in Rank, NEW taken \in 0 .. receipt[p],
         TakeReceipts(p, taken)
  PROVE  TransferInv'
  <1>1. TypeOK /\ Stages
    BY DEF TransferInv
  <1>2. TypeOK'
    <2>1. receipt[p] - taken \in Nat /\ work_outstanding[p] - taken \in Nat
      BY <1>1 DEF TypeOK, TakeReceipts
    <2>2. /\ receipt' \in [Rank -> Nat] /\ work_outstanding' \in [Rank -> Nat]
          /\ pc' \in [Rank -> Label]
          /\ sending' \in [Rank -> [to : Rank \cup {MPI_PROC_NULL}, kind : Kind]]
      BY <1>1, <2>1 DEF TypeOK, TakeReceipts, Returned, Goto, Label, NoSend, Kind
    <2>. QED
      BY <1>1, <2>2 DEF TypeOK, TakeReceipts, loopVars
  <1>. QED
    BY <1>1, <1>2, QuietStep, StagesParts
       DEF TakeReceipts, Returned, Goto, Label, LoopLabel, Asker

LEMMA AwaitReplyStep ==
  ASSUME TransferInv, NEW p \in Rank, AwaitReply(p)
  PROVE  TransferInv'
  <1>1. TypeOK /\ Stages
    BY DEF TransferInv
  <1>2. TypeOK'
    BY <1>1 DEF TypeOK, AwaitReply, Returned, Goto, Label, NoSend, Kind, loopVars, netVars
  <1>. QED
    BY <1>1, <1>2, QuietStep, StagesParts
       DEF AwaitReply, Returned, Goto, Label, LoopLabel, netVars, Asker

LEMMA ProcessItemStep ==
  ASSUME TransferInv, NEW p \in Rank, ProcessItem(p)
  PROVE  TransferInv'
  <1>1. TypeOK /\ Stages
    BY DEF TransferInv
  <1>2. PICK new \in 0 .. Fanout :
          /\ new <= budget
          /\ count' = [count EXCEPT ![p] = @ - 1 + new]
          /\ budget' = budget - new
    BY DEF ProcessItem
  <1>3. new \in Nat
    BY TransferAssumption
  <1>4. TypeOK'
    <2>1. count[p] - 1 + new \in Nat /\ budget - new \in Nat
      BY SMTT(30), <1>1, <1>2, <1>3 DEF TypeOK, ProcessItem
    <2>2. /\ count' \in [Rank -> Nat] /\ pc' \in [Rank -> Label]
          /\ sending' \in [Rank -> [to : Rank \cup {MPI_PROC_NULL}, kind : Kind]]
      BY <1>1, <1>2, <2>1 DEF TypeOK, ProcessItem, Returned, Goto, Label, NoSend, Kind
    <2>. QED
      BY <1>1, <1>2, <2>1, <2>2 DEF TypeOK, ProcessItem, loopVars, netVars
  <1>5. count[p] > 0 /\ count[p] \in Nat /\ \A r \in Rank \ {p} : count'[r] = count[r]
    BY <1>1, <1>2 DEF ProcessItem, TypeOK
  <1>6. work_requested_rank[p] = MPI_PROC_NULL
    BY <1>1, <1>5, StagesParts DEF Asker
  <1>. QED
    BY <1>4, <1>5, <1>6, QuietStep
       DEF ProcessItem, Returned, Goto, Label, LoopLabel, netVars

LEMMA IdleStep ==
  ASSUME TransferInv, NEW p \in Rank, Idle(p)
  PROVE  TransferInv'
  <1>1. TypeOK /\ Stages
    BY DEF TransferInv
  <1>2. TypeOK'
    BY <1>1 DEF TypeOK, Idle, Returned, Goto, Label, NoSend, Kind, loopVars, netVars
  <1>. QED
    BY <1>1, <1>2, QuietStep, StagesParts
       DEF Idle, Returned, Goto, Label, LoopLabel, netVars, Asker

\* A rank asks: its pair with the rank it asks goes from Unrelated to Asked.
LEMMA SendRequestStep ==
  ASSUME TransferInv, NEW p \in Rank, SendRequest(p)
  PROVE  TransferInv'
  <1>0. TypeOK /\ LoopShape /\ Stages
    BY DEF TransferInv
  <1>1. PICK source \in Rank \ {p} :
          /\ req' = [req EXCEPT ![p][source] = @ + 1]
          /\ MPI_Send(p, source, "request")
          /\ work_requested_rank' = [work_requested_rank EXCEPT ![p] = source]
    BY DEF SendRequest
  <1>2. sending' = [sending EXCEPT ![p] = NoSend]
    BY <1>1, ShortSend
  <1>3. /\ pc[p] = "requestWork" /\ pc' = [pc EXCEPT ![p] = "work"]
        /\ work_requested_rank[p] = MPI_PROC_NULL
        /\ UNCHANGED <<count, budget, work_outstanding, loopVars, items, wire, receipt>>
        /\ requestors' = requestors /\ sizes' = sizes /\ i' = i /\ total' = total
    BY DEF SendRequest, Goto, loopVars
  <1>4. LoopShape' /\ LoopSum' /\ HeldInLoop'
    BY <1>2, <1>3, OutsideInv DEF Label, LoopLabel
  <1>5. /\ pc'[p] = "work" /\ work_requested_rank'[p] = source
        /\ req'[p][source] = req[p][source] + 1
        /\ \A r \in Rank : r # p => /\ pc'[r] = pc[r] /\ req'[r] = req[r]
                                    /\ work_requested_rank'[r] = work_requested_rank[r]
        /\ \A s \in Rank : s # source => req'[p][s] = req[p][s]
    BY <1>0, <1>1, <1>3 DEF TypeOK
  <1>6. TypeOK'
    <2>1. req' \in [Rank -> [Rank -> Nat]]
      <3>1. req \in [Rank -> [Rank -> Nat]]
        BY <1>0 DEF TypeOK
      <3>2. req[p][source] \in Nat
        BY <3>1
      <3>3. req[p][source] + 1 \in Nat
        BY <3>2
      <3>. QED
        BY <1>1, <3>1, <3>3, ExceptPair
    <2>2. /\ work_requested_rank' \in [Rank -> Rank \cup {MPI_PROC_NULL}]
          /\ pc' \in [Rank -> Label]
          /\ sending' \in [Rank -> [to : Rank \cup {MPI_PROC_NULL}, kind : Kind]]
      BY <1>0, <1>1, <1>2, <1>3 DEF TypeOK, Label, NoSend, Kind
    <2>. QED
      BY <1>0, <1>3, <2>1, <2>2 DEF TypeOK
  <1>7. ASSUME NEW r \in Rank PROVE Asker(r)'
    BY <1>0, <1>3, <1>5, StagesParts, RankFinite DEF Asker
  <1>8. ASSUME NEW s \in Rank, NEW r \in Rank PROVE Pair(s, r)'
    <2>1. Pair(s, r)
      BY <1>0, StagesParts
    <2>2. (Owes(s, r)' <=> Owes(s, r)) /\ (Between(s, r)' <=> Between(s, r))
      BY <1>0, <1>3, OutsideOwes DEF Label, LoopLabel
    <2>3. CASE r # p
      BY <1>3, <1>5, <2>1, <2>2, <2>3, PairFrame
    <2>4. CASE r = p
      <3>1. Unrelated(s, p)
        BY <1>3, <2>1, <2>4, RankFinite DEF Pair
      <3>2. CASE s = source
        BY <1>1, <1>3, <1>5, <2>2, <2>4, <3>1, <3>2 DEF Pair, Stage, Unrelated, Asked
      <3>3. CASE s # source
        BY <1>3, <1>5, <2>2, <2>4, <3>1, <3>3 DEF Pair, Unrelated
      <3>. QED
        BY <3>2, <3>3
    <2>. QED
      BY <2>3, <2>4
  <1>9. Stages'
    BY <1>7, <1>8 DEF Stages, Asker, Pair
  <1>. QED
    BY <1>4, <1>6, <1>9 DEF TransferInv

\* What workReceive can find in front of the messages to r.
LEMMA ReplyFound ==
  ASSUME TransferInv, NEW r \in Rank, work_requested_rank[r] # MPI_PROC_NULL,
         wire[work_requested_rank[r]][r] # <<>>
  PROVE  LET s == work_requested_rank[r]
         IN  /\ s \in Rank /\ s # r
             /\ pc[r] = "recvData" => Taken(s, r)
             /\ pc[r] # "recvData" => Refused(s, r) \/ HalfSent(s, r) \/ Sent(s, r)
             /\ HalfSent(s, r) => sizes[s][i[s]] \in Nat \ {0}
  <1>. DEFINE s == work_requested_rank[r]
  <1>0. TypeOK /\ LoopShape /\ Stages
    BY DEF TransferInv
  <1>1. s \in Rank
    BY <1>0 DEF TypeOK
  <1>2. Pair(s, r)
    BY <1>0, <1>1, StagesParts
  <1>3. s # r /\ Stage(s, r)
    BY <1>1, <1>2 DEF Pair
  <1>4. /\ pc[r] = "recvData" => Taken(s, r)
        /\ pc[r] # "recvData" => Refused(s, r) \/ HalfSent(s, r) \/ Sent(s, r)
    BY <1>3 DEF Stage, Asked, Owed, HalfTaken
  <1>5. ASSUME HalfSent(s, r) PROVE sizes[s][i[s]] \in Nat \ {0}
    <2>1. pc[s] = "sendData"
      BY <1>5 DEF HalfSent, Between
    <2>2. i[s] \in 1 .. Len(requestors[s]) /\ InLoop(s)
      BY <1>0, <1>1, <2>1, InsideLoop DEF LoopLabel
    <2>3. sizes[s] \in [0 .. Len(requestors[s]) -> Nat] /\ i[s] \in 0 .. Len(requestors[s])
      BY <1>0, <1>1 DEF TypeOK
    <2>4. sizes[s][i[s]] > 0
      BY <1>0, <1>1, <2>1, <2>2 DEF LoopShape
    <2>. QED
      BY <2>3, <2>4
  <1>. QED
    BY <1>1, <1>3, <1>4, <1>5

\* A message is taken from the front of wire[s][r].
LEMMA TakeFront ==
  ASSUME TypeOK, NEW s \in Rank, NEW r \in Rank, wire[s][r] # <<>>,
         wire' = [wire EXCEPT ![s][r] = Tail(@)]
  PROVE  /\ wire' \in [Rank -> [Rank -> Seq(Message)]]
         /\ wire'[s][r] = Tail(wire[s][r])
         /\ \A a, b \in Rank : a # s \/ b # r => wire'[a][b] = wire[a][b]
         /\ Head(wire[s][r]) \in Message
  <1>1. wire \in [Rank -> [Rank -> Seq(Message)]]
    BY DEF TypeOK
  <1>2. wire[s][r] \in Seq(Message)
    BY <1>1
  <1>3. Tail(wire[s][r]) \in Seq(Message) /\ Head(wire[s][r]) \in Message
    BY <1>2, HeadTailProperties
  <1>. QED
    BY <1>1, <1>3, ExceptPair

LEMMA TakeReplyStep ==
  ASSUME TransferInv, NEW p \in Rank, TakeReply(p)
  PROVE  TransferInv'
  <1>. DEFINE source == work_requested_rank[p]
              msg == Head(wire[source][p])
  <1>0. TypeOK /\ LoopShape /\ Stages
    BY DEF TransferInv
  <1>1. /\ pc[p] = "requestWork" /\ sending' = [sending EXCEPT ![p] = NoSend]
        /\ source # MPI_PROC_NULL /\ wire[source][p] # <<>>
        /\ wire' = [wire EXCEPT ![source][p] = Tail(@)]
        /\ items' = [items EXCEPT ![p] = msg.items]
        /\ UNCHANGED <<count, budget, work_outstanding, loopVars, req, receipt>>
        /\ requestors' = requestors /\ sizes' = sizes /\ i' = i /\ total' = total
    BY DEF TakeReply, Returned, loopVars
  <1>2. /\ source \in Rank /\ source # p
        /\ Refused(source, p) \/ HalfSent(source, p) \/ Sent(source, p)
        /\ HalfSent(source, p) => sizes[source][i[source]] \in Nat \ {0}
    BY <1>1, ReplyFound
  <1>3. /\ wire' \in [Rank -> [Rank -> Seq(Message)]]
        /\ wire'[source][p] = Tail(wire[source][p])
        /\ \A a, b \in Rank : a # source \/ b # p => wire'[a][b] = wire[a][b]
        /\ msg \in Message
    BY <1>0, <1>1, <1>2, TakeFront
  <1>4. /\ msg.items = 0 =>
             /\ work_requested_rank' = [work_requested_rank EXCEPT ![p] = MPI_PROC_NULL]
             /\ pc' = [pc EXCEPT ![p] = "work"]
        /\ msg.items # 0 =>
             /\ work_requested_rank' = work_requested_rank
             /\ pc' = [pc EXCEPT ![p] = "recvData"]
    BY DEF TakeReply, Goto
  <1>. HIDE DEF msg
  <1>5. PICK label \in {"work", "recvData"} : pc' = [pc EXCEPT ![p] = label]
    BY <1>4
  <1>6. LoopShape' /\ LoopSum' /\ HeldInLoop'
    BY <1>1, <1>5, OutsideInv DEF Label, LoopLabel
  <1>7. /\ items'[p] = msg.items /\ msg.items \in Nat
        /\ \A r \in Rank : r # p => /\ pc'[r] = pc[r] /\ items'[r] = items[r]
                                    /\ work_requested_rank'[r] = work_requested_rank[r]
        /\ pc'[p] = label
    BY <1>0, <1>1, <1>3, <1>4, <1>5 DEF TypeOK, Message
  <1>8. TypeOK'
    <2>1. /\ work_requested_rank' \in [Rank -> Rank \cup {MPI_PROC_NULL}]
          /\ pc' \in [Rank -> Label] /\ items' \in [Rank -> Nat]
          /\ sending' \in [Rank -> [to : Rank \cup {MPI_PROC_NULL}, kind : Kind]]
      BY <1>0, <1>1, <1>4, <1>5, <1>7 DEF TypeOK, Label, NoSend, Kind
    <2>. QED
      BY <1>0, <1>1, <1>3, <2>1 DEF TypeOK
  <1>9. ASSUME NEW r \in Rank PROVE Asker(r)'
    <2>1. CASE r # p
      BY <1>0, <1>1, <1>7, <2>1, StagesParts DEF Asker
    <2>2. CASE r = p
      <3>1. count'[p] = 0
        BY <1>0, <1>1, StagesParts DEF Asker
      <3>2. work_requested_rank'[p] = MPI_PROC_NULL => pc'[p] = "work"
        BY <1>0, <1>1, <1>4, <1>5, <1>7 DEF TypeOK
      <3>. QED
        BY <2>2, <3>1, <3>2 DEF Asker
    <2>. QED
      BY <2>1, <2>2
  <1>10. ASSUME NEW s \in Rank, NEW r \in Rank PROVE Pair(s, r)'
    <2>1. Pair(s, r)
      BY <1>0, StagesParts
    <2>2. (Owes(s, r)' <=> Owes(s, r)) /\ (Between(s, r)' <=> Between(s, r))
      BY <1>0, <1>1, <1>5, OutsideOwes DEF Label, LoopLabel
    <2>3. CASE r # p
      BY <1>1, <1>3, <1>7, <2>1, <2>2, <2>3, PairFrame
    <2>4. CASE r = p /\ s # source
      <3>1. wire'[s][p] = wire[s][p]
        BY <1>2, <1>3, <2>4
      <3>2. work_requested_rank'[p] = source \/ work_requested_rank'[p] = MPI_PROC_NULL
        <4>1. work_requested_rank \in [Rank -> Rank \cup {MPI_PROC_NULL}]
          BY <1>0 DEF TypeOK
        <4>. QED
          BY <1>4, <4>1
      <3>. QED
        BY <1>1, <2>1, <2>2, <2>4, <3>1, <3>2, RankFinite DEF Pair, Unrelated
    <2>5. CASE r = p /\ s = source
      <3>1. CASE Refused(source, p)
        <4>1. wire[source][p] = <<Msg("nowork", 0)>>
          BY <3>1 DEF Refused
        <4>2. msg = Msg("nowork", 0) /\ wire'[source][p] = <<>>
          BY <1>3, <4>1 DEF msg
        <4>3. msg.items = 0
          BY <4>2 DEF Msg
        <4>4. work_requested_rank'[p] = MPI_PROC_NULL
          BY <1>0, <1>4, <4>3 DEF TypeOK
        <4>. QED
          BY <1>1, <2>2, <2>5, <3>1, <4>2, <4>4, RankFinite DEF Pair, Refused, Unrelated
      <3>2. CASE HalfSent(source, p)
        <4>1. wire[source][p] = <<Msg("offsets", sizes[source][i[source]])>>
          BY <3>2 DEF HalfSent
        <4>2. msg = Msg("offsets", sizes[source][i[source]]) /\ wire'[source][p] = <<>>
          BY <1>3, <4>1 DEF msg
        <4>3. msg.items = sizes[source][i[source]] /\ msg.items # 0
          BY <1>2, <3>2, <4>2 DEF Msg
        <4>4. work_requested_rank'[p] = source /\ pc'[p] = "recvData"
          BY <1>0, <1>4, <4>3 DEF TypeOK
        <4>. QED
          BY <1>1, <1>2, <1>7, <2>2, <2>5, <3>2, <4>2, <4>3, <4>4
             DEF Pair, Stage, HalfSent, HalfTaken
      <3>3. CASE Sent(source, p)
        <4>. DEFINE n == wire[source][p][1].items
        <4>1. wire[source][p] = <<Msg("offsets", n), Msg("data", n)>> /\ n > 0
          BY <3>3 DEF Sent
        <4>. HIDE DEF n
        <4>2. msg = Msg("offsets", n) /\ wire'[source][p] = <<Msg("data", n)>>
          BY <1>3, <4>1 DEF msg
        <4>3. msg.items = n /\ msg.items # 0
          BY <4>1, <4>2 DEF Msg
        <4>4. work_requested_rank'[p] = source /\ pc'[p] = "recvData"
          BY <1>0, <1>4, <4>3 DEF TypeOK
        <4>. QED
          BY <1>1, <1>2, <1>7, <2>2, <2>5, <3>3, <4>1, <4>2, <4>3, <4>4
             DEF Pair, Stage, Sent, Taken, Msg
      <3>. QED
        BY <1>2, <3>1, <3>2, <3>3
    <2>. QED
      BY <2>3, <2>4, <2>5
  <1>11. Stages'
    BY <1>9, <1>10 DEF Stages, Asker, Pair
  <1>. QED
    BY <1>6, <1>8, <1>11 DEF TransferInv

LEMMA RecvDataStep ==
  ASSUME TransferInv, NEW p \in Rank, RecvData(p)
  PROVE  TransferInv'
  <1>. DEFINE source == work_requested_rank[p]
  <1>0. TypeOK /\ LoopShape /\ Stages
    BY DEF TransferInv
  <1>1. /\ pc[p] = "recvData" /\ sending' = [sending EXCEPT ![p] = NoSend]
        /\ wire[source][p] # <<>>
        /\ wire' = [wire EXCEPT ![source][p] = Tail(@)]
        /\ count' = [count EXCEPT ![p] = items[p]]
        /\ items' = [items EXCEPT ![p] = 0]
        /\ receipt' = [receipt EXCEPT ![source] = @ + 1]
        /\ work_requested_rank' = [work_requested_rank EXCEPT ![p] = MPI_PROC_NULL]
        /\ pc' = [pc EXCEPT ![p] = "work"]
        /\ UNCHANGED <<budget, work_outstanding, loopVars, req>>
        /\ requestors' = requestors /\ sizes' = sizes /\ i' = i /\ total' = total
    BY DEF RecvData, Returned, Goto, loopVars
  <1>2. source # MPI_PROC_NULL
    BY <1>0, <1>1, StagesParts DEF Asker
  <1>3. source \in Rank /\ source # p /\ Taken(source, p)
    BY <1>1, <1>2, ReplyFound
  <1>4. /\ wire' \in [Rank -> [Rank -> Seq(Message)]]
        /\ wire'[source][p] = Tail(wire[source][p])
        /\ \A a, b \in Rank : a # source \/ b # p => wire'[a][b] = wire[a][b]
    BY ZenonT(60), <1>0, <1>1, <1>3, TakeFront
  <1>5. wire'[source][p] = <<>>
    BY <1>3, <1>4 DEF Taken
  <1>6. LoopShape' /\ LoopSum' /\ HeldInLoop'
    <2>1. \A r \in Rank \ {p} : count'[r] = count[r]
      BY <1>0, <1>1 DEF TypeOK
    <2>. QED
      BY <1>1, <2>1, OutsideInv DEF Label, LoopLabel
  <1>7. /\ pc'[p] = "work" /\ work_requested_rank'[p] = MPI_PROC_NULL
        /\ \A r \in Rank : r # p => /\ pc'[r] = pc[r] /\ items'[r] = items[r]
                                    /\ work_requested_rank'[r] = work_requested_rank[r]
                                    /\ count'[r] = count[r]
    BY <1>0, <1>1 DEF TypeOK
  <1>8. TypeOK'
    <2>1. /\ work_requested_rank' \in [Rank -> Rank \cup {MPI_PROC_NULL}]
          /\ pc' \in [Rank -> Label] /\ items' \in [Rank -> Nat]
          /\ count' \in [Rank -> Nat]
          /\ sending' \in [Rank -> [to : Rank \cup {MPI_PROC_NULL}, kind : Kind]]
      BY <1>0, <1>1 DEF TypeOK, Label, NoSend, Kind
    <2>2. receipt[source] + 1 \in Nat
      <3>1. receipt[source] \in Nat
        BY <1>0, <1>3 DEF TypeOK
      <3>. QED
        BY <3>1
    <2>3. receipt' \in [Rank -> Nat]
      BY <1>0, <1>1, <2>2 DEF TypeOK
    <2>. QED
      BY <1>0, <1>1, <1>4, <2>1, <2>3 DEF TypeOK
  <1>9. ASSUME NEW r \in Rank PROVE Asker(r)'
    BY <1>0, <1>7, StagesParts DEF Asker
  <1>10. ASSUME NEW s \in Rank, NEW r \in Rank PROVE Pair(s, r)'
    <2>1. Pair(s, r)
      BY <1>0, StagesParts
    <2>2. (Owes(s, r)' <=> Owes(s, r)) /\ (Between(s, r)' <=> Between(s, r))
      BY <1>0, <1>1, OutsideOwes DEF Label, LoopLabel
    <2>3. CASE r # p
      BY <1>1, <1>4, <1>7, <2>1, <2>2, <2>3, PairFrame
    <2>4. CASE r = p /\ s # source
      BY <1>1, <1>4, <1>7, <2>1, <2>2, <2>4, RankFinite DEF Pair, Unrelated
    <2>5. CASE r = p /\ s = source
      BY <1>1, <1>3, <1>5, <1>7, <2>2, <2>5, RankFinite DEF Pair, Unrelated, Taken
    <2>. QED
      BY <2>3, <2>4, <2>5
  <1>11. Stages'
    BY <1>9, <1>10 DEF Stages, Asker, Pair
  <1>. QED
    BY <1>6, <1>8, <1>11 DEF TransferInv

-----------------------------------------------------------------------------
(* Steps of the loop *)

\* The share that is sent next fits into the queue.
LEMMA ShareFits ==
  ASSUME TransferInv, NEW s \in Rank, pc[s] \in LoopLabel
  PROVE  /\ sizes[s][i[s]] \in Nat /\ sizes[s][0] \in Nat
         /\ count[s] \in Nat /\ total[s] \in Nat
         /\ sizes[s][i[s]] <= count[s]
         /\ i[s] = Len(requestors[s]) => count[s] - sizes[s][i[s]] = sizes[s][0]
         /\ total[s] > 0 => count[s] - sizes[s][i[s]] >= 1
         /\ total[s] = 0 => /\ count[s] = 0
                            /\ sizes[s] = [k \in 0 .. Len(requestors[s]) |-> 0]
         /\ total[s] # 0 =>
              count[s] - sizes[s][i[s]] =
                total[s] - SentBefore(SplitEqual, total[s], Len(requestors[s]),
                                      sizes[s][0], i[s])
  <1>. DEFINE rcount == Len(requestors[s])
              Done(k) == SentBefore(SplitEqual, total[s], rcount, sizes[s][0], k)
  <1>0. TypeOK /\ LoopShape /\ LoopSum
    BY DEF TransferInv
  <1>1. i[s] \in 1 .. rcount /\ rcount \in Nat \ {0} /\ InLoop(s)
    BY <1>0, InsideLoop
  <1>2. /\ sizes[s] \in [0 .. rcount -> Nat] /\ count[s] \in Nat /\ total[s] \in Nat
    BY <1>0 DEF TypeOK
  <1>3. i[s] \in 0 .. rcount /\ 0 \in 0 .. rcount /\ i[s] - 1 \in 0 .. rcount - 1
        /\ (i[s] - 1) + 1 = i[s]
    BY <1>1
  <1>4. sizes[s][i[s]] \in Nat /\ sizes[s][0] \in Nat
    BY <1>2, <1>3
  <1>5. CASE total[s] = 0
    <2>1. count[s] = 0 /\ sizes[s] = [k \in 0 .. rcount |-> 0]
      BY <1>0, <1>1, <1>5 DEF LoopSum
    <2>2. sizes[s][i[s]] = 0 /\ sizes[s][0] = 0
      BY <1>3, <2>1
    <2>. QED
      BY <1>2, <1>4, <1>5, <2>1, <2>2
  <1>6. CASE total[s] # 0
    <2>1. /\ sizes[s] \in Splits(SplitEqual, total[s], rcount)
          /\ count[s] = total[s] - Done(i[s] - 1)
      BY <1>0, <1>1, <1>6 DEF LoopSum
    <2>2. total[s] \in Nat \ {0} /\ SplitEqual \in BOOLEAN
      BY <1>2, <1>6, TransferAssumption
    <2>3. /\ sizes[s][0] >= 1
          /\ Done(rcount) = total[s] - sizes[s][0]
          /\ \A k \in 0 .. rcount - 1 :
                  /\ Done(k) \in Int
                  /\ Done(k + 1) = Done(k) + sizes[s][k + 1]
                  /\ Done(k + 1) <= total[s] - sizes[s][0]
      <3>. HIDE DEF rcount
      <3>. QED
        BY <1>1, <2>1, <2>2, Shares
    <2>. HIDE DEF Done
    <2>4. /\ Done(i[s] - 1) \in Int
          /\ Done(i[s]) = Done(i[s] - 1) + sizes[s][i[s]]
          /\ Done(i[s]) <= total[s] - sizes[s][0]
      BY <1>3, <2>3
    <2>5. /\ sizes[s][i[s]] <= count[s] /\ count[s] - sizes[s][i[s]] >= 1
          /\ count[s] - sizes[s][i[s]] = total[s] - Done(i[s])
      BY <1>2, <1>4, <2>1, <2>3, <2>4
    <2>6. i[s] = rcount => count[s] - sizes[s][i[s]] = sizes[s][0]
      BY <1>2, <1>4, <2>3, <2>5
    <2>. QED
      BY <1>2, <1>4, <1>6, <2>5, <2>6 DEF Done
  <1>. QED
    BY <1>5, <1>6

\* The requestors left once the loop has gone on.
LEMMA NextOwes ==
  ASSUME TypeOK, LoopShape, NEW p \in Rank, pc[p] \in LoopLabel, NextRequestor(p),
         NEW s \in Rank, NEW r \in Rank
  PROVE  /\ s = p => (Owes(p, r)' <=> Rest(p, r)) /\ ~Between(p, r)'
         /\ s # p => (Owes(s, r)' <=> Owes(s, r)) /\ (Between(s, r)' <=> Between(s, r))
  <1>1. i[p] \in 1 .. Len(requestors[p]) /\ Len(requestors[p]) \in Nat
    BY InsideLoop
  <1>2. CASE s # p
    <2>1. pc'[s] = pc[s] /\ i'[s] = i[s] /\ requestors'[s] = requestors[s]
      BY <1>2 DEF NextRequestor, Goto, TypeOK
    <2>. QED
      BY <1>2, <2>1, OwesFrame
  <1>3. ASSUME i[p] < Len(requestors[p])
        PROVE  (Owes(p, r)' <=> Rest(p, r)) /\ ~Between(p, r)'
    <2>1. requestors' = requestors
      BY <1>3 DEF NextRequestor
    <2>2. pc'[p] = "reply"
      BY <1>3 DEF NextRequestor, TypeOK, Goto
    <2>3. i'[p] = i[p] + 1
      <3>1. p \in DOMAIN i /\ i' = [i EXCEPT ![p] = @ + 1]
        BY <1>3 DEF NextRequestor, TypeOK
      <3>. QED
        BY <3>1
    <2>. QED
      BY <2>1, <2>2, <2>3 DEF Owes, Rest, Between
  <1>4. ASSUME ~(i[p] < Len(requestors[p]))
        PROVE  (Owes(p, r)' <=> Rest(p, r)) /\ ~Between(p, r)'
    <2>1. requestors'[p] = <<>> /\ pc'[p] = "workreceiptCheck" /\ i'[p] = 0
      BY <1>4 DEF NextRequestor, Goto, TypeOK
    <2>2. Len(requestors'[p]) = 0
      BY <2>1
    <2>3. ~Rest(p, r)
      BY <1>1, <1>4 DEF Rest
    <2>4. ~Owes(p, r)' /\ ~Between(p, r)'
      BY <2>1, <2>2 DEF Owes, Between
    <2>. QED
      BY <2>3, <2>4
  <1>. QED
    BY <1>2, <1>3, <1>4

\* The loop goes on with a queue that is shorter by the share just sent.
LEMMA NextInv ==
  ASSUME TransferInv, NEW p \in Rank, pc[p] \in LoopLabel, NextRequestor(p),
         sending' = [sending EXCEPT ![p] = NoSend],
         count' \in [Rank -> Nat], count'[p] = count[p] - sizes[p][i[p]],
         \A r \in Rank : r # p => count'[r] = count[r]
  PROVE  /\ pc' \in [Rank -> Label] /\ pc'[p] \in {"reply", "workreceiptCheck"}
         /\ \A r \in Rank : r # p => pc'[r] = pc[r]
         /\ total' \in [Rank -> Nat] /\ requestors' \in [Rank -> Seq(Rank)]
         /\ DOMAIN sizes' = Rank /\ i' \in [Rank -> Nat]
         /\ \A r \in Rank : /\ sizes'[r] \in [0 .. Len(requestors'[r]) -> Nat]
                            /\ i'[r] \in 0 .. Len(requestors'[r])
                            /\ r # p => sizes'[r] = sizes[r] /\ i'[r] = i[r]
         /\ sending' \in [Rank -> [to : Rank \cup {MPI_PROC_NULL}, kind : Kind]]
         /\ LoopShape' /\ LoopSum' /\ HeldInLoop'
  <1>0. TypeOK /\ LoopShape /\ LoopSum /\ HeldInLoop
    BY DEF TransferInv
  <1>1. i[p] \in 1 .. Len(requestors[p]) /\ Len(requestors[p]) \in Nat /\ InLoop(p)
    BY <1>0, InsideLoop
  <1>2. /\ sending'[p] = NoSend
        /\ \A r \in Rank : r # p => sending'[r] = sending[r]
        /\ sending' \in [Rank -> [to : Rank \cup {MPI_PROC_NULL}, kind : Kind]]
    BY <1>0 DEF TypeOK, NoSend, Kind
  <1>3. CASE i[p] < Len(requestors[p])
    <2>1. /\ total' = total /\ requestors' = requestors /\ sizes' = sizes
          /\ i' = [i EXCEPT ![p] = @ + 1] /\ pc' = [pc EXCEPT ![p] = "reply"]
      BY <1>3 DEF NextRequestor, Goto
    <2>2. /\ pc' \in [Rank -> Label] /\ pc'[p] = "reply"
          /\ \A r \in Rank : r # p => pc'[r] = pc[r]
      BY <1>0, <2>1 DEF TypeOK, Label
    <2>3. i[p] \in Nat /\ i[p] + 1 \in 1 .. Len(requestors[p]) /\ i[p] + 1 \in Nat
          /\ (i[p] + 1) - 1 = i[p]
      BY <1>1, <1>3
    <2>4. /\ i' \in [Rank -> Nat] /\ i'[p] = i[p] + 1
          /\ \A r \in Rank : r # p => i'[r] = i[r]
      BY <1>0, <2>1, <2>3 DEF TypeOK
    <2>5. \A r \in Rank : i'[r] \in 0 .. Len(requestors'[r])
      <3>1. i'[p] \in 0 .. Len(requestors'[p])
        BY <1>1, <2>1, <2>3, <2>4
      <3>. QED
        BY <1>0, <2>1, <2>4, <3>1 DEF TypeOK
    <2>6. LoopShape'
      <3>. SUFFICES ASSUME NEW r \in Rank
                    PROVE  IF InLoop(r)'
                           THEN /\ pc'[r] \in {"reply", "sendData", "sent"}
                                /\ i'[r] \in 1 .. Len(requestors'[r])
                                /\ \A j, k \in 1 .. Len(requestors'[r]) :
                                     requestors'[r][j] = requestors'[r][k] => j = k
                                /\ pc'[r] # "reply" => sizes'[r][i'[r]] > 0
                           ELSE pc'[r] \notin {"reply", "sendData", "sent"} /\ i'[r] = 0
        BY DEF LoopShape
      <3>1. CASE r = p
        BY <1>0, <1>1, <2>1, <2>2, <2>3, <2>4, <3>1 DEF LoopShape, InLoop
      <3>2. CASE r # p
        BY <1>0, <2>1, <2>2, <2>4, <3>2 DEF LoopShape, InLoop
      <3>. QED
        BY <3>1, <3>2
    <2>7. LoopSum'
      <3>. SUFFICES ASSUME NEW r \in Rank, InLoop(r)'
                    PROVE  IF total'[r] = 0
                           THEN /\ count'[r] = 0
                                /\ sizes'[r] = [k \in 0 .. Len(requestors'[r]) |-> 0]
                           ELSE /\ sizes'[r] \in Splits(SplitEqual, total'[r],
                                                       Len(requestors'[r]))
                                /\ count'[r] = total'[r]
                                     - SentBefore(SplitEqual, total'[r],
                                                  Len(requestors'[r]),
                                                  sizes'[r][0], i'[r] - 1)
        BY DEF LoopSum
      <3>1. CASE r = p
        <4>1. /\ total[p] = 0 => /\ count[p] = 0
                                 /\ sizes[p] = [k \in 0 .. Len(requestors[p]) |-> 0]
              /\ total[p] # 0 =>
                   count[p] - sizes[p][i[p]] =
                     total[p] - SentBefore(SplitEqual, total[p], Len(requestors[p]),
                                           sizes[p][0], i[p])
              /\ sizes[p][i[p]] \in Nat /\ sizes[p][i[p]] <= count[p]
          BY ShareFits
        <4>2. total[p] # 0 => sizes[p] \in Splits(SplitEqual, total[p], Len(requestors[p]))
          BY <1>0, <1>1 DEF LoopSum
        <4>3. total[p] = 0 => count'[p] = 0
          BY <4>1
        <4>. QED
          BY <2>1, <2>3, <2>4, <3>1, <4>1, <4>2, <4>3
      <3>2. CASE r # p
        BY <1>0, <2>1, <2>4, <3>2 DEF LoopSum, InLoop
      <3>. QED
        BY <3>1, <3>2
    <2>8. HeldInLoop'
      BY <1>0, <1>2, <2>1, <2>2, <2>4 DEF HeldInLoop
    <2>. QED
      BY <1>0, <1>2, <2>1, <2>2, <2>4, <2>5, <2>6, <2>7, <2>8 DEF TypeOK
  <1>4. CASE ~(i[p] < Len(requestors[p]))
    <2>1. /\ total' = [total EXCEPT ![p] = 0]
          /\ requestors' = [requestors EXCEPT ![p] = <<>>]
          /\ sizes' = [sizes EXCEPT ![p] = NoSizes]
          /\ i' = [i EXCEPT ![p] = 0]
          /\ pc' = [pc EXCEPT ![p] = "workreceiptCheck"]
      BY <1>4 DEF NextRequestor, Goto
    <2>2. /\ pc' \in [Rank -> Label] /\ pc'[p] = "workreceiptCheck"
          /\ \A r \in Rank : r # p => pc'[r] = pc[r]
      BY <1>0, <2>1 DEF TypeOK, Label
    <2>3. /\ requestors'[p] = <<>> /\ i'[p] = 0 /\ sizes'[p] = NoSizes
          /\ \A r \in Rank : r # p => /\ requestors'[r] = requestors[r]
                                      /\ i'[r] = i[r] /\ sizes'[r] = sizes[r]
                                      /\ total'[r] = total[r]
      BY <1>0, <2>1 DEF TypeOK
    <2>4. /\ total' \in [Rank -> Nat] /\ requestors' \in [Rank -> Seq(Rank)]
          /\ DOMAIN sizes' = Rank /\ i' \in [Rank -> Nat]
      <3>1. <<>> \in Seq(Rank)
        OBVIOUS
      <3>. QED
        BY <1>0, <2>1, <3>1 DEF TypeOK
    <2>5. \A r \in Rank : /\ sizes'[r] \in [0 .. Len(requestors'[r]) -> Nat]
                          /\ i'[r] \in 0 .. Len(requestors'[r])
      <3>1. Len(requestors'[p]) = 0 /\ 0 .. 0 = {0}
        BY <2>3
      <3>2. NoSizes \in [{0} -> Nat]
        BY DEF NoSizes
      <3>. QED
        BY ZenonT(60), <1>0, <2>3, <3>1, <3>2 DEF TypeOK
    <2>6. LoopShape'
      BY <1>0, <2>2, <2>3 DEF LoopShape, InLoop
    <2>7. LoopSum'
      BY ZenonT(60), <1>0, <2>3 DEF LoopSum, InLoop
    <2>8. HeldInLoop'
      BY <1>0, <1>2, <2>2, <2>3 DEF HeldInLoop
    <2>. QED
      BY <1>2, <2>2, <2>3, <2>4, <2>5, <2>6, <2>7, <2>8
  <1>. QED
    BY <1>3, <1>4

LEMMA AppendOne == ASSUME NEW a, NEW b PROVE Append(<<a>>, b) = <<a, b>>
  <1>. DEFINE S == {a, b}
  <1>1. <<a>> \in Seq(S) /\ b \in S /\ <<a, b>> \in Seq(S)
    OBVIOUS
  <1>2. /\ Append(<<a>>, b) \in Seq(S)
        /\ Len(Append(<<a>>, b)) = 2
        /\ Append(<<a>>, b)[1] = a
        /\ Append(<<a>>, b)[2] = b
    BY <1>1, AppendProperties
  <1>3. /\ Len(<<a, b>>) = 2 /\ <<a, b>>[1] = a /\ <<a, b>>[2] = b
    OBVIOUS
  <1>4. \A k \in 1 .. 2 : Append(<<a>>, b)[k] = <<a, b>>[k]
    BY <1>2, <1>3
  <1>. HIDE DEF S
  <1>. QED
    BY <1>1, <1>2, <1>3, <1>4, SeqEqual

\* A message is put behind wire[s][r].
LEMMA PutBehind ==
  ASSUME TypeOK, NEW s \in Rank, NEW r \in Rank, NEW m \in Message,
         wire' = [wire EXCEPT ![s][r] = Append(@, m)]
  PROVE  /\ wire' \in [Rank -> [Rank -> Seq(Message)]]
         /\ wire'[s][r] = Append(wire[s][r], m)
         /\ \A a, b \in Rank : a # s \/ b # r => wire'[a][b] = wire[a][b]
  <1>1. wire \in [Rank -> [Rank -> Seq(Message)]]
    BY DEF TypeOK
  <1>2. wire[s][r] \in Seq(Message)
    BY <1>1
  <1>3. Append(wire[s][r], m) \in Seq(Message)
    BY <1>2, AppendProperties
  <1>. QED
    BY <1>1, <1>3, ExceptPair

\* The requestor the loop has come to waits for its reply.
LEMMA PresentOwed ==
  ASSUME TransferInv, NEW p \in Rank, pc[p] = "reply"
  PROVE  LET dest == requestors[p][i[p]]
         IN  /\ dest \in Rank /\ dest # p /\ work_requested_rank[dest] = p
             /\ Owed(p, dest) /\ pc[dest] # "recvData"
  <1>. DEFINE dest == requestors[p][i[p]]
  <1>0. TypeOK /\ LoopShape /\ Stages
    BY DEF TransferInv
  <1>1. dest \in Rank /\ Owes(p, dest)
    BY <1>0, InsideLoop DEF LoopLabel
  <1>. HIDE DEF dest
  <1>2. Pair(p, dest)
    BY <1>0, <1>1, StagesParts
  <1>3. work_requested_rank[dest] = p /\ dest # p /\ Stage(p, dest)
    BY <1>1, <1>2 DEF Pair, Unrelated
  <1>4. Owed(p, dest) /\ pc[dest] # "recvData"
    BY <1>1, <1>3 DEF Stage, Asked, Refused, HalfSent, Sent, HalfTaken, Taken
  <1>. QED
    BY <1>1, <1>3, <1>4 DEF dest

\* A request is refused.
LEMMA SendNoWorkStep ==
  ASSUME TransferInv, NEW p \in Rank, SendNoWork(p)
  PROVE  TransferInv'
  <1>. DEFINE dest == requestors[p][i[p]]
  <1>0. TypeOK /\ LoopShape /\ Stages
    BY DEF TransferInv
  <1>1. /\ pc[p] = "reply" /\ sizes[p][i[p]] = 0
        /\ wire' = [wire EXCEPT ![p][dest] = Append(@, Msg("nowork", 0))]
        /\ MPI_Send(p, dest, "nowork")
        /\ NextRequestor(p)
        /\ UNCHANGED <<count, budget, work_requested_rank, work_outstanding, items,
                       req, receipt>>
    BY DEF SendNoWork
  <1>2. /\ dest \in Rank /\ dest # p /\ work_requested_rank[dest] = p
        /\ Owed(p, dest) /\ pc[dest] # "recvData"
    BY <1>1, PresentOwed
  <1>3. sending' = [sending EXCEPT ![p] = NoSend]
    BY <1>1, ShortSend
  <1>4. /\ wire' \in [Rank -> [Rank -> Seq(Message)]]
        /\ wire'[p][dest] = Append(wire[p][dest], Msg("nowork", 0))
        /\ \A a, b \in Rank : a # p \/ b # dest => wire'[a][b] = wire[a][b]
    <2>1. Msg("nowork", 0) \in Message
      BY DEF Msg, Message
    <2>. QED
      BY ZenonT(60), <1>0, <1>1, <1>2, <2>1, PutBehind
  <1>5. wire'[p][dest] = <<Msg("nowork", 0)>>
    BY <1>2, <1>4 DEF Owed
  <1>6. /\ pc' \in [Rank -> Label] /\ pc'[p] \in {"reply", "workreceiptCheck"}
        /\ \A r \in Rank : r # p => pc'[r] = pc[r]
        /\ total' \in [Rank -> Nat] /\ requestors' \in [Rank -> Seq(Rank)]
        /\ DOMAIN sizes' = Rank /\ i' \in [Rank -> Nat]
        /\ \A r \in Rank : /\ sizes'[r] \in [0 .. Len(requestors'[r]) -> Nat]
                           /\ i'[r] \in 0 .. Len(requestors'[r])
                           /\ r # p => sizes'[r] = sizes[r] /\ i'[r] = i[r]
        /\ sending' \in [Rank -> [to : Rank \cup {MPI_PROC_NULL}, kind : Kind]]
        /\ LoopShape' /\ LoopSum' /\ HeldInLoop'
    <2>1. /\ count' = count /\ count \in [Rank -> Nat] /\ count[p] \in Nat
      BY <1>0, <1>1 DEF TypeOK
    <2>2. count'[p] = count[p] - sizes[p][i[p]]
      BY <1>1, <2>1
    <2>. QED
      BY <1>1, <1>3, <2>1, <2>2, NextInv DEF LoopLabel
  <1>7. TypeOK'
    BY <1>0, <1>1, <1>4, <1>6 DEF TypeOK
  <1>8. ASSUME NEW r \in Rank PROVE Asker(r)'
    BY <1>0, <1>1, <1>6, StagesParts DEF Asker
  <1>9. ASSUME NEW s \in Rank, NEW r \in Rank PROVE Pair(s, r)'
    <2>1. Pair(s, r)
      BY <1>0, StagesParts
    <2>2. /\ s = p => (Owes(p, r)' <=> Rest(p, r)) /\ ~Between(p, r)'
          /\ s # p => (Owes(s, r)' <=> Owes(s, r)) /\ (Between(s, r)' <=> Between(s, r))
      BY <1>0, <1>1, NextOwes DEF LoopLabel
    <2>3. /\ Owes(p, r) <=> r = dest \/ Rest(p, r)
          /\ ~Rest(p, dest) /\ ~Between(p, r)
      BY <1>0, <1>1, InsideLoop DEF LoopLabel
    <2>4. pc'[r] = "recvData" <=> pc[r] = "recvData"
      BY <1>1, <1>6
    <2>5. CASE s # p
      BY <1>1, <1>4, <1>6, <2>1, <2>2, <2>4, <2>5, PairFrame
    <2>6. CASE s = p /\ r # dest
      <3>1. (Owes(p, r)' <=> Owes(p, r)) /\ (Between(p, r)' <=> Between(p, r))
        BY <2>2, <2>3, <2>6
      <3>. QED
        BY <1>1, <1>2, <1>4, <2>1, <2>3, <2>4, <2>6, <3>1, PairFrame
    <2>7. CASE s = p /\ r = dest
      <3>1. ~Owes(p, r)' /\ ~Between(p, r)'
        BY <2>2, <2>3, <2>7
      <3>2. Refused(p, r)'
        BY <1>1, <1>2, <1>5, <2>7, <3>1 DEF Refused, Owed
      <3>. QED
        BY <1>1, <1>2, <2>4, <2>7, <3>2 DEF Pair, Stage
    <2>. QED
      BY <2>5, <2>6, <2>7
  <1>10. Stages'
    BY <1>8, <1>9 DEF Stages, Asker, Pair
  <1>. QED
    BY <1>6, <1>7, <1>10 DEF TransferInv

\* Items leave the queue: no pair changes its stage.
LEMMA SubtractStep ==
  ASSUME TransferInv, NEW p \in Rank, Subtract(p)
  PROVE  TransferInv'
  <1>0. TypeOK /\ LoopShape /\ Stages
    BY DEF TransferInv
  <1>1. /\ pc[p] = "sent" /\ sending' = [sending EXCEPT ![p] = NoSend]
        /\ count' = [count EXCEPT ![p] = @ - sizes[p][i[p]]]
        /\ work_outstanding' = [work_outstanding EXCEPT ![p] = @ + 1]
        /\ NextRequestor(p)
        /\ UNCHANGED <<budget, work_requested_rank, items, req, wire, receipt>>
    BY DEF Subtract, Returned, netVars
  <1>2. /\ sizes[p][i[p]] \in Nat /\ sizes[p][i[p]] <= count[p] /\ count[p] \in Nat
    BY <1>1, ShareFits DEF LoopLabel
  <1>3. sizes[p][i[p]] > 0
    BY <1>0, <1>1, InsideLoop DEF LoopShape, LoopLabel
  <1>4. work_requested_rank[p] = MPI_PROC_NULL
    <2>1. count[p] # 0
      BY <1>2, <1>3
    <2>. QED
      BY <1>0, <2>1, StagesParts DEF Asker
  <1>5. /\ count' \in [Rank -> Nat] /\ count'[p] = count[p] - sizes[p][i[p]]
        /\ \A r \in Rank : r # p => count'[r] = count[r]
    <2>1. count[p] - sizes[p][i[p]] \in Nat
      BY <1>2
    <2>. QED
      BY <1>0, <1>1, <2>1 DEF TypeOK
  <1>6. /\ pc' \in [Rank -> Label] /\ pc'[p] \in {"reply", "workreceiptCheck"}
        /\ \A r \in Rank : r # p => pc'[r] = pc[r]
        /\ total' \in [Rank -> Nat] /\ requestors' \in [Rank -> Seq(Rank)]
        /\ DOMAIN sizes' = Rank /\ i' \in [Rank -> Nat]
        /\ \A r \in Rank : /\ sizes'[r] \in [0 .. Len(requestors'[r]) -> Nat]
                           /\ i'[r] \in 0 .. Len(requestors'[r])
                           /\ r # p => sizes'[r] = sizes[r] /\ i'[r] = i[r]
        /\ sending' \in [Rank -> [to : Rank \cup {MPI_PROC_NULL}, kind : Kind]]
        /\ LoopShape' /\ LoopSum' /\ HeldInLoop'
    BY <1>1, <1>5, NextInv DEF LoopLabel
  <1>7. TypeOK'
    <2>1. work_outstanding' \in [Rank -> Nat]
      <3>1. work_outstanding \in [Rank -> Nat] /\ work_outstanding[p] \in Nat
        BY <1>0 DEF TypeOK
      <3>. QED
        BY <1>1, <3>1
    <2>. QED
      BY <1>0, <1>1, <1>5, <1>6, <2>1 DEF TypeOK
  <1>8. ASSUME NEW r \in Rank PROVE Asker(r)'
    BY <1>0, <1>1, <1>4, <1>5, <1>6, StagesParts DEF Asker
  <1>9. ASSUME NEW s \in Rank, NEW r \in Rank PROVE Pair(s, r)'
    <2>1. Pair(s, r)
      BY <1>0, StagesParts
    <2>2. /\ s = p => (Owes(p, r)' <=> Rest(p, r)) /\ ~Between(p, r)'
          /\ s # p => (Owes(s, r)' <=> Owes(s, r)) /\ (Between(s, r)' <=> Between(s, r))
      BY <1>0, <1>1, NextOwes DEF LoopLabel
    <2>3. (Owes(p, r) <=> Rest(p, r)) /\ ~Between(p, r)
      BY <1>0, <1>1, InsideLoop DEF LoopLabel
    <2>4. pc'[r] = "recvData" <=> pc[r] = "recvData"
      BY <1>1, <1>6
    <2>5. /\ Owes(s, r)' <=> Owes(s, r)
          /\ Between(s, r)' <=> Between(s, r)
          /\ Between(s, r) => sizes'[s][i'[s]] = sizes[s][i[s]]
      BY <1>6, <2>2, <2>3
    <2>. QED
      BY <1>1, <2>1, <2>4, <2>5, PairFrame
  <1>10. Stages'
    BY <1>8, <1>9 DEF Stages, Asker, Pair
  <1>. QED
    BY <1>6, <1>7, <1>10 DEF TransferInv

\* The loop stays with its requestor while it sends the two messages.
LEMMA StayInv ==
  ASSUME TransferInv, NEW p \in Rank, pc[p] \in LoopLabel,
         NEW label \in {"sendData", "sent"}, NEW kind \in {"offsets", "data"},
         pc' = [pc EXCEPT ![p] = label], sizes[p][i[p]] > 0,
         MPI_Send(p, requestors[p][i[p]], kind), UNCHANGED loopVars, UNCHANGED count
  PROVE  /\ LoopShape' /\ LoopSum' /\ HeldInLoop'
         /\ pc' \in [Rank -> Label]
         /\ sending' \in [Rank -> [to : Rank \cup {MPI_PROC_NULL}, kind : Kind]]
         /\ pc'[p] = label /\ \A r \in Rank : r # p => pc'[r] = pc[r]
  <1>. DEFINE dest == requestors[p][i[p]]
  <1>0. TypeOK /\ LoopShape /\ LoopSum /\ HeldInLoop
    BY DEF TransferInv
  <1>1. dest \in Rank /\ InLoop(p)
    BY <1>0, InsideLoop
  <1>2. /\ pc' \in [Rank -> Label] /\ pc'[p] = label
        /\ \A r \in Rank : r # p => pc'[r] = pc[r]
        /\ total' = total /\ requestors' = requestors /\ sizes' = sizes /\ i' = i
    BY <1>0 DEF TypeOK, loopVars, Label
  <1>3. PICK hold \in {NoSend, [to |-> dest, kind |-> kind]} :
          sending' = [sending EXCEPT ![p] = hold]
    BY DEF MPI_Send
  <1>4. hold \in [to : Rank \cup {MPI_PROC_NULL}, kind : Kind]
    BY <1>1, <1>3 DEF NoSend, Kind
  <1>5. /\ sending' \in [Rank -> [to : Rank \cup {MPI_PROC_NULL}, kind : Kind]]
        /\ sending'[p] = hold /\ \A r \in Rank : r # p => sending'[r] = sending[r]
    BY <1>0, <1>3, <1>4 DEF TypeOK
  <1>6. hold # NoSend => hold.to = dest /\ hold.kind \in {"offsets", "data"}
    BY <1>3
  <1>7. LoopShape'
    BY <1>0, <1>1, <1>2 DEF LoopShape, InLoop
  <1>8. LoopSum'
    BY <1>0, <1>2 DEF LoopSum, InLoop
  <1>9. HeldInLoop'
    BY <1>0, <1>2, <1>5, <1>6 DEF HeldInLoop
  <1>. QED
    BY <1>2, <1>5, <1>7, <1>8, <1>9

\* The offsets are sent.
LEMMA SendOffsetsStep ==
  ASSUME TransferInv, NEW p \in Rank, SendOffsets(p)
  PROVE  TransferInv'
  <1>. DEFINE dest == requestors[p][i[p]]
              n == sizes[p][i[p]]
  <1>0. TypeOK /\ LoopShape /\ Stages
    BY DEF TransferInv
  <1>1. /\ pc[p] = "reply" /\ n > 0
        /\ wire' = [wire EXCEPT ![p][dest] = Append(@, Msg("offsets", n))]
        /\ MPI_Send(p, dest, "offsets")
        /\ pc' = [pc EXCEPT ![p] = "sendData"]
        /\ UNCHANGED <<count, budget, work_requested_rank, work_outstanding, loopVars,
                       items, req, receipt>>
        /\ requestors' = requestors /\ sizes' = sizes /\ i' = i /\ total' = total
    BY DEF SendOffsets, Goto, loopVars
  <1>2. /\ dest \in Rank /\ dest # p /\ work_requested_rank[dest] = p
        /\ Owed(p, dest) /\ pc[dest] # "recvData"
    BY <1>1, PresentOwed
  <1>3. n \in Nat
    BY <1>1, ShareFits DEF LoopLabel
  <1>4. /\ wire' \in [Rank -> [Rank -> Seq(Message)]]
        /\ wire'[p][dest] = Append(wire[p][dest], Msg("offsets", n))
        /\ \A a, b \in Rank : a # p \/ b # dest => wire'[a][b] = wire[a][b]
    <2>1. Msg("offsets", n) \in Message
      BY <1>3 DEF Msg, Message
    <2>. QED
      BY ZenonT(60), <1>0, <1>1, <1>2, <2>1, PutBehind
  <1>5. wire'[p][dest] = <<Msg("offsets", n)>>
    BY <1>2, <1>4 DEF Owed
  <1>6. /\ LoopShape' /\ LoopSum' /\ HeldInLoop'
        /\ pc' \in [Rank -> Label]
        /\ sending' \in [Rank -> [to : Rank \cup {MPI_PROC_NULL}, kind : Kind]]
        /\ pc'[p] = "sendData" /\ \A r \in Rank : r # p => pc'[r] = pc[r]
    BY <1>1, StayInv DEF LoopLabel
  <1>7. TypeOK'
    BY <1>0, <1>1, <1>4, <1>6 DEF TypeOK
  <1>8. ASSUME NEW r \in Rank PROVE Asker(r)'
    BY <1>0, <1>1, <1>6, StagesParts DEF Asker
  <1>9. ASSUME NEW s \in Rank, NEW r \in Rank PROVE Pair(s, r)'
    <2>1. Pair(s, r)
      BY <1>0, StagesParts
    <2>2. (Owes(p, r)' <=> Rest(p, r)) /\ (Between(p, r)' <=> r = dest)
      BY <1>1, <1>6 DEF Owes, Rest, Between
    <2>3. /\ Owes(p, r) <=> r = dest \/ Rest(p, r)
          /\ ~Rest(p, dest) /\ ~Between(p, r)
      BY <1>0, <1>1, InsideLoop DEF LoopLabel
    <2>4. pc'[r] = "recvData" <=> pc[r] = "recvData"
      BY <1>1, <1>6
    <2>5. CASE s # p
      <3>1. (Owes(s, r)' <=> Owes(s, r)) /\ (Between(s, r)' <=> Between(s, r))
        BY <1>1, <1>6, <2>5, OwesFrame
      <3>. QED
        BY <1>1, <1>4, <2>1, <2>4, <2>5, <3>1, PairFrame
    <2>6. CASE s = p /\ r # dest
      <3>1. (Owes(p, r)' <=> Owes(p, r)) /\ (Between(p, r)' <=> Between(p, r))
        BY <2>2, <2>3, <2>6
      <3>. QED
        BY <1>1, <1>2, <1>4, <2>1, <2>3, <2>4, <2>6, <3>1, PairFrame
    <2>7. CASE s = p /\ r = dest
      <3>1. ~Owes(p, r)' /\ Between(p, r)'
        BY <2>2, <2>3, <2>7
      <3>2. HalfSent(p, r)'
        BY <1>1, <1>2, <1>5, <2>7, <3>1 DEF HalfSent, Owed
      <3>. QED
        BY <1>1, <1>2, <2>4, <2>7, <3>2 DEF Pair, Stage
    <2>. QED
      BY <2>5, <2>6, <2>7
  <1>10. Stages'
    BY <1>8, <1>9 DEF Stages, Asker, Pair
  <1>. QED
    BY <1>6, <1>7, <1>10 DEF TransferInv

\* The data follow, whether or not the offsets have been taken.
LEMMA SendDataStep ==
  ASSUME TransferInv, NEW p \in Rank, SendData(p)
  PROVE  TransferInv'
  <1>. DEFINE dest == requestors[p][i[p]]
              n == sizes[p][i[p]]
  <1>0. TypeOK /\ LoopShape /\ Stages
    BY DEF TransferInv
  <1>1. /\ pc[p] = "sendData"
        /\ wire' = [wire EXCEPT ![p][dest] = Append(@, Msg("data", n))]
        /\ MPI_Send(p, dest, "data")
        /\ pc' = [pc EXCEPT ![p] = "sent"]
        /\ UNCHANGED <<count, budget, work_requested_rank, work_outstanding, loopVars,
                       items, req, receipt>>
        /\ requestors' = requestors /\ sizes' = sizes /\ i' = i /\ total' = total
    BY DEF SendData, Goto, loopVars
  <1>2. /\ dest \in Rank /\ InLoop(p) /\ Between(p, dest)
    BY <1>0, <1>1, InsideLoop DEF LoopLabel
  <1>3. n \in Nat /\ n > 0
    BY <1>0, <1>1, <1>2, ShareFits DEF LoopLabel, LoopShape
  <1>4. /\ wire' \in [Rank -> [Rank -> Seq(Message)]]
        /\ wire'[p][dest] = Append(wire[p][dest], Msg("data", n))
        /\ \A a, b \in Rank : a # p \/ b # dest => wire'[a][b] = wire[a][b]
    <2>1. Msg("data", n) \in Message
      BY <1>3 DEF Msg, Message
    <2>2. dest \in Rank /\ wire' = [wire EXCEPT ![p][dest] = Append(@, Msg("data", n))]
      BY <1>1, <1>2
    <2>. HIDE DEF dest, n
    <2>. QED
      BY ZenonT(60), <1>0, <2>1, <2>2, PutBehind
  <1>5. /\ work_requested_rank[dest] = p /\ dest # p
        /\ pc[dest] = "recvData" => HalfTaken(p, dest)
        /\ pc[dest] # "recvData" => HalfSent(p, dest)
    <2>1. Pair(p, dest)
      BY <1>0, <1>2, StagesParts
    <2>2. work_requested_rank[dest] = p /\ dest # p /\ Stage(p, dest)
      BY <1>2, <2>1 DEF Pair, Unrelated
    <2>. QED
      BY <1>2, <2>2 DEF Stage, Asked, Owed, Refused, Sent, Taken
  <1>6. /\ LoopShape' /\ LoopSum' /\ HeldInLoop'
        /\ pc' \in [Rank -> Label]
        /\ sending' \in [Rank -> [to : Rank \cup {MPI_PROC_NULL}, kind : Kind]]
        /\ pc'[p] = "sent" /\ \A r \in Rank : r # p => pc'[r] = pc[r]
    BY <1>1, <1>3, StayInv DEF LoopLabel, n
  <1>7. TypeOK'
    BY <1>0, <1>1, <1>4, <1>6 DEF TypeOK
  <1>8. ASSUME NEW r \in Rank PROVE Asker(r)'
    BY <1>0, <1>1, <1>6, StagesParts DEF Asker
  <1>9. ASSUME NEW s \in Rank, NEW r \in Rank PROVE Pair(s, r)'
    <2>1. Pair(s, r)
      BY <1>0, StagesParts
    <2>2. (Owes(p, r)' <=> Rest(p, r)) /\ ~Between(p, r)'
      BY <1>1, <1>6 DEF Owes, Rest, Between
    <2>3. /\ Owes(p, r) <=> Rest(p, r)
          /\ Between(p, r) <=> r = dest
      BY <1>0, <1>1, InsideLoop DEF LoopLabel
    <2>4. pc'[r] = "recvData" <=> pc[r] = "recvData"
      BY <1>1, <1>6
    <2>5. CASE s # p
      <3>1. (Owes(s, r)' <=> Owes(s, r)) /\ (Between(s, r)' <=> Between(s, r))
        BY <1>1, <1>6, <2>5, OwesFrame
      <3>. QED
        BY <1>1, <1>4, <2>1, <2>4, <2>5, <3>1, PairFrame
    <2>6. CASE s = p /\ r # dest
      <3>1. (Owes(p, r)' <=> Owes(p, r)) /\ (Between(p, r)' <=> Between(p, r))
        BY <2>2, <2>3, <2>6
      <3>. QED
        BY <1>1, <1>2, <1>4, <2>1, <2>3, <2>4, <2>6, <3>1, PairFrame
    <2>7. CASE s = p /\ r = dest
      <3>1. (Owes(p, r)' <=> Owes(p, r)) /\ ~Between(p, r)'
        BY <2>2, <2>3
      <3>2. CASE pc[dest] = "recvData"
        <4>1. HalfTaken(p, dest) /\ items[dest] = n
          BY <1>5, <3>2 DEF HalfTaken, n
        <4>2. wire'[p][dest] = <<Msg("data", n)>>
          BY <1>4, <4>1 DEF HalfTaken
        <4>3. Taken(p, r)'
          BY <1>1, <1>3, <2>7, <3>1, <4>1, <4>2 DEF HalfTaken, Taken
        <4>. QED
          BY <1>1, <1>5, <2>4, <2>7, <3>2, <4>3 DEF Pair, Stage
      <3>3. CASE pc[dest] # "recvData"
        <4>1. HalfSent(p, dest) /\ wire[p][dest] = <<Msg("offsets", n)>>
          BY <1>5, <3>3 DEF HalfSent, n
        <4>. HIDE DEF n
        <4>2. wire'[p][r] = <<Msg("offsets", n), Msg("data", n)>>
          <5>1. wire'[p][r] = Append(<<Msg("offsets", n)>>, Msg("data", n))
            BY <1>4, <2>7, <4>1
          <5>. QED
            BY <5>1, AppendOne
        <4>3. wire'[p][r] # <<>> /\ wire'[p][r][1].items = n
          BY <4>2 DEF Msg
        <4>4. req'[r][p] = 0 /\ ~Owes(p, r)'
          BY <1>1, <2>7, <3>1, <4>1 DEF HalfSent
        <4>5. Sent(p, r)'
          BY <1>3, <3>1, <4>2, <4>3, <4>4 DEF Sent
        <4>. QED
          BY <1>1, <1>5, <2>4, <2>7, <3>3, <4>5 DEF Pair, Stage
      <3>. QED
        BY <3>2, <3>3
    <2>. QED
      BY <2>5, <2>6, <2>7
  <1>10. Stages'
    BY <1>8, <1>9 DEF Stages, Asker, Pair
  <1>. QED
    BY <1>6, <1>7, <1>10 DEF TransferInv

\* The requests of S are taken, and the loop starts.
LEMMA TakeRequestsStep ==
  ASSUME TransferInv, NEW p \in Rank, NEW S \in Found(p) \ {{}}, TakeRequests(p, S)
  PROVE  TransferInv'
  <1>0. TypeOK /\ LoopShape /\ LoopSum /\ HeldInLoop /\ Stages
    BY DEF TransferInv
  <1>1. S \in SUBSET Rank /\ S # {} /\ \A r \in S : req[r][p] > 0
    BY DEF Found, Requestors
  <1>2. /\ pc[p] = "workreqCheck" /\ pc' = [pc EXCEPT ![p] = "reply"]
        /\ sending' = [sending EXCEPT ![p] = NoSend]
        /\ i' = [i EXCEPT ![p] = 1]
        /\ total' = [total EXCEPT ![p] = count[p]]
        /\ req' = [s \in Rank |-> [req[s] EXCEPT ![p] = IF s \in S THEN @ - 1 ELSE @]]
        /\ UNCHANGED <<count, budget, work_requested_rank, work_outstanding, items,
                       wire, receipt>>
    BY DEF TakeRequests, Returned, Goto
  <1>3. PICK order \in Arrivals(S) : requestors' = [requestors EXCEPT ![p] = order]
    BY DEF TakeRequests
  <1>4. PICK split \in IF count[p] = 0 THEN {[k \in 0 .. Cardinality(S) |-> 0]}
                       ELSE Splits(SplitEqual, count[p], Cardinality(S)) :
          sizes' = [sizes EXCEPT ![p] = split]
    BY DEF TakeRequests
  <1>. DEFINE n == Cardinality(S)
  <1>5. /\ order \in Seq(Rank) /\ Len(order) = n /\ n \in Nat \ {0}
        /\ \A k \in 1 .. n : order[k] \in S
        /\ \A d \in S : \E k \in 1 .. n : order[k] = d
        /\ \A j, k \in 1 .. n : order[j] = order[k] => j = k
    BY <1>1, <1>3, ArrivalsType
  <1>6. /\ count[p] \in Nat /\ split \in [0 .. n -> Nat]
        /\ count[p] = 0 => split = [k \in 0 .. n |-> 0]
        /\ count[p] # 0 => /\ split \in Splits(SplitEqual, count[p], n)
                           /\ SentBefore(SplitEqual, count[p], n, split[0], 0) = 0
    <2>. HIDE DEF n
    <2>1. count[p] \in Nat
      BY <1>0 DEF TypeOK
    <2>2. CASE count[p] = 0
      BY <1>4, <1>5, <2>2 DEF n
    <2>3. CASE count[p] # 0
      <3>1. /\ count[p] \in Nat \ {0} /\ split \in Splits(SplitEqual, count[p], n)
            /\ SplitEqual \in BOOLEAN
        BY <1>4, <2>1, <2>3, TransferAssumption DEF n
      <3>2. split \in [0 .. n -> Nat]
        BY <1>5, <3>1, SplitType
      <3>3. SentBefore(SplitEqual, count[p], n, split[0], 0) = 0
        BY <1>5, <3>1, Shares
      <3>. QED
        BY <2>3, <3>1, <3>2, <3>3
    <2>. QED
      BY <2>1, <2>2, <2>3
  <1>. HIDE DEF n
  <1>7. /\ pc'[p] = "reply" /\ sending'[p] = NoSend /\ i'[p] = 1 /\ total'[p] = count[p]
        /\ requestors'[p] = order /\ sizes'[p] = split
        /\ \A r \in Rank : r # p => /\ pc'[r] = pc[r] /\ sending'[r] = sending[r]
                                    /\ i'[r] = i[r] /\ total'[r] = total[r]
                                    /\ requestors'[r] = requestors[r]
                                    /\ sizes'[r] = sizes[r]
    BY <1>0, <1>2, <1>3, <1>4 DEF TypeOK
  <1>8. \A s, r \in Rank : req'[s][r] = IF s \in S /\ r = p THEN req[s][r] - 1 ELSE req[s][r]
    BY <1>0, <1>2 DEF TypeOK
  <1>9. ASSUME NEW r \in S
        PROVE  work_requested_rank[r] = p /\ r # p /\ pc[r] # "recvData" /\ Asked(p, r)
    <2>1. Pair(p, r) /\ req[r][p] # 0
      BY <1>0, <1>1, StagesParts DEF TypeOK
    <2>2. work_requested_rank[r] = p /\ r # p /\ Stage(p, r)
      BY <2>1 DEF Pair, Unrelated
    <2>. QED
      BY <2>1, <2>2 DEF Stage, Owed, Refused, HalfSent, Sent, HalfTaken, Taken
  <1>10. TypeOK'
    <2>1. req' \in [Rank -> [Rank -> Nat]]
      <3>1. req \in [Rank -> [Rank -> Nat]]
        BY <1>0 DEF TypeOK
      <3>2. \A s \in S : req[s][p] = 1
        BY <1>9 DEF Asked
      <3>3. ASSUME NEW s \in Rank
            PROVE  [req[s] EXCEPT ![p] = IF s \in S THEN @ - 1 ELSE @] \in [Rank -> Nat]
        <4>1. (IF s \in S THEN req[s][p] - 1 ELSE req[s][p]) \in Nat
          BY <3>1, <3>2
        <4>. QED
          BY <3>1, <4>1
      <3>. QED
        BY <1>2, <3>3
    <2>2. /\ pc' \in [Rank -> Label] /\ total' \in [Rank -> Nat]
          /\ requestors' \in [Rank -> Seq(Rank)]
          /\ DOMAIN sizes' = Rank /\ i' \in [Rank -> Nat]
          /\ sending' \in [Rank -> [to : Rank \cup {MPI_PROC_NULL}, kind : Kind]]
      BY <1>0, <1>2, <1>3, <1>4, <1>5, <1>6 DEF TypeOK, Label, NoSend, Kind
    <2>3. \A r \in Rank : /\ sizes'[r] \in [0 .. Len(requestors'[r]) -> Nat]
                          /\ i'[r] \in 0 .. Len(requestors'[r])
      <3>1. sizes'[p] \in [0 .. Len(requestors'[p]) -> Nat]
            /\ i'[p] \in 0 .. Len(requestors'[p])
        BY <1>5, <1>6, <1>7
      <3>. QED
        BY <1>0, <1>7, <3>1 DEF TypeOK
    <2>. QED
      BY <1>0, <1>2, <2>1, <2>2, <2>3 DEF TypeOK
  <1>11. LoopShape'
    <2>. SUFFICES ASSUME NEW r \in Rank
                  PROVE  IF InLoop(r)'
                         THEN /\ pc'[r] \in {"reply", "sendData", "sent"}
                              /\ i'[r] \in 1 .. Len(requestors'[r])
                              /\ \A j, k \in 1 .. Len(requestors'[r]) :
                                   requestors'[r][j] = requestors'[r][k] => j = k
                              /\ pc'[r] # "reply" => sizes'[r][i'[r]] > 0
                         ELSE pc'[r] \notin {"reply", "sendData", "sent"} /\ i'[r] = 0
      BY DEF LoopShape
    <2>1. CASE r = p
      <3>1. order # <<>>
        BY <1>5
      <3>. QED
        BY <1>5, <1>7, <2>1, <3>1 DEF InLoop
    <2>2. CASE r # p
      BY <1>0, <1>7, <2>2 DEF LoopShape, InLoop
    <2>. QED
      BY <2>1, <2>2
  <1>12. LoopSum'
    <2>. SUFFICES ASSUME NEW r \in Rank, InLoop(r)'
                  PROVE  IF total'[r] = 0
                         THEN /\ count'[r] = 0
                              /\ sizes'[r] = [k \in 0 .. Len(requestors'[r]) |-> 0]
                         ELSE /\ sizes'[r] \in Splits(SplitEqual, total'[r],
                                                     Len(requestors'[r]))
                              /\ count'[r] = total'[r]
                                   - SentBefore(SplitEqual, total'[r],
                                                Len(requestors'[r]),
                                                sizes'[r][0], i'[r] - 1)
      BY DEF LoopSum
    <2>1. CASE r = p
      BY <1>2, <1>5, <1>6, <1>7, <2>1
    <2>2. CASE r # p
      <3>1. /\ total'[r] = total[r] /\ count'[r] = count[r]
            /\ sizes'[r] = sizes[r] /\ requestors'[r] = requestors[r]
            /\ i'[r] = i[r]
        BY <1>2, <1>7, <2>2
      <3>2. InLoop(r)
        BY <3>1 DEF InLoop
      <3>3. IF total[r] = 0
            THEN /\ count[r] = 0
                 /\ sizes[r] = [k \in 0 .. Len(requestors[r]) |-> 0]
            ELSE /\ sizes[r] \in Splits(SplitEqual, total[r],
                                        Len(requestors[r]))
                 /\ count[r] = total[r]
                      - SentBefore(SplitEqual, total[r], Len(requestors[r]),
                                   sizes[r][0], i[r] - 1)
        BY <1>0, <3>2 DEF LoopSum
      <3>. QED
        BY <3>1, <3>3
    <2>. QED
      BY <2>1, <2>2
  <1>13. HeldInLoop'
    BY <1>0, <1>7 DEF HeldInLoop
  <1>14. ASSUME NEW r \in Rank PROVE Asker(r)'
    BY <1>0, <1>2, <1>7, StagesParts DEF Asker
  <1>15. ASSUME NEW s \in Rank, NEW r \in Rank PROVE Pair(s, r)'
    <2>1. Pair(s, r)
      BY <1>0, StagesParts
    <2>2. pc'[r] = "recvData" <=> pc[r] = "recvData"
      BY <1>2, <1>7
    <2>3. CASE s # p
      <3>1. (Owes(s, r)' <=> Owes(s, r)) /\ (Between(s, r)' <=> Between(s, r))
        BY <1>7, <2>3, OwesFrame
      <3>. QED
        BY <1>2, <1>7, <1>8, <2>1, <2>2, <2>3, <3>1, PairFrame
    <2>4. CASE s = p
      <3>1. ~Owes(p, r) /\ ~Between(p, r)
        BY <1>0, <1>2, OutsideLoop DEF LoopLabel
      <3>2. (Owes(p, r)' <=> r \in S) /\ ~Between(p, r)'
        BY <1>5, <1>7 DEF Owes, Between
      <3>3. CASE r \in S
        <4>1. Asked(p, r) /\ work_requested_rank[r] = p /\ r # p /\ pc[r] # "recvData"
          BY <1>9, <3>3
        <4>2. Owed(p, r)'
          BY <1>2, <1>8, <3>2, <3>3, <4>1 DEF Asked, Owed
        <4>. QED
          BY <1>2, <2>2, <2>4, <4>1, <4>2 DEF Pair, Stage
      <3>4. CASE r \notin S
        BY <1>2, <1>8, <2>1, <2>2, <2>4, <3>1, <3>2, <3>4, PairFrame
      <3>. QED
        BY <3>3, <3>4
    <2>. QED
      BY <2>3, <2>4
  <1>16. Stages'
    BY <1>14, <1>15 DEF Stages, Asker, Pair
  <1>. QED
    BY <1>10, <1>11, <1>12, <1>13, <1>16 DEF TransferInv

-----------------------------------------------------------------------------
(* The inductive invariant *)

LEMMA TransferInit == Init => TransferInv
  <1>. SUFFICES ASSUME Init PROVE TransferInv
    OBVIOUS
  <1>1. TypeOK
    <2>1. count \in [Rank -> Nat] /\ budget \in Nat
      BY TransferAssumption DEF Init
    <2>2. \A r \in Rank : requestors[r] = <<>> /\ sizes[r] = NoSizes /\ i[r] = 0
      BY DEF Init
    <2>3. /\ NoSizes \in [0 .. 0 -> Nat] /\ Len(<<>>) = 0 /\ 0 .. 0 = {0}
      BY DEF NoSizes
    <2>4. \A r \in Rank : /\ sizes[r] \in [0 .. Len(requestors[r]) -> Nat]
                          /\ i[r] \in 0 .. Len(requestors[r])
      BY <2>2, <2>3
    <2>5. /\ requestors \in [Rank -> Seq(Rank)]
          /\ wire \in [Rank -> [Rank -> Seq(Message)]]
      BY DEF Init
    <2>. QED
      BY <2>1, <2>4, <2>5 DEF Init, TypeOK, Label, NoSend, Kind
  <1>2. LoopShape /\ LoopSum /\ HeldInLoop
    BY DEF Init, LoopShape, LoopSum, HeldInLoop, InLoop
  <1>3. ASSUME NEW r \in Rank PROVE Asker(r) /\ \A s \in Rank : Pair(s, r)
    <2>1. Asker(r)
      BY DEF Init, Asker
    <2>2. ASSUME NEW s \in Rank PROVE Pair(s, r)
      <3>1. ~Owes(s, r) /\ ~Between(s, r)
        BY <1>1, <1>2, OutsideLoop DEF Init, LoopLabel
      <3>. QED
        BY <3>1, RankFinite DEF Init, Pair, Unrelated
    <2>. QED
      BY <2>1, <2>2
  <1>. QED
    BY <1>1, <1>2, <1>3, StagesParts DEF TransferInv

LEMMA TransferStep == TransferInv /\ [Next]_vars => TransferInv'
  <1>. SUFFICES ASSUME TransferInv, [Next]_vars PROVE TransferInv'
    OBVIOUS
  <1>1. CASE Next
    <2>1. PICK p \in Rank : Step(p)
      BY <1>1 DEF Next
    <2>. QED
      BY <2>1, NoRequestStep, TakeRequestsStep, SendNoWorkStep, SendOffsetsStep,
         SendDataStep, SubtractStep, TakeReceiptsStep, SendRequestStep,
         AwaitReplyStep, TakeReplyStep, RecvDataStep, ProcessItemStep, IdleStep
         DEF Step
  <1>2. CASE UNCHANGED vars
    <2>1. /\ UNCHANGED <<pc, count, budget, work_requested_rank, work_outstanding,
                         total, requestors, sizes, i, items, sending, req, wire, receipt>>
      BY <1>2 DEF vars, loopVars, netVars
    <2>2. TypeOK' /\ LoopShape' /\ LoopSum' /\ HeldInLoop'
      <3>1. TypeOK'
        BY <2>1 DEF TransferInv, TypeOK
      <3>2. LoopShape'
        BY <2>1 DEF TransferInv, LoopShape, InLoop
      <3>3. LoopSum'
        BY <2>1 DEF TransferInv, LoopSum, InLoop
      <3>4. HeldInLoop'
        BY <2>1 DEF TransferInv, HeldInLoop
      <3>. QED
        BY <3>1, <3>2, <3>3, <3>4
    <2>3. ASSUME NEW r \in Rank PROVE Asker(r)'
      BY <2>1, StagesParts DEF TransferInv, Asker
    <2>4. ASSUME NEW s \in Rank, NEW r \in Rank PROVE Pair(s, r)'
      <3>1. Pair(s, r)
        BY StagesParts DEF TransferInv
      <3>2. (Owes(s, r)' <=> Owes(s, r)) /\ (Between(s, r)' <=> Between(s, r))
        BY <2>1, OwesFrame
      <3>. QED
        BY <2>1, <3>1, <3>2, PairFrame
    <2>5. Stages'
      BY <2>3, <2>4 DEF Stages, Asker, Pair
    <2>. QED
      BY <2>2, <2>5 DEF TransferInv
  <1>. QED
    BY <1>1, <1>2

\* What the sender has still to send and the stage of every request are, in
\* every reachable state, what the handlers of State rely on.
THEOREM TransferInvariant == Spec => []TransferInv
  BY TransferInit, TransferStep, PTL DEF Spec

\* However the queue is divided and however long MPI holds the sends, sendWork
\* is asked for items the queue holds, and sizes[0] items are left in the end.
THEOREM SharesAlwaysFit == Spec => []SharesFit
  <1>1. TransferInv => SharesFit
    <2>. SUFFICES ASSUME TransferInv, NEW r \in Rank, InLoop(r)
                  PROVE  /\ sizes[r][i[r]] <= count[r]
                         /\ i[r] = Len(requestors[r]) =>
                              count[r] - sizes[r][i[r]] = sizes[r][0]
      BY DEF SharesFit
    <2>1. pc[r] \in LoopLabel
      BY DEF TransferInv, LoopShape, LoopLabel
    <2>. QED
      BY <2>1, ShareFits
  <1>. QED
    BY TransferInvariant, <1>1, PTL

\* A rank that gives work away keeps at least one item.
THEOREM SenderKeepsOne == Spec => []KeepsOne
  <1>1. TransferInv => KeepsOne
    <2>. SUFFICES ASSUME TransferInv, NEW r \in Rank, InLoop(r), total[r] > 0
                  PROVE  count[r] - sizes[r][i[r]] >= 1
      BY DEF KeepsOne
    <2>1. pc[r] \in LoopLabel
      BY DEF TransferInv, LoopShape, LoopLabel
    <2>. QED
      BY <2>1, ShareFits
  <1>. QED
    BY TransferInvariant, <1>1, PTL

\* The data workReceive waits for behind the offsets are those of the same
\* transfer.
THEOREM TransfersMatch == Spec => []TransferMatching
  <1>1. TransferInv => TransferMatching
    <2>. SUFFICES ASSUME TransferInv, NEW r \in Rank, pc[r] = "recvData"
                  PROVE  LET source == work_requested_rank[r]
                         IN  /\ count[r] = 0
                             /\ \/ wire[source][r] = <<Msg("data", items[r])>>
                                \/ /\ wire[source][r] = <<>>
                                   /\ pc[source] = "sendData"
                                   /\ requestors[source][i[source]] = r
                                   /\ sizes[source][i[source]] = items[r]
      BY DEF TransferMatching
    <2>. DEFINE source == work_requested_rank[r]
    <2>1. source # MPI_PROC_NULL /\ count[r] = 0
      BY StagesParts DEF TransferInv, Asker
    <2>2. source \in Rank
      BY <2>1 DEF TransferInv, TypeOK
    <2>3. Pair(source, r)
      BY <2>2, StagesParts DEF TransferInv
    <2>4. HalfTaken(source, r) \/ Taken(source, r)
      BY <2>3 DEF Pair, Stage
    <2>. QED
      BY <2>1, <2>4 DEF HalfTaken, Taken, Between
  <1>. QED
    BY TransferInvariant, <1>1, PTL

\* A rank that waits for another waits for one that goes on: blocking sends
\* of work never wait for each other, however many of them MPI holds.
THEOREM NoWaitChains == Spec => []NoWaitChain
  <1>1. TransferInv => NoWaitChain
    <2>. SUFFICES ASSUME TransferInv, NEW r \in Rank, WaitsFor(r) # MPI_PROC_NULL
                  PROVE  WaitsFor(WaitsFor(r)) = MPI_PROC_NULL
      BY DEF NoWaitChain
    <2>. DEFINE w == WaitsFor(r)
    <2>0. TypeOK /\ LoopShape /\ HeldInLoop /\ Stages
      BY DEF TransferInv
    \* A rank that is held is in its loop, and the rank it sends to has asked it.
    <2>1. ASSUME NEW s \in Rank, Held(s)
          PROVE  /\ pc[s] \in {"sendData", "sent"} /\ work_requested_rank[s] = MPI_PROC_NULL
                 /\ sending[s].to \in Rank /\ wire[s][sending[s].to] # <<>>
                 /\ work_requested_rank[sending[s].to] = s
      <3>1. /\ pc[s] \in {"sendData", "sent"} /\ sending[s].kind \in {"offsets", "data"}
            /\ sending[s].to = requestors[s][i[s]]
        BY <2>0, <2>1 DEF Held, HeldInLoop
      <3>2. sending[s].to \in Rank /\ InLoop(s)
        BY <2>0, <3>1, InsideLoop DEF LoopLabel
      <3>3. wire[s][sending[s].to] # <<>>
        BY <2>1, <3>1 DEF Held, InTransit
      <3>4. work_requested_rank[sending[s].to] = s
        <4>1. Pair(s, sending[s].to)
          BY <2>0, <3>2, StagesParts
        <4>. QED
          BY <3>3, <4>1 DEF Pair, Unrelated
      <3>5. count[s] # 0
        <4>1. sizes[s][i[s]] \in Nat /\ sizes[s][i[s]] <= count[s] /\ count[s] \in Nat
          BY <3>1, ShareFits DEF LoopLabel
        <4>2. sizes[s][i[s]] > 0
          BY <2>0, <3>1, <3>2 DEF LoopShape
        <4>. QED
          BY <4>1, <4>2
      <3>6. work_requested_rank[s] = MPI_PROC_NULL
        BY <2>0, <3>5, StagesParts DEF Asker
      <3>. QED
        BY <3>1, <3>2, <3>3, <3>4, <3>6
    <2>2. CASE Held(r)
      <3>1. w = sending[r].to
        BY <2>2 DEF WaitsFor
      <3>. HIDE DEF w
      <3>2. w \in Rank /\ wire[r][w] # <<>> /\ work_requested_rank[w] = r
        BY <2>1, <2>2, <3>1
      <3>3. ~Held(w)
        BY <2>1, <3>2, RankFinite
      <3>. QED
        BY <3>2, <3>3 DEF WaitsFor, w
    <2>3. CASE ~Held(r)
      <3>1. pc[r] = "recvData" /\ wire[work_requested_rank[r]][r] = <<>>
            /\ w = work_requested_rank[r]
        BY <2>3 DEF WaitsFor
      <3>. HIDE DEF w
      <3>2. w \in Rank
        BY <2>0, <3>1, StagesParts DEF Asker, TypeOK
      <3>3. Pair(w, r)
        BY <2>0, <3>2, StagesParts
      <3>4. HalfTaken(w, r) \/ Taken(w, r)
        BY <3>1, <3>3 DEF Pair, Stage
      <3>5. HalfTaken(w, r)
        <4>1. <<Msg("data", items[r])>> # <<>>
          OBVIOUS
        <4>2. wire[w][r] = <<>>
          BY <3>1
        <4>3. ~Taken(w, r)
          BY <4>1, <4>2 DEF Taken
        <4>. QED
          BY <3>4, <4>3
      <3>6. pc[w] = "sendData" /\ requestors[w][i[w]] = r /\ wire[w][r] = <<>>
        BY <3>5 DEF HalfTaken, Between
      <3>7. ~Held(w)
        BY <2>0, <3>2, <3>6 DEF Held, HeldInLoop, InTransit
      <3>. QED
        BY <3>6, <3>7 DEF WaitsFor, w
    <2>. QED
      BY <2>2, <2>3
  <1>. QED
    BY TransferInvariant, <1>1, PTL

-----------------------------------------------------------------------------
(* The handlers as single steps *)

\* What Replies is, at every stage of a request.
ReplyValue ==
  \A s, d \in Rank :
    LET taken == pc[d] = "recvData" /\ work_requested_rank[d] = s
    IN  /\ taken => Replies(s, d) = <<items[d]>>
        /\ ~taken /\ wire[s][d] # <<>> =>
             Replies(s, d) = << wire[s][d][1].items >>
        /\ ~taken /\ wire[s][d] = <<>> =>
             \A k \in StillOwed(s, d) : Replies(s, d) = << sizes[s][k] >>
        /\ ~taken /\ wire[s][d] = <<>> /\ StillOwed(s, d) = {} =>
             Replies(s, d) = <<>>

LEMMA ReplyValues == TransferInv => ReplyValue
  <1>. SUFFICES ASSUME TransferInv, NEW s \in Rank, NEW d \in Rank,
                       NEW k \in StillOwed(s, d)
                PROVE  (CHOOSE j \in StillOwed(s, d) : TRUE) = k
    BY ZenonT(60) DEF ReplyValue, Replies
  <1>1. TypeOK /\ LoopShape
    BY DEF TransferInv
  <1>2. PICK c : c = CHOOSE j \in StillOwed(s, d) : TRUE
    OBVIOUS
  <1>3. c \in StillOwed(s, d)
    BY <1>2
  <1>4. /\ k \in 1 .. Len(requestors[s]) /\ requestors[s][k] = d
        /\ c \in 1 .. Len(requestors[s]) /\ requestors[s][c] = d
    BY <1>3 DEF StillOwed
  <1>5. requestors[s] # <<>>
    BY <1>4
  <1>. QED
    BY <1>1, <1>2, <1>4, <1>5 DEF LoopShape, InLoop

\* The ranks that are still owed a reply are those the loop has still to visit.
LEMMA OwedPlaces ==
  ASSUME TypeOK, LoopShape, NEW s \in Rank, NEW d \in Rank
  PROVE  /\ StillOwed(s, d) # {} <=> Owes(s, d)
         /\ requestors[s] = <<>> => StillOwed(s, d) = {}
         /\ pc[s] = "reply" /\ d = requestors[s][i[s]] => i[s] \in StillOwed(s, d)
  <1>1. Len(requestors[s]) \in Nat /\ i[s] \in Nat
    BY DEF TypeOK
  <1>2. requestors[s] = <<>> => Len(requestors[s]) = 0
    OBVIOUS
  <1>3. pc[s] = "reply" => i[s] \in 1 .. Len(requestors[s])
    BY InsideLoop DEF LoopLabel
  <1>4. StillOwed(s, d) # {} <=> Owes(s, d)
    BY <1>1, <1>3 DEF StillOwed, Owes
  <1>. QED
    BY <1>1, <1>2, <1>3, <1>4 DEF StillOwed

\* The reply from s to d does not change when nothing it depends on does.
LEMMA ReplyFrame ==
  ASSUME ReplyValue, ReplyValue', NEW s \in Rank, NEW d \in Rank,
         StillOwed(s, d)' = StillOwed(s, d),
         StillOwed(s, d) # {} => sizes'[s] = sizes[s],
         wire'[s][d] = wire[s][d],
         (pc'[d] = "recvData" /\ work_requested_rank'[d] = s)
           <=> (pc[d] = "recvData" /\ work_requested_rank[d] = s),
         pc[d] = "recvData" /\ work_requested_rank[d] = s => items'[d] = items[d]
  PROVE  Replies(s, d)' = Replies(s, d)
  <1>1. CASE pc[d] = "recvData" /\ work_requested_rank[d] = s
    BY <1>1 DEF ReplyValue
  <1>2. CASE ~(pc[d] = "recvData" /\ work_requested_rank[d] = s) /\ wire[s][d] # <<>>
    BY <1>2 DEF ReplyValue
  <1>3. CASE ~(pc[d] = "recvData" /\ work_requested_rank[d] = s) /\ wire[s][d] = <<>>
    <2>1. CASE StillOwed(s, d) = {}
      BY <1>3, <2>1 DEF ReplyValue
    <2>2. ASSUME NEW k \in StillOwed(s, d) PROVE Replies(s, d)' = Replies(s, d)
      BY <1>3, <2>2 DEF ReplyValue
    <2>. QED
      BY <2>1, <2>2
  <1>. QED
    BY <1>1, <1>2, <1>3

\* A step outside the loop changes the counters of its rank as they are.
LEMMA OutsideMaps ==
  ASSUME TransferInv, NEW p \in Rank, pc[p] \notin LoopLabel,
         NEW label \in Label \ LoopLabel, pc' = [pc EXCEPT ![p] = label],
         UNCHANGED loopVars
  PROVE  /\ \A s, d \in Rank : StillOwed(s, d)' = StillOwed(s, d)
         /\ \A r \in Rank : Transfers(r)' = Transfers(r)
         /\ sizes' = sizes
         /\ KeptCount[p] = count[p] /\ TransfersOpen[p] = work_outstanding[p]
         /\ count' = count => KeptCount' = KeptCount
         /\ work_outstanding' = work_outstanding => TransfersOpen' = TransfersOpen
         /\ \A v : count' = [count EXCEPT ![p] = v] =>
                     KeptCount' = [KeptCount EXCEPT ![p] = v]
         /\ \A v \in Nat : work_outstanding' = [work_outstanding EXCEPT ![p] = v] =>
                             TransfersOpen' = [TransfersOpen EXCEPT ![p] = v]
  <1>0. TypeOK /\ LoopShape
    BY DEF TransferInv
  <1>1. /\ requestors[p] = <<>> /\ Len(requestors[p]) = 0
        /\ requestors' = requestors /\ i' = i /\ sizes' = sizes
        /\ pc'[p] = label /\ \A s \in Rank : s # p => pc'[s] = pc[s]
        /\ count \in [Rank -> Nat] /\ work_outstanding \in [Rank -> Nat]
    <2>1. requestors[p] = <<>>
      BY <1>0, OutsideLoop
    <2>2. pc \in [Rank -> Label] /\ count \in [Rank -> Nat]
          /\ work_outstanding \in [Rank -> Nat]
      BY <1>0 DEF TypeOK
    <2>. QED
      BY <2>1, <2>2 DEF loopVars
  <1>2. ASSUME NEW s \in Rank, NEW d \in Rank
        PROVE  StillOwed(s, d)' = StillOwed(s, d)
    <2>1. CASE s # p
      BY <1>1, <2>1 DEF StillOwed
    <2>2. CASE s = p
      BY <1>1, <2>2 DEF StillOwed
    <2>. QED
      BY <2>1, <2>2
  <1>3. \A r \in Rank : Transfers(r)' = Transfers(r)
    BY <1>1 DEF Transfers
  <1>4. Transfers(p) = {} /\ Cardinality(Transfers(p)) = 0
    <2>1. Transfers(p) = {}
      BY <1>1 DEF Transfers
    <2>. QED
      BY <2>1, FS_EmptySet
  <1>5. KeptCount[p] = count[p]
    BY <1>1 DEF KeptCount
  <1>6. TransfersOpen[p] = work_outstanding[p]
    <2>1. TransfersOpen[p] = work_outstanding[p] + 0
      BY <1>4 DEF TransfersOpen
    <2>2. work_outstanding[p] \in Nat
      BY <1>1
    <2>. QED
      BY <2>1, <2>2
  <1>7. count' = count => KeptCount' = KeptCount
    BY <1>1 DEF KeptCount
  <1>8. work_outstanding' = work_outstanding => TransfersOpen' = TransfersOpen
    BY <1>3 DEF TransfersOpen
  <1>9. ASSUME NEW v, count' = [count EXCEPT ![p] = v]
        PROVE  KeptCount' = [KeptCount EXCEPT ![p] = v]
    <2>1. \A r \in Rank : KeptCount'[r] = IF r = p THEN v ELSE KeptCount[r]
      BY <1>1, <1>9 DEF KeptCount
    <2>. QED
      BY <2>1 DEF KeptCount
  <1>10. ASSUME NEW v \in Nat, work_outstanding' = [work_outstanding EXCEPT ![p] = v]
         PROVE  TransfersOpen' = [TransfersOpen EXCEPT ![p] = v]
    <2>1. ASSUME NEW r \in Rank
          PROVE  TransfersOpen'[r] = IF r = p THEN v ELSE TransfersOpen[r]
      <3>1. TransfersOpen'[r] = work_outstanding'[r] + Cardinality(Transfers(r))
        BY <1>3 DEF TransfersOpen
      <3>2. TransfersOpen[r] = work_outstanding[r] + Cardinality(Transfers(r))
        BY DEF TransfersOpen
      <3>3. work_outstanding'[r] = IF r = p THEN v ELSE work_outstanding[r]
        BY <1>1, <1>10
      <3>. QED
        BY <1>4, <3>1, <3>2, <3>3
    <2>. QED
      BY <2>1 DEF TransfersOpen
  <1>. QED
    BY <1>1, <1>2, <1>3, <1>5, <1>6, <1>7, <1>8, <1>9, <1>10

\* The replies are those before, unless the step touches one.
LEMMA RepliesKept ==
  ASSUME ReplyValue, ReplyValue',
         \A s, d \in Rank : StillOwed(s, d)' = StillOwed(s, d),
         UNCHANGED <<sizes, wire, items>>,
         \A s, d \in Rank : (pc'[d] = "recvData" /\ work_requested_rank'[d] = s)
                        <=> (pc[d] = "recvData" /\ work_requested_rank[d] = s)
  PROVE  RepliesDue' = RepliesDue
  BY ReplyFrame DEF RepliesDue

\* A step of the main loop that the handlers do not show.
LEMMA QuietMaps ==
  ASSUME TransferInv, ReplyValue, ReplyValue',
         NEW p \in Rank, pc[p] \notin LoopLabel \cup {"recvData"},
         NEW label \in Label \ (LoopLabel \cup {"recvData"}),
         pc' = [pc EXCEPT ![p] = label],
         UNCHANGED <<count, budget, work_requested_rank, work_outstanding, loopVars,
                     items, netVars>>
  PROVE  UNCHANGED Atomic!sharingVars
  <1>0. /\ TypeOK /\ loopVars' = loopVars /\ pc'[p] = label
        /\ \A r \in Rank : r # p => pc'[r] = pc[r]
    BY DEF TransferInv, TypeOK
  <1>1. /\ \A s, d \in Rank : StillOwed(s, d)' = StillOwed(s, d)
        /\ sizes' = sizes /\ KeptCount' = KeptCount /\ TransfersOpen' = TransfersOpen
    BY <1>0, OutsideMaps
  <1>2. RepliesDue' = RepliesDue
    BY <1>0, <1>1, RepliesKept DEF netVars
  <1>. QED
    BY <1>1, <1>2 DEF Atomic!sharingVars, netVars

LEMMA TakeReceiptsMaps ==
  ASSUME TransferInv, ReplyValue, ReplyValue', NEW p \in Rank,
         NEW taken \in 0 .. receipt[p], TakeReceipts(p, taken)
  PROVE  taken \in 0 .. Atomic!Takeable(p) /\ Atomic!DrainReceipts(p, taken)
  <1>. DEFINE label == IF count[p] = 0 THEN "requestWork" ELSE "work"
  <1>1. /\ pc[p] = "workreceiptCheck" /\ pc' = [pc EXCEPT ![p] = label]
        /\ taken <= receipt[p] /\ taken <= work_outstanding[p]
        /\ receipt' = [receipt EXCEPT ![p] = @ - taken]
        /\ work_outstanding' = [work_outstanding EXCEPT ![p] = work_outstanding[p] - taken]
        /\ UNCHANGED <<count, budget, work_requested_rank, loopVars, items, req, wire>>
    BY DEF TakeReceipts, Goto
  <1>2. label \in Label \ (LoopLabel \cup {"recvData"})
    BY DEF Label, LoopLabel
  <1>. HIDE DEF label
  <1>3. /\ pc \in [Rank -> Label] /\ receipt[p] \in Nat /\ work_outstanding[p] \in Nat
    BY DEF TransferInv, TypeOK
  <1>4. taken \in Nat /\ work_outstanding[p] - taken \in Nat
    BY <1>1, <1>3
  <1>5. pc'[p] = label /\ \A r \in Rank : r # p => pc'[r] = pc[r]
    BY <1>1, <1>3
  <1>6. /\ \A s, d \in Rank : StillOwed(s, d)' = StillOwed(s, d)
        /\ sizes' = sizes /\ KeptCount' = KeptCount
        /\ TransfersOpen[p] = work_outstanding[p]
        /\ TransfersOpen' = [TransfersOpen EXCEPT ![p] = work_outstanding[p] - taken]
    BY <1>1, <1>2, <1>4, OutsideMaps DEF LoopLabel
  <1>7. RepliesDue' = RepliesDue
    BY <1>1, <1>2, <1>5, <1>6, RepliesKept
  <1>8. taken \in 0 .. Atomic!Takeable(p)
    BY <1>1, <1>3, <1>4, <1>6 DEF Atomic!Takeable
  <1>. QED
    BY <1>1, <1>6, <1>7, <1>8 DEF Atomic!DrainReceipts

LEMMA SendRequestMaps ==
  ASSUME TransferInv, ReplyValue, ReplyValue', NEW p \in Rank, SendRequest(p)
  PROVE  Atomic!Ask(p)
  <1>1. PICK source \in Rank \ {p} :
          /\ req' = [req EXCEPT ![p][source] = @ + 1]
          /\ work_requested_rank' = [work_requested_rank EXCEPT ![p] = source]
    BY DEF SendRequest
  <1>2. /\ pc[p] = "requestWork" /\ pc' = [pc EXCEPT ![p] = "work"]
        /\ work_requested_rank[p] = MPI_PROC_NULL
        /\ UNCHANGED <<count, budget, work_outstanding, loopVars, items, wire, receipt>>
    BY DEF SendRequest, Goto
  <1>3. /\ pc \in [Rank -> Label] /\ req \in [Rank -> [Rank -> Nat]]
        /\ work_requested_rank \in [Rank -> Rank \cup {MPI_PROC_NULL}]
    BY DEF TransferInv, TypeOK
  <1>4. count[p] = 0
    BY <1>2 DEF TransferInv, Stages
  <1>5. /\ \A s, d \in Rank : StillOwed(s, d)' = StillOwed(s, d)
        /\ sizes' = sizes /\ KeptCount' = KeptCount /\ KeptCount[p] = count[p]
        /\ TransfersOpen' = TransfersOpen
    BY <1>2, OutsideMaps DEF LoopLabel, Label
  <1>6. \A s, d \in Rank : (pc'[d] = "recvData" /\ work_requested_rank'[d] = s)
                        <=> (pc[d] = "recvData" /\ work_requested_rank[d] = s)
    BY <1>1, <1>2, <1>3
  <1>7. RepliesDue' = RepliesDue
    BY <1>2, <1>5, <1>6, RepliesKept
  <1>8. source \in Atomic!getNextProc(p)
    BY <1>1 DEF Atomic!getNextProc, Atomic!Rank, Rank
  <1>9. req' = [req EXCEPT ![p] = [d \in Rank |-> IF d = source THEN @[d] + 1 ELSE @[d]]]
    <2>1. [req[p] EXCEPT ![source] = @ + 1]
            = [d \in Rank |-> IF d = source THEN req[p][d] + 1 ELSE req[p][d]]
      BY <1>3
    <2>. QED
      BY <1>1, <1>3, <2>1
  <1>10. Atomic!SendRequest(p)
    BY <1>1, <1>2, <1>5, <1>7, <1>8, <1>9
       DEF Atomic!SendRequest, Atomic!Rank, Rank, Atomic!MPI_PROC_NULL, MPI_PROC_NULL
  <1>. QED
    BY <1>4, <1>5, <1>10 DEF Atomic!Ask

LEMMA ProcessItemMaps ==
  ASSUME TransferInv, ReplyValue, ReplyValue', NEW p \in Rank, ProcessItem(p)
  PROVE  Atomic!ProcessItem(p)
  <1>1. PICK new \in 0 .. Fanout :
          /\ new <= budget
          /\ count' = [count EXCEPT ![p] = count[p] - 1 + new]
          /\ budget' = budget - new
    BY DEF ProcessItem
  <1>2. /\ pc[p] = "work" /\ pc' = [pc EXCEPT ![p] = "workreqCheck"] /\ count[p] > 0
        /\ UNCHANGED <<work_requested_rank, work_outstanding, loopVars, items, netVars>>
    BY DEF ProcessItem, Goto
  <1>3. pc \in [Rank -> Label]
    BY DEF TransferInv, TypeOK
  <1>4. /\ \A s, d \in Rank : StillOwed(s, d)' = StillOwed(s, d)
        /\ sizes' = sizes /\ TransfersOpen' = TransfersOpen /\ KeptCount[p] = count[p]
        /\ KeptCount' = [KeptCount EXCEPT ![p] = count[p] - 1 + new]
    BY <1>1, <1>2, OutsideMaps DEF LoopLabel, Label
  <1>5. \A r \in Rank : pc'[r] = "recvData" <=> pc[r] = "recvData"
    BY <1>2, <1>3
  <1>6. RepliesDue' = RepliesDue
    BY <1>2, <1>4, <1>5, RepliesKept DEF netVars
  <1>. QED
    BY <1>1, <1>2, <1>4, <1>6 DEF Atomic!ProcessItem, netVars

\* One reply comes or goes.
LEMMA RepliesOne ==
  ASSUME NEW a \in Rank, NEW b \in Rank, NEW v, Replies(a, b)' = v,
         \A s, d \in Rank : s # a \/ d # b => Replies(s, d)' = Replies(s, d)
  PROVE  RepliesDue' = [RepliesDue EXCEPT ![a][b] = v]
  <1>1. \A s, d \in Rank : RepliesDue[s][d] = Replies(s, d)
                           /\ RepliesDue'[s][d] = Replies(s, d)'
    BY DEF RepliesDue
  <1>2. RepliesDue'[a] = [RepliesDue[a] EXCEPT ![b] = v]
    <2>1. \A d \in Rank : RepliesDue'[a][d] = IF d = b THEN v ELSE RepliesDue[a][d]
      BY <1>1
    <2>2. RepliesDue[a] = [d \in Rank |-> Replies(a, d)]
          /\ RepliesDue'[a] = [d \in Rank |-> Replies(a, d)']
      BY DEF RepliesDue
    <2>. QED
      BY <2>1, <2>2
  <1>3. ASSUME NEW s \in Rank, s # a PROVE RepliesDue'[s] = RepliesDue[s]
    BY <1>3 DEF RepliesDue
  <1>4. RepliesDue = [s \in Rank |-> RepliesDue[s]]
        /\ RepliesDue' = [s \in Rank |-> RepliesDue'[s]]
    BY DEF RepliesDue
  <1>. QED
    BY <1>2, <1>3, <1>4

\* The replies other ranks wait for, and those of other ranks, stay.
LEMMA OtherReplies ==
  ASSUME TypeOK, ReplyValue, ReplyValue', NEW p \in Rank, NEW source \in Rank,
         \A s, d \in Rank : StillOwed(s, d)' = StillOwed(s, d),
         sizes' = sizes, source = work_requested_rank[p],
         \A s, d \in Rank : s # source \/ d # p => wire'[s][d] = wire[s][d],
         \A r \in Rank : r # p => /\ pc'[r] = pc[r] /\ items'[r] = items[r]
                                  /\ work_requested_rank'[r] = work_requested_rank[r],
         work_requested_rank'[p] \in {source, MPI_PROC_NULL},
         NEW s \in Rank, NEW d \in Rank, s # source \/ d # p
  PROVE  Replies(s, d)' = Replies(s, d)
  <1>1. MPI_PROC_NULL \notin Rank
    BY RankFinite
  <1>2. CASE d # p
    BY <1>2, ReplyFrame
  <1>3. CASE d = p
    <2>1. work_requested_rank[d] # s /\ work_requested_rank'[d] # s
      BY <1>1, <1>3
    <2>. QED
      BY <1>3, <2>1, ReplyFrame
  <1>. QED
    BY <1>2, <1>3

\* A no-work reply is received in one step, as ReceiveReply does.
LEMMA TakeRefusalMaps ==
  ASSUME TransferInv, ReplyValue, ReplyValue', NEW p \in Rank, TakeReply(p),
         wire[work_requested_rank[p]][p] # <<>>,
         Head(wire[work_requested_rank[p]][p]).items = 0
  PROVE  Atomic!Ask(p)
  <1>0. TypeOK /\ LoopShape
    BY DEF TransferInv
  <1>s. PICK source \in Rank : source = work_requested_rank[p]
    <2>1. work_requested_rank[p] # MPI_PROC_NULL
      BY DEF TakeReply
    <2>. QED
      BY <1>0, <2>1 DEF TypeOK
  <1>1. /\ pc[p] = "requestWork" /\ pc' = [pc EXCEPT ![p] = "work"]
        /\ source # MPI_PROC_NULL
        /\ wire[source][p] # <<>> /\ wire' = [wire EXCEPT ![source][p] = Tail(@)]
        /\ work_requested_rank' = [work_requested_rank EXCEPT ![p] = MPI_PROC_NULL]
        /\ items' = [items EXCEPT ![p] = 0]
        /\ UNCHANGED <<count, budget, work_outstanding, loopVars, req, receipt>>
    BY <1>s DEF TakeReply, Goto
  <1>2. /\ Refused(source, p) \/ HalfSent(source, p) \/ Sent(source, p)
        /\ HalfSent(source, p) => sizes[source][i[source]] \in Nat \ {0}
    BY <1>s, <1>1, ReplyFound
  <1>3. /\ pc \in [Rank -> Label] /\ items \in [Rank -> Nat]
        /\ work_requested_rank \in [Rank -> Rank \cup {MPI_PROC_NULL}]
    BY <1>0 DEF TypeOK
  <1>4. /\ wire'[source][p] = Tail(wire[source][p])
        /\ \A a, b \in Rank : a # source \/ b # p => wire'[a][b] = wire[a][b]
    <2>1. /\ wire[source][p] # <<>>
          /\ wire' = [wire EXCEPT ![source][p] = Tail(wire[source][p])]
      BY <1>1
    <2>. QED
      BY ZenonT(60), <1>0, <2>1, TakeFront
  <1>5. wire[source][p] = <<Msg("nowork", 0)>> /\ ~Owes(source, p)
    BY <1>s, <1>2 DEF Refused, HalfSent, Sent, Msg
  <1>6. /\ \A s, d \in Rank : StillOwed(s, d)' = StillOwed(s, d)
        /\ sizes' = sizes /\ KeptCount' = KeptCount /\ KeptCount[p] = count[p]
        /\ TransfersOpen' = TransfersOpen
    BY <1>1, OutsideMaps DEF LoopLabel, Label
  <1>7. Replies(source, p) = << 0 >>
    <2>1. wire[source][p] # <<>> /\ wire[source][p][1].items = 0
      BY <1>5 DEF Msg
    <2>. QED
      BY <1>1, <1>2, <2>1 DEF ReplyValue
  <1>8. Replies(source, p)' = <<>>
    <2>1. wire'[source][p] = <<>>
      BY <1>4, <1>5
    <2>2. StillOwed(source, p)' = {}
      BY <1>0, <1>2, <1>5, <1>6, OwedPlaces
    <2>3. pc'[p] = "work"
      BY <1>1, <1>3
    <2>. QED
      BY <1>2, <2>1, <2>2, <2>3 DEF ReplyValue
  <1>9. \A s, d \in Rank : s # source \/ d # p => Replies(s, d)' = Replies(s, d)
    <2>1. /\ \A r \in Rank : r # p =>
               /\ pc'[r] = pc[r] /\ items'[r] = items[r]
               /\ work_requested_rank'[r] = work_requested_rank[r]
          /\ work_requested_rank'[p] = MPI_PROC_NULL
      BY <1>1, <1>3
    <2>. QED
      BY <1>0, <1>2, <1>4, <1>6, <2>1, <1>s, OtherReplies
  <1>10. RepliesDue' = [RepliesDue EXCEPT ![source][p] = <<>>]
    BY <1>2, <1>8, <1>9, RepliesOne
  <1>11. RepliesDue[source][p] = << 0 >>
    BY <1>2, <1>7 DEF RepliesDue
  <1>12. count[p] = 0
    BY <1>1 DEF TransferInv, Stages
  <1>13. Head(<< 0 >>) = 0 /\ Tail(<< 0 >>) = <<>>
    OBVIOUS
  <1>14. RepliesDue' = [RepliesDue EXCEPT ![source][p] = Tail(@)]
    BY <1>2, <1>10, <1>11, <1>13 DEF RepliesDue
  <1>15. /\ KeptCount' = [KeptCount EXCEPT ![p] = KeptCount[p]]
         /\ receipt' = [receipt EXCEPT ![source] = receipt[source]]
    <2>1. receipt \in [Rank -> Nat]
      BY <1>0 DEF TypeOK
    <2>. QED
      BY <1>1, <1>2, <1>6, <2>1 DEF KeptCount
  <1>16. Atomic!ReceiveReply(p)
    <2>1. Head(RepliesDue[source][p]) = 0 /\ RepliesDue[source][p] # <<>>
      BY <1>11, <1>13
    <2>2. /\ KeptCount' = [KeptCount EXCEPT ![p] =
                               IF Head(RepliesDue[source][p]) > 0
                               THEN Head(RepliesDue[source][p]) ELSE KeptCount[p]]
          /\ receipt' = [receipt EXCEPT ![source] =
                             IF Head(RepliesDue[source][p]) > 0
                             THEN receipt[source] + 1 ELSE receipt[source]]
      <3>1. ~(Head(RepliesDue[source][p]) > 0)
        BY <2>1
      <3>. QED
        BY <1>15, <3>1
    <2>3. RepliesDue' = [RepliesDue EXCEPT ![source][p] = Tail(RepliesDue[source][p])]
      BY <1>14
    <2>4. UNCHANGED <<budget, TransfersOpen, req>>
      BY <1>1, <1>6
    <2>. QED
      BY <1>s, <1>1, <2>1, <2>2, <2>3, <2>4
         DEF Atomic!ReceiveReply, Atomic!MPI_PROC_NULL, MPI_PROC_NULL
  <1>. QED
    BY <1>6, <1>12, <1>16 DEF Atomic!Ask

\* When the offsets of a transfer are taken the reply becomes the items they
\* announced.
LEMMA TakeOffsetsMaps ==
  ASSUME TransferInv, ReplyValue, ReplyValue', NEW p \in Rank, TakeReply(p),
         Head(wire[work_requested_rank[p]][p]).items # 0
  PROVE  UNCHANGED Atomic!sharingVars
  <1>0. TypeOK /\ LoopShape
    BY DEF TransferInv
  <1>s. PICK source \in Rank : source = work_requested_rank[p]
    <2>1. work_requested_rank[p] # MPI_PROC_NULL
      BY DEF TakeReply
    <2>. QED
      BY <1>0, <2>1 DEF TypeOK
  <1>. DEFINE n == Head(wire[source][p]).items
  <1>1. /\ pc[p] = "requestWork" /\ pc' = [pc EXCEPT ![p] = "recvData"]
        /\ source # MPI_PROC_NULL /\ wire[source][p] # <<>>
        /\ wire' = [wire EXCEPT ![source][p] = Tail(wire[source][p])]
        /\ work_requested_rank' = work_requested_rank
        /\ items' = [items EXCEPT ![p] = n]
        /\ UNCHANGED <<count, budget, work_outstanding, loopVars, req, receipt>>
    BY <1>s DEF TakeReply, Goto
  <1>2. /\ pc \in [Rank -> Label] /\ items \in [Rank -> Nat]
        /\ wire \in [Rank -> [Rank -> Seq(Message)]]
    BY <1>0 DEF TypeOK
  <1>3. /\ wire'[source][p] = Tail(wire[source][p])
        /\ \A a, b \in Rank : a # source \/ b # p => wire'[a][b] = wire[a][b]
    BY ZenonT(60), <1>0, <1>1, TakeFront
  <1>4. /\ \A s, d \in Rank : StillOwed(s, d)' = StillOwed(s, d)
        /\ sizes' = sizes /\ KeptCount' = KeptCount /\ TransfersOpen' = TransfersOpen
    BY <1>1, OutsideMaps DEF LoopLabel, Label
  <1>5. n = wire[source][p][1].items
    <2>1. wire[source][p] \in Seq(Message)
      BY <1>2
    <2>2. Head(wire[source][p]) = wire[source][p][1]
      BY <1>1, <2>1
    <2>. QED
      BY <2>2
  <1>. HIDE DEF n
  <1>6. Replies(source, p) = << n >>
    BY <1>1, <1>5 DEF ReplyValue
  <1>7. Replies(source, p)' = << n >>
    <2>1. pc'[p] = "recvData" /\ work_requested_rank'[p] = source /\ items'[p] = n
      BY <1>s, <1>1, <1>2
    <2>. QED
      BY <2>1 DEF ReplyValue
  <1>8. \A s, d \in Rank : s # source \/ d # p => Replies(s, d)' = Replies(s, d)
    <2>1. \A r \in Rank : r # p =>
               /\ pc'[r] = pc[r] /\ items'[r] = items[r]
               /\ work_requested_rank'[r] = work_requested_rank[r]
      BY <1>1, <1>2
    <2>. QED
      BY <1>s, <1>0, <1>1, <1>3, <1>4, <2>1, OtherReplies
  <1>9. RepliesDue' = RepliesDue
    BY <1>6, <1>7, <1>8 DEF RepliesDue
  <1>. QED
    BY <1>1, <1>4, <1>9 DEF Atomic!sharingVars

\* Work is received when its data are.
LEMMA RecvDataMaps ==
  ASSUME TransferInv, ReplyValue, ReplyValue', NEW p \in Rank, RecvData(p)
  PROVE  Atomic!Ask(p)
  <1>0. TypeOK /\ LoopShape
    BY DEF TransferInv
  <1>1. pc[p] = "recvData" /\ count[p] = 0 /\ work_requested_rank[p] # MPI_PROC_NULL
    BY DEF RecvData, TransferInv, Stages
  <1>s. PICK source \in Rank : source = work_requested_rank[p]
    BY <1>0, <1>1 DEF TypeOK
  <1>2. /\ pc' = [pc EXCEPT ![p] = "work"]
        /\ source # MPI_PROC_NULL /\ wire[source][p] # <<>>
        /\ wire' = [wire EXCEPT ![source][p] = Tail(wire[source][p])]
        /\ count' = [count EXCEPT ![p] = items[p]]
        /\ items' = [items EXCEPT ![p] = 0]
        /\ receipt' = [receipt EXCEPT ![source] = receipt[source] + 1]
        /\ work_requested_rank' = [work_requested_rank EXCEPT ![p] = MPI_PROC_NULL]
        /\ UNCHANGED <<budget, work_outstanding, loopVars, req>>
    BY <1>s, <1>1 DEF RecvData, Goto
  <1>3. /\ pc \in [Rank -> Label] /\ items \in [Rank -> Nat]
        /\ work_requested_rank \in [Rank -> Rank \cup {MPI_PROC_NULL}]
    BY <1>0 DEF TypeOK
  <1>4. Taken(source, p)
    BY <1>s, <1>1, <1>2, ReplyFound
  <1>5. /\ wire[source][p] = <<Msg("data", items[p])>> /\ items[p] > 0
        /\ ~Owes(source, p)
    BY <1>4 DEF Taken
  <1>6. /\ wire'[source][p] = Tail(wire[source][p])
        /\ \A a, b \in Rank : a # source \/ b # p => wire'[a][b] = wire[a][b]
    BY ZenonT(60), <1>0, <1>2, TakeFront
  <1>7. /\ \A s, d \in Rank : StillOwed(s, d)' = StillOwed(s, d)
        /\ sizes' = sizes /\ KeptCount[p] = count[p]
        /\ KeptCount' = [KeptCount EXCEPT ![p] = items[p]]
        /\ TransfersOpen' = TransfersOpen
    BY <1>1, <1>2, OutsideMaps DEF LoopLabel, Label
  <1>8. Replies(source, p) = << items[p] >>
    BY <1>s, <1>1 DEF ReplyValue
  <1>9. Replies(source, p)' = <<>>
    <2>1. wire'[source][p] = <<>>
      BY <1>5, <1>6
    <2>2. StillOwed(source, p)' = {}
      BY <1>0, <1>5, <1>7, OwedPlaces
    <2>3. pc'[p] = "work"
      BY <1>2, <1>3
    <2>. QED
      BY <2>1, <2>2, <2>3 DEF ReplyValue
  <1>10. \A s, d \in Rank : s # source \/ d # p => Replies(s, d)' = Replies(s, d)
    <2>1. /\ \A r \in Rank : r # p =>
               /\ pc'[r] = pc[r] /\ items'[r] = items[r]
               /\ work_requested_rank'[r] = work_requested_rank[r]
          /\ work_requested_rank'[p] = MPI_PROC_NULL
      BY <1>2, <1>3
    <2>. QED
      BY <1>s, <1>0, <1>6, <1>7, <2>1, OtherReplies
  <1>11. RepliesDue' = [RepliesDue EXCEPT ![source][p] = <<>>]
    BY <1>9, <1>10, RepliesOne
  <1>12. RepliesDue[source][p] = << items[p] >>
    BY <1>8 DEF RepliesDue
  <1>13. /\ Head(RepliesDue[source][p]) = items[p] /\ RepliesDue[source][p] # <<>>
         /\ Tail(RepliesDue[source][p]) = <<>>
    BY <1>12
  <1>14. RepliesDue' = [RepliesDue EXCEPT ![source][p] = Tail(RepliesDue[source][p])]
    BY <1>11, <1>13
  <1>15. /\ KeptCount' = [KeptCount EXCEPT ![p] =
                             IF Head(RepliesDue[source][p]) > 0
                             THEN Head(RepliesDue[source][p]) ELSE KeptCount[p]]
         /\ receipt' = [receipt EXCEPT ![source] =
                           IF Head(RepliesDue[source][p]) > 0
                           THEN receipt[source] + 1 ELSE receipt[source]]
    <2>1. Head(RepliesDue[source][p]) > 0
      BY <1>5, <1>13
    <2>. QED
      BY <1>2, <1>7, <1>13, <2>1
  <1>16. UNCHANGED <<budget, TransfersOpen, req>>
    BY <1>2, <1>7
  <1>17. Atomic!ReceiveReply(p)
    BY <1>s, <1>2, <1>13, <1>14, <1>15, <1>16
       DEF Atomic!ReceiveReply, Atomic!MPI_PROC_NULL, MPI_PROC_NULL
  <1>. QED
    BY <1>1, <1>7, <1>17 DEF Atomic!Ask

\* What the loop has still to do when it goes on to the next requestor.
LEMMA NextMaps ==
  ASSUME TransferInv, NEW p \in Rank, pc[p] \in LoopLabel, NextRequestor(p),
         count'[p] = count[p] - sizes[p][i[p]],
         \A r \in Rank : r # p => count'[r] = count[r]
  PROVE  /\ KeptCount' = KeptCount
         /\ Transfers(p)' = Transfers(p) \ {i[p]}
         /\ \A r \in Rank : r # p => Transfers(r)' = Transfers(r)
         /\ \A s, d \in Rank : s # p \/ pc[p] # "reply" \/ d # requestors[p][i[p]] =>
              /\ StillOwed(s, d)' = StillOwed(s, d)
              /\ StillOwed(s, d) # {} => sizes'[s] = sizes[s]
         /\ \A s, d \in Rank : (pc'[d] = "recvData" /\ work_requested_rank[d] = s)
                           <=> (pc[d] = "recvData" /\ work_requested_rank[d] = s)
  <1>0. TypeOK /\ LoopShape
    BY DEF TransferInv
  <1>1. /\ i[p] \in 1 .. Len(requestors[p]) /\ Len(requestors[p]) \in Nat
        /\ requestors[p] # <<>> /\ i[p] \in Nat
    BY <1>0, InsideLoop DEF InLoop
  <1>2. /\ requestors \in [Rank -> Seq(Rank)] /\ i \in [Rank -> Nat]
        /\ pc \in [Rank -> Label] /\ DOMAIN sizes = Rank
    BY <1>0 DEF TypeOK
  <1>3. \A r \in Rank : r # p =>
          /\ pc'[r] = pc[r] /\ requestors'[r] = requestors[r] /\ i'[r] = i[r]
          /\ sizes'[r] = sizes[r]
    BY <1>2 DEF NextRequestor, Goto
  <1>4. pc'[p] \in {"reply", "workreceiptCheck"} /\ pc[p] # "recvData"
    BY <1>2 DEF NextRequestor, Goto, LoopLabel
  <1>5. \A s, d \in Rank : (pc'[d] = "recvData" /\ work_requested_rank[d] = s)
                       <=> (pc[d] = "recvData" /\ work_requested_rank[d] = s)
    BY <1>3, <1>4
  <1>6. \A r \in Rank : r # p => /\ Transfers(r)' = Transfers(r)
                                 /\ \A d \in Rank : StillOwed(r, d)' = StillOwed(r, d)
    BY <1>3 DEF Transfers, StillOwed
  <1>7. KeptCount'[p] = KeptCount[p] => KeptCount' = KeptCount
    <2>1. \A r \in Rank : r # p => KeptCount'[r] = KeptCount[r]
      BY <1>3 DEF KeptCount
    <2>. QED
      BY <2>1 DEF KeptCount
  <1>8. CASE i[p] < Len(requestors[p])
    <2>1. /\ requestors' = requestors /\ sizes' = sizes
          /\ i'[p] = i[p] + 1 /\ pc'[p] = "reply"
      BY <1>2, <1>8 DEF NextRequestor, Goto
    <2>2. KeptCount'[p] = KeptCount[p]
      BY <1>1, <2>1 DEF KeptCount
    <2>3. Transfers(p)' = Transfers(p) \ {i[p]}
      BY <1>1, <2>1 DEF Transfers
    <2>4. ASSUME NEW d \in Rank, pc[p] # "reply" \/ d # requestors[p][i[p]]
          PROVE  StillOwed(p, d)' = StillOwed(p, d)
      BY <1>1, <2>1, <2>4 DEF StillOwed
    <2>. QED
      BY <1>3, <1>5, <1>6, <1>7, <2>1, <2>2, <2>3, <2>4
  <1>9. CASE i[p] = Len(requestors[p])
    <2>1. requestors'[p] = <<>> /\ i'[p] = 0 /\ Len(requestors'[p]) = 0
      BY <1>2, <1>9 DEF NextRequestor
    <2>2. KeptCount'[p] = KeptCount[p]
      <3>1. count[p] - sizes[p][i[p]] = sizes[p][0]
        BY <1>9, ShareFits
      <3>. QED
        BY <1>1, <2>1, <3>1 DEF KeptCount
    <2>3. Transfers(p)' = Transfers(p) \ {i[p]}
      <3>1. Transfers(p)' = {}
        BY <2>1 DEF Transfers
      <3>2. Transfers(p) \ {i[p]} = {}
        BY <1>1, <1>9 DEF Transfers
      <3>. QED
        BY <3>1, <3>2
    <2>4. ASSUME NEW d \in Rank, pc[p] # "reply" \/ d # requestors[p][i[p]]
          PROVE  StillOwed(p, d)' = StillOwed(p, d) /\ StillOwed(p, d) = {}
      <3>1. StillOwed(p, d)' = {}
        BY <2>1 DEF StillOwed
      <3>2. StillOwed(p, d) = {}
        BY <1>1, <1>9, <2>4 DEF StillOwed
      <3>. QED
        BY <3>1, <3>2
    <2>. QED
      BY <1>3, <1>5, <1>6, <1>7, <2>2, <2>3, <2>4
  <1>. QED
    BY <1>1, <1>8, <1>9

\* Transfers is finite.
LEMMA TransfersFinite ==
  ASSUME TypeOK, NEW r \in Rank
  PROVE  IsFiniteSet(Transfers(r)) /\ Cardinality(Transfers(r)) \in Nat
  <1>1. Len(requestors[r]) \in Nat
    BY DEF TypeOK
  <1>2. Transfers(r) \subseteq 1 .. Len(requestors[r])
    BY DEF Transfers
  <1>3. IsFiniteSet(1 .. Len(requestors[r]))
    BY <1>1, FS_Interval
  <1>. QED
    BY <1>2, <1>3, FS_Subset, FS_CardinalityType

\* sendNoWork puts the reply that was owed on the wire.
LEMMA SendNoWorkMaps ==
  ASSUME TransferInv, ReplyValue, ReplyValue', NEW p \in Rank, SendNoWork(p)
  PROVE  UNCHANGED Atomic!sharingVars
  <1>0. TypeOK /\ LoopShape
    BY DEF TransferInv
  <1>1. pc[p] = "reply" /\ pc[p] \in LoopLabel
    BY DEF SendNoWork, LoopLabel
  <1>d. PICK dest \in Rank : dest = requestors[p][i[p]]
    BY <1>0, <1>1, InsideLoop
  <1>2. /\ sizes[p][i[p]] = 0
        /\ wire' = [wire EXCEPT ![p][dest] = Append(wire[p][dest], Msg("nowork", 0))]
        /\ NextRequestor(p)
        /\ UNCHANGED <<count, budget, work_requested_rank, work_outstanding, items,
                       req, receipt>>
    BY <1>d DEF SendNoWork
  <1>3. /\ dest # p /\ work_requested_rank[dest] = p
        /\ Owed(p, dest) /\ pc[dest] # "recvData"
    BY <1>d, <1>1, PresentOwed
  <1>4. /\ wire'[p][dest] = Append(wire[p][dest], Msg("nowork", 0))
        /\ \A a, b \in Rank : a # p \/ b # dest => wire'[a][b] = wire[a][b]
    <2>1. Msg("nowork", 0) \in Message
      BY DEF Msg, Message
    <2>. QED
      BY ZenonT(60), <1>0, <1>2, <2>1, PutBehind
  <1>5. wire[p][dest] = <<>> /\ wire'[p][dest] = <<Msg("nowork", 0)>>
    BY <1>3, <1>4 DEF Owed
  <1>6. count'[p] = count[p] - sizes[p][i[p]]
    <2>1. count[p] \in Nat
      BY <1>0 DEF TypeOK
    <2>. QED
      BY <1>2, <2>1
  <1>7. /\ KeptCount' = KeptCount
        /\ Transfers(p)' = Transfers(p) \ {i[p]}
        /\ \A r \in Rank : r # p => Transfers(r)' = Transfers(r)
        /\ \A s, d \in Rank : s # p \/ d # dest =>
             /\ StillOwed(s, d)' = StillOwed(s, d)
             /\ StillOwed(s, d) # {} => sizes'[s] = sizes[s]
        /\ \A s, d \in Rank : (pc'[d] = "recvData" /\ work_requested_rank[d] = s)
                          <=> (pc[d] = "recvData" /\ work_requested_rank[d] = s)
    <2>1. NextRequestor(p) /\ \A r \in Rank : r # p => count'[r] = count[r]
      BY <1>2
    <2>2. /\ KeptCount' = KeptCount
          /\ Transfers(p)' = Transfers(p) \ {i[p]}
          /\ \A r \in Rank : r # p => Transfers(r)' = Transfers(r)
          /\ \A s, d \in Rank : s # p \/ pc[p] # "reply" \/ d # requestors[p][i[p]] =>
               /\ StillOwed(s, d)' = StillOwed(s, d)
               /\ StillOwed(s, d) # {} => sizes'[s] = sizes[s]
          /\ \A s, d \in Rank : (pc'[d] = "recvData" /\ work_requested_rank[d] = s)
                            <=> (pc[d] = "recvData" /\ work_requested_rank[d] = s)
      BY <1>1, <1>6, <2>1, NextMaps
    <2>. QED
      BY <1>d, <2>2
  <1>8. TransfersOpen' = TransfersOpen
    <2>1. i[p] \notin Transfers(p)
      BY <1>2 DEF Transfers
    <2>2. \A r \in Rank : Transfers(r)' = Transfers(r)
      BY <1>7, <2>1
    <2>. QED
      BY <1>2, <2>2 DEF TransfersOpen
  <1>9. Replies(p, dest) = << 0 >>
    <2>1. i[p] \in StillOwed(p, dest)
      BY <1>d, <1>0, <1>1, OwedPlaces
    <2>. QED
      BY <1>2, <1>3, <1>5, <2>1 DEF ReplyValue
  <1>10. Replies(p, dest)' = << 0 >>
    <2>1. wire'[p][dest] # <<>> /\ wire'[p][dest][1].items = 0
      BY <1>5 DEF Msg
    <2>2. ~(pc'[dest] = "recvData" /\ work_requested_rank'[dest] = p)
      BY <1>2, <1>3, <1>7
    <2>. QED
      BY <2>1, <2>2 DEF ReplyValue
  <1>11. ASSUME NEW s \in Rank, NEW d \in Rank, s # p \/ d # dest
         PROVE  Replies(s, d)' = Replies(s, d)
    BY <1>2, <1>4, <1>7, <1>11, ReplyFrame
  <1>12. RepliesDue' = RepliesDue
    BY <1>9, <1>10, <1>11 DEF RepliesDue
  <1>. QED
    BY <1>2, <1>7, <1>8, <1>12 DEF Atomic!sharingVars

\* The items of a transfer leave the queue, from which the mapped one has
\* taken them when the loop started.
LEMMA SubtractMaps ==
  ASSUME TransferInv, ReplyValue, ReplyValue', NEW p \in Rank, Subtract(p)
  PROVE  UNCHANGED Atomic!sharingVars
  <1>0. TypeOK /\ LoopShape
    BY DEF TransferInv
  <1>1. /\ pc[p] = "sent" /\ pc[p] \in LoopLabel /\ NextRequestor(p)
        /\ count' = [count EXCEPT ![p] = count[p] - sizes[p][i[p]]]
        /\ work_outstanding' = [work_outstanding EXCEPT ![p] = work_outstanding[p] + 1]
        /\ UNCHANGED <<budget, work_requested_rank, items, req, wire, receipt>>
    BY DEF Subtract, LoopLabel, netVars
  <1>2. /\ count'[p] = count[p] - sizes[p][i[p]]
        /\ \A r \in Rank : r # p => count'[r] = count[r]
    <2>1. count \in [Rank -> Nat]
      BY <1>0 DEF TypeOK
    <2>. QED
      BY <1>1, <2>1
  <1>3. /\ KeptCount' = KeptCount
        /\ Transfers(p)' = Transfers(p) \ {i[p]}
        /\ \A r \in Rank : r # p => Transfers(r)' = Transfers(r)
        /\ \A s, d \in Rank : s # p \/ pc[p] # "reply" \/ d # requestors[p][i[p]] =>
             /\ StillOwed(s, d)' = StillOwed(s, d)
             /\ StillOwed(s, d) # {} => sizes'[s] = sizes[s]
        /\ \A s, d \in Rank : (pc'[d] = "recvData" /\ work_requested_rank[d] = s)
                          <=> (pc[d] = "recvData" /\ work_requested_rank[d] = s)
    BY <1>1, <1>2, NextMaps
  <1>4. i[p] \in Transfers(p)
    <2>1. /\ i[p] \in 1 .. Len(requestors[p]) /\ i[p] \in Nat
          /\ sizes[p][i[p]] > 0
      BY <1>0, <1>1, InsideLoop DEF LoopShape
    <2>. QED
      BY <2>1 DEF Transfers
  <1>5. TransfersOpen'[p] = TransfersOpen[p]
    <2>1. Cardinality(Transfers(p)') = Cardinality(Transfers(p)) - 1
      BY <1>0, <1>3, <1>4, TransfersFinite, FS_RemoveElement
    <2>2. work_outstanding'[p] = work_outstanding[p] + 1 /\ work_outstanding[p] \in Nat
      BY <1>0, <1>1 DEF TypeOK
    <2>3. Cardinality(Transfers(p)) \in Nat
      BY <1>0, TransfersFinite
    <2>4. /\ TransfersOpen'[p] = work_outstanding'[p] + Cardinality(Transfers(p)')
          /\ TransfersOpen[p] = work_outstanding[p] + Cardinality(Transfers(p))
      BY DEF TransfersOpen
    <2>. QED
      BY <2>1, <2>2, <2>3, <2>4
  <1>6. TransfersOpen' = TransfersOpen
    <2>1. ASSUME NEW r \in Rank, r # p PROVE TransfersOpen'[r] = TransfersOpen[r]
      <3>1. work_outstanding'[r] = work_outstanding[r]
        BY <1>0, <1>1, <2>1 DEF TypeOK
      <3>. QED
        BY <1>3, <2>1, <3>1 DEF TransfersOpen
    <2>. QED
      BY <1>5, <2>1 DEF TransfersOpen
  <1>7. RepliesDue' = RepliesDue
    <2>1. ASSUME NEW s \in Rank, NEW d \in Rank PROVE Replies(s, d)' = Replies(s, d)
      BY <1>1, <1>3, ReplyFrame
    <2>. QED
      BY <2>1 DEF RepliesDue
  <1>. QED
    BY <1>1, <1>3, <1>6, <1>7 DEF Atomic!sharingVars

\* Between the two messages of a transfer only the place in the loop changes.
LEMMA StayMaps ==
  ASSUME TransferInv, NEW p \in Rank, pc[p] \in LoopLabel,
         NEW label \in {"sendData", "sent"}, pc' = [pc EXCEPT ![p] = label],
         UNCHANGED loopVars, UNCHANGED <<count, work_outstanding>>
  PROVE  /\ KeptCount' = KeptCount /\ TransfersOpen' = TransfersOpen
         /\ sizes' = sizes
         /\ \A s, d \in Rank : s # p \/ pc[p] # "reply" \/ d # requestors[p][i[p]] =>
              StillOwed(s, d)' = StillOwed(s, d)
         /\ \A r \in Rank : pc'[r] = "recvData" <=> pc[r] = "recvData"
  <1>0. TypeOK /\ LoopShape
    BY DEF TransferInv
  <1>1. /\ requestors' = requestors /\ i' = i /\ sizes' = sizes
        /\ pc'[p] = label /\ \A r \in Rank : r # p => pc'[r] = pc[r]
    BY <1>0 DEF TypeOK, loopVars
  <1>2. KeptCount' = KeptCount
    BY <1>1 DEF KeptCount
  <1>3. TransfersOpen' = TransfersOpen
    BY <1>1 DEF TransfersOpen, Transfers
  <1>4. ASSUME NEW s \in Rank, NEW d \in Rank,
               s # p \/ pc[p] # "reply" \/ d # requestors[p][i[p]]
        PROVE  StillOwed(s, d)' = StillOwed(s, d)
    <2>1. CASE s # p
      BY <1>1, <2>1 DEF StillOwed
    <2>2. CASE s = p
      <3>1. i[p] \in Nat
        BY <1>0 DEF TypeOK
      <3>. QED
        BY <1>1, <1>4, <2>2, <3>1 DEF StillOwed
    <2>. QED
      BY <2>1, <2>2
  <1>. QED
    BY <1>1, <1>2, <1>3, <1>4 DEF LoopLabel

\* sendWork puts the offsets on the wire.
LEMMA SendOffsetsMaps ==
  ASSUME TransferInv, ReplyValue, ReplyValue', NEW p \in Rank, SendOffsets(p)
  PROVE  UNCHANGED Atomic!sharingVars
  <1>0. TypeOK /\ LoopShape
    BY DEF TransferInv
  <1>1. pc[p] = "reply" /\ pc[p] \in LoopLabel
    BY DEF SendOffsets, LoopLabel
  <1>d. PICK dest \in Rank : dest = requestors[p][i[p]]
    BY <1>0, <1>1, InsideLoop
  <1>n. PICK n \in Nat : n = sizes[p][i[p]]
    BY <1>1, ShareFits
  <1>2. /\ wire' = [wire EXCEPT ![p][dest] = Append(wire[p][dest], Msg("offsets", n))]
        /\ pc' = [pc EXCEPT ![p] = "sendData"]
        /\ UNCHANGED loopVars /\ UNCHANGED <<count, work_outstanding>>
        /\ UNCHANGED <<budget, work_requested_rank, items, req, receipt>>
    BY <1>d, <1>n DEF SendOffsets, Goto
  <1>3. Owed(p, dest) /\ pc[dest] # "recvData"
    BY <1>d, <1>1, PresentOwed
  <1>4. /\ wire'[p][dest] = Append(wire[p][dest], Msg("offsets", n))
        /\ \A a, b \in Rank : a # p \/ b # dest => wire'[a][b] = wire[a][b]
    <2>1. Msg("offsets", n) \in Message
      BY DEF Msg, Message
    <2>. QED
      BY ZenonT(60), <1>0, <1>2, <2>1, PutBehind
  <1>5. wire[p][dest] = <<>> /\ wire'[p][dest] = <<Msg("offsets", n)>>
    BY <1>3, <1>4 DEF Owed
  <1>6. /\ KeptCount' = KeptCount /\ TransfersOpen' = TransfersOpen
        /\ sizes' = sizes
        /\ \A s, d \in Rank : s # p \/ pc[p] # "reply" \/ d # requestors[p][i[p]] =>
             StillOwed(s, d)' = StillOwed(s, d)
        /\ \A r \in Rank : pc'[r] = "recvData" <=> pc[r] = "recvData"
    BY <1>1, <1>2, StayMaps
  <1>7. Replies(p, dest) = << n >>
    <2>1. i[p] \in StillOwed(p, dest)
      BY <1>d, <1>0, <1>1, OwedPlaces
    <2>. QED
      BY <1>n, <1>3, <1>5, <2>1 DEF ReplyValue
  <1>8. Replies(p, dest)' = << n >>
    <2>1. wire'[p][dest] # <<>> /\ wire'[p][dest][1].items = n
      BY <1>5 DEF Msg
    <2>2. pc'[dest] # "recvData"
      BY <1>3, <1>6
    <2>. QED
      BY <2>1, <2>2 DEF ReplyValue
  <1>9. ASSUME NEW s \in Rank, NEW d \in Rank, s # p \/ d # dest
        PROVE  Replies(s, d)' = Replies(s, d)
    BY ZenonT(60), <1>d, <1>2, <1>4, <1>6, <1>9, ReplyFrame
  <1>10. RepliesDue' = RepliesDue
    BY <1>7, <1>8, <1>9 DEF RepliesDue
  <1>. QED
    BY <1>2, <1>6, <1>10 DEF Atomic!sharingVars

\* sendWork sends the data behind the offsets.
LEMMA SendDataMaps ==
  ASSUME TransferInv, ReplyValue, ReplyValue', NEW p \in Rank, SendData(p)
  PROVE  UNCHANGED Atomic!sharingVars
  <1>0. TypeOK /\ LoopShape /\ Stages
    BY DEF TransferInv
  <1>1. pc[p] = "sendData" /\ pc[p] \in LoopLabel
    BY DEF SendData, LoopLabel
  <1>d. PICK dest \in Rank : dest = requestors[p][i[p]]
    BY <1>0, <1>1, InsideLoop
  <1>n. PICK n \in Nat : n = sizes[p][i[p]]
    BY <1>1, ShareFits
  <1>2. /\ wire' = [wire EXCEPT ![p][dest] = Append(wire[p][dest], Msg("data", n))]
        /\ pc' = [pc EXCEPT ![p] = "sent"]
        /\ UNCHANGED loopVars /\ UNCHANGED <<count, work_outstanding>>
        /\ UNCHANGED <<budget, work_requested_rank, items, req, receipt>>
    BY <1>d, <1>n DEF SendData, Goto
  <1>3. pc[dest] # "recvData" => HalfSent(p, dest)
    <2>1. Between(p, dest) /\ Pair(p, dest)
      BY <1>d, <1>0, <1>1, StagesParts DEF Between
    <2>2. Stage(p, dest)
      BY <2>1 DEF Pair, Unrelated
    <2>. QED
      BY <2>1, <2>2 DEF Stage, Asked, Owed, Refused, Sent
  <1>4. /\ wire'[p][dest] = Append(wire[p][dest], Msg("data", n))
        /\ \A a, b \in Rank : a # p \/ b # dest => wire'[a][b] = wire[a][b]
    <2>1. Msg("data", n) \in Message
      BY DEF Msg, Message
    <2>. QED
      BY ZenonT(60), <1>0, <1>2, <2>1, PutBehind
  <1>5. /\ KeptCount' = KeptCount /\ TransfersOpen' = TransfersOpen
        /\ sizes' = sizes
        /\ \A s, d \in Rank : s # p \/ pc[p] # "reply" \/ d # requestors[p][i[p]] =>
             StillOwed(s, d)' = StillOwed(s, d)
        /\ \A r \in Rank : pc'[r] = "recvData" <=> pc[r] = "recvData"
    BY <1>1, <1>2, StayMaps
  <1>6. Replies(p, dest)' = Replies(p, dest)
    <2>1. CASE pc[dest] = "recvData" /\ work_requested_rank[dest] = p
      <3>1. pc'[dest] = "recvData" /\ work_requested_rank'[dest] = p
        BY <1>2, <1>5, <2>1
      <3>. QED
        BY <1>2, <2>1, <3>1 DEF ReplyValue
    <2>2. CASE pc[dest] = "recvData" /\ work_requested_rank[dest] # p
      <3>1. Between(p, dest) /\ Pair(p, dest)
        BY <1>d, <1>0, <1>1, StagesParts DEF Between
      <3>. QED
        BY <2>2, <3>1 DEF Pair, Unrelated
    <2>3. CASE pc[dest] # "recvData"
      <3>1. PICK m : wire[p][dest] = << m >>
        BY <1>3, <2>3 DEF HalfSent
      <3>2. wire'[p][dest] = << m, Msg("data", n) >>
        BY <1>4, <3>1, AppendOne
      <3>3. /\ wire[p][dest] # <<>> /\ wire'[p][dest] # <<>>
            /\ wire'[p][dest][1] = wire[p][dest][1]
        BY <3>1, <3>2
      <3>4. pc'[dest] # "recvData"
        BY <1>5, <2>3
      <3>. QED
        BY <2>3, <3>3, <3>4 DEF ReplyValue
    <2>. QED
      BY <2>1, <2>2, <2>3
  <1>7. ASSUME NEW s \in Rank, NEW d \in Rank, s # p \/ d # dest
        PROVE  Replies(s, d)' = Replies(s, d)
    BY <1>1, <1>2, <1>4, <1>5, <1>7, ReplyFrame
  <1>8. RepliesDue' = RepliesDue
    BY <1>6, <1>7 DEF RepliesDue
  <1>. QED
    BY <1>2, <1>5, <1>8 DEF Atomic!sharingVars

\* AtomicSharing has the operators of WorkSplit and of FiniteSets by their
\* definitions.
LEMMA AtomicOperators ==
  /\ \A S : Atomic!Cardinality(S) = Cardinality(S)
  /\ \A equal, queue, rcount :
       Atomic!Splits(equal, queue, rcount) = Splits(equal, queue, rcount)
  <1>1. ASSUME NEW S PROVE Atomic!Cardinality(S) = Cardinality(S)
    BY DEF Atomic!Cardinality, Cardinality
  <1>2. ASSUME NEW equal, NEW queue, NEW rcount
        PROVE  Atomic!Splits(equal, queue, rcount) = Splits(equal, queue, rcount)
    BY DEF Atomic!Splits, Splits, Atomic!SendCounts, SendCounts,
           Atomic!spread_counts, spread_counts
  <1>. QED
    BY <1>1, <1>2

LEMMA AppendFirst == ASSUME NEW a PROVE Append(<<>>, a) = << a >>
  <1>1. << >> \in Seq({a}) /\ a \in {a} /\ Len(<< >>) = 0
    OBVIOUS
  <1>2. /\ Append(<< >>, a) \in Seq({a})
        /\ Len(Append(<< >>, a)) = 1 /\ Append(<< >>, a)[1] = a
    BY <1>1, AppendProperties
  <1>3. << a >> \in Seq({a}) /\ Len(<< a >>) = 1 /\ << a >>[1] = a
    OBVIOUS
  <1>4. \A k \in 1 .. 1 : Append(<< >>, a)[k] = << a >>[k]
    BY <1>2, <1>3
  <1>. QED
    BY <1>2, <1>3, <1>4, SeqEqual

\* The replies of one rank come.
LEMMA RepliesRow ==
  ASSUME NEW p \in Rank, NEW row, row = [d \in Rank |-> row[d]],
         \A d \in Rank : Replies(p, d)' = row[d],
         \A s, d \in Rank : s # p => Replies(s, d)' = Replies(s, d)
  PROVE  RepliesDue' = [RepliesDue EXCEPT ![p] = row]
  <1>1. RepliesDue'[p] = row
    BY DEF RepliesDue
  <1>2. ASSUME NEW s \in Rank, s # p PROVE RepliesDue'[s] = RepliesDue[s]
    BY <1>2 DEF RepliesDue
  <1>3. RepliesDue = [s \in Rank |-> RepliesDue[s]]
        /\ RepliesDue' = [s \in Rank |-> RepliesDue'[s]]
    BY DEF RepliesDue
  <1>. QED
    BY <1>1, <1>2, <1>3

\* WorkSharing numbers the requestors where the loop lists them.
LEMMA ArrivalsInverse ==
  ASSUME NEW S \in SUBSET Rank, S # {}, NEW order \in Arrivals(S)
  PROVE  \E inv \in Atomic!Arrivals(S) :
           /\ \A d \in S : inv[d] \in 1 .. Cardinality(S) /\ order[inv[d]] = d
           /\ \A k \in 1 .. Cardinality(S) : inv[order[k]] = k
  <1>. DEFINE n == Cardinality(S)
              inv == [d \in S |-> CHOOSE k \in 1 .. n : order[k] = d]
  <1>1. /\ Len(order) = n /\ n \in Nat
        /\ \A k \in 1 .. n : order[k] \in S
        /\ \A d \in S : \E k \in 1 .. n : order[k] = d
        /\ \A j, k \in 1 .. n : order[j] = order[k] => j = k
    BY ArrivalsType
  <1>. HIDE DEF n
  <1>2. ASSUME NEW d \in S PROVE inv[d] \in 1 .. n /\ order[inv[d]] = d
    BY <1>1
  <1>3. inv \in [S -> 1 .. n]
    BY <1>2
  <1>. HIDE DEF inv
  <1>4. ASSUME NEW k \in 1 .. n PROVE inv[order[k]] = k
    BY <1>1, <1>2
  <1>5. inv \in Atomic!Arrivals(S)
    <2>1. \A a, b \in S : inv[a] = inv[b] => a = b
      BY <1>2
    <2>. QED
      BY <1>3, <2>1, AtomicOperators DEF Atomic!Arrivals, n
  <1>. QED
    BY <1>2, <1>4, <1>5 DEF n

\* The loop of workreqCheck starts where workreqCheck takes its one step.
LEMMA TakeRequestsMaps ==
  ASSUME TransferInv, ReplyValue, ReplyValue', NEW p \in Rank,
         NEW S \in Found(p) \ {{}}, TakeRequests(p, S)
  PROVE  Atomic!Answer(p)
  <1>. DEFINE n == Cardinality(S)
  <1>. PICK order \in Arrivals(S) : requestors' = [requestors EXCEPT ![p] = order]
    BY DEF TakeRequests
  <1>. PICK split \in IF count[p] = 0 THEN {[k \in 0 .. n |-> 0]}
                      ELSE Splits(SplitEqual, count[p], n) :
         sizes' = [sizes EXCEPT ![p] = split]
    BY DEF TakeRequests
  <1>i. S \in SUBSET Rank /\ S # {}
    BY DEF Found, Requestors
  <1>. PICK inv \in Atomic!Arrivals(S) :
         /\ \A d \in S : inv[d] \in 1 .. n /\ order[inv[d]] = d
         /\ \A k \in 1 .. n : inv[order[k]] = k
    BY <1>i, ArrivalsInverse
  <1>. HIDE DEF n
  <1>. DEFINE share == [d \in S |-> split[inv[d]]]
  <1>0. TypeOK /\ LoopShape /\ Stages
    BY DEF TransferInv
  <1>1. S \in SUBSET Rank /\ S # {} /\ \A r \in S : req[r][p] > 0
    <2>1. S \subseteq Requestors(p)
      BY DEF Found
    <2>2. Requestors(p) \subseteq Rank /\ \A r \in Requestors(p) : req[r][p] > 0
      BY DEF Requestors
    <2>. QED
      BY <2>1, <2>2
  <1>2. /\ pc[p] = "workreqCheck" /\ pc' = [pc EXCEPT ![p] = "reply"]
        /\ i' = [i EXCEPT ![p] = 1]
        /\ req' = [s \in Rank |-> [req[s] EXCEPT ![p] = IF s \in S THEN @ - 1 ELSE @]]
        /\ UNCHANGED <<count, budget, work_requested_rank, work_outstanding, items,
                       wire, receipt>>
    BY DEF TakeRequests, Goto
  <1>3. /\ Len(order) = n /\ n \in Nat \ {0} /\ order \in Seq(Rank)
        /\ \A k \in 1 .. n : order[k] \in S
        /\ \A d \in S : \E k \in 1 .. n : order[k] = d
    BY <1>1, ArrivalsType DEF n
  <1>4. /\ pc \in [Rank -> Label] /\ requestors \in [Rank -> Seq(Rank)]
        /\ DOMAIN sizes = Rank /\ i \in [Rank -> Nat]
        /\ work_outstanding \in [Rank -> Nat]
    BY <1>0 DEF TypeOK
  <1>5. /\ pc'[p] = "reply" /\ i'[p] = 1 /\ requestors'[p] = order /\ sizes'[p] = split
        /\ \A r \in Rank : r # p => /\ pc'[r] = pc[r] /\ i'[r] = i[r]
                                    /\ requestors'[r] = requestors[r]
                                    /\ sizes'[r] = sizes[r]
    BY <1>2, <1>4
  <1>6. requestors[p] = <<>>
    BY <1>0, <1>2, OutsideLoop DEF LoopLabel
  <1>7. KeptCount' = [KeptCount EXCEPT ![p] = split[0]]
    <2>1. order # <<>>
      BY <1>3
    <2>2. \A r \in Rank : KeptCount'[r] = IF r = p THEN split[0] ELSE KeptCount[r]
      BY <1>2, <1>5, <2>1 DEF KeptCount
    <2>3. KeptCount = [r \in Rank |-> KeptCount[r]]
          /\ KeptCount' = [r \in Rank |-> KeptCount'[r]]
      BY DEF KeptCount
    <2>. QED
      BY <2>2, <2>3
  <1>8. ASSUME NEW r \in S
        PROVE  work_requested_rank[r] = p /\ pc[r] # "recvData" /\ wire[p][r] = <<>> /\ r # p
    <2>1. Pair(p, r) /\ req[r][p] # 0
      BY <1>0, <1>1, StagesParts DEF TypeOK
    <2>2. work_requested_rank[r] = p /\ p # r /\ Stage(p, r)
      BY <2>1 DEF Pair, Unrelated
    <2>3. Asked(p, r) /\ pc[r] # "recvData"
      BY <2>1, <2>2 DEF Stage, Owed, Refused, HalfSent, Sent, HalfTaken, Taken
    <2>. QED
      BY <2>2, <2>3 DEF Asked
  <1>9. \A d \in Rank : StillOwed(p, d) = {}
    BY <1>0, <1>6, OwedPlaces
  <1>10. ASSUME NEW d \in S
         PROVE  Replies(p, d) = <<>> /\ Replies(p, d)' = << share[d] >>
    <2>1. d \in Rank /\ d # p /\ pc[d] # "recvData" /\ wire[p][d] = <<>>
      BY <1>1, <1>8
    <2>2. Replies(p, d) = <<>>
      BY <1>9, <2>1 DEF ReplyValue
    <2>3. inv[d] \in StillOwed(p, d)'
      <3>1. inv[d] \in 1 .. n /\ order[inv[d]] = d
        BY DEF n
      <3>2. inv[d] > 1 \/ inv[d] = 1
        BY <1>3, <3>1
      <3>. QED
        BY <1>3, <1>5, <3>1, <3>2 DEF StillOwed
    <2>4. wire'[p][d] = <<>> /\ pc'[d] # "recvData"
      BY <1>2, <1>5, <2>1
    <2>5. Replies(p, d)' = << split[inv[d]] >>
      BY <1>5, <2>1, <2>3, <2>4 DEF ReplyValue
    <2>. QED
      BY <2>2, <2>5
  <1>11. ASSUME NEW s \in Rank, NEW d \in Rank, s # p \/ d \notin S
         PROVE  Replies(s, d)' = Replies(s, d)
    <2>1. StillOwed(s, d)' = StillOwed(s, d)
      <3>1. CASE s # p
        BY <1>5, <3>1 DEF StillOwed
      <3>2. CASE s = p
        <4>1. StillOwed(p, d)' = {}
          BY <1>3, <1>5, <1>11, <3>2 DEF StillOwed
        <4>. QED
          BY <1>9, <3>2, <4>1
      <3>. QED
        BY <3>1, <3>2
    <2>2. StillOwed(s, d) # {} => sizes'[s] = sizes[s]
      BY <1>5, <1>9
    <2>3. pc'[d] = "recvData" <=> pc[d] = "recvData"
      BY <1>2, <1>5
    <2>. QED
      BY <1>2, <2>1, <2>2, <2>3, ReplyFrame
  <1>12. RepliesDue' = [RepliesDue EXCEPT ![p] =
            [d \in Rank |-> IF d \in S THEN Append(RepliesDue[p][d], share[d])
                                       ELSE RepliesDue[p][d]]]
    <2>. DEFINE row == [d \in Rank |-> IF d \in S THEN Append(RepliesDue[p][d], share[d])
                                                 ELSE RepliesDue[p][d]]
    <2>1. ASSUME NEW d \in Rank PROVE Replies(p, d)' = row[d]
      <3>1. RepliesDue[p][d] = Replies(p, d)
        BY DEF RepliesDue
      <3>2. CASE d \in S
        <4>1. Append(RepliesDue[p][d], share[d]) = << share[d] >>
          <5>1. RepliesDue[p][d] = << >>
            BY <1>10, <3>1, <3>2
          <5>. QED
            BY <5>1, AppendFirst
        <4>. QED
          BY <1>10, <3>2, <4>1
      <3>3. CASE d \notin S
        BY <1>11, <3>1, <3>3
      <3>. QED
        BY <3>2, <3>3
    <2>2. \A s, d \in Rank : s # p => Replies(s, d)' = Replies(s, d)
      BY <1>11
    <2>3. row = [d \in Rank |-> row[d]]
      OBVIOUS
    <2>. HIDE DEF row
    <2>4. RepliesDue' = [RepliesDue EXCEPT ![p] = row]
      BY <2>1, <2>2, <2>3, RepliesRow
    <2>. QED
      BY <2>4 DEF row
  <1>13. TransfersOpen' = [TransfersOpen EXCEPT ![p] =
                             @ + Cardinality({d \in S : share[d] > 0})]
    <2>1. Transfers(p)' = {k \in 1 .. n : split[k] > 0}
      BY <1>3, <1>5 DEF Transfers
    \* As many requestors get work as there are transfers in the loop.
    <2>. DEFINE D == {d \in S : share[d] > 0}
    <2>2. Cardinality(D) = Cardinality(Transfers(p)')
      <3>. DEFINE K == {k \in 1 .. n : split[k] > 0}
                  f == [k \in K |-> order[k]]
      <3>1. /\ \A k \in 1 .. n : order[k] \in S /\ inv[order[k]] = k
            /\ \A d \in S : inv[d] \in 1 .. n /\ order[inv[d]] = d
        BY <1>3 DEF n
      <3>2. IsFiniteSet(K)
        <4>1. IsFiniteSet(1 .. n) /\ K \subseteq 1 .. n
          BY <1>3, FS_Interval
        <4>. QED
          BY <4>1, FS_Subset
      <3>3. f \in [K -> D]
        BY <3>1
      <3>4. \A a, b \in K : f[a] = f[b] => a = b
        BY <3>1
      <3>5. ASSUME NEW d \in D PROVE \E k \in K : f[k] = d
        <4>1. inv[d] \in K /\ f[inv[d]] = d
          BY <3>1
        <4>. QED
          BY <4>1
      <3>. HIDE DEF f, D
      <3>6. f \in Bijection(K, D)
        BY <3>3, <3>4, <3>5 DEF Bijection, Injection, Surjection, IsInjective
      <3>. HIDE DEF K
      <3>7. Cardinality(D) = Cardinality(K)
        BY <3>2, <3>6, FS_Bijection DEF ExistsBijection
      <3>. QED
        BY <2>1, <3>7 DEF K
    <2>3. D = {d \in S : share[d] > 0}
      OBVIOUS
    <2>. HIDE DEF D
    <2>4. TransfersOpen[p] = work_outstanding[p]
      <3>1. Transfers(p) = {}
        BY <1>6 DEF Transfers
      <3>2. TransfersOpen[p] = work_outstanding[p] + 0
        BY <3>1, FS_EmptySet DEF TransfersOpen
      <3>3. work_outstanding[p] \in Nat
        BY <1>4
      <3>. QED
        BY <3>2, <3>3
    <2>5. TransfersOpen'[p] = TransfersOpen[p] + Cardinality(D)
      <3>1. TransfersOpen'[p] = work_outstanding[p] + Cardinality(Transfers(p)')
        BY <1>2 DEF TransfersOpen
      <3>. QED
        BY <2>2, <2>4, <3>1
    <2>6. ASSUME NEW r \in Rank, r # p PROVE TransfersOpen'[r] = TransfersOpen[r]
      <3>1. Transfers(r)' = Transfers(r)
        BY <1>5, <2>6 DEF Transfers
      <3>. QED
        BY <1>2, <3>1 DEF TransfersOpen
    <2>. QED
      BY ZenonT(60), <2>3, <2>5, <2>6 DEF TransfersOpen
  <1>14. Atomic!SendReplies(p, S, split[0], share)
    BY <1>2, <1>7, <1>12, <1>13, AtomicOperators
       DEF Atomic!SendReplies, Atomic!Rank, Rank
  <1>15. S \in (SUBSET Atomic!Requestors(p)) \ {{}}
    <2>1. S \subseteq Atomic!Requestors(p)
      BY <1>1 DEF Atomic!Requestors, Atomic!Rank, Rank
    <2>. QED
      BY <1>1, <2>1
  <1>16. KeptCount[p] = count[p] /\ count[p] \in Nat
    BY <1>0, <1>6 DEF KeptCount, TypeOK
  <1>17. CASE count[p] = 0
    <2>1. split = [k \in 0 .. n |-> 0]
      BY <1>17
    <2>2. split[0] = 0 /\ share = [d \in S |-> 0]
      BY <1>3, <2>1
    <2>3. Atomic!RefuseRequests(p, S)
      BY <1>14, <1>16, <1>17, <2>2 DEF Atomic!RefuseRequests
    <2>. QED
      BY <1>15, <1>16, <1>17, <2>3 DEF Atomic!Answer
  <1>18. CASE count[p] # 0
    <2>1. split \in Atomic!Splits(SplitEqual, KeptCount[p], Atomic!Cardinality(S))
      BY <1>16, <1>18, AtomicOperators DEF n
    <2>2. Atomic!ShareQueue(p, S, split, inv)
      BY <1>14 DEF Atomic!ShareQueue
    <2>3. KeptCount[p] > 0
      BY <1>16, <1>18
    <2>. QED
      BY <1>15, <2>1, <2>2, <2>3 DEF Atomic!Answer
  <1>. QED
    BY <1>17, <1>18

LEMMA AtomicInit == Init => Atomic!SharingInit
  <1>. SUFFICES ASSUME Init PROVE Atomic!SharingInit
    OBVIOUS
  <1>1. /\ count \in [Rank -> 0 .. CreateMax]
        /\ ~CreateGlobal => \A r \in Rank \ {0} : count[r] = 0
        /\ budget = Budget
        /\ work_requested_rank = [r \in Rank |-> MPI_PROC_NULL]
        /\ req = [s \in Rank |-> [d \in Rank |-> 0]]
        /\ receipt = [d \in Rank |-> 0]
    BY DEF Init
  <1>2. \A r \in Rank : requestors[r] = <<>> /\ pc[r] = "workreqCheck"
    BY DEF Init
  <1>3. KeptCount = count
    BY <1>1, <1>2 DEF KeptCount
  <1>4. TransfersOpen = [r \in Rank |-> 0]
    <2>1. ASSUME NEW r \in Rank PROVE Cardinality(Transfers(r)) = 0
      <3>1. Transfers(r) = {}
        <4>1. Len(requestors[r]) = 0
          BY <1>2
        <4>. QED
          BY <4>1 DEF Transfers
      <3>. QED
        BY <3>1, FS_EmptySet
    <2>2. \A r \in Rank : work_outstanding[r] = 0
      BY DEF Init
    <2>. QED
      BY <2>1, <2>2 DEF TransfersOpen
  <1>5. RepliesDue = [s \in Rank |-> [d \in Rank |-> <<>>]]
    <2>1. ASSUME NEW s \in Rank, NEW d \in Rank PROVE Replies(s, d) = <<>>
      <3>1. StillOwed(s, d) = {}
        <4>1. Len(requestors[s]) = 0
          BY <1>2
        <4>. QED
          BY <4>1 DEF StillOwed
      <3>2. wire[s][d] = <<>>
        BY DEF Init
      <3>. QED
        BY <1>2, <3>1, <3>2 DEF Replies
    <2>. QED
      BY <2>1 DEF RepliesDue
  <1>. QED
    BY <1>1, <1>3, <1>4, <1>5
       DEF Atomic!SharingInit, Atomic!Rank, Rank, Atomic!MPI_PROC_NULL, MPI_PROC_NULL

LEMMA AtomicStep ==
  TransferInv /\ ReplyValue /\ ReplyValue' /\ [Next]_vars
    => [Atomic!Next]_Atomic!sharingVars
  <1>. SUFFICES ASSUME TransferInv, ReplyValue, ReplyValue', [Next]_vars
                PROVE  Atomic!Next \/ UNCHANGED Atomic!sharingVars
    OBVIOUS
  <1>1. CASE UNCHANGED vars
    <2>1. KeptCount' = KeptCount
      BY <1>1 DEF KeptCount, vars, loopVars
    <2>2. TransfersOpen' = TransfersOpen
      BY <1>1 DEF TransfersOpen, Transfers, vars, loopVars
    <2>3. RepliesDue' = RepliesDue
      BY <1>1 DEF RepliesDue, Replies, StillOwed, vars, loopVars, netVars
    <2>. QED
      BY <1>1, <2>1, <2>2, <2>3 DEF Atomic!sharingVars, vars, netVars
  <1>2. ASSUME NEW p \in Rank, Step(p)
        PROVE  Atomic!Next \/ UNCHANGED Atomic!sharingVars
    <2>0. p \in Atomic!Rank
      BY DEF Atomic!Rank, Rank
    <2>1. CASE NoRequest(p)
      BY <2>1, QuietMaps DEF NoRequest, Goto, Label, LoopLabel
    <2>2. ASSUME NEW S \in Found(p) \ {{}}, TakeRequests(p, S) PROVE Atomic!Next
      BY <2>0, <2>2, TakeRequestsMaps DEF Atomic!Next
    <2>3. CASE SendNoWork(p)
      BY <2>3, SendNoWorkMaps
    <2>4. CASE SendOffsets(p)
      BY <2>4, SendOffsetsMaps
    <2>5. CASE SendData(p)
      BY <2>5, SendDataMaps
    <2>6. CASE Subtract(p)
      BY <2>6, SubtractMaps
    <2>7. ASSUME NEW taken \in 0 .. receipt[p], TakeReceipts(p, taken) PROVE Atomic!Next
      BY <2>0, <2>7, TakeReceiptsMaps DEF Atomic!Next
    <2>8. CASE SendRequest(p)
      BY <2>0, <2>8, SendRequestMaps DEF Atomic!Next
    <2>9. CASE AwaitReply(p)
      BY <2>9, QuietMaps DEF AwaitReply, Goto, Label, LoopLabel
    <2>10. CASE TakeReply(p)
      <3>1. wire[work_requested_rank[p]][p] # <<>>
        BY <2>10 DEF TakeReply
      <3>2. CASE Head(wire[work_requested_rank[p]][p]).items = 0
        BY <2>0, <2>10, <3>1, <3>2, TakeRefusalMaps DEF Atomic!Next
      <3>3. CASE Head(wire[work_requested_rank[p]][p]).items # 0
        BY <2>10, <3>3, TakeOffsetsMaps
      <3>. QED
        BY <3>2, <3>3
    <2>11. CASE RecvData(p)
      BY <2>0, <2>11, RecvDataMaps DEF Atomic!Next
    <2>12. CASE ProcessItem(p)
      BY <2>0, <2>12, ProcessItemMaps DEF Atomic!Next
    <2>13. CASE Idle(p)
      BY <2>13, QuietMaps DEF Idle, Goto, Label, LoopLabel
    <2>. QED
      BY <1>2, <2>1, <2>2, <2>3, <2>4, <2>5, <2>6, <2>7, <2>8, <2>9, <2>10, <2>11,
         <2>12, <2>13 DEF Step
  <1>. QED
    BY <1>1, <1>2 DEF Next

\* The loops of workreqCheck and requestWork, interrupted at every message,
\* implement the handlers of WorkSharing as single steps.
THEOREM HandlersAreAtomic == Spec => HandlersAtomic
  <1>1. Spec => []TransferInv
    BY TransferInvariant
  <1>2. TransferInv => ReplyValue
    BY ReplyValues
  <1>. QED
    BY <1>1, <1>2, AtomicInit, AtomicStep, PTL DEF Spec, HandlersAtomic, Atomic!Spec

=============================================================================
