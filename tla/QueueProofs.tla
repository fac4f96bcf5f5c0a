----------------------------- MODULE QueueProofs -----------------------------
(***************************************************************************)
(* The byte-level queues and their files, for any number of ranks, items   *)
(* of any length, and vectors that grow by any number of entries.          *)
(*                                                                         *)
(* First the queues of Queue: the layout of the items is kept by every     *)
(* operation, and the queues implement ItemStacks.  Then the files of      *)
(* Checkpoint: CheckpointInv is an invariant, a restart brings back what   *)
(* was written, or the first of it, and nothing twice, and the queues are  *)
(* stacks still, for any number of failed calls and crashes.               *)
(***************************************************************************)
EXTENDS CheckpointInv, SequenceTheorems, WellFoundedInduction, TLAPS

-----------------------------------------------------------------------------
(* Memory *)

\* A sequence given by its entries.
LEMMA SequenceOf ==
  ASSUME NEW S, NEW n \in Nat, NEW s \in [1 .. n -> S]
  PROVE  s \in Seq(S) /\ Len(s) = n /\ \A i \in 1 .. n : s[i] \in S
  <1>1. s \in Seq(S)
    BY SeqDef
  <1>2. Len(s) \in Nat /\ DOMAIN s = 1 .. Len(s)
    BY <1>1, LenProperties
  <1>. QED
    BY <1>1, <1>2

\* A vector is extended by whole chunks until there is room.
LEMMA GrownFits ==
  ASSUME NEW size \in Nat, NEW amount \in Nat, NEW chunk \in Nat \ {0}
  PROVE  /\ Grown(size, amount, chunk) \in Nat
         /\ Grown(size, amount, chunk) >= size
         /\ Grown(size, amount, chunk) >= amount
  <1>1. CASE size >= amount
    BY <1>1 DEF Grown
  <1>2. CASE size < amount
    <2>. DEFINE d == amount - size + chunk - 1
                q == d \div chunk
    <2>1. d \in Nat
      BY <1>2
    <2>2. q \in Nat /\ chunk * q \in Nat /\ d - chunk * q \in 0 .. chunk - 1
      <3>. HIDE DEF d
      <3>. QED
        BY <2>1, Z3
    <2>3. Grown(size, amount, chunk) = size + chunk * q
      BY <1>2 DEF Grown
    <2>4. chunk * q >= amount - size
      BY <2>1, <2>2
    <2>. HIDE DEF q
    <2>. QED
      BY <2>2, <2>3, <2>4
  <1>. QED
    BY <1>1, <1>2

\* An extended vector keeps its entries.
LEMMA ExtendEffect ==
  ASSUME NEW array \in Seq(Nat), NEW amount \in Nat, NEW chunk \in Nat \ {0}
  PROVE  LET new == Extend(array, amount, chunk)
         IN  /\ new \in Seq(Nat)
             /\ Len(new) >= Len(array) /\ Len(new) >= amount
             /\ \A a \in 1 .. Len(array) : new[a] = array[a]
  <1>. DEFINE n == Grown(Len(array), amount, chunk) - Len(array)
              zeros == [a \in 1 .. n |-> 0]
  <1>1. Len(array) \in Nat
    BY LenProperties
  <1>2. n \in Nat /\ Len(array) + n >= amount
    <2>. DEFINE size == Grown(Len(array), amount, chunk)
    <2>1. size \in Nat /\ size >= Len(array) /\ size >= amount
      BY <1>1, GrownFits
    <2>. HIDE DEF size
    <2>2. size - Len(array) \in Nat /\ Len(array) + (size - Len(array)) >= amount
      BY <1>1, <2>1
    <2>. QED
      BY <2>2 DEF size
  <1>. HIDE DEF n
  <1>3. zeros \in Seq(Nat) /\ Len(zeros) = n
    <2>1. zeros \in [1 .. n -> Nat]
      OBVIOUS
    <2>. QED
      BY <1>2, <2>1, SequenceOf
  <1>4. Extend(array, amount, chunk) = array \o zeros
    BY DEF Extend, n
  <1>. HIDE DEF zeros
  <1>. QED
    BY <1>1, <1>2, <1>3, <1>4, ConcatProperties

\* What push and workReceive do to a vector: make room behind offset `at' and
\* put the data there.
Written(array, at, data, chunk) ==
  Copy(Extend(array, at + Len(data), chunk), at, data)

\* The entries before the offset are kept, the data are behind it.
LEMMA WrittenEffect ==
  ASSUME NEW array \in Seq(Nat), NEW at \in 0 .. Len(array),
         NEW data \in Seq(Nat), NEW chunk \in Nat \ {0}
  PROVE  LET new == Written(array, at, data, chunk)
         IN  /\ new \in Seq(Nat)
             /\ Len(new) >= Len(array) /\ Len(new) >= at + Len(data)
             /\ \A a \in 1 .. at : new[a] = array[a]
             /\ \A a \in 1 .. Len(data) : new[at + a] = data[a]
  <1>. DEFINE wide == Extend(array, at + Len(data), chunk)
              new  == Written(array, at, data, chunk)
  <1>1. Len(array) \in Nat /\ Len(data) \in Nat /\ at \in Nat
    BY LenProperties
  <1>2. /\ wide \in Seq(Nat)
        /\ Len(wide) >= Len(array) /\ Len(wide) >= at + Len(data)
        /\ \A a \in 1 .. Len(array) : wide[a] = array[a]
    <2>1. at + Len(data) \in Nat
      BY <1>1
    <2>. QED
      BY <2>1, ExtendEffect
  <1>3. new = [a \in 1 .. Len(wide) |->
                 IF a \in at + 1 .. at + Len(data) THEN data[a - at] ELSE wide[a]]
    BY DEF Written, Copy
  <1>. HIDE DEF wide, new
  <1>4. Len(wide) \in Nat
    BY <1>2, LenProperties
  <1>5. \A a \in 1 .. Len(wide) : wide[a] \in Nat
    BY <1>2, ElementOfSeq
  <1>6. \A a \in 1 .. Len(data) : data[a] \in Nat
    BY ElementOfSeq
  <1>7. new \in [1 .. Len(wide) -> Nat]
    BY <1>1, <1>3, <1>4, <1>5, <1>6
  <1>8. new \in Seq(Nat) /\ Len(new) = Len(wide)
    BY <1>4, <1>7, SequenceOf
  <1>9. \A a \in 1 .. at : new[a] = array[a]
    BY <1>1, <1>2, <1>3, <1>4
  <1>10. \A a \in 1 .. Len(data) : new[at + a] = data[a]
    BY <1>1, <1>2, <1>3, <1>4
  <1>11. Len(new) >= Len(array) /\ Len(new) >= at + Len(data)
    BY <1>2, <1>8
  <1>. QED
    BY <1>8, <1>9, <1>10, <1>11 DEF new

\* The same for data at the base of a vector.
LEMMA WrittenFirst ==
  ASSUME NEW array \in Seq(Nat), NEW data \in Seq(Nat), NEW chunk \in Nat \ {0}
  PROVE  /\ Written(array, 0, data, chunk) \in Seq(Nat)
         /\ Len(Written(array, 0, data, chunk)) >= Len(data)
         /\ \A a \in 1 .. Len(data) : Written(array, 0, data, chunk)[a] = data[a]
  <1>. DEFINE new == Written(array, 0, data, chunk)
  <1>1. PICK at \in 0 .. Len(array) : at = 0
    BY LenProperties
  <1>2. /\ Written(array, at, data, chunk) \in Seq(Nat)
        /\ Len(Written(array, at, data, chunk)) >= at + Len(data)
        /\ \A a \in 1 .. Len(data) :
             Written(array, at, data, chunk)[at + a] = data[a]
    BY ZenonT(60), WrittenEffect
  <1>3. Len(data) \in Nat
    BY LenProperties
  <1>4. at + Len(data) = Len(data) /\ \A a \in 1 .. Len(data) : at + a = a
    BY <1>1, <1>3
  <1>5. new = Written(array, at, data, chunk)
    BY <1>1
  <1>. HIDE DEF new
  <1>6. /\ new \in Seq(Nat) /\ Len(new) >= Len(data)
        /\ \A a \in 1 .. Len(data) : new[a] = data[a]
    BY <1>2, <1>4, <1>5
  <1>. QED
    BY <1>6 DEF new

\* The bytes between two offsets.
LEMMA BytesEffect ==
  ASSUME NEW array \in Seq(Nat), NEW to \in 0 .. Len(array), NEW from \in 0 .. to
  PROVE  /\ Bytes(array, from, to) \in Seq(Nat)
         /\ Len(Bytes(array, from, to)) = to - from
         /\ \A i \in 1 .. to - from : Bytes(array, from, to)[i] = array[from + i]
  <1>1. Len(array) \in Nat
    BY LenProperties
  <1>2. \A i \in from + 1 .. to : array[i] \in Nat
    BY <1>1, ElementOfSeq
  <1>3. /\ SubSeq(array, from + 1, to) \in Seq(Nat)
        /\ Len(SubSeq(array, from + 1, to)) =
             IF from + 1 <= to THEN to - (from + 1) + 1 ELSE 0
        /\ \A i \in 1 .. to - (from + 1) + 1 :
             SubSeq(array, from + 1, to)[i] = array[from + 1 + i - 1]
    BY <1>1, <1>2, from + 1 \in Int, to \in Int, SubSeqProperties
  <1>4. to - (from + 1) + 1 = to - from /\ \A i \in Int : from + 1 + i - 1 = from + i
    BY <1>1
  <1>. QED
    BY <1>1, <1>3, <1>4 DEF Bytes

\* The same bytes at two places.
LEMMA SameBytes ==
  ASSUME NEW a \in Seq(Nat), NEW to \in 0 .. Len(a), NEW from \in 0 .. to,
         NEW b \in Seq(Nat), NEW till \in 0 .. Len(b), NEW since \in 0 .. till,
         to - from = till - since,
         \A x \in 1 .. to - from : a[from + x] = b[since + x]
  PROVE  Bytes(a, from, to) = Bytes(b, since, till)
  <1>1. /\ Bytes(a, from, to) \in Seq(Nat)
        /\ Len(Bytes(a, from, to)) = to - from
        /\ \A i \in 1 .. to - from : Bytes(a, from, to)[i] = a[from + i]
    BY BytesEffect
  <1>2. /\ Bytes(b, since, till) \in Seq(Nat)
        /\ Len(Bytes(b, since, till)) = till - since
        /\ \A i \in 1 .. till - since : Bytes(b, since, till)[i] = b[since + i]
    BY BytesEffect
  <1>3. /\ Len(Bytes(a, from, to)) = Len(Bytes(b, since, till))
        /\ \A i \in 1 .. Len(Bytes(a, from, to)) :
             Bytes(a, from, to)[i] = Bytes(b, since, till)[i]
    BY <1>1, <1>2
  <1>. QED
    BY <1>1, <1>2, <1>3, SeqEqual

-----------------------------------------------------------------------------
(* The items of a queue or a message *)

\* A laid-out vector, its items inside the pool.
Fits(array, offsets, n, end) ==
  /\ array \in Seq(Nat) /\ offsets \in Seq(Nat) /\ n \in Nat /\ end \in Nat
  /\ LaidOut(offsets, n, end) /\ end <= Len(array)

\* The offset behind the i-th of n items.
Stop(offsets, n, end, i) == IF i = n THEN end ELSE offsets[i + 1]

\* The first n items.
Listed(array, offsets, n, end) == Items(array, SubSeq(offsets, 1, n), end)

\* Every item is inside the pool, and not empty.
LEMMA ItemBounds ==
  ASSUME NEW array, NEW offsets, NEW n, NEW end, Fits(array, offsets, n, end),
         NEW i \in 1 .. n
  PROVE  /\ offsets[i] \in Nat /\ Stop(offsets, n, end, i) \in Nat
         /\ offsets[i] < Stop(offsets, n, end, i)
         /\ Stop(offsets, n, end, i) <= end
  <1>1. /\ Len(offsets) \in Nat /\ n \in Nat /\ n <= Len(offsets) /\ end \in Nat
        /\ \A k \in 1 .. n : offsets[k] \in Nat
    <2>1. Len(offsets) \in Nat /\ n \in Nat /\ n <= Len(offsets) /\ end \in Nat
      BY LenProperties DEF Fits, LaidOut
    <2>. QED
      BY <2>1, ElementOfSeq DEF Fits
  <1>2. offsets[n] < end /\ \A j, k \in 1 .. n : j < k => offsets[j] < offsets[k]
    BY <1>1 DEF Fits, LaidOut
  <1>3. CASE i = n
    BY <1>1, <1>2, <1>3 DEF Stop
  <1>4. CASE i # n
    <2>1. i + 1 \in 1 .. n /\ i < i + 1 /\ n \in 1 .. n
      BY <1>1, <1>4
    <2>2. offsets[i] < offsets[i + 1]
      BY <1>2, <2>1
    <2>3. offsets[i + 1] <= end
      <3>1. CASE i + 1 = n
        BY <1>1, <1>2, <2>1, <3>1
      <3>2. CASE i + 1 < n
        <4>1. offsets[i + 1] < offsets[n]
          BY <1>2, <2>1, <3>2
        <4>. QED
          BY <1>1, <1>2, <2>1, <4>1
      <3>. QED
        BY <1>1, <2>1, <3>1, <3>2
    <2>. QED
      BY <1>1, <1>4, <2>1, <2>2, <2>3 DEF Stop
  <1>. QED
    BY <1>3, <1>4

\* The items a laid-out pool stands for.
LEMMA ListedEffect ==
  ASSUME NEW array, NEW offsets, NEW n, NEW end, Fits(array, offsets, n, end)
  PROVE  /\ Listed(array, offsets, n, end) \in Seq(Seq(Nat))
         /\ Len(Listed(array, offsets, n, end)) = n
         /\ \A i \in 1 .. n :
              Listed(array, offsets, n, end)[i] =
                Bytes(array, offsets[i], Stop(offsets, n, end, i))
  <1>. DEFINE first == SubSeq(offsets, 1, n)
              items == Listed(array, offsets, n, end)
  <1>1. /\ Len(offsets) \in Nat /\ n \in Nat /\ n <= Len(offsets)
        /\ \A k \in 1 .. n : offsets[k] \in Nat
    <2>1. Len(offsets) \in Nat /\ n \in Nat /\ n <= Len(offsets)
      BY LenProperties DEF Fits, LaidOut
    <2>. QED
      BY <2>1, ElementOfSeq DEF Fits
  <1>2. Len(first) = n /\ \A k \in 1 .. n : first[k] = offsets[k]
    <2>1. /\ Len(first) = IF 1 <= n THEN n - 1 + 1 ELSE 0
          /\ \A k \in 1 .. n - 1 + 1 : first[k] = offsets[1 + k - 1]
      BY <1>1, SubSeqProperties
    <2>. QED
      BY <1>1, <2>1
  <1>3. items = [i \in 1 .. n |->
                   Bytes(array, first[i], IF i = n THEN end ELSE first[i + 1])]
    BY <1>2 DEF Listed, Items
  <1>. HIDE DEF first, items
  <1>4. ASSUME NEW i \in 1 .. n
        PROVE  /\ items[i] = Bytes(array, offsets[i], Stop(offsets, n, end, i))
               /\ items[i] \in Seq(Nat)
    <2>1. i # n => i + 1 \in 1 .. n
      BY <1>1
    <2>2. items[i] = Bytes(array, offsets[i], Stop(offsets, n, end, i))
      BY <1>2, <1>3, <2>1 DEF Stop
    <2>3. /\ array \in Seq(Nat) /\ Len(array) \in Nat /\ end \in 0 .. Len(array)
      BY LenProperties DEF Fits
    <2>4. /\ Stop(offsets, n, end, i) \in 0 .. Len(array)
          /\ offsets[i] \in 0 .. Stop(offsets, n, end, i)
      BY <2>3, ItemBounds
    <2>. QED
      BY <2>2, <2>3, <2>4, BytesEffect
  <1>5. items \in [1 .. n -> Seq(Nat)]
    BY <1>3, <1>4
  <1>6. items \in Seq(Seq(Nat)) /\ Len(items) = n
    BY <1>1, <1>5, SequenceOf
  <1>. QED
    BY <1>4, <1>6 DEF items

\* An item that has moved, in the pool or from one to another, is the same.
LEMMA MovedItem ==
  ASSUME NEW a, NEW o, NEW n, NEW e, Fits(a, o, n, e), NEW i \in 1 .. n,
         NEW b, NEW p, NEW m, NEW f, Fits(b, p, m, f), NEW j \in 1 .. m,
         Stop(o, n, e, i) - o[i] = Stop(p, m, f, j) - p[j],
         \A x \in 1 .. Stop(o, n, e, i) - o[i] : a[o[i] + x] = b[p[j] + x]
  PROVE  Listed(a, o, n, e)[i] = Listed(b, p, m, f)[j]
  <1>1. /\ a \in Seq(Nat) /\ Len(a) \in Nat /\ e \in 0 .. Len(a)
        /\ b \in Seq(Nat) /\ Len(b) \in Nat /\ f \in 0 .. Len(b)
    BY LenProperties DEF Fits
  <1>2. Stop(o, n, e, i) \in 0 .. Len(a) /\ o[i] \in 0 .. Stop(o, n, e, i)
    <2>1. /\ o[i] \in Nat /\ Stop(o, n, e, i) \in Nat
          /\ o[i] < Stop(o, n, e, i) /\ Stop(o, n, e, i) <= e
      BY ItemBounds
    <2>. QED
      BY SMTT(30), <1>1, <2>1
  <1>3. Stop(p, m, f, j) \in 0 .. Len(b) /\ p[j] \in 0 .. Stop(p, m, f, j)
    <2>1. /\ p[j] \in Nat /\ Stop(p, m, f, j) \in Nat
          /\ p[j] < Stop(p, m, f, j) /\ Stop(p, m, f, j) <= f
      BY ItemBounds
    <2>. QED
      BY SMTT(30), <1>1, <2>1
  <1>4. Bytes(a, o[i], Stop(o, n, e, i)) = Bytes(b, p[j], Stop(p, m, f, j))
    BY ZenonT(60), <1>1, <1>2, <1>3, SameBytes
  <1>. QED
    BY <1>4, ListedEffect

-----------------------------------------------------------------------------
(* QueueOK is inductive *)

\* What QueueOK says of one queue and of the message on its way to it.
LEMMA QueueFits ==
  ASSUME QueueOK, NEW r \in Rank
  PROVE  /\ Fits(base[r], strings[r], count[r], head[r])
         /\ Fits(wire[r].data, wire[r].offsets, Len(wire[r].offsets), Len(wire[r].data))
         /\ wire[r] \in [offsets : Seq(Nat), data : Seq(Nat)]
         /\ Waiting(r) => count[r] = 0
         /\ Len(strings[r]) \in Nat /\ Len(base[r]) \in Nat
         /\ Len(wire[r].offsets) \in Nat /\ Len(wire[r].data) \in Nat
  <1>1. /\ base[r] \in Seq(Nat) /\ strings[r] \in Seq(Nat)
        /\ head[r] \in Nat /\ count[r] \in Nat
        /\ wire[r] \in [offsets : Seq(Nat), data : Seq(Nat)]
    BY DEF QueueOK, TypeOK
  <1>2. wire[r].data \in Seq(Nat) /\ wire[r].offsets \in Seq(Nat)
    BY <1>1
  <1>3. /\ Len(strings[r]) \in Nat /\ Len(base[r]) \in Nat
        /\ Len(wire[r].offsets) \in Nat /\ Len(wire[r].data) \in Nat
    BY <1>1, <1>2, LenProperties
  <1>. QED
    BY <1>1, <1>2, <1>3 DEF QueueOK, Layout, Fits

\* And what it takes to establish it.
LEMMA FitsQueue ==
  ASSUME TypeOK',
         \A r \in Rank :
           /\ Fits(base'[r], strings'[r], count'[r], head'[r])
           /\ Fits(wire'[r].data, wire'[r].offsets, Len(wire'[r].offsets),
                   Len(wire'[r].data))
           /\ wire'[r] # NoWork => count'[r] = 0
  PROVE  QueueOK'
  BY DEF QueueOK, Layout, Fits, Waiting

\* An element behind the items.
LEMMA FitsPush ==
  ASSUME NEW array, NEW offsets, NEW n, NEW end, Fits(array, offsets, n, end),
         NEW element \in Seq(Nat), element # <<>>
  PROVE  LET a == Written(array, end, element, Page)
             o == Written(offsets, n, <<end>>, StringChunk)
         IN  /\ Fits(a, o, n + 1, end + Len(element))
             /\ \A i \in 1 .. n : o[i] = offsets[i]
             /\ o[n + 1] = end
             /\ \A x \in 1 .. end : a[x] = array[x]
             /\ \A x \in 1 .. Len(element) : a[end + x] = element[x]
  <1>. DEFINE o == Written(offsets, n, <<end>>, StringChunk)
              a == Written(array, end, element, Page)
  <1>0. /\ array \in Seq(Nat) /\ offsets \in Seq(Nat) /\ n \in Nat /\ end \in Nat
        /\ n <= Len(offsets) /\ end <= Len(array)
        /\ Len(array) \in Nat /\ Len(offsets) \in Nat
        /\ IF n = 0 THEN end = 0 ELSE offsets[1] = 0 /\ offsets[n] < end
        /\ \A i, j \in 1 .. n : i < j => offsets[i] < offsets[j]
    BY LenProperties DEF Fits, LaidOut
  <1>1. Len(element) \in Nat \ {0}
    BY EmptySeq
  <1>2. <<end>> \in Seq(Nat) /\ Len(<<end>>) = 1 /\ <<end>>[1] = end
    BY <1>0
  <1>3. /\ o \in Seq(Nat) /\ Len(o) >= n + 1
        /\ \A i \in 1 .. n : o[i] = offsets[i]
        /\ o[n + 1] = end
    <2>1. n \in 0 .. Len(offsets) /\ StringChunk \in Nat \ {0}
      BY <1>0, QueueAssumption
    <2>2. PICK data \in Seq(Nat) : data = <<end>>
      BY <1>2
    <2>3. /\ Written(offsets, n, data, StringChunk) \in Seq(Nat)
          /\ Len(Written(offsets, n, data, StringChunk)) >= n + Len(data)
          /\ \A i \in 1 .. n :
               Written(offsets, n, data, StringChunk)[i] = offsets[i]
          /\ \A i \in 1 .. Len(data) :
               Written(offsets, n, data, StringChunk)[n + i] = data[i]
      BY <1>0, <2>1, WrittenEffect
    <2>4. Len(data) = 1 /\ data[1] = end /\ 1 \in 1 .. Len(data)
      BY <1>2, <2>2
    <2>. QED
      BY <2>2, <2>3, <2>4
  <1>4. /\ a \in Seq(Nat) /\ Len(a) >= end + Len(element)
        /\ \A x \in 1 .. end : a[x] = array[x]
        /\ \A x \in 1 .. Len(element) : a[end + x] = element[x]
    <2>1. end \in 0 .. Len(array) /\ Page \in Nat \ {0}
      BY <1>0, QueueAssumption
    <2>2. /\ Written(array, end, element, Page) \in Seq(Nat)
          /\ Len(Written(array, end, element, Page)) >= end + Len(element)
          /\ \A x \in 1 .. end : Written(array, end, element, Page)[x] = array[x]
          /\ \A x \in 1 .. Len(element) :
               Written(array, end, element, Page)[end + x] = element[x]
      BY <1>0, <2>1, WrittenEffect
    <2>. QED
      BY <2>2
  <1>. HIDE DEF o, a
  <1>5. \A i \in 1 .. n : offsets[i] \in Nat /\ offsets[i] < end
    <2>. SUFFICES ASSUME NEW i \in 1 .. n
                  PROVE  offsets[i] \in Nat /\ offsets[i] < end
      OBVIOUS
    <2>1. /\ offsets[i] \in Nat /\ Stop(offsets, n, end, i) \in Nat
          /\ offsets[i] < Stop(offsets, n, end, i)
          /\ Stop(offsets, n, end, i) <= end
      BY ItemBounds
    <2>. QED
      BY <1>0, <2>1
  <1>6. LaidOut(o, n + 1, end + Len(element))
    <2>1. Len(o) \in Nat
      BY <1>3, LenProperties
    <2>2. o[1] = 0
      <3>1. CASE n = 0
        BY <1>0, <1>3, <3>1
      <3>2. CASE n # 0
        <4>1. 1 \in 1 .. n
          BY <1>0, <3>2
        <4>. QED
          BY <1>0, <1>3, <3>2, <4>1
      <3>. QED
        BY <3>1, <3>2
    <2>3. \A i, j \in 1 .. n + 1 : i < j => o[i] < o[j]
      <3>. SUFFICES ASSUME NEW i \in 1 .. n + 1, NEW j \in 1 .. n + 1, i < j
                    PROVE  o[i] < o[j]
        OBVIOUS
      <3>1. i \in 1 .. n
        BY <1>0
      <3>2. CASE j = n + 1
        BY <1>3, <1>5, <3>1, <3>2
      <3>3. CASE j # n + 1
        BY <1>0, <1>3, <3>1, <3>3
      <3>. QED
        BY <3>2, <3>3
    <2>4. n + 1 # 0 /\ n + 1 <= Len(o) /\ o[n + 1] < end + Len(element)
      <3>1. n \in Nat /\ end \in Nat /\ Len(o) >= n + 1 /\ o[n + 1] = end
        BY <1>0, <1>3
      <3>2. n + 1 # 0 /\ n + 1 <= Len(o)
        BY <2>1, <3>1
      <3>3. end < end + Len(element)
        BY <1>1, <3>1
      <3>. QED
        BY <3>1, <3>2, <3>3
    <2>. QED
      BY <2>2, <2>3, <2>4 DEF LaidOut
  <1>7. n + 1 \in Nat /\ end + Len(element) \in Nat
    BY <1>0, <1>1
  <1>8. Fits(a, o, n + 1, end + Len(element))
    BY <1>3, <1>4, <1>6, <1>7 DEF Fits
  <1>. QED
    BY <1>3, <1>4, <1>8 DEF o, a

\* Items taken from the top leave the rest as it is.
LEMMA FitsCut ==
  ASSUME NEW array, NEW offsets, NEW n, NEW end, Fits(array, offsets, n, end),
         NEW k \in 1 .. n
  PROVE  Fits(array, offsets, k - 1, offsets[k])
  <1>0. /\ array \in Seq(Nat) /\ offsets \in Seq(Nat) /\ n \in Nat /\ end \in Nat
        /\ n <= Len(offsets) /\ end <= Len(array)
        /\ Len(array) \in Nat /\ Len(offsets) \in Nat
        /\ IF n = 0 THEN end = 0 ELSE offsets[1] = 0 /\ offsets[n] < end
        /\ \A i, j \in 1 .. n : i < j => offsets[i] < offsets[j]
    BY LenProperties DEF Fits, LaidOut
  <1>1. offsets[k] \in Nat /\ offsets[k] < end
    <2>1. /\ offsets[k] \in Nat /\ Stop(offsets, n, end, k) \in Nat
          /\ offsets[k] < Stop(offsets, n, end, k)
          /\ Stop(offsets, n, end, k) <= end
      BY ItemBounds
    <2>. QED
      BY <1>0, <2>1
  <1>2. k - 1 \in Nat /\ k - 1 <= Len(offsets) /\ offsets[k] <= Len(array)
    BY SMTT(30), <1>0, <1>1
  <1>3. IF k - 1 = 0 THEN offsets[k] = 0
        ELSE offsets[1] = 0 /\ offsets[k - 1] < offsets[k]
    BY <1>0
  <1>4. \A i, j \in 1 .. k - 1 : i < j => offsets[i] < offsets[j]
    BY <1>0
  <1>. QED
    BY <1>0, <1>1, <1>2, <1>3, <1>4 DEF Fits, LaidOut

\* What sendWork sends of the items from the k-th on.
Offsets(offsets, n, k) == [i \in 1 .. n - k + 1 |-> offsets[k - 1 + i] - offsets[k]]

\* A message is laid out as a queue is.
LEMMA FitsSend ==
  ASSUME NEW array, NEW offsets, NEW n, NEW end, Fits(array, offsets, n, end),
         NEW k \in 1 .. n
  PROVE  /\ Len(Offsets(offsets, n, k)) = n - k + 1
         /\ Len(Bytes(array, offsets[k], end)) = end - offsets[k]
         /\ \A x \in 1 .. end - offsets[k] :
              Bytes(array, offsets[k], end)[x] = array[offsets[k] + x]
         /\ Fits(Bytes(array, offsets[k], end), Offsets(offsets, n, k),
                 n - k + 1, end - offsets[k])
  <1>. DEFINE o == Offsets(offsets, n, k)
              b == Bytes(array, offsets[k], end)
              m == n - k + 1
  <1>0. /\ array \in Seq(Nat) /\ offsets \in Seq(Nat) /\ n \in Nat /\ end \in Nat
        /\ n <= Len(offsets) /\ end <= Len(array)
        /\ Len(array) \in Nat /\ Len(offsets) \in Nat
        /\ IF n = 0 THEN end = 0 ELSE offsets[1] = 0 /\ offsets[n] < end
        /\ \A i, j \in 1 .. n : i < j => offsets[i] < offsets[j]
    BY LenProperties DEF Fits, LaidOut
  <1>1. \A i \in 1 .. n : offsets[i] \in Nat /\ offsets[i] < end
    <2>. SUFFICES ASSUME NEW i \in 1 .. n
                  PROVE  offsets[i] \in Nat /\ offsets[i] < end
      OBVIOUS
    <2>1. /\ offsets[i] \in Nat /\ Stop(offsets, n, end, i) \in Nat
          /\ offsets[i] < Stop(offsets, n, end, i)
          /\ Stop(offsets, n, end, i) <= end
      BY ItemBounds
    <2>. QED
      BY <1>0, <2>1
  <1>2. m \in Nat \ {0} /\ \A i \in 1 .. m : k - 1 + i \in 1 .. n /\ k - 1 + i >= k
    BY <1>0
  <1>3. \A i \in 1 .. m : o[i] = offsets[k - 1 + i] - offsets[k]
    BY DEF Offsets
  <1>4. \A i \in 1 .. m : o[i] \in Nat
    <2>. SUFFICES ASSUME NEW i \in 1 .. m PROVE o[i] \in Nat
      OBVIOUS
    <2>1. offsets[k] <= offsets[k - 1 + i]
      <3>1. k - 1 + i \in 1 .. n /\ k - 1 + i >= k /\ offsets[k] \in Nat
        BY <1>1, <1>2
      <3>2. k - 1 + i > k => offsets[k] < offsets[k - 1 + i]
        BY <1>0, <3>1
      <3>3. k - 1 + i = k \/ k - 1 + i > k
        BY <3>1
      <3>4. offsets[k - 1 + i] \in Nat
        BY <1>1, <3>1
      <3>. QED
        BY <3>1, <3>2, <3>3, <3>4
    <2>2. offsets[k] \in Nat /\ offsets[k - 1 + i] \in Nat
      BY <1>1, <1>2
    <2>. QED
      BY <1>3, <2>1, <2>2
  <1>5. o \in Seq(Nat) /\ Len(o) = m
    <2>1. o \in [1 .. m -> Nat]
      BY <1>4 DEF Offsets
    <2>. QED
      BY <1>2, <2>1, SequenceOf
  <1>6. /\ b \in Seq(Nat) /\ Len(b) = end - offsets[k]
        /\ \A x \in 1 .. end - offsets[k] : b[x] = array[offsets[k] + x]
    <2>1. end \in 0 .. Len(array) /\ offsets[k] \in 0 .. end
      BY <1>0, <1>1
    <2>. QED
      BY <1>0, <2>1, BytesEffect
  <1>7. end - offsets[k] \in Nat /\ offsets[k] \in Nat
    BY SMTT(30), <1>0, <1>1
  <1>8. LaidOut(o, m, end - offsets[k])
    <2>1. o[1] = 0
      BY <1>1, <1>2, <1>3
    <2>2. o[m] < end - offsets[k]
      <3>1. k - 1 + m = n
        BY <1>0
      <3>2. o[m] = offsets[n] - offsets[k]
        BY <1>2, <1>3, <3>1
      <3>. QED
        BY SMTT(30), <1>0, <1>1, <3>2
    <2>3. \A i, j \in 1 .. m : i < j => o[i] < o[j]
      <3>. SUFFICES ASSUME NEW i \in 1 .. m, NEW j \in 1 .. m, i < j
                    PROVE  o[i] < o[j]
        OBVIOUS
      <3>1. /\ k - 1 + i \in 1 .. n /\ k - 1 + j \in 1 .. n
            /\ k - 1 + i < k - 1 + j
        BY <1>0, <1>2
      <3>2. offsets[k - 1 + i] < offsets[k - 1 + j]
        BY <1>0, <3>1
      <3>3. offsets[k - 1 + i] \in Nat /\ offsets[k - 1 + j] \in Nat
        BY <1>1, <3>1
      <3>. QED
        BY <1>3, <1>7, <3>2, <3>3
    <2>. QED
      BY <1>2, <1>5, <2>1, <2>2, <2>3 DEF LaidOut
  <1>. HIDE DEF o, b
  <1>9. Fits(b, o, m, end - offsets[k])
    BY <1>2, <1>5, <1>6, <1>7, <1>8 DEF Fits
  <1>. QED
    BY <1>5, <1>6, <1>9 DEF o, b

\* Items received are laid out as they were sent.
LEMMA FitsReceive ==
  ASSUME NEW b, NEW o, NEW n, NEW e, Fits(b, o, n, e), n = Len(o), e = Len(b),
         NEW array \in Seq(Nat), NEW offsets \in Seq(Nat)
  PROVE  /\ Fits(Written(array, 0, b, Page), Written(offsets, 0, o, StringChunk), n, e)
         /\ \A x \in 1 .. e : Written(array, 0, b, Page)[x] = b[x]
         /\ \A i \in 1 .. n : Written(offsets, 0, o, StringChunk)[i] = o[i]
  <1>. DEFINE a == Written(array, 0, b, Page)
              p == Written(offsets, 0, o, StringChunk)
  <1>0. /\ b \in Seq(Nat) /\ o \in Seq(Nat) /\ n \in Nat /\ e \in Nat
        /\ IF n = 0 THEN e = 0 ELSE o[1] = 0 /\ o[n] < e
        /\ \A i, j \in 1 .. n : i < j => o[i] < o[j]
    BY DEF Fits, LaidOut
  <1>1. /\ Page \in Nat \ {0} /\ StringChunk \in Nat \ {0}
        /\ 0 \in 0 .. Len(array) /\ 0 \in 0 .. Len(offsets)
    BY QueueAssumption, LenProperties
  <1>2. /\ a \in Seq(Nat) /\ Len(a) >= Len(b)
        /\ \A x \in 1 .. Len(b) : a[x] = b[x]
    BY <1>0, <1>1, WrittenFirst
  <1>3. /\ p \in Seq(Nat) /\ Len(p) >= Len(o)
        /\ \A i \in 1 .. Len(o) : p[i] = o[i]
    BY <1>0, <1>1, WrittenFirst
  <1>. HIDE DEF a, p
  <1>4. /\ e <= Len(a) /\ n <= Len(p)
        /\ \A x \in 1 .. e : a[x] = b[x]
        /\ \A i \in 1 .. n : p[i] = o[i]
    <2>1. Len(a) \in Nat /\ Len(p) \in Nat
      BY <1>2, <1>3, LenProperties
    <2>. QED
      BY <1>0, <1>2, <1>3, <2>1
  <1>5. LaidOut(p, n, e)
    <2>1. n # 0 => 1 \in 1 .. n /\ n \in 1 .. n
      BY <1>0
    <2>2. IF n = 0 THEN e = 0 ELSE p[1] = 0 /\ p[n] < e
      BY <1>0, <1>4, <2>1
    <2>3. \A i, j \in 1 .. n : i < j => p[i] < p[j]
      BY <1>0, <1>4
    <2>. QED
      BY <1>4, <2>2, <2>3 DEF LaidOut
  <1>. QED
    BY <1>0, <1>2, <1>3, <1>4, <1>5 DEF Fits, a, p

\* No items at all.
LEMMA FitsNone == Fits(<<>>, <<>>, 0, 0) /\ Len(<<>>) = 0
  <1>1. <<>> \in Seq(Nat) /\ Len(<<>>) = 0
    BY EmptySeq
  <1>. QED
    BY <1>1 DEF Fits, LaidOut

-----------------------------------------------------------------------------
(* What each operation does, and that it keeps QueueOK *)

\* All but the queue of r is left alone.
OthersKept(r) ==
  \A q \in Rank \ {r} : /\ base'[q] = base[q] /\ strings'[q] = strings[q]
                        /\ head'[q] = head[q] /\ count'[q] = count[q]

\* push: the element goes behind the last item.
LEMMA PushStep ==
  ASSUME QueueOK, NEW r \in Rank, NEW element \in Seq(Nat), push(r, element),
         ~Waiting(r), pushes' \in 0 .. MaxPushes
  PROVE  /\ QueueOK' /\ OthersKept(r) /\ wire' = wire /\ content' = content
         /\ element # <<>>
         /\ base'[r] = Written(base[r], head[r], element, Page)
         /\ strings'[r] = Written(strings[r], count[r], <<head[r]>>, StringChunk)
         /\ head'[r] = head[r] + Len(element) /\ count'[r] = count[r] + 1
  <1>. DEFINE a == Written(base[r], head[r], element, Page)
              o == Written(strings[r], count[r], <<head[r]>>, StringChunk)
  <1>1. TypeOK /\ element # <<>> /\ Len(element) \in Nat
    BY LenProperties DEF QueueOK, push
  <1>2. /\ base' = [base EXCEPT ![r] = a]
        /\ strings' = [strings EXCEPT ![r] = o]
        /\ head' = [head EXCEPT ![r] = head[r] + Len(element)]
        /\ count' = [count EXCEPT ![r] = count[r] + 1]
        /\ UNCHANGED <<offsets_count, wire, content>>
    <2>1. Len(<<head[r]>>) = 1
      OBVIOUS
    <2>. QED
      BY <2>1 DEF push, Written
  <1>. HIDE DEF a, o
  <1>3. Fits(a, o, count[r] + 1, head[r] + Len(element))
    BY <1>1, QueueFits, FitsPush DEF a, o
  <1>4. a \in Seq(Nat) /\ o \in Seq(Nat) /\ head[r] + Len(element) \in Nat
        /\ count[r] + 1 \in Nat
    BY <1>3 DEF Fits
  <1>5. /\ base'[r] = a /\ strings'[r] = o
        /\ head'[r] = head[r] + Len(element) /\ count'[r] = count[r] + 1
        /\ OthersKept(r)
    BY <1>1, <1>2 DEF TypeOK, OthersKept
  <1>6. TypeOK'
    BY <1>1, <1>2, <1>4 DEF TypeOK
  <1>7. QueueOK'
    <2>1. ASSUME NEW q \in Rank
          PROVE  /\ Fits(base'[q], strings'[q], count'[q], head'[q])
                 /\ Fits(wire'[q].data, wire'[q].offsets, Len(wire'[q].offsets),
                         Len(wire'[q].data))
                 /\ wire'[q] # NoWork => count'[q] = 0
      <3>1. /\ Fits(base[q], strings[q], count[q], head[q])
            /\ Fits(wire[q].data, wire[q].offsets, Len(wire[q].offsets),
                    Len(wire[q].data))
            /\ wire[q] # NoWork => count[q] = 0
        BY QueueFits DEF Waiting
      <3>2. CASE q = r
        BY <1>1, <1>2, <1>3, <1>5, <3>1, <3>2 DEF Waiting
      <3>3. CASE q # r
        BY <1>2, <1>5, <3>1, <3>3 DEF OthersKept
      <3>. QED
        BY <3>2, <3>3
    <2>. QED
      BY <1>6, <2>1, FitsQueue
  <1>. QED
    BY <1>1, <1>2, <1>5, <1>7 DEF a, o

\* enqueue, which a callback calls, is a push that is counted.
LEMMA EnqueueStep ==
  ASSUME QueueOK, NEW r \in Rank, NEW element \in Item, enqueue(r, element)
  PROVE  /\ element \in Seq(Nat) /\ push(r, element)
         /\ ~Waiting(r) /\ pushes' \in 0 .. MaxPushes
  BY QueueAssumption DEF enqueue, QueueOK, TypeOK

\* pop: head goes back to the offset of the last item.
LEMMA PopStep ==
  ASSUME QueueOK, NEW r \in Rank, pop(r)
  PROVE  /\ QueueOK' /\ OthersKept(r) /\ wire' = wire
         /\ count[r] \in 1 .. count[r]
         /\ base'[r] = base[r] /\ strings'[r] = strings[r]
         /\ count'[r] = count[r] - 1 /\ head'[r] = strings[r][count[r]]
         /\ content' = [content EXCEPT ![r] =
                          Bytes(base[r], strings[r][count[r]], head[r])]
  <1>. DEFINE n    == count[r]
              item == Bytes(base[r], strings[r][n], head[r])
  <1>1. TypeOK /\ ~Waiting(r) /\ n \in Nat /\ n >= 1
    BY DEF QueueOK, TypeOK, pop
  <1>2. /\ content' = [content EXCEPT ![r] = item]
        /\ head' = [head EXCEPT ![r] = strings[r][n]]
        /\ count' = [count EXCEPT ![r] = n - 1]
        /\ UNCHANGED <<base, strings, offsets_count, wire, pushes>>
    BY DEF pop
  <1>3. n \in 1 .. n /\ Fits(base[r], strings[r], n, head[r])
    BY <1>1, QueueFits
  <1>4. Fits(base[r], strings[r], n - 1, strings[r][n])
    BY <1>3, FitsCut
  <1>5. item \in Seq(Nat)
    <2>1. /\ strings[r][n] \in Nat /\ Stop(strings[r], n, head[r], n) \in Nat
          /\ strings[r][n] < Stop(strings[r], n, head[r], n)
      BY <1>3, ItemBounds
    <2>2. base[r] \in Seq(Nat) /\ head[r] \in 0 .. Len(base[r])
      BY <1>3, LenProperties DEF Fits
    <2>3. strings[r][n] \in 0 .. head[r]
      BY <2>1, <2>2 DEF Stop
    <2>. QED
      BY <2>2, <2>3, BytesEffect
  <1>. HIDE DEF item, n
  <1>6. /\ count'[r] = n - 1 /\ head'[r] = strings[r][n]
        /\ base' = base /\ strings' = strings /\ OthersKept(r)
    BY <1>1, <1>2 DEF TypeOK, OthersKept
  <1>7. strings[r][n] \in Nat /\ n - 1 \in Nat
    BY <1>4 DEF Fits
  <1>8. TypeOK'
    BY <1>1, <1>2, <1>5, <1>7 DEF TypeOK
  <1>9. QueueOK'
    <2>1. ASSUME NEW q \in Rank
          PROVE  /\ Fits(base'[q], strings'[q], count'[q], head'[q])
                 /\ Fits(wire'[q].data, wire'[q].offsets, Len(wire'[q].offsets),
                         Len(wire'[q].data))
                 /\ wire'[q] # NoWork => count'[q] = 0
      <3>1. /\ Fits(base[q], strings[q], count[q], head[q])
            /\ Fits(wire[q].data, wire[q].offsets, Len(wire[q].offsets),
                    Len(wire[q].data))
            /\ wire[q] # NoWork => count[q] = 0
        BY QueueFits DEF Waiting
      <3>2. CASE q = r
        BY <1>1, <1>2, <1>4, <1>6, <3>1, <3>2 DEF Waiting
      <3>3. CASE q # r
        BY <1>2, <1>6, <3>1, <3>3 DEF OthersKept
      <3>. QED
        BY <3>2, <3>3
    <2>. QED
      BY <1>8, <2>1, FitsQueue
  <1>. QED
    BY <1>2, <1>3, <1>6, <1>9 DEF n, item

\* The position of the first item sent.
Cut(r, n) == count[r] - n + 1

\* sendWork: a message for dest, and the queue cut at its k-th item.
LEMMA SendStep ==
  ASSUME QueueOK, NEW r \in Rank, NEW dest \in Rank \ {r},
         NEW n \in 1 .. count[r], sendWork(r, dest, n)
  PROVE  LET k == Cut(r, n)
         IN  /\ QueueOK' /\ OthersKept(r) /\ content' = content
             /\ k \in 1 .. count[r] /\ n = count[r] - k + 1
             /\ wire[dest] = NoWork
             /\ wire' = [wire EXCEPT ![dest] =
                  [offsets |-> Offsets(strings[r], count[r], k),
                   data    |-> Bytes(base[r], strings[r][k], head[r])]]
             /\ base'[r] = base[r] /\ strings'[r] = strings[r]
             /\ count'[r] = k - 1 /\ head'[r] = strings[r][k]
  <1>. DEFINE c == count[r]
              k == Cut(r, n)
              o == Offsets(strings[r], c, k)
              b == Bytes(base[r], strings[r][k], head[r])
              w == [offsets |-> o, data |-> b]
  <1>1. TypeOK /\ ~Waiting(r) /\ wire[dest] = NoWork /\ count[dest] = 0 /\ c \in Nat
    BY DEF QueueOK, TypeOK, sendWork, Waiting
  <1>2. k \in 1 .. c /\ n = c - k + 1 /\ c - n + 1 = k /\ c - n = k - 1 /\ k \in Int
    BY <1>1 DEF Cut
  <1>3. Fits(base[r], strings[r], c, head[r])
    BY QueueFits
  <1>4. /\ Len(o) = c - k + 1 /\ Len(b) = head[r] - strings[r][k]
        /\ Fits(b, o, c - k + 1, head[r] - strings[r][k])
    BY <1>2, <1>3, FitsSend
  <1>5. Fits(base[r], strings[r], k - 1, strings[r][k])
    BY <1>2, <1>3, FitsCut
  <1>6. [i \in 1 .. n |-> strings[r][c - n + i] - strings[r][c - n + 1]] = o
    BY <1>2 DEF Offsets
  <1>7. /\ wire' = [wire EXCEPT ![dest] = w]
        /\ count' = [count EXCEPT ![r] = k - 1]
        /\ head' = [head EXCEPT ![r] = strings[r][k]]
        /\ offsets_count' =
             [offsets_count EXCEPT ![r] = Grown(offsets_count[r], 2 + n, OffsetChunk)]
        /\ UNCHANGED <<base, strings, content, pushes>>
    BY <1>2, <1>6 DEF sendWork
  <1>8. Grown(offsets_count[r], 2 + n, OffsetChunk) \in Nat
    <2>1. offsets_count[r] \in Nat /\ 2 + n \in Nat
      BY <1>1 DEF TypeOK
    <2>. QED
      BY <2>1, QueueAssumption, GrownFits
  <1>9. w \in [offsets : Seq(Nat), data : Seq(Nat)]
    BY <1>4 DEF Fits
  <1>10. w.offsets = o /\ w.data = b
    OBVIOUS
  <1>. HIDE DEF w, o, b, k, c
  <1>11. /\ count'[r] = k - 1 /\ head'[r] = strings[r][k]
         /\ base' = base /\ strings' = strings /\ OthersKept(r)
    BY <1>1, <1>7 DEF TypeOK, OthersKept
  <1>12. TypeOK'
    <2>1. strings[r][k] \in Nat /\ k - 1 \in Nat
      BY <1>5 DEF Fits
    <2>2. /\ wire' \in [Rank -> [offsets : Seq(Nat), data : Seq(Nat)]]
          /\ count' \in [Rank -> Nat] /\ head' \in [Rank -> Nat]
          /\ offsets_count' \in [Rank -> Nat]
      BY <1>1, <1>7, <1>8, <1>9, <2>1 DEF TypeOK
    <2>. QED
      BY <1>1, <1>7, <2>2 DEF TypeOK
  <1>13. QueueOK'
    <2>1. ASSUME NEW q \in Rank
          PROVE  /\ Fits(base'[q], strings'[q], count'[q], head'[q])
                 /\ Fits(wire'[q].data, wire'[q].offsets, Len(wire'[q].offsets),
                         Len(wire'[q].data))
                 /\ wire'[q] # NoWork => count'[q] = 0
      <3>1. /\ Fits(base[q], strings[q], count[q], head[q])
            /\ Fits(wire[q].data, wire[q].offsets, Len(wire[q].offsets),
                    Len(wire[q].data))
            /\ wire[q] # NoWork => count[q] = 0
        BY QueueFits DEF Waiting
      <3>2. Fits(base'[q], strings'[q], count'[q], head'[q])
        <4>1. CASE q = r
          BY <1>5, <1>11, <4>1
        <4>2. CASE q # r
          BY <1>11, <3>1, <4>2 DEF OthersKept
        <4>. QED
          BY <4>1, <4>2
      <3>3. CASE q = dest
        <4>1. wire'[q] = w
          BY <1>1, <1>7, <3>3 DEF TypeOK
        <4>2. count'[q] = 0
          BY <1>1, <1>11, <3>3 DEF OthersKept
        <4>3. Fits(b, o, Len(o), Len(b))
          BY <1>4
        <4>. QED
          BY <1>10, <3>2, <4>1, <4>2, <4>3
      <3>4. CASE q # dest
        <4>1. wire'[q] = wire[q]
          BY <1>1, <1>7, <3>4 DEF TypeOK
        <4>2. wire[q] # NoWork => q # r
          BY <1>1 DEF Waiting
        <4>3. wire[q] # NoWork => count'[q] = 0
          BY <1>11, <3>1, <4>2 DEF OthersKept
        <4>. QED
          BY <3>1, <3>2, <4>1, <4>3
      <3>. QED
        BY <3>3, <3>4
    <2>. QED
      BY <1>12, <2>1, FitsQueue
  <1>. QED
    BY <1>1, <1>2, <1>7, <1>11, <1>13 DEF w, o, b, k, c

\* workReceive: the message becomes the queue.
LEMMA ReceiveStep ==
  ASSUME QueueOK, NEW r \in Rank, workReceive(r)
  PROVE  /\ QueueOK' /\ OthersKept(r) /\ content' = content
         /\ wire[r] # NoWork /\ wire' = [wire EXCEPT ![r] = NoWork]
         /\ count[r] = 0 /\ head[r] = 0
         /\ base'[r] = Written(base[r], 0, wire[r].data, Page)
         /\ strings'[r] = Written(strings[r], 0, wire[r].offsets, StringChunk)
         /\ count'[r] = Len(wire[r].offsets) /\ head'[r] = Len(wire[r].data)
  <1>. DEFINE o == wire[r].offsets
              b == wire[r].data
              a == Written(base[r], 0, b, Page)
              p == Written(strings[r], 0, o, StringChunk)
  <1>1. TypeOK /\ Waiting(r) /\ wire[r] # NoWork
    BY DEF QueueOK, workReceive, Waiting
  <1>2. /\ Fits(base[r], strings[r], count[r], head[r]) /\ Fits(b, o, Len(o), Len(b))
        /\ count[r] = 0 /\ Len(o) \in Nat /\ Len(b) \in Nat
    BY <1>1, QueueFits
  <1>3. head[r] = 0 /\ 0 + Len(b) = Len(b) /\ 0 + Len(o) = Len(o)
    BY <1>2 DEF Fits, LaidOut
  <1>. HIDE DEF o, b
  <1>4. /\ base' = [base EXCEPT ![r] = a] /\ strings' = [strings EXCEPT ![r] = p]
        /\ count' = [count EXCEPT ![r] = Len(o)] /\ head' = [head EXCEPT ![r] = Len(b)]
        /\ wire' = [wire EXCEPT ![r] = NoWork]
        /\ offsets_count' =
             [offsets_count EXCEPT ![r] = Grown(offsets_count[r], 2 + Len(o), OffsetChunk)]
        /\ UNCHANGED <<content, pushes>>
    BY <1>3 DEF workReceive, Written, o, b
  <1>5. Grown(offsets_count[r], 2 + Len(o), OffsetChunk) \in Nat
    <2>1. offsets_count[r] \in Nat /\ 2 + Len(o) \in Nat
      BY <1>1, <1>2 DEF TypeOK
    <2>. QED
      BY <2>1, QueueAssumption, GrownFits
  <1>6. Fits(a, p, Len(o), Len(b))
    <2>1. base[r] \in Seq(Nat) /\ strings[r] \in Seq(Nat)
      BY <1>2 DEF Fits
    <2>. QED
      BY <1>2, <2>1, FitsReceive
  <1>. HIDE DEF a, p
  <1>7. /\ count'[r] = Len(o) /\ head'[r] = Len(b) /\ base'[r] = a /\ strings'[r] = p
        /\ OthersKept(r)
    BY <1>1, <1>4 DEF TypeOK, OthersKept
  <1>8. TypeOK'
    <2>1. a \in Seq(Nat) /\ p \in Seq(Nat)
      BY <1>6 DEF Fits
    <2>2. NoWork \in [offsets : Seq(Nat), data : Seq(Nat)]
      BY FitsNone DEF NoWork, Fits
    <2>3. wire' \in [Rank -> [offsets : Seq(Nat), data : Seq(Nat)]]
      BY <1>1, <1>4, <2>2 DEF TypeOK
    <2>. QED
      BY <1>1, <1>2, <1>4, <1>5, <2>1, <2>3 DEF TypeOK
  <1>9. QueueOK'
    <2>1. ASSUME NEW q \in Rank
          PROVE  /\ Fits(base'[q], strings'[q], count'[q], head'[q])
                 /\ Fits(wire'[q].data, wire'[q].offsets, Len(wire'[q].offsets),
                         Len(wire'[q].data))
                 /\ wire'[q] # NoWork => count'[q] = 0
      <3>1. /\ Fits(base[q], strings[q], count[q], head[q])
            /\ Fits(wire[q].data, wire[q].offsets, Len(wire[q].offsets),
                    Len(wire[q].data))
            /\ wire[q] # NoWork => count[q] = 0
        BY QueueFits DEF Waiting
      <3>2. CASE q = r
        <4>1. wire'[q] = NoWork
          BY <1>1, <1>4, <3>2 DEF TypeOK
        <4>2. NoWork.data = <<>> /\ NoWork.offsets = <<>>
          BY DEF NoWork
        <4>. QED
          BY <1>6, <1>7, <3>2, <4>1, <4>2, FitsNone
      <3>3. CASE q # r
        <4>1. wire'[q] = wire[q]
          BY <1>1, <1>4, <3>3 DEF TypeOK
        <4>. QED
          BY <1>7, <3>1, <3>3, <4>1 DEF OthersKept
      <3>. QED
        BY <3>2, <3>3
    <2>. QED
      BY <1>8, <2>1, FitsQueue
  <1>. QED
    BY <1>1, <1>2, <1>3, <1>4, <1>7, <1>9 DEF a, p, o, b

\* An empty queue is laid out.
LEMMA QueueInit == Init => QueueOK
  <1>. SUFFICES ASSUME Init PROVE QueueOK
    OBVIOUS
  <1>1. Fits(<<>>, <<>>, 0, 0) /\ Len(<<>>) = 0 /\ <<>> \in Seq(Nat)
    BY FitsNone, EmptySeq
  <1>2. /\ NoWork.data = <<>> /\ NoWork.offsets = <<>>
        /\ NoWork \in [offsets : Seq(Nat), data : Seq(Nat)]
    BY <1>1 DEF NoWork
  <1>3. TypeOK
    <2>1. /\ [r \in Rank |-> <<>>] \in [Rank -> Seq(Nat)]
          /\ [r \in Rank |-> 0] \in [Rank -> Nat]
          /\ [r \in Rank |-> NoWork] \in
               [Rank -> [offsets : Seq(Nat), data : Seq(Nat)]]
      BY <1>1, <1>2
    <2>2. 0 \in 0 .. MaxPushes
      BY QueueAssumption
    <2>. QED
      BY <2>1, <2>2 DEF Init, TypeOK
  <1>4. Layout
    <2>. SUFFICES ASSUME NEW r \in Rank
                  PROVE  /\ LaidOut(strings[r], count[r], head[r])
                         /\ head[r] <= Len(base[r])
                         /\ LaidOut(wire[r].offsets, Len(wire[r].offsets),
                                    Len(wire[r].data))
                         /\ Waiting(r) => count[r] = 0
      BY DEF Layout
    <2>1. /\ base[r] = <<>> /\ strings[r] = <<>> /\ head[r] = 0 /\ count[r] = 0
          /\ wire[r] = NoWork
      BY DEF Init
    <2>2. LaidOut(<<>>, 0, 0)
      BY <1>1 DEF Fits
    <2>3. Len(wire[r].offsets) = 0 /\ Len(wire[r].data) = 0 /\ wire[r].offsets = <<>>
      BY <1>1, <1>2, <2>1
    <2>4. LaidOut(wire[r].offsets, Len(wire[r].offsets), Len(wire[r].data))
      BY <2>2, <2>3
    <2>. QED
      BY <1>1, <2>1, <2>2, <2>4
  <1>. QED
    BY <1>3, <1>4 DEF QueueOK

\* The layout every operation on the queue relies on: pop and sendWork take
\* the bytes up to head for the last item, workReceive expects the first
\* offset to be 0 and adds to a head that must be 0 (queue.cpp, State::
\* workReceive), for any items and any number of ranks.
THEOREM QueueInvariant == Spec => []QueueOK
  <1>1. Init => QueueOK
    BY QueueInit
  <1>2. QueueOK /\ [Next]_vars => QueueOK'
    <2>. SUFFICES ASSUME QueueOK, [Next]_vars PROVE QueueOK'
      OBVIOUS
    <2>1. CASE UNCHANGED vars
      BY <2>1 DEF vars, QueueOK, TypeOK, Layout, Waiting
    <2>2. ASSUME NEW r \in Rank, NEW element \in Item, enqueue(r, element)
          PROVE  QueueOK'
      BY <2>2, EnqueueStep, PushStep
    <2>3. ASSUME NEW r \in Rank, pop(r) PROVE QueueOK'
      BY <2>3, PopStep
    <2>4. ASSUME NEW r \in Rank, NEW dest \in Rank \ {r}, NEW n \in 1 .. count[r],
                 sendWork(r, dest, n)
          PROVE  QueueOK'
      BY <2>4, SendStep
    <2>5. ASSUME NEW r \in Rank, workReceive(r) PROVE QueueOK'
      BY <2>5, ReceiveStep
    <2>. QED
      BY <2>1, <2>2, <2>3, <2>4, <2>5 DEF Next
  <1>. QED
    BY <1>1, <1>2, PTL DEF Spec

-----------------------------------------------------------------------------
(* The items after each operation *)

\* The items from one position to another.
LEMMA SliceIs ==
  ASSUME NEW s \in Seq(Seq(Nat)), NEW from \in 1 .. Len(s),
         NEW to \in from - 1 .. Len(s), NEW t \in Seq(Seq(Nat)),
         Len(t) = to - from + 1, \A i \in 1 .. Len(t) : t[i] = s[from - 1 + i]
  PROVE  t = SubSeq(s, from, to)
  <1>1. Len(s) \in Nat
    BY LenProperties
  <1>2. \A i \in from .. to : s[i] \in Seq(Nat)
    BY <1>1, ElementOfSeq
  <1>3. /\ SubSeq(s, from, to) \in Seq(Seq(Nat))
        /\ Len(SubSeq(s, from, to)) = IF from <= to THEN to - from + 1 ELSE 0
        /\ \A i \in 1 .. to - from + 1 : SubSeq(s, from, to)[i] = s[from + i - 1]
    BY <1>1, <1>2, from \in Int, to \in Int, SubSeqProperties
  <1>4. /\ Len(SubSeq(s, from, to)) = Len(t)
        /\ \A i \in Int : from + i - 1 = from - 1 + i
    BY <1>1, <1>3
  <1>5. \A i \in 1 .. Len(t) : t[i] = SubSeq(s, from, to)[i]
    BY <1>1, <1>3, <1>4
  <1>. QED
    BY <1>3, <1>4, <1>5, SeqEqual

\* A pushed element is the new top.
LEMMA ItemsPush ==
  ASSUME NEW array, NEW offsets, NEW n, NEW end, Fits(array, offsets, n, end),
         NEW element \in Seq(Nat), element # <<>>
  PROVE  Listed(Written(array, end, element, Page),
                Written(offsets, n, <<end>>, StringChunk), n + 1, end + Len(element))
           = Append(Listed(array, offsets, n, end), element)
  <1>. DEFINE a == Written(array, end, element, Page)
              o == Written(offsets, n, <<end>>, StringChunk)
              f == end + Len(element)
              old == Listed(array, offsets, n, end)
              new == Listed(a, o, n + 1, f)
  <1>1. /\ Fits(a, o, n + 1, f)
        /\ \A i \in 1 .. n : o[i] = offsets[i]
        /\ o[n + 1] = end
        /\ \A x \in 1 .. end : a[x] = array[x]
        /\ \A x \in 1 .. Len(element) : a[end + x] = element[x]
    BY FitsPush
  <1>2. n \in Nat /\ end \in Nat /\ Len(element) \in Nat
    BY LenProperties DEF Fits
  <1>3. old \in Seq(Seq(Nat)) /\ Len(old) = n
    BY ListedEffect
  <1>. HIDE DEF a, o
  <1>4. /\ new \in Seq(Seq(Nat)) /\ Len(new) = n + 1
        /\ \A i \in 1 .. n + 1 : new[i] = Bytes(a, o[i], Stop(o, n + 1, f, i))
    BY <1>1, ListedEffect
  <1>5. ASSUME NEW i \in 1 .. n PROVE new[i] = old[i]
    <2>1. Stop(o, n + 1, f, i) = Stop(offsets, n, end, i)
      <3>1. CASE i = n
        BY <1>1, <1>2, <3>1 DEF Stop
      <3>2. CASE i # n
        BY <1>1, <1>2, <3>2 DEF Stop
      <3>. QED
        BY <3>1, <3>2
    <2>2. o[i] = offsets[i]
      BY <1>1
    <2>3. /\ offsets[i] \in Nat /\ Stop(offsets, n, end, i) \in Nat
          /\ Stop(offsets, n, end, i) <= end
      BY ItemBounds
    <2>4. \A x \in 1 .. Stop(o, n + 1, f, i) - o[i] :
            a[o[i] + x] = array[offsets[i] + x]
      BY <1>1, <1>2, <2>1, <2>2, <2>3
    <2>5. i \in 1 .. n + 1
      BY <1>2
    <2>6. Stop(o, n + 1, f, i) - o[i] = Stop(offsets, n, end, i) - offsets[i]
      BY <2>1, <2>2
    <2>. QED
      BY <1>1, <2>4, <2>5, <2>6, MovedItem
  <1>6. new[n + 1] = element
    <2>1. new[n + 1] = Bytes(a, end, f)
      BY <1>1, <1>2, <1>4 DEF Stop
    <2>2. a \in Seq(Nat) /\ f \in 0 .. Len(a) /\ end \in 0 .. f /\ f - end = Len(element)
      <3>1. a \in Seq(Nat) /\ Len(a) \in Nat /\ f <= Len(a)
        BY <1>1, LenProperties DEF Fits
      <3>. QED
        BY <1>2, <3>1
    <2>. HIDE DEF f
    <2>3. /\ Bytes(a, end, f) \in Seq(Nat) /\ Len(Bytes(a, end, f)) = Len(element)
          /\ \A x \in 1 .. Len(element) : Bytes(a, end, f)[x] = element[x]
      BY ZenonT(60), <1>1, <2>2, BytesEffect
    <2>. QED
      BY <2>1, <2>3, SeqEqual
  <1>. HIDE DEF new, old
  <1>7. /\ Append(old, element) \in Seq(Seq(Nat)) /\ Len(Append(old, element)) = n + 1
        /\ \A i \in 1 .. n : Append(old, element)[i] = old[i]
        /\ Append(old, element)[n + 1] = element
    BY <1>3, AppendProperties
  <1>8. \A i \in 1 .. n + 1 : new[i] = Append(old, element)[i]
    BY <1>2, <1>5, <1>6, <1>7
  <1>9. new = Append(old, element)
    BY <1>4, <1>7, <1>8, SeqEqual
  <1>. QED
    BY <1>9 DEF new, old, a, o

\* Items below the k-th stay where they are.
LEMMA ItemsCut ==
  ASSUME NEW array, NEW offsets, NEW n, NEW end, Fits(array, offsets, n, end),
         NEW k \in 1 .. n
  PROVE  Listed(array, offsets, k - 1, offsets[k])
           = SubSeq(Listed(array, offsets, n, end), 1, k - 1)
  <1>. DEFINE old  == Listed(array, offsets, n, end)
              new  == Listed(array, offsets, k - 1, offsets[k])
              lower == k - 1
  <1>1. Fits(array, offsets, k - 1, offsets[k]) /\ n \in Nat
    BY FitsCut DEF Fits
  <1>2. /\ old \in Seq(Seq(Nat)) /\ Len(old) = n
        /\ \A i \in 1 .. n : old[i] = Bytes(array, offsets[i], Stop(offsets, n, end, i))
    BY ListedEffect
  <1>3. /\ new \in Seq(Seq(Nat)) /\ Len(new) = k - 1
        /\ \A i \in 1 .. k - 1 :
             new[i] = Bytes(array, offsets[i], Stop(offsets, k - 1, offsets[k], i))
    <2>1. Fits(array, offsets, lower, offsets[k])
      BY <1>1
    <2>. HIDE DEF lower
    <2>2. /\ Listed(array, offsets, lower, offsets[k]) \in Seq(Seq(Nat))
          /\ Len(Listed(array, offsets, lower, offsets[k])) = lower
          /\ \A i \in 1 .. lower :
               Listed(array, offsets, lower, offsets[k])[i] =
                 Bytes(array, offsets[i], Stop(offsets, lower, offsets[k], i))
      BY <2>1, ListedEffect
    <2>. QED
      BY <2>2 DEF lower
  <1>4. \A i \in 1 .. k - 1 :
          /\ Stop(offsets, k - 1, offsets[k], i) = Stop(offsets, n, end, i)
          /\ i \in 1 .. n
    BY <1>1 DEF Stop
  <1>. HIDE DEF old, new
  <1>5. /\ 1 \in 1 .. Len(old) /\ k - 1 \in 1 - 1 .. Len(old)
        /\ Len(new) = k - 1 - 1 + 1 /\ \A i \in 1 .. Len(new) : 1 - 1 + i = i
    BY <1>1, <1>2, <1>3
  <1>6. \A i \in 1 .. Len(new) : new[i] = old[1 - 1 + i]
    BY <1>2, <1>3, <1>4, <1>5
  <1>7. new = SubSeq(old, 1, k - 1)
    BY <1>2, <1>3, <1>5, <1>6, SliceIs
  <1>. QED
    BY <1>7 DEF old, new

\* The items from the k-th on are sent as they are.
LEMMA ItemsSend ==
  ASSUME NEW array, NEW offsets, NEW n, NEW end, Fits(array, offsets, n, end),
         NEW k \in 1 .. n
  PROVE  Listed(Bytes(array, offsets[k], end), Offsets(offsets, n, k),
                n - k + 1, end - offsets[k])
           = SubSeq(Listed(array, offsets, n, end), k, n)
  <1>. DEFINE b == Bytes(array, offsets[k], end)
              o == Offsets(offsets, n, k)
              m == n - k + 1
              f == end - offsets[k]
              old == Listed(array, offsets, n, end)
              new == Listed(b, o, m, f)
  <1>1. /\ Fits(b, o, m, f) /\ n \in Nat /\ end \in Nat
        /\ \A x \in 1 .. f : b[x] = array[offsets[k] + x]
    <2>1. n \in Nat /\ end \in Nat
      BY DEF Fits
    <2>2. Fits(b, o, m, f) /\ \A x \in 1 .. f : b[x] = array[offsets[k] + x]
      BY FitsSend
    <2>. QED
      BY <2>1, <2>2
  <1>2. old \in Seq(Seq(Nat)) /\ Len(old) = n
    BY ListedEffect
  <1>3. \A i \in 1 .. m : o[i] = offsets[k - 1 + i] - offsets[k]
    BY DEF Offsets
  <1>. HIDE DEF b, o
  <1>4. new \in Seq(Seq(Nat)) /\ Len(new) = m
    <2>1. Fits(b, o, m, f)
      BY <1>1
    <2>. HIDE DEF m, f
    <2>. QED
      BY <2>1, ListedEffect
  <1>5. offsets[k] \in Nat
    BY ItemBounds
  <1>6. ASSUME NEW i \in 1 .. m PROVE new[i] = old[k - 1 + i]
    <2>. DEFINE j == k - 1 + i
    <2>1. j \in 1 .. n /\ i + 1 \in Int /\ (i = m <=> j = n) /\ k - 1 + (i + 1) = j + 1
      BY <1>1
    <2>2. /\ offsets[j] \in Nat /\ Stop(offsets, n, end, j) \in Nat
          /\ offsets[j] < Stop(offsets, n, end, j)
          /\ Stop(offsets, n, end, j) <= end
      BY <2>1, ItemBounds
    <2>3. o[i] = offsets[j] - offsets[k]
      BY <1>3
    <2>4. Stop(o, m, f, i) = Stop(offsets, n, end, j) - offsets[k]
      <3>1. CASE i = m
        BY <2>1, <3>1 DEF Stop
      <3>2. CASE i # m
        <4>1. i + 1 \in 1 .. m
          BY <1>1, <3>2
        <4>2. o[i + 1] = offsets[j + 1] - offsets[k]
          BY <1>3, <2>1, <4>1
        <4>. QED
          BY <2>1, <3>2, <4>2 DEF Stop
      <3>. QED
        BY <3>1, <3>2
    <2>5. o[i] \in Nat
      BY <1>1, ItemBounds
    <2>. HIDE DEF j, m
    <2>6. Stop(o, m, f, i) - o[i] = Stop(offsets, n, end, j) - offsets[j]
      BY <1>5, <2>2, <2>3, <2>4
    <2>7. \A x \in 1 .. Stop(o, m, f, i) - o[i] : b[o[i] + x] = array[offsets[j] + x]
      <3>. SUFFICES ASSUME NEW x \in 1 .. Stop(o, m, f, i) - o[i]
                    PROVE  b[o[i] + x] = array[offsets[j] + x]
        OBVIOUS
      <3>1. o[i] + x \in 1 .. f /\ offsets[k] + (o[i] + x) = offsets[j] + x
        BY <1>1, <1>5, <2>2, <2>3, <2>4, <2>5
      <3>. QED
        BY <1>1, <3>1
    <2>. HIDE DEF f
    <2>8. Listed(b, o, m, f)[i] = Listed(array, offsets, n, end)[j]
      BY <1>1, <2>1, <2>6, <2>7, MovedItem
    <2>. QED
      BY <2>8 DEF j
  <1>. HIDE DEF old, new
  <1>7. /\ k \in 1 .. Len(old) /\ n \in k - 1 .. Len(old) /\ Len(new) = n - k + 1
    BY <1>1, <1>2, <1>4
  <1>8. \A i \in 1 .. Len(new) : new[i] = old[k - 1 + i]
    BY <1>4, <1>6
  <1>9. new = SubSeq(old, k, n)
    BY <1>2, <1>4, <1>7, <1>8, SliceIs
  <1>. QED
    BY <1>9 DEF old, new, b, o

\* The items received are those sent.
LEMMA ItemsReceive ==
  ASSUME NEW b, NEW o, NEW n, NEW e, Fits(b, o, n, e), n = Len(o), e = Len(b),
         NEW array \in Seq(Nat), NEW offsets \in Seq(Nat)
  PROVE  Listed(Written(array, 0, b, Page), Written(offsets, 0, o, StringChunk), n, e)
           = Listed(b, o, n, e)
  <1>. DEFINE a == Written(array, 0, b, Page)
              p == Written(offsets, 0, o, StringChunk)
  <1>1. /\ Fits(a, p, n, e)
        /\ \A x \in 1 .. e : a[x] = b[x]
        /\ \A i \in 1 .. n : p[i] = o[i]
    BY FitsReceive
  <1>. HIDE DEF a, p
  <1>2. n \in Nat /\ e \in Nat
    BY DEF Fits
  <1>3. ASSUME NEW i \in 1 .. n PROVE Listed(a, p, n, e)[i] = Listed(b, o, n, e)[i]
    <2>1. p[i] = o[i] /\ Stop(p, n, e, i) = Stop(o, n, e, i)
      BY SMTT(30), <1>1, <1>2 DEF Stop
    <2>2. o[i] \in Nat /\ Stop(o, n, e, i) \in Nat /\ Stop(o, n, e, i) <= e
      BY ItemBounds
    <2>3. \A x \in 1 .. Stop(p, n, e, i) - p[i] : a[p[i] + x] = b[o[i] + x]
      BY <1>1, <1>2, <2>1, <2>2
    <2>. QED
      BY SMTT(30), <1>1, <2>1, <2>3, MovedItem
  <1>4. /\ Listed(a, p, n, e) \in Seq(Seq(Nat)) /\ Len(Listed(a, p, n, e)) = n
        /\ Listed(b, o, n, e) \in Seq(Seq(Nat)) /\ Len(Listed(b, o, n, e)) = n
    BY <1>1, ListedEffect
  <1>5. Listed(a, p, n, e) = Listed(b, o, n, e)
    BY <1>3, <1>4, SeqEqual
  <1>. QED
    BY <1>5 DEF a, p

-----------------------------------------------------------------------------
(* The queues implement the stacks of ItemStacks *)

\* The stack a queue stands for, and the batch a message stands for.
LEMMA Stacked ==
  ASSUME QueueOK, NEW r \in Rank
  PROVE  /\ Contents(r) = Listed(base[r], strings[r], count[r], head[r])
         /\ Contents(r) \in Seq(Seq(Nat)) /\ Len(Contents(r)) = count[r]
         /\ Incoming(r) = Listed(wire[r].data, wire[r].offsets,
                                 Len(wire[r].offsets), Len(wire[r].data))
         /\ Incoming(r) = <<>> <=> wire[r] = NoWork
  <1>. DEFINE o == wire[r].offsets
              b == wire[r].data
  <1>1. /\ Fits(base[r], strings[r], count[r], head[r]) /\ Fits(b, o, Len(o), Len(b))
        /\ wire[r] \in [offsets : Seq(Nat), data : Seq(Nat)]
    BY QueueFits
  <1>2. o \in Seq(Nat) /\ b \in Seq(Nat) /\ wire[r] = [offsets |-> o, data |-> b]
    BY <1>1
  <1>3. Contents(r) = Listed(base[r], strings[r], count[r], head[r])
    BY DEF Contents, Listed
  <1>4. Contents(r) \in Seq(Seq(Nat)) /\ Len(Contents(r)) = count[r]
    BY <1>1, <1>3, ListedEffect
  <1>5. Incoming(r) = Listed(b, o, Len(o), Len(b))
    <2>1. SubSeq(o, 1, Len(o)) = o
      BY <1>2, SubSeqFull
    <2>. QED
      BY <2>1 DEF Incoming, Listed
  <1>. HIDE DEF o, b
  <1>6. Incoming(r) \in Seq(Seq(Nat)) /\ Len(Incoming(r)) = Len(o)
    BY <1>1, <1>5, ListedEffect
  <1>7. ASSUME Incoming(r) = <<>> PROVE wire[r] = NoWork
    <2>1. Len(o) = 0
      BY <1>6, <1>7, EmptySeq
    <2>2. Len(b) = 0
      BY <1>1, <2>1 DEF Fits, LaidOut
    <2>3. o = <<>> /\ b = <<>>
      BY <1>2, <2>1, <2>2, EmptySeq
    <2>. QED
      BY <1>2, <2>3 DEF NoWork
  <1>8. ASSUME wire[r] = NoWork PROVE Incoming(r) = <<>>
    <2>1. Len(o) = 0
      BY <1>8, EmptySeq DEF NoWork, o
    <2>. QED
      BY <1>6, <2>1, EmptySeq
  <1>. QED
    BY <1>3, <1>4, <1>5, <1>7, <1>8 DEF o, b

\* The other queues stand for the same stacks as before.
LEMMA StacksKept ==
  ASSUME NEW r \in Rank, OthersKept(r)
  PROVE  \A q \in Rank \ {r} : Contents(q)' = Contents(q)
  BY DEF OthersKept, Contents

\* A message left alone stands for the same batch.
LEMMA BatchKept ==
  ASSUME NEW q \in Rank, wire'[q] = wire[q]
  PROVE  Incoming(q)' = Incoming(q)
  BY DEF Incoming

\* A step that changes one stack.
LEMMA StackUpdate ==
  ASSUME NEW r \in Rank, OthersKept(r), NEW items, Contents(r)' = items
  PROVE  [q \in Rank |-> Contents(q)]' =
           [[q \in Rank |-> Contents(q)] EXCEPT ![r] = items]
  <1>1. \A q \in Rank : Contents(q)' = IF q = r THEN items ELSE Contents(q)
    BY StacksKept
  <1>. QED
    BY <1>1, Zenon

\* A step that changes one batch.
LEMMA BatchUpdate ==
  ASSUME NEW d \in Rank, \A q \in Rank \ {d} : wire'[q] = wire[q],
         NEW items, Incoming(d)' = items
  PROVE  [q \in Rank |-> Incoming(q)]' =
           [[q \in Rank |-> Incoming(q)] EXCEPT ![d] = items]
  <1>1. \A q \in Rank : Incoming(q)' = IF q = d THEN items ELSE Incoming(q)
    BY BatchKept
  <1>. QED
    BY <1>1, Zenon

\* A step that leaves the messages alone.
LEMMA BatchesKept ==
  ASSUME wire' = wire
  PROVE  [q \in Rank |-> Incoming(q)]' = [q \in Rank |-> Incoming(q)]
  BY DEF Incoming

\* An empty message stands for no items.
LEMMA NoItems == Items(<<>>, <<>>, Len(<<>>)) = <<>>
  <1>1. Fits(<<>>, <<>>, 0, 0) /\ Len(<<>>) = 0 /\ SubSeq(<<>>, 1, 0) = <<>>
    BY FitsNone, SubSeqEmpty
  <1>2. Listed(<<>>, <<>>, 0, 0) \in Seq(Seq(Nat)) /\ Len(Listed(<<>>, <<>>, 0, 0)) = 0
    BY <1>1, ListedEffect
  <1>3. Listed(<<>>, <<>>, 0, 0) = <<>>
    BY <1>2, EmptySeq
  <1>. QED
    BY <1>1, <1>3 DEF Listed

\* A new element is the new top of the stack.
LEMMA PushEffect ==
  ASSUME QueueOK, NEW r \in Rank, NEW element \in Seq(Nat), push(r, element),
         ~Waiting(r), pushes' \in 0 .. MaxPushes
  PROVE  /\ QueueOK' /\ OthersKept(r) /\ wire' = wire /\ content' = content
         /\ Contents(r)' = Append(Contents(r), element)
  <1>1. /\ QueueOK' /\ OthersKept(r) /\ wire' = wire /\ content' = content
        /\ element # <<>>
        /\ base'[r] = Written(base[r], head[r], element, Page)
        /\ strings'[r] = Written(strings[r], count[r], <<head[r]>>, StringChunk)
        /\ head'[r] = head[r] + Len(element) /\ count'[r] = count[r] + 1
    BY PushStep
  <1>2. Fits(base[r], strings[r], count[r], head[r])
    BY QueueFits
  <1>3. Contents(r)' = Listed(base'[r], strings'[r], count'[r], head'[r])
    BY DEF Contents, Listed
  <1>4. Contents(r)' = Append(Contents(r), element)
    BY <1>1, <1>2, <1>3, ItemsPush, Stacked
  <1>. QED
    BY <1>1, <1>4

\* enqueue puts an element on the stack.
LEMMA EnqueueIsPush ==
  ASSUME QueueOK, NEW r \in Rank, NEW element \in Item, enqueue(r, element)
  PROVE  Stacks!Push(r, element)
  <1>1. /\ OthersKept(r) /\ wire' = wire /\ content' = content
        /\ Contents(r)' = Append(Contents(r), element)
    BY EnqueueStep, PushEffect
  <1>2. [q \in Rank |-> Contents(q)]' =
          [[q \in Rank |-> Contents(q)] EXCEPT ![r] = Append(Contents(r), element)]
    BY <1>1, StackUpdate
  <1>. QED
    BY <1>1, <1>2, BatchesKept DEF Stacks!Push

\* pop takes the top of the stack and returns it.
LEMMA PopEffect ==
  ASSUME QueueOK, NEW r \in Rank, pop(r)
  PROVE  /\ QueueOK' /\ OthersKept(r) /\ wire' = wire
         /\ count[r] \in 1 .. count[r] /\ count'[r] = count[r] - 1
         /\ Contents(r) # <<>>
         /\ Contents(r)' = SubSeq(Contents(r), 1, Len(Contents(r)) - 1)
         /\ content' = [content EXCEPT ![r] = Contents(r)[Len(Contents(r))]]
  <1>. DEFINE n == count[r]
  <1>1. /\ QueueOK' /\ OthersKept(r) /\ wire' = wire
        /\ n \in 1 .. n
        /\ base'[r] = base[r] /\ strings'[r] = strings[r]
        /\ count'[r] = n - 1 /\ head'[r] = strings[r][n]
        /\ content' = [content EXCEPT ![r] =
                         Bytes(base[r], strings[r][n], head[r])]
    BY PopStep
  <1>2. Fits(base[r], strings[r], n, head[r])
    BY QueueFits
  <1>3. /\ Contents(r) = Listed(base[r], strings[r], n, head[r])
        /\ Contents(r) \in Seq(Seq(Nat)) /\ Len(Contents(r)) = n
    BY Stacked
  <1>4. Contents(r)' = Listed(base'[r], strings'[r], count'[r], head'[r])
    BY DEF Contents, Listed
  <1>. HIDE DEF n
  <1>5. Contents(r)' = SubSeq(Contents(r), 1, Len(Contents(r)) - 1)
    BY SMTT(30), <1>1, <1>2, <1>3, <1>4, ItemsCut
  <1>6. Contents(r)[n] = Bytes(base[r], strings[r][n], head[r])
    <2>1. Stop(strings[r], n, head[r], n) = head[r]
      BY DEF Stop
    <2>. QED
      BY <1>1, <1>2, <1>3, <2>1, ListedEffect
  <1>7. Contents(r) # <<>>
    BY <1>1, <1>3, EmptySeq
  <1>8. content' = [content EXCEPT ![r] = Contents(r)[Len(Contents(r))]]
    BY <1>1, <1>3, <1>6
  <1>. QED
    BY <1>1, <1>5, <1>7, <1>8 DEF n

\* A pop of the stack.
LEMMA PopIsPop ==
  ASSUME QueueOK, NEW r \in Rank, pop(r)
  PROVE  Stacks!Pop(r)
  <1>1. /\ OthersKept(r) /\ wire' = wire /\ Contents(r) # <<>>
        /\ Contents(r)' = SubSeq(Contents(r), 1, Len(Contents(r)) - 1)
        /\ content' = [content EXCEPT ![r] = Contents(r)[Len(Contents(r))]]
    BY PopEffect
  <1>2. [q \in Rank |-> Contents(q)]' =
          [[q \in Rank |-> Contents(q)] EXCEPT
             ![r] = SubSeq(Contents(r), 1, Len(Contents(r)) - 1)]
    BY <1>1, StackUpdate
  <1>. QED
    BY <1>1, <1>2, BatchesKept DEF Stacks!Pop

\* sendWork moves the top of the stack to the batch for dest.
LEMMA SendIsSend ==
  ASSUME QueueOK, NEW r \in Rank, NEW dest \in Rank \ {r},
         NEW n \in 1 .. count[r], sendWork(r, dest, n)
  PROVE  Stacks!Send(r, dest, n)
  <1>. DEFINE c == count[r]
              k == Cut(r, n)
              o == Offsets(strings[r], c, k)
              b == Bytes(base[r], strings[r][k], head[r])
  <1>1. /\ QueueOK' /\ OthersKept(r) /\ content' = content
        /\ k \in 1 .. c /\ n = c - k + 1
        /\ wire[dest] = NoWork
        /\ wire' = [wire EXCEPT ![dest] = [offsets |-> o, data |-> b]]
        /\ base'[r] = base[r] /\ strings'[r] = strings[r]
        /\ count'[r] = k - 1 /\ head'[r] = strings[r][k]
    BY SendStep
  <1>2. Fits(base[r], strings[r], c, head[r])
    BY QueueFits
  <1>3. /\ Contents(r) = Listed(base[r], strings[r], c, head[r])
        /\ Len(Contents(r)) = c
    BY Stacked
  <1>4. Contents(r)' = Listed(base'[r], strings'[r], count'[r], head'[r])
    BY DEF Contents, Listed
  <1>. HIDE DEF k, c
  <1>5. c - n = k - 1 /\ c - n + 1 = k
    BY <1>1, <1>2 DEF Fits
  <1>6. Contents(r)' = SubSeq(Contents(r), 1, c - n)
    BY <1>1, <1>2, <1>3, <1>4, <1>5, ItemsCut
  <1>7. Len(o) = c - k + 1 /\ Len(b) = head[r] - strings[r][k]
    BY <1>1, <1>2, FitsSend
  <1>8. Listed(b, o, c - k + 1, head[r] - strings[r][k]) = SubSeq(Contents(r), k, c)
    BY SMTT(30), <1>1, <1>2, <1>3, ItemsSend
  <1>. HIDE DEF o, b
  <1>9. wire'[dest] = [offsets |-> o, data |-> b]
    BY <1>1 DEF QueueOK, TypeOK
  <1>10. Incoming(dest)' = Listed(b, o, Len(o), Len(b))
    <2>1. Incoming(dest)' = Items(wire'[dest].data, wire'[dest].offsets,
                                  Len(wire'[dest].data))
      BY DEF Incoming
    <2>2. wire'[dest].data = b /\ wire'[dest].offsets = o
      BY <1>9
    <2>3. SubSeq(o, 1, Len(o)) = o
      <3>1. o \in Seq(Nat)
        BY <1>1, <1>2, FitsSend DEF o, Fits
      <3>. QED
        BY <3>1, SubSeqFull
    <2>. QED
      BY <2>1, <2>2, <2>3 DEF Listed
  <1>11. Incoming(dest)' = SubSeq(Contents(r), c - n + 1, c)
    BY <1>5, <1>7, <1>8, <1>10
  <1>12. [q \in Rank |-> Contents(q)]' =
           [[q \in Rank |-> Contents(q)] EXCEPT ![r] = SubSeq(Contents(r), 1, c - n)]
    BY <1>1, <1>6, StackUpdate
  <1>13. \A q \in Rank \ {dest} : wire'[q] = wire[q]
    BY <1>1 DEF QueueOK, TypeOK
  <1>14. [q \in Rank |-> Incoming(q)]' =
           [[q \in Rank |-> Incoming(q)] EXCEPT
              ![dest] = SubSeq(Contents(r), c - n + 1, c)]
    BY <1>11, <1>13, BatchUpdate
  <1>15. Incoming(dest) = <<>>
    BY <1>1, Stacked
  <1>. QED
    BY <1>1, <1>3, <1>12, <1>14, <1>15 DEF Stacks!Send

\* workReceive makes the batch the stack.
LEMMA ReceiveIsReceive ==
  ASSUME QueueOK, NEW r \in Rank, workReceive(r)
  PROVE  Stacks!Receive(r)
  <1>. DEFINE o == wire[r].offsets
              b == wire[r].data
  <1>1. /\ QueueOK' /\ OthersKept(r) /\ content' = content
        /\ wire[r] # NoWork /\ wire' = [wire EXCEPT ![r] = NoWork]
        /\ count[r] = 0 /\ head[r] = 0
        /\ base'[r] = Written(base[r], 0, b, Page)
        /\ strings'[r] = Written(strings[r], 0, o, StringChunk)
        /\ count'[r] = Len(o) /\ head'[r] = Len(b)
    BY ReceiveStep
  <1>2. /\ Fits(b, o, Len(o), Len(b))
        /\ base[r] \in Seq(Nat) /\ strings[r] \in Seq(Nat)
    BY QueueFits DEF Fits
  <1>3. /\ Contents(r) \in Seq(Seq(Nat)) /\ Len(Contents(r)) = 0
        /\ Incoming(r) = Listed(b, o, Len(o), Len(b)) /\ Incoming(r) # <<>>
    BY <1>1, Stacked
  <1>4. Contents(r)' = Listed(base'[r], strings'[r], count'[r], head'[r])
    BY DEF Contents, Listed
  <1>. HIDE DEF o, b
  <1>5. Contents(r)' = Incoming(r)
    BY <1>1, <1>2, <1>3, <1>4, ItemsReceive
  <1>6. Contents(r) = <<>>
    BY <1>3, EmptySeq
  <1>7. Incoming(r)' = <<>>
    <2>1. wire'[r] = NoWork
      BY <1>1 DEF QueueOK, TypeOK
    <2>2. Incoming(r)' = Items(<<>>, <<>>, Len(<<>>))
      BY <2>1 DEF Incoming, NoWork
    <2>. QED
      BY <2>2, NoItems
  <1>8. \A q \in Rank \ {r} : wire'[q] = wire[q]
    BY <1>1 DEF QueueOK, TypeOK
  <1>9. [q \in Rank |-> Contents(q)]' =
          [[q \in Rank |-> Contents(q)] EXCEPT ![r] = Incoming(r)]
    BY <1>1, <1>5, StackUpdate
  <1>10. [q \in Rank |-> Incoming(q)]' =
           [[q \in Rank |-> Incoming(q)] EXCEPT ![r] = <<>>]
    BY <1>7, <1>8, BatchUpdate
  <1>. QED
    BY <1>1, <1>3, <1>6, <1>9, <1>10 DEF Stacks!Receive

\* What pop returns is what was pushed last, on this rank or, with a batch of
\* stolen items, on another (Queue::push and pop, State::sendWork and
\* workReceive), whatever the items and however the pools have been reused.
THEOREM QueueImplementsStacks == Spec => QueueIsStack
  <1>1. Init => Stacks!Init
    <2>. SUFFICES ASSUME Init PROVE Stacks!Init
      OBVIOUS
    <2>1. ASSUME NEW r \in Rank PROVE Contents(r) = <<>> /\ Incoming(r) = <<>>
      <3>1. QueueOK
        BY QueueInit
      <3>2. Contents(r) \in Seq(Seq(Nat)) /\ Len(Contents(r)) = 0
        BY <3>1, Stacked DEF Init
      <3>3. wire[r] = NoWork
        BY DEF Init
      <3>. QED
        BY <3>1, <3>2, <3>3, Stacked, EmptySeq
    <2>2. content = [r \in Rank |-> <<>>]
      BY DEF Init
    <2>. QED
      BY <2>1, <2>2 DEF Stacks!Init
  <1>2. QueueOK /\ [Next]_vars => [Stacks!Next]_Stacks!vars
    <2>. SUFFICES ASSUME QueueOK, [Next]_vars
                  PROVE  Stacks!Next \/ UNCHANGED Stacks!vars
      OBVIOUS
    <2>1. CASE UNCHANGED vars
      BY <2>1 DEF vars, Stacks!vars, Contents, Incoming
    <2>2. ASSUME NEW r \in Rank, NEW element \in Item, enqueue(r, element)
          PROVE  Stacks!Next
      BY <2>2, EnqueueIsPush DEF Stacks!Next
    <2>3. ASSUME NEW r \in Rank, pop(r) PROVE Stacks!Next
      BY <2>3, PopIsPop DEF Stacks!Next
    <2>4. ASSUME NEW r \in Rank, NEW dest \in Rank \ {r}, NEW n \in 1 .. count[r],
                 sendWork(r, dest, n)
          PROVE  Stacks!Next
      <3>1. Stacks!Send(r, dest, n)
        BY <2>4, SendIsSend
      <3>2. Len([q \in Rank |-> Contents(q)][r]) = count[r]
        BY Stacked
      <3>. QED
        BY <3>1, <3>2 DEF Stacks!Next
    <2>5. ASSUME NEW r \in Rank, workReceive(r) PROVE Stacks!Next
      BY <2>5, ReceiveIsReceive DEF Stacks!Next
    <2>. QED
      BY <2>1, <2>2, <2>3, <2>4, <2>5 DEF Next
  <1>. QED
    BY <1>1, <1>2, QueueInvariant, PTL DEF Spec, QueueIsStack, Stacks!Spec

-----------------------------------------------------------------------------
(* Checkpoints: numbers and sequences *)

\* A set of numbers has a smallest one.
LEMMA Smallest ==
  ASSUME NEW S \in SUBSET Nat, S # {}
  PROVE  \E x \in S : \A y \in S : x <= y
  <1>1. PICK x \in S : \A y \in S : ~ (<<y, x>> \in OpToRel(<, Nat))
    BY WFMin, NatLessThanWellFounded
  <1>2. ASSUME NEW y \in S PROVE x <= y
    <2>1. y < x => <<y, x>> \in OpToRel(<, Nat)
      BY DEF OpToRel
    <2>2. ~(y < x)
      BY <1>1, <2>1
    <2>. QED
      BY <2>2
  <1>. QED
    BY <1>2

\* A set with 0 that is closed under successor up to n has the numbers up to n:
\* the smallest one missing would follow one that is not.
LEMMA UpTo ==
  ASSUME NEW n \in Nat, NEW S, 0 \in S, \A k \in 1 .. n : k - 1 \in S => k \in S
  PROVE  \A k \in 0 .. n : k \in S
  <1>. DEFINE Missing == (0 .. n) \ S
  <1>1. SUFFICES ASSUME Missing # {} PROVE FALSE
    OBVIOUS
  <1>2. PICK x \in Missing : \A y \in Missing : x <= y
    <2>1. Missing \in SUBSET Nat
      OBVIOUS
    <2>. HIDE DEF Missing
    <2>. QED
      BY <1>1, <2>1, Smallest
  <1>3. x \in 1 .. n /\ x - 1 \in 0 .. n
    OBVIOUS
  <1>4. x - 1 \in S
    BY <1>2, <1>3
  <1>. QED
    BY <1>2, <1>3, <1>4

\* Find returns the first position of x.
LEMMA FindFirst ==
  ASSUME NEW seq \in Seq(Nat), NEW x
  PROVE  /\ Find(seq, x) \in 1 .. Len(seq) + 1
         /\ Find(seq, x) <= Len(seq) => seq[Find(seq, x)] = x
         /\ \A k \in 1 .. Find(seq, x) - 1 : seq[k] # x
  <1>. DEFINE S == {k \in 1 .. Len(seq) : seq[k] = x} \cup {Len(seq) + 1}
              f == Find(seq, x)
  <1>1. Len(seq) \in Nat
    BY LenProperties
  <1>2. f \in S /\ \A k \in S : f <= k
    <2>1. S \in SUBSET Nat /\ S # {}
      BY <1>1
    <2>2. f = CHOOSE k \in S : \A j \in S : k =< j
      BY DEF Find, Min
    <2>. HIDE DEF S, f
    <2>. QED
      BY <2>1, <2>2, Smallest
  <1>. HIDE DEF f
  <1>3. f \in 1 .. Len(seq) + 1
    BY <1>1, <1>2
  <1>4. f <= Len(seq) => seq[f] = x
    BY <1>1, <1>2
  <1>5. ASSUME NEW k \in 1 .. f - 1 PROVE seq[k] # x
    <2>1. k \in 1 .. Len(seq) /\ k < f
      BY <1>1, <1>3
    <2>2. seq[k] = x => f <= k
      BY <1>2, <2>1
    <2>. QED
      BY <1>3, <2>1, <2>2
  <1>. QED
    BY <1>3, <1>4, <1>5 DEF f

\* The bytes of a text from one position to another.
LEMMA Slice ==
  ASSUME NEW S, NEW s \in Seq(S), NEW to \in 0 .. Len(s), NEW from \in 0 .. to
  PROVE  /\ SubSeq(s, from + 1, to) \in Seq(S)
         /\ Len(SubSeq(s, from + 1, to)) = to - from
         /\ \A i \in 1 .. to - from : SubSeq(s, from + 1, to)[i] = s[from + i]
  <1>1. Len(s) \in Nat
    BY LenProperties
  <1>2. \A i \in from + 1 .. to : s[i] \in S
    BY <1>1, ElementOfSeq
  <1>3. /\ SubSeq(s, from + 1, to) \in Seq(S)
        /\ Len(SubSeq(s, from + 1, to)) =
             IF from + 1 <= to THEN to - (from + 1) + 1 ELSE 0
        /\ \A i \in 1 .. to - (from + 1) + 1 :
             SubSeq(s, from + 1, to)[i] = s[from + 1 + i - 1]
    BY <1>1, <1>2, from + 1 \in Int, to \in Int, SubSeqProperties
  <1>4. to - (from + 1) + 1 = to - from /\ \A i \in Int : from + 1 + i - 1 = from + i
    BY <1>1
  <1>. QED
    BY <1>1, <1>3, <1>4

\* The bytes behind a position.
LEMMA SliceBehind ==
  ASSUME NEW S, NEW s \in Seq(S), NEW from \in 0 .. Len(s)
  PROVE  /\ SubSeq(s, from + 1, Len(s)) \in Seq(S)
         /\ Len(SubSeq(s, from + 1, Len(s))) = Len(s) - from
         /\ \A i \in 1 .. Len(s) - from :
              SubSeq(s, from + 1, Len(s))[i] = s[from + i]
  <1>1. Len(s) \in 0 .. Len(s)
    BY LenProperties
  <1>. QED
    BY <1>1, Slice

\* The first elements of a sequence.
LEMMA First ==
  ASSUME NEW S, NEW s \in Seq(S), NEW n \in 0 .. Len(s)
  PROVE  /\ SubSeq(s, 1, n) \in Seq(S)
         /\ Len(SubSeq(s, 1, n)) = n
         /\ \A i \in 1 .. n : SubSeq(s, 1, n)[i] = s[i]
  <1>1. Len(s) \in Nat /\ n \in Int
    BY LenProperties
  <1>2. \A i \in 1 .. n : s[i] \in S
    BY <1>1, ElementOfSeq
  <1>3. /\ SubSeq(s, 1, n) \in Seq(S)
        /\ Len(SubSeq(s, 1, n)) = IF 1 <= n THEN n - 1 + 1 ELSE 0
        /\ \A i \in 1 .. n - 1 + 1 : SubSeq(s, 1, n)[i] = s[1 + i - 1]
    BY <1>1, <1>2, SubSeqProperties
  <1>. QED
    BY <1>1, <1>3

\* A prefix agrees with the whole as far as it goes.
LEMMA PrefixIs ==
  ASSUME NEW S, NEW s \in Seq(S), NEW t \in Seq(S)
  PROVE  IsPrefix(s, t) <=>
           Len(s) <= Len(t) /\ \A i \in 1 .. Len(s) : s[i] = t[i]
  <1>1. Len(s) \in Nat /\ Len(t) \in Nat /\ SubSeq(s, 1, Len(s)) = s
    BY LenProperties, SubSeqFull
  <1>2. SUFFICES ASSUME Len(s) <= Len(t)
                 PROVE  s = SubSeq(t, 1, Len(s)) <=>
                          \A i \in 1 .. Len(s) : s[i] = t[i]
    BY <1>1 DEF IsPrefix
  <1>3. Len(s) \in 0 .. Len(t)
    BY <1>1, <1>2
  <1>4. /\ SubSeq(t, 1, Len(s)) \in Seq(S) /\ Len(SubSeq(t, 1, Len(s))) = Len(s)
        /\ \A i \in 1 .. Len(s) : SubSeq(t, 1, Len(s))[i] = t[i]
    BY <1>3, First
  <1>5. s = SubSeq(t, 1, Len(s)) => \A i \in 1 .. Len(s) : s[i] = t[i]
    BY <1>4
  <1>6. (\A i \in 1 .. Len(s) : s[i] = t[i]) => s = SubSeq(t, 1, Len(s))
    BY <1>4, SeqEqual
  <1>. QED
    BY <1>5, <1>6

-----------------------------------------------------------------------------
(* Checkpoints: lines *)

\* Items, lines and files are sequences of bytes.
Texts == Seq(Nat)

\* One turn of LinesUpTo, from the lines up to the byte before.
NextLines(text, n, lines) ==
  IF text[n] = Newline THEN lines
  ELSE IF n = 1 \/ text[n - 1] = Newline
  THEN Append(lines, <<text[n]>>)
  ELSE [lines EXCEPT ![Len(lines)] = Append(@, text[n])]

\* LinesUpTo is what its definition says it is.
LEMMA LinesStep ==
  ASSUME NEW text \in Seq(Nat)
  PROVE  /\ LinesUpTo(text)[0] = <<>>
         /\ \A n \in 1 .. Len(text) :
              LinesUpTo(text)[n] = NextLines(text, n, LinesUpTo(text)[n - 1])
  <1>. DEFINE Is(f, n) ==
                f = [k \in 0 .. n |->
                       IF k = 0 THEN <<>> ELSE NextLines(text, k, f[k - 1])]
              S == {n \in 0 .. Len(text) : \E f : Is(f, n)}
  <1>1. Len(text) \in Nat
    BY LenProperties
  <1>2. 0 \in S
    <2>. DEFINE f == [k \in 0 .. 0 |-> <<>>]
    <2>1. Is(f, 0)
      OBVIOUS
    <2>. HIDE DEF Is
    <2>. QED
      BY <1>1, <2>1
  <1>3. ASSUME NEW n \in 1 .. Len(text), n - 1 \in S PROVE n \in S
    <2>1. PICK f : Is(f, n - 1)
      BY <1>3
    <2>. DEFINE g == [k \in 0 .. n |-> IF k < n THEN f[k]
                                       ELSE NextLines(text, k, f[k - 1])]
    <2>2. ASSUME NEW k \in 0 .. n
          PROVE  g[k] = IF k = 0 THEN <<>> ELSE NextLines(text, k, g[k - 1])
      <3>1. k # 0 => k - 1 \in 0 .. n /\ k - 1 < n
        BY <1>1
      <3>2. k # 0 => g[k - 1] = f[k - 1]
        BY <3>1
      <3>3. CASE k < n
        <4>1. k \in 0 .. n - 1
          BY <1>1, <3>3
        <4>2. f[k] = IF k = 0 THEN <<>> ELSE NextLines(text, k, f[k - 1])
          BY <2>1, <4>1
        <4>3. g[k] = f[k]
          BY <3>3
        <4>. HIDE DEF g
        <4>. QED
          BY <3>2, <4>2, <4>3
      <3>4. CASE k = n
        <4>1. g[k] = NextLines(text, k, f[k - 1]) /\ k # 0
          BY <1>1, <3>4
        <4>. HIDE DEF g
        <4>. QED
          BY <3>2, <4>1
      <3>. QED
        BY <1>1, <3>3, <3>4
    <2>3. Is(g, n)
      <3>1. g = [k \in 0 .. n |-> g[k]]
        OBVIOUS
      <3>. HIDE DEF g
      <3>. QED
        BY <2>2, <3>1
    <2>. HIDE DEF Is, g
    <2>. QED
      BY <2>3
  <1>4. Len(text) \in S
    <2>. HIDE DEF S
    <2>1. \A n \in 1 .. Len(text) : n - 1 \in S => n \in S
      BY <1>3
    <2>2. \A n \in 0 .. Len(text) : n \in S
      BY <1>1, <1>2, <2>1, UpTo
    <2>. QED
      BY <1>1, <2>2
  <1>5. LinesUpTo(text) = CHOOSE f : Is(f, Len(text))
    BY DEF LinesUpTo, NextLines
  <1>6. Is(LinesUpTo(text), Len(text))
    <2>. HIDE DEF Is
    <2>. QED
      BY <1>4, <1>5
  <1>. HIDE DEF S
  <1>7. \A n \in 0 .. Len(text) :
          LinesUpTo(text)[n] =
            IF n = 0 THEN <<>> ELSE NextLines(text, n, LinesUpTo(text)[n - 1])
    <2>. DEFINE f == LinesUpTo(text)
    <2>1. Is(f, Len(text))
      BY <1>6
    <2>. HIDE DEF f
    <2>2. \A n \in 0 .. Len(text) :
            f[n] = IF n = 0 THEN <<>> ELSE NextLines(text, n, f[n - 1])
      BY <2>1, Zenon
    <2>. QED
      BY <2>2 DEF f
  <1>8. 0 \in 0 .. Len(text) /\ \A n \in 1 .. Len(text) : n \in 0 .. Len(text) /\ n # 0
    BY <1>1
  <1>. QED
    BY <1>7, <1>8

\* Lines are runs of bytes of the text, the last one up to the last byte unless
\* that is a newline.
Runs(text, n, lines) ==
  /\ lines \in Seq(Texts)
  /\ \A i \in 1 .. Len(lines) :
       \E a \in 1 .. n : \E b \in a .. n : lines[i] = SubSeq(text, a, b)
  /\ n > 0 /\ text[n] # Newline =>
       /\ lines # <<>>
       /\ \E a \in 1 .. n : lines[Len(lines)] = SubSeq(text, a, n)

LEMMA RunsNext ==
  ASSUME NEW text \in Seq(Nat), NEW n \in 1 .. Len(text), NEW lines,
         Runs(text, n - 1, lines)
  PROVE  Runs(text, n, NextLines(text, n, lines))
  <1>. DEFINE next == NextLines(text, n, lines)
              m == Len(lines)
  <1>1. /\ Len(text) \in Nat /\ n \in Nat /\ n - 1 \in Nat /\ n > 0
        /\ text[n] \in Nat
        /\ lines \in Seq(Texts) /\ m \in Nat
        /\ DOMAIN lines = 1 .. m
    BY LenProperties, ElementOfSeq DEF Runs
  <1>2. \A a \in 1 .. n - 1 : a \in 1 .. n /\ \A b \in a .. n - 1 : b \in a .. n
    BY <1>1
  <1>3. ASSUME NEW i \in 1 .. m
        PROVE  \E a \in 1 .. n : \E b \in a .. n : lines[i] = SubSeq(text, a, b)
    BY <1>2 DEF Runs
  <1>4. CASE text[n] = Newline
    <2>1. next = lines
      BY <1>4 DEF NextLines
    <2>. QED
      BY <1>1, <1>3, <1>4, <2>1 DEF Runs
  <1>5. CASE text[n] # Newline /\ (n = 1 \/ text[n - 1] = Newline)
    <2>. DEFINE line == <<text[n]>>
    <2>1. next = Append(lines, line)
      BY <1>5 DEF NextLines
    <2>2. line \in Seq(Nat)
      BY <1>1
    <2>3. line = SubSeq(text, n, n)
      <3>1. n - 1 \in 0 .. n /\ n \in 0 .. Len(text) /\ n - 1 + 1 = n /\ n - (n - 1) = 1
        BY <1>1
      <3>2. /\ SubSeq(text, n, n) \in Seq(Nat) /\ Len(SubSeq(text, n, n)) = 1
            /\ \A i \in 1 .. 1 : SubSeq(text, n, n)[i] = text[n - 1 + i]
        BY <3>1, Slice
      <3>3. SubSeq(text, n, n)[1] = text[n]
        <4>1. 1 \in 1 .. 1 /\ n - 1 + 1 = n
          BY <3>1
        <4>2. SubSeq(text, n, n)[1] = text[n - 1 + 1]
          BY <3>2, <4>1
        <4>. QED
          BY <4>1, <4>2
      <3>4. Len(line) = 1 /\ line[1] = text[n]
        OBVIOUS
      <3>. HIDE DEF line
      <3>. QED
        BY <2>2, <3>2, <3>3, <3>4, SeqEqual
    <2>. HIDE DEF line
    <2>4. /\ next \in Seq(Texts) /\ next # <<>> /\ Len(next) = m + 1
          /\ \A i \in 1 .. m : next[i] = lines[i]
          /\ next[m + 1] = line
      <3>1. lines \in Seq(Texts) /\ line \in Texts
        BY <1>1, <2>2 DEF Texts
      <3>. HIDE DEF next
      <3>. QED
        BY <2>1, <3>1, AppendProperties
    <2>. HIDE DEF next
    <2>5. n \in 1 .. n /\ n \in n .. n
      BY <1>1
    <2>6. \E a \in 1 .. n : next[Len(next)] = SubSeq(text, a, n)
      BY <2>3, <2>4, <2>5
    <2>7. ASSUME NEW i \in 1 .. Len(next)
          PROVE  \E a \in 1 .. n : \E b \in a .. n : next[i] = SubSeq(text, a, b)
      <3>1. CASE i = m + 1
        BY <2>3, <2>4, <2>5, <3>1
      <3>2. CASE i # m + 1
        <4>1. i \in 1 .. m
          BY <1>1, <2>4, <3>2
        <4>. QED
          BY <1>3, <2>4, <4>1
      <3>. QED
        BY <3>1, <3>2
    <2>8. Runs(text, n, next)
      BY <2>4, <2>6, <2>7 DEF Runs
    <2>. QED
      BY <2>8 DEF next
  <1>6. CASE text[n] # Newline /\ n # 1 /\ text[n - 1] # Newline
    <2>. DEFINE line == Append(lines[m], text[n])
    <2>1. next = [lines EXCEPT ![m] = line]
      BY <1>6 DEF NextLines
    <2>2. n - 1 > 0 /\ m # 0 /\ m \in 1 .. m
      <3>1. n - 1 > 0
        BY <1>1, <1>6
      <3>2. lines # <<>>
        BY <1>6, <3>1 DEF Runs
      <3>3. m # 0
        BY <1>1, <3>2, EmptySeq
      <3>. QED
        BY <1>1, <3>1, <3>3
    <2>3. PICK a \in 1 .. n - 1 : lines[m] = SubSeq(text, a, n - 1)
      BY <1>6, <2>2 DEF Runs
    <2>4. line = SubSeq(text, a, n)
      <3>1. a \in 1 .. Len(text) /\ n \in a .. Len(text)
        BY <1>1, <2>3
      <3>2. SubSeq(text, a, n) = SubSeq(text, a, n - 1) \o <<text[n]>>
        BY <3>1, SubSeqRecursiveSecond
      <3>. lines[m] \in Texts
        BY <1>1, <2>2, ElementOfSeq
      <3>3. lines[m] \in Seq(Nat)
        BY DEF Texts
      <3>4. line = lines[m] \o <<text[n]>>
        BY <1>1, <3>3, AppendIsConcat
      <3>. QED
        BY <2>3, <3>2, <3>4
    <2>5. line \in Texts
      <3>1. lines[m] \in Texts
        BY <1>1, <2>2, ElementOfSeq
      <3>2. lines[m] \in Seq(Nat)
        BY <3>1 DEF Texts
      <3>. QED
        BY <1>1, <3>2, AppendProperties DEF Texts
    <2>. HIDE DEF line
    <2>6. /\ next \in Seq(Texts) /\ Len(next) = m
          /\ \A j \in 1 .. m : next[j] = IF j = m THEN line ELSE lines[j]
      BY <1>1, <2>1, <2>2, <2>5, ExceptSeq
    <2>. HIDE DEF next
    <2>7. next # <<>>
      BY <2>2, <2>6, EmptySeq
    <2>8. a \in 1 .. n /\ n \in a .. n
      BY <1>1, <2>3
    <2>9. \E b \in 1 .. n : next[Len(next)] = SubSeq(text, b, n)
      BY <2>2, <2>4, <2>6, <2>8
    <2>10. ASSUME NEW i \in 1 .. Len(next)
           PROVE  \E c \in 1 .. n : \E b \in c .. n : next[i] = SubSeq(text, c, b)
      <3>1. CASE i = m
        BY <2>4, <2>6, <2>8, <3>1
      <3>2. CASE i # m
        <4>1. i \in 1 .. m /\ next[i] = lines[i]
          BY <2>6, <3>2
        <4>. QED
          BY <1>3, <4>1
      <3>. QED
        BY <3>1, <3>2
    <2>11. Runs(text, n, next)
      BY <2>6, <2>7, <2>9, <2>10 DEF Runs
    <2>. QED
      BY <2>11 DEF next
  <1>. QED
    BY <1>4, <1>5, <1>6

LEMMA LinesAreRuns ==
  ASSUME NEW text \in Seq(Nat), NEW n \in 0 .. Len(text)
  PROVE  Runs(text, n, LinesUpTo(text)[n])
  <1>. DEFINE S == {k \in 0 .. Len(text) : Runs(text, k, LinesUpTo(text)[k])}
  <1>1. Len(text) \in Nat
    BY LenProperties
  <1>2. 0 \in S
    <2>1. <<>> \in Seq(Texts) /\ Len(<<>>) = 0
      BY EmptySeq
    <2>2. Runs(text, 0, <<>>)
      BY <2>1 DEF Runs
    <2>. QED
      BY <1>1, <2>2, LinesStep
  <1>3. ASSUME NEW k \in 1 .. Len(text), k - 1 \in S PROVE k \in S
    <2>1. LinesUpTo(text)[k] = NextLines(text, k, LinesUpTo(text)[k - 1])
      BY LinesStep
    <2>2. Runs(text, k, LinesUpTo(text)[k])
      BY <1>3, <2>1, RunsNext
    <2>. QED
      BY <1>1, <2>2
  <1>. HIDE DEF S
  <1>4. \A k \in 1 .. Len(text) : k - 1 \in S => k \in S
    BY <1>3
  <1>5. \A k \in 0 .. Len(text) : k \in S
    BY <1>1, <1>2, <1>4, UpTo
  <1>. QED
    BY <1>5 DEF S

\* What the lines are, as far as types go.
LEMMA LinesType ==
  ASSUME NEW text \in Seq(Nat), NEW n \in 0 .. Len(text)
  PROVE  /\ LinesUpTo(text)[n] \in Seq(Texts)
         /\ n > 0 /\ text[n] # Newline => LinesUpTo(text)[n] # <<>>
  BY LinesAreRuns DEF Runs

\* Texts that agree so far have the same lines so far.
LEMMA SameLines ==
  ASSUME NEW s \in Seq(Nat), NEW t \in Seq(Nat), Len(s) <= Len(t),
         \A i \in 1 .. Len(s) : t[i] = s[i]
  PROVE  \A n \in 0 .. Len(s) : LinesUpTo(t)[n] = LinesUpTo(s)[n]
  <1>. DEFINE S == {n \in 0 .. Len(s) : LinesUpTo(t)[n] = LinesUpTo(s)[n]}
  <1>1. Len(s) \in Nat /\ Len(t) \in Nat
    BY LenProperties
  <1>2. 0 \in S
    BY <1>1, LinesStep
  <1>3. ASSUME NEW n \in 1 .. Len(s), n - 1 \in S PROVE n \in S
    <2>1. n \in 1 .. Len(t) /\ n \in 0 .. Len(s) /\ (n # 1 => n - 1 \in 1 .. Len(s))
      BY <1>1
    <2>2. LinesUpTo(s)[n] = NextLines(s, n, LinesUpTo(s)[n - 1])
      BY LinesStep
    <2>3. LinesUpTo(t)[n] = NextLines(t, n, LinesUpTo(t)[n - 1])
      BY <2>1, LinesStep
    <2>4. t[n] = s[n] /\ (n # 1 => t[n - 1] = s[n - 1])
      BY <2>1
    <2>5. NextLines(t, n, LinesUpTo(s)[n - 1]) = NextLines(s, n, LinesUpTo(s)[n - 1])
      BY <2>4 DEF NextLines
    <2>6. LinesUpTo(t)[n - 1] = LinesUpTo(s)[n - 1]
      BY <1>3
    <2>7. LinesUpTo(t)[n] = LinesUpTo(s)[n]
      BY <2>2, <2>3, <2>5, <2>6
    <2>. QED
      BY <2>1, <2>7
  <1>. HIDE DEF S
  <1>4. \A n \in 1 .. Len(s) : n - 1 \in S => n \in S
    BY <1>3
  <1>5. \A n \in 0 .. Len(s) : n \in S
    BY <1>1, <1>2, <1>4, UpTo
  <1>. QED
    BY <1>5 DEF S

\* The lines of a text that is cut off are those of the text up to there.
LEMMA CutLines ==
  ASSUME NEW t \in Seq(Nat), NEW n \in 0 .. Len(t)
  PROVE  Lines(SubSeq(t, 1, n)) = LinesUpTo(t)[n]
  <1>. DEFINE s == SubSeq(t, 1, n)
  <1>1. /\ Len(t) \in Nat /\ s \in Seq(Nat) /\ Len(s) = n
        /\ \A i \in 1 .. n : s[i] = t[i]
    BY LenProperties, First
  <1>. HIDE DEF s
  <1>2. Len(s) <= Len(t) /\ n \in 0 .. Len(s) /\ \A i \in 1 .. Len(s) : t[i] = s[i]
    BY <1>1
  <1>3. \A i \in 0 .. Len(s) : LinesUpTo(t)[i] = LinesUpTo(s)[i]
    BY <1>1, <1>2, SameLines
  <1>4. Lines(s) = LinesUpTo(t)[n]
    BY <1>1, <1>2, <1>3 DEF Lines
  <1>. QED
    BY <1>4 DEF s

\* A change behind two sequences, or of their last element.
Added(s, x) == Append(s, x)
Changed(s, x) == [s EXCEPT ![Len(s)] = x]

AddedBehind(s, t, x) == Added(s \o t, x) = s \o Added(t, x)
ChangedBehind(s, t, x) == Changed(s \o t, x) = s \o Changed(t, x)

LEMMA ConcatAdded ==
  ASSUME NEW S, NEW s \in Seq(S), NEW t \in Seq(S), NEW x \in S
  PROVE  AddedBehind(s, t, x)
  <1>1. s \o t \in Seq(S) /\ <<x>> \in Seq(S)
    BY ConcatProperties
  <1>2. Append(s \o t, x) = (s \o t) \o <<x>> /\ Append(t, x) = t \o <<x>>
    BY <1>1, AppendIsConcat
  <1>. QED
    BY <1>1, <1>2, ConcatAssociative DEF Added, AddedBehind

LEMMA ConcatChanged ==
  ASSUME NEW S, NEW s \in Seq(S), NEW t \in Seq(S), t # <<>>, NEW x \in S
  PROVE  ChangedBehind(s, t, x)
  <1>. DEFINE st == s \o t
              u  == [t EXCEPT ![Len(t)] = x]
              a  == [st EXCEPT ![Len(st)] = x]
              b  == s \o u
  <1>1. Len(s) \in Nat /\ Len(t) \in Nat \ {0}
    BY LenProperties, EmptySeq
  <1>2. /\ st \in Seq(S) /\ Len(st) = Len(s) + Len(t)
        /\ \A i \in 1 .. Len(s) + Len(t) :
             st[i] = IF i <= Len(s) THEN s[i] ELSE t[i - Len(s)]
    BY ConcatProperties
  <1>3. Len(t) \in 1 .. Len(t) /\ Len(st) \in 1 .. Len(st)
    BY <1>1, <1>2
  <1>4. /\ u \in Seq(S) /\ Len(u) = Len(t)
        /\ \A i \in 1 .. Len(t) : u[i] = IF i = Len(t) THEN x ELSE t[i]
    BY <1>3, ExceptSeq
  <1>. HIDE DEF st
  <1>5. /\ a \in Seq(S) /\ Len(a) = Len(st)
        /\ \A i \in 1 .. Len(st) : a[i] = IF i = Len(st) THEN x ELSE st[i]
    BY <1>2, <1>3, ExceptSeq
  <1>. HIDE DEF u, a
  <1>6. /\ b \in Seq(S) /\ Len(b) = Len(s) + Len(t)
        /\ \A i \in 1 .. Len(s) + Len(t) :
             b[i] = IF i <= Len(s) THEN s[i] ELSE u[i - Len(s)]
    <2>1. u \in Seq(S) /\ Len(u) = Len(t)
      BY <1>4
    <2>2. /\ b \in Seq(S) /\ Len(b) = Len(s) + Len(u)
          /\ \A i \in 1 .. Len(s) + Len(u) :
               b[i] = IF i <= Len(s) THEN s[i] ELSE u[i - Len(s)]
      BY <2>1, ConcatProperties
    <2>. QED
      BY <2>1, <2>2
  <1>. HIDE DEF b
  <1>7. ASSUME NEW i \in 1 .. Len(a) PROVE a[i] = b[i]
    <2>1. i \in 1 .. Len(s) + Len(t)
      BY <1>2, <1>5
    <2>2. CASE i <= Len(s)
      BY <1>1, <1>2, <1>5, <1>6, <2>1, <2>2
    <2>3. CASE i > Len(s)
      <3>1. i - Len(s) \in 1 .. Len(t)
        BY <1>1, <2>1, <2>3
      <3>2. b[i] = u[i - Len(s)] /\ st[i] = t[i - Len(s)]
        BY <1>1, <1>2, <1>6, <2>1, <2>3
      <3>3. i = Len(st) <=> i - Len(s) = Len(t)
        BY <1>1, <1>2, <2>1
      <3>. QED
        BY <1>2, <1>4, <1>5, <2>1, <3>1, <3>2, <3>3
    <2>. QED
      BY <1>1, <2>1, <2>2, <2>3
  <1>8. a = b
    BY <1>2, <1>5, <1>6, <1>7, SeqEqual
  <1>. QED
    BY <1>8 DEF a, b, u, st, Changed, ChangedBehind

\* One turn of LinesUpTo behind other lines.
NextBehind(u, l, t, n, st, p) ==
  NextLines(st, p, u \o l) = u \o NextLines(t, n, l)

LEMMA NextConcat ==
  ASSUME NEW u \in Seq(Texts), NEW l \in Seq(Texts),
         NEW t \in Seq(Nat), NEW n \in 1 .. Len(t),
         NEW st \in Seq(Nat), NEW p \in 1 .. Len(st), st[p] = t[n],
         (p = 1 \/ st[p - 1] = Newline) <=> (n = 1 \/ t[n - 1] = Newline),
         t[n] # Newline /\ ~(n = 1 \/ t[n - 1] = Newline) => l # <<>>
  PROVE  NextBehind(u, l, t, n, st, p)
  <1>1. CASE t[n] = Newline
    BY <1>1 DEF NextLines, NextBehind
  <1>2. CASE t[n] # Newline /\ (n = 1 \/ t[n - 1] = Newline)
    <2>1. /\ NextLines(st, p, u \o l) = Added(u \o l, <<t[n]>>)
          /\ NextLines(t, n, l) = Added(l, <<t[n]>>)
      BY <1>2 DEF NextLines, Added
    <2>. DEFINE line == <<t[n]>>
    <2>2. line \in Texts
      <3>1. t[n] \in Nat
        BY ElementOfSeq
      <3>. QED
        BY <3>1 DEF Texts
    <2>. HIDE DEF line
    <2>3. AddedBehind(u, l, line)
      BY <2>2, ConcatAdded
    <2>. QED
      BY <2>1, <2>3 DEF line, AddedBehind, NextBehind
  <1>3. CASE t[n] # Newline /\ ~(n = 1 \/ t[n - 1] = Newline)
    <2>. DEFINE x == Append(l[Len(l)], t[n])
    <2>1. Len(u) \in Nat /\ Len(l) \in Nat \ {0} /\ t[n] \in Nat
      BY <1>3, EmptySeq, LenProperties, ElementOfSeq
    <2>2. l[Len(l)] \in Texts
      <3>1. Len(l) \in 1 .. Len(l)
        BY <2>1
      <3>. QED
        BY <3>1, ElementOfSeq
    <2>3. x \in Texts
      BY <2>1, <2>2, AppendProperties DEF Texts
    <2>4. NextLines(t, n, l) = Changed(l, x)
      BY <1>3 DEF NextLines, Changed
    <2>. HIDE DEF x
    <2>5. NextLines(st, p, u \o l) = Changed(u \o l, x)
      <3>. DEFINE both == u \o l
                  k == Len(u) + Len(l)
      <3>1. /\ Len(both) = k
            /\ \A i \in 1 .. k :
                 both[i] = IF i <= Len(u) THEN u[i] ELSE l[i - Len(u)]
        BY ConcatProperties
      <3>2. k \in 1 .. k /\ ~(k <= Len(u)) /\ k - Len(u) = Len(l)
        BY SMTT(30), <2>1
      <3>. HIDE DEF both, k
      <3>3. both[Len(both)] = l[Len(l)]
        BY <3>1, <3>2
      <3>4. NextLines(st, p, both)
              = [both EXCEPT ![Len(both)] = Append(both[Len(both)], t[n])]
        BY <1>3 DEF NextLines
      <3>5. NextLines(st, p, both) = Changed(both, x)
        BY <3>3, <3>4 DEF x, Changed
      <3>. QED
        BY <3>5 DEF both
    <2>6. l # <<>>
      BY <1>3
    <2>7. ChangedBehind(u, l, x)
      BY <2>3, <2>6, ConcatChanged
    <2>. QED
      BY <2>4, <2>5, <2>7 DEF ChangedBehind, NextBehind
  <1>. QED
    BY <1>1, <1>2, <1>3

\* The lines of two texts, the first of which ends where a line does.
LEMMA LinesConcat ==
  ASSUME NEW s \in Seq(Nat), NEW t \in Seq(Nat), Ended(s)
  PROVE  Lines(s \o t) = Lines(s) \o Lines(t)
  <1>. DEFINE st == s \o t
              m  == Len(s)
              S  == {n \in 0 .. Len(t) :
                       LinesUpTo(st)[m + n] = Lines(s) \o LinesUpTo(t)[n]}
  <1>1. m \in Nat /\ Len(t) \in Nat
    BY LenProperties
  <1>2. /\ st \in Seq(Nat) /\ Len(st) = m + Len(t)
        /\ \A i \in 1 .. m + Len(t) : st[i] = IF i <= m THEN s[i] ELSE t[i - m]
    BY ConcatProperties
  <1>. HIDE DEF st
  <1>3. Lines(s) \in Seq(Texts)
    <2>1. m \in 0 .. m
      BY <1>1
    <2>. QED
      BY <2>1, LinesType DEF Lines
  <1>4. LinesUpTo(st)[m] = Lines(s)
    <2>1. m <= Len(st) /\ m \in 0 .. m /\ \A i \in 1 .. m : st[i] = s[i]
      BY <1>1, <1>2
    <2>2. \A i \in 0 .. m : LinesUpTo(st)[i] = LinesUpTo(s)[i]
      BY <1>2, <2>1, SameLines
    <2>. QED
      BY <2>1, <2>2 DEF Lines
  <1>5. 0 \in S
    <2>1. LinesUpTo(t)[0] = <<>> /\ m + 0 = m
      BY <1>1, LinesStep
    <2>2. Lines(s) \o <<>> = Lines(s)
      BY <1>3, ConcatEmptySeq
    <2>3. LinesUpTo(st)[m + 0] = Lines(s) \o LinesUpTo(t)[0]
      BY <1>4, <2>1, <2>2
    <2>4. 0 \in 0 .. Len(t)
      BY <1>1
    <2>. QED
      BY <2>3, <2>4
  <1>6. ASSUME NEW n \in 1 .. Len(t), n - 1 \in S PROVE n \in S
    <2>. DEFINE l == LinesUpTo(t)[n - 1]
                p == m + n
    <2>1. /\ n - 1 \in 0 .. Len(t) /\ p \in 1 .. Len(st) /\ p > m
          /\ p - 1 = m + (n - 1) /\ p - m = n /\ (p = 1 <=> m = 0 /\ n = 1)
      BY <1>1, <1>2
    <2>2. LinesUpTo(t)[n] = NextLines(t, n, l)
      BY LinesStep
    <2>3. LinesUpTo(st)[p] = NextLines(st, p, Lines(s) \o l)
      <3>1. LinesUpTo(st)[p] = NextLines(st, p, LinesUpTo(st)[p - 1])
        BY <1>2, <2>1, LinesStep
      <3>2. LinesUpTo(st)[p - 1] = Lines(s) \o l
        BY <1>6, <2>1
      <3>. QED
        BY <3>1, <3>2
    <2>4. l \in Seq(Texts) /\ (n - 1 > 0 /\ t[n - 1] # Newline => l # <<>>)
      BY <2>1, LinesType
    <2>5. st[p] = t[n] /\ t[n] \in Nat
      <3>1. p \in 1 .. m + Len(t) /\ ~(p <= m) /\ p - m = n
        BY <1>1
      <3>. HIDE DEF p
      <3>2. st[p] = t[p - m]
        BY <1>2, <3>1
      <3>. QED
        BY <3>1, <3>2, ElementOfSeq
    <2>6. (p = 1 \/ st[p - 1] = Newline) <=> (n = 1 \/ t[n - 1] = Newline)
      <3>1. CASE n = 1
        <4>1. p - 1 = m /\ (m # 0 => m \in 1 .. m + Len(t))
          BY <1>1, <2>1, <3>1
        <4>2. m # 0 => st[m] = s[m]
          BY <1>1, <1>2, <4>1
        <4>3. m # 0 => s[m] = Newline
          BY EmptySeq DEF Ended
        <4>. QED
          BY <2>1, <3>1, <4>1, <4>2, <4>3
      <3>2. CASE n # 1
        <4>1. p - 1 \in 1 .. m + Len(t) /\ p - 1 > m /\ (p - 1) - m = n - 1 /\ p # 1
          BY <1>1, <3>2
        <4>2. st[p - 1] = t[n - 1]
          <5>. DEFINE q == p - 1
          <5>1. q \in 1 .. m + Len(t) /\ ~(q <= m) /\ q - m = n - 1
            BY <1>1, <4>1
          <5>. HIDE DEF q
          <5>2. st[q] = t[q - m]
            BY <1>2, <5>1
          <5>. QED
            BY <5>1, <5>2 DEF q
        <4>. QED
          BY <3>2, <4>1, <4>2
      <3>. QED
        BY <3>1, <3>2
    <2>. HIDE DEF l, p
    <2>7. NextLines(st, p, Lines(s) \o l) = Lines(s) \o NextLines(t, n, l)
      <3>1. t[n] # Newline /\ ~(n = 1 \/ t[n - 1] = Newline) => l # <<>>
        BY <2>1, <2>4
      <3>2. Lines(s) \in Seq(Texts) /\ l \in Seq(Texts)
        BY <1>3, <2>4
      <3>3. st \in Seq(Nat) /\ p \in 1 .. Len(st) /\ st[p] = t[n]
        BY <1>2, <2>1, <2>5
      <3>4. NextBehind(Lines(s), l, t, n, st, p)
        BY <2>6, <3>1, <3>2, <3>3, NextConcat
      <3>. QED
        BY <3>4 DEF NextBehind
    <2>8. LinesUpTo(st)[p] = Lines(s) \o LinesUpTo(t)[n]
      BY <2>2, <2>3, <2>7
    <2>. QED
      BY <1>1, <2>8 DEF p
  <1>. HIDE DEF S
  <1>7. \A n \in 1 .. Len(t) : n - 1 \in S => n \in S
    BY <1>6
  <1>8. \A n \in 0 .. Len(t) : n \in S
    BY <1>1, <1>5, <1>7, UpTo
  <1>9. LinesUpTo(st)[m + Len(t)] = Lines(s) \o LinesUpTo(t)[Len(t)]
    BY <1>1, <1>8 DEF S
  <1>10. Lines(st) = Lines(s) \o Lines(t)
    BY <1>2, <1>9 DEF Lines
  <1>. QED
    BY <1>10 DEF st

\* A newline at the end adds no line.
LEMMA NewlineEnds ==
  ASSUME NEW s \in Seq(Nat)
  PROVE  /\ s \o <<Newline>> \in Seq(Nat) /\ Ended(s \o <<Newline>>)
         /\ Lines(s \o <<Newline>>) = Lines(s)
  <1>. DEFINE e == <<Newline>>
              t == s \o e
              m == Len(s)
  <1>1. m \in Nat /\ e \in Seq(Nat) /\ Len(e) = 1 /\ e[1] = Newline
    BY LenProperties DEF Newline
  <1>. HIDE DEF e
  <1>2. /\ t \in Seq(Nat) /\ Len(t) = m + Len(e)
        /\ \A i \in 1 .. m + Len(e) : t[i] = IF i <= m THEN s[i] ELSE e[i - m]
    BY <1>1, ConcatProperties
  <1>. HIDE DEF t
  <1>3. Len(t) = m + 1 /\ t[m + 1] = Newline /\ \A i \in 1 .. m : t[i] = s[i]
    <2>1. /\ m + 1 \in 1 .. m + Len(e) /\ ~(m + 1 <= m) /\ (m + 1) - m = 1
          /\ \A i \in 1 .. m : i \in 1 .. m + Len(e) /\ i <= m
      BY <1>1
    <2>. QED
      BY <1>1, <1>2, <2>1
  <1>4. Ended(t)
    BY <1>3 DEF Ended
  <1>5. Lines(t) = Lines(s)
    <2>1. m + 1 \in 1 .. Len(t) /\ (m + 1) - 1 = m /\ m <= Len(t) /\ m \in 0 .. m
      BY <1>1, <1>3
    <2>2. LinesUpTo(t)[m + 1] = NextLines(t, m + 1, LinesUpTo(t)[(m + 1) - 1])
      BY <1>2, <2>1, LinesStep
    <2>3. LinesUpTo(t)[m + 1] = LinesUpTo(t)[m]
      BY <1>3, <2>1, <2>2 DEF NextLines
    <2>4. \A i \in 0 .. m : LinesUpTo(t)[i] = LinesUpTo(s)[i]
      BY <1>2, <1>3, <2>1, SameLines
    <2>. QED
      BY <1>3, <2>1, <2>3, <2>4 DEF Lines
  <1>. QED
    BY <1>2, <1>4, <1>5 DEF t, e

\* A text without a newline is one line.
LEMMA OneLine ==
  ASSUME NEW t \in Seq(Nat), \A i \in 1 .. Len(t) : t[i] # Newline, t # <<>>
  PROVE  Lines(t) = <<t>>
  <1>. DEFINE S == {n \in 0 .. Len(t) : n = 0 \/ LinesUpTo(t)[n] = <<SubSeq(t, 1, n)>>}
  <1>1. Len(t) \in Nat \ {0}
    BY EmptySeq
  <1>2. 0 \in S
    BY <1>1
  <1>3. ASSUME NEW n \in 1 .. Len(t), n - 1 \in S PROVE n \in S
    <2>1. LinesUpTo(t)[n] = NextLines(t, n, LinesUpTo(t)[n - 1])
      BY LinesStep
    <2>2. /\ t[n] # Newline /\ t[n] \in Nat /\ (n # 1 => t[n - 1] # Newline)
          /\ n - 1 \in 0 .. Len(t) /\ 1 \in 1 .. Len(t) /\ n \in 1 .. Len(t)
      <3>1. n # 1 => n - 1 \in 1 .. Len(t)
        BY <1>1
      <3>2. n - 1 \in 0 .. Len(t) /\ 1 \in 1 .. Len(t) /\ n \in 1 .. Len(t)
        BY <1>1
      <3>3. t[n] # Newline /\ t[n] \in Nat
        BY ElementOfSeq
      <3>. QED
        BY <3>1, <3>2, <3>3
    <2>3. SubSeq(t, 1, n) = SubSeq(t, 1, n - 1) \o <<t[n]>>
      BY <2>2, SubSeqRecursiveSecond
    <2>4. SubSeq(t, 1, n - 1) \in Seq(Nat)
      BY <2>2, First
    <2>5. CASE n = 1
      <3>1. LinesUpTo(t)[n - 1] = <<>>
        BY <2>5, LinesStep
      <3>2. SubSeq(t, 1, n - 1) = <<>>
        BY <2>5, SubSeqEmpty
      <3>3. SubSeq(t, 1, n) = <<t[n]>>
        <4>1. <<t[n]>> \in Seq(Nat)
          BY <2>2
        <4>. QED
          BY <2>3, <3>2, <4>1, ConcatEmptySeq
      <3>4. LinesUpTo(t)[n] = Append(<<>>, <<t[n]>>)
        BY <2>1, <2>2, <2>5, <3>1 DEF NextLines
      <3>5. LinesUpTo(t)[n] = <<SubSeq(t, 1, n)>>
        BY <3>3, <3>4
      <3>. QED
        BY <2>2, <3>5
    <2>6. CASE n # 1
      <3>. DEFINE x == SubSeq(t, 1, n - 1)
      <3>1. LinesUpTo(t)[n - 1] = <<x>>
        BY <1>3, <2>2, <2>6
      <3>2. NextLines(t, n, <<x>>) = [<<x>> EXCEPT ![1] = Append(x, t[n])]
        <4>. HIDE DEF x
        <4>1. Len(<<x>>) = 1 /\ <<x>>[1] = x
          OBVIOUS
        <4>. QED
          BY <2>2, <2>6, <4>1 DEF NextLines
      <3>3. Append(x, t[n]) = SubSeq(t, 1, n)
        BY <2>2, <2>3, <2>4, AppendIsConcat
      <3>. HIDE DEF x
      <3>4. [<<x>> EXCEPT ![1] = Append(x, t[n])] = <<Append(x, t[n])>>
        OBVIOUS
      <3>5. LinesUpTo(t)[n] = <<SubSeq(t, 1, n)>>
        BY <2>1, <3>1, <3>2, <3>3, <3>4
      <3>. QED
        BY <2>2, <3>5
    <2>. QED
      BY <2>5, <2>6
  <1>. HIDE DEF S
  <1>4. \A n \in 1 .. Len(t) : n - 1 \in S => n \in S
    BY <1>3
  <1>5. \A n \in 0 .. Len(t) : n \in S
    BY <1>1, <1>2, <1>4, UpTo
  <1>6. LinesUpTo(t)[Len(t)] = <<SubSeq(t, 1, Len(t))>>
    BY <1>1, <1>5 DEF S
  <1>. QED
    BY <1>6, SubSeqFull DEF Lines

\* An empty text has no lines.
LEMMA NoLines == Lines(<<>>) = <<>> /\ Ended(<<>>)
  <1>1. <<>> \in Seq(Nat) /\ Len(<<>>) = 0
    BY EmptySeq
  <1>. QED
    BY <1>1, LinesStep DEF Lines, Ended

-----------------------------------------------------------------------------
(* Checkpoints: lines cut off *)

\* CutOff, line by line.
Torn(part, whole) ==
  /\ Len(part) <= Len(whole)
  /\ \A i \in 1 .. Len(part) :
       IF i < Len(part) THEN part[i] = whole[i] ELSE IsPrefix(part[i], whole[i])

LEMMA CutOffIs ==
  ASSUME NEW S, NEW part \in Seq(S), NEW whole \in Seq(S)
  PROVE  CutOff(part, whole) <=> Torn(part, whole)
  <1>. DEFINE n == Len(part)
  <1>1. n \in Nat /\ Len(whole) \in Nat
    BY LenProperties
  <1>2. CASE n = 0
    BY <1>1, <1>2 DEF CutOff, Torn
  <1>3. CASE n # 0 /\ ~(n <= Len(whole))
    BY <1>3 DEF CutOff, Torn
  <1>4. CASE n # 0 /\ n <= Len(whole)
    <2>. DEFINE p == SubSeq(part, 1, n - 1)
                w == SubSeq(whole, 1, n - 1)
    <2>1. n - 1 \in 0 .. Len(part) /\ n - 1 \in 0 .. Len(whole)
      BY <1>1, <1>4
    <2>2. /\ p \in Seq(S) /\ Len(p) = n - 1 /\ \A i \in 1 .. n - 1 : p[i] = part[i]
          /\ w \in Seq(S) /\ Len(w) = n - 1 /\ \A i \in 1 .. n - 1 : w[i] = whole[i]
      BY <2>1, First
    <2>3. p = w <=> \A i \in 1 .. n - 1 : part[i] = whole[i]
      <3>. HIDE DEF p, w, n
      <3>1. p = w => \A i \in 1 .. n - 1 : part[i] = whole[i]
        BY <2>2
      <3>2. (\A i \in 1 .. n - 1 : part[i] = whole[i]) => p = w
        BY <2>2, SeqEqual
      <3>. QED
        BY <3>1, <3>2
    <2>4. CutOff(part, whole) <=> p = w /\ IsPrefix(part[n], whole[n])
      BY <1>4 DEF CutOff
    <2>5. /\ n \in 1 .. n
          /\ \A i \in 1 .. n : i < n <=> i \in 1 .. n - 1
          /\ \A i \in 1 .. n - 1 : i \in 1 .. n
          /\ \A i \in 1 .. n : ~(i < n) <=> i = n
      BY <1>1, <1>4
    <2>. HIDE DEF p, w
    <2>6. Torn(part, whole) <=>
            /\ \A i \in 1 .. n - 1 : part[i] = whole[i]
            /\ IsPrefix(part[n], whole[n])
      BY <1>4, <2>5, Zenon DEF Torn
    <2>. QED
      BY <2>3, <2>4, <2>6
  <1>. QED
    BY <1>2, <1>3, <1>4

\* What is cut off of something that is cut off.
LEMMA TornTwice ==
  ASSUME NEW p \in Seq(Texts), NEW q \in Seq(Texts), NEW w \in Seq(Texts),
         Torn(p, q), Torn(q, w)
  PROVE  Torn(p, w)
  <1>1. Len(p) \in Nat /\ Len(q) \in Nat /\ Len(w) \in Nat
    BY LenProperties
  <1>2. Len(p) <= Len(q) /\ Len(q) <= Len(w) /\ Len(p) <= Len(w)
    BY <1>1 DEF Torn
  <1>3. ASSUME NEW i \in 1 .. Len(p)
        PROVE  IF i < Len(p) THEN p[i] = w[i] ELSE IsPrefix(p[i], w[i])
    <2>1. i \in 1 .. Len(q) /\ i \in 1 .. Len(w)
      BY <1>1, <1>2
    <2>2. CASE i < Len(p)
      <3>1. i < Len(q)
        BY <1>1, <1>2, <2>2
      <3>. QED
        BY <2>1, <2>2, <3>1 DEF Torn
    <2>3. CASE ~(i < Len(p))
      <3>1. IsPrefix(p[i], q[i])
        BY <2>3 DEF Torn
      <3>2. CASE i < Len(q)
        BY <2>1, <2>3, <3>1, <3>2 DEF Torn
      <3>3. CASE ~(i < Len(q))
        <4>1. IsPrefix(q[i], w[i])
          BY <2>1, <3>3 DEF Torn
        <4>2. p[i] \in Seq(Nat) /\ q[i] \in Seq(Nat) /\ w[i] \in Seq(Nat)
          BY <2>1, ElementOfSeq DEF Texts
        <4>3. IsPrefix(p[i], w[i])
          <5>1. /\ Len(p[i]) \in Nat /\ Len(q[i]) \in Nat /\ Len(w[i]) \in Nat
            BY <4>2, LenProperties
          <5>2. /\ Len(p[i]) <= Len(q[i])
                /\ \A k \in 1 .. Len(p[i]) : p[i][k] = q[i][k]
            BY <3>1, <4>2, PrefixIs
          <5>3. /\ Len(q[i]) <= Len(w[i])
                /\ \A k \in 1 .. Len(q[i]) : q[i][k] = w[i][k]
            BY <4>1, <4>2, PrefixIs
          <5>4. /\ Len(p[i]) <= Len(w[i])
                /\ \A k \in 1 .. Len(p[i]) : p[i][k] = w[i][k]
            BY <5>1, <5>2, <5>3
          <5>. QED
            BY <4>2, <5>4, PrefixIs
        <4>. QED
          BY <2>3, <4>3
      <3>. QED
        BY <3>2, <3>3
    <2>. QED
      BY <2>2, <2>3
  <1>. QED
    BY <1>2, <1>3 DEF Torn

\* A sequence at the beginning of another is one cut off between two lines.
LEMMA TornBetween ==
  ASSUME NEW p \in Seq(Texts), NEW w \in Seq(Texts),
         Len(p) <= Len(w), \A i \in 1 .. Len(p) : p[i] = w[i]
  PROVE  Torn(p, w)
  <1>1. Len(p) \in Nat /\ Len(w) \in Nat
    BY LenProperties
  <1>2. ASSUME NEW i \in 1 .. Len(p) PROVE IsPrefix(p[i], w[i])
    <2>1. p[i] = w[i] /\ p[i] \in Seq(Nat)
      BY ElementOfSeq DEF Texts
    <2>2. Len(p[i]) \in Nat
      BY <2>1, LenProperties
    <2>3. Len(p[i]) <= Len(w[i]) /\ \A k \in 1 .. Len(p[i]) : p[i][k] = w[i][k]
      BY <2>1, <2>2
    <2>. QED
      BY <2>1, <2>3, PrefixIs
  <1>. QED
    BY <1>2 DEF Torn

\* The lines so far are those up to the next byte, cut off.
LEMMA TornNext ==
  ASSUME NEW t \in Seq(Nat), NEW n \in 1 .. Len(t)
  PROVE  Torn(LinesUpTo(t)[n - 1], LinesUpTo(t)[n])
  <1>. DEFINE l == LinesUpTo(t)[n - 1]
              m == Len(l)
              next == LinesUpTo(t)[n]
  <1>1. n - 1 \in 0 .. Len(t) /\ n \in 0 .. Len(t)
    BY LenProperties
  <1>2. /\ l \in Seq(Texts) /\ next \in Seq(Texts)
        /\ n - 1 > 0 /\ t[n - 1] # Newline => l # <<>>
    BY <1>1, LinesType
  <1>3. next = NextLines(t, n, l) /\ t[n] \in Nat
    BY LinesStep, ElementOfSeq
  <1>. HIDE DEF l, next
  <1>4. m \in Nat
    BY <1>2, LenProperties
  <1>5. CASE t[n] = Newline
    <2>1. next = l
      BY <1>3, <1>5 DEF NextLines
    <2>2. Len(l) <= Len(next) /\ \A i \in 1 .. Len(l) : l[i] = next[i]
      BY <1>4, <2>1
    <2>. QED
      BY <1>2, <2>2, TornBetween DEF l, next
  <1>6. CASE t[n] # Newline /\ (n = 1 \/ t[n - 1] = Newline)
    <2>. DEFINE line == <<t[n]>>
    <2>1. line \in Texts
      BY <1>3 DEF Texts
    <2>2. next = Append(l, line)
      BY <1>3, <1>6 DEF NextLines
    <2>. HIDE DEF line
    <2>3. Len(next) = m + 1 /\ \A i \in 1 .. m : next[i] = l[i]
      BY <1>2, <2>1, <2>2, AppendProperties
    <2>4. Len(l) <= Len(next) /\ \A i \in 1 .. Len(l) : l[i] = next[i]
      BY <1>4, <2>3
    <2>. QED
      BY <1>2, <2>4, TornBetween DEF l, next
  <1>7. CASE t[n] # Newline /\ ~(n = 1 \/ t[n - 1] = Newline)
    <2>. DEFINE last == l[m]
                line == Append(last, t[n])
    <2>1. next = [l EXCEPT ![m] = line]
      BY <1>3, <1>7 DEF NextLines
    <2>2. m \in 1 .. m
      <3>1. l # <<>>
        BY <1>1, <1>2, <1>7
      <3>. QED
        BY <1>2, <3>1, EmptySeq
    <2>3. last \in Seq(Nat)
      BY <1>2, <2>2, ElementOfSeq DEF Texts
    <2>. HIDE DEF last
    <2>4. /\ line \in Seq(Nat) /\ Len(line) = Len(last) + 1
          /\ \A k \in 1 .. Len(last) : line[k] = last[k]
      BY <1>3, <2>3, AppendProperties
    <2>. HIDE DEF line
    <2>5. Len(last) \in Nat
      BY <2>3, LenProperties
    <2>6. IsPrefix(last, line)
      <3>1. Len(last) <= Len(line) /\ \A k \in 1 .. Len(last) : last[k] = line[k]
        BY <2>4, <2>5
      <3>. QED
        BY <2>3, <2>4, <3>1, PrefixIs
    <2>7. line \in Texts
      BY <2>4 DEF Texts
    <2>8. /\ Len(next) = m
          /\ \A j \in 1 .. m : next[j] = IF j = m THEN line ELSE l[j]
      BY <1>2, <2>1, <2>2, <2>7, ExceptSeq
    <2>9. ASSUME NEW i \in 1 .. Len(l)
          PROVE  IF i < Len(l) THEN l[i] = next[i] ELSE IsPrefix(l[i], next[i])
      <3>1. CASE i < m
        BY <1>4, <2>8, <3>1
      <3>2. CASE ~(i < m)
        <4>1. i = m
          BY <1>4, <3>2
        <4>2. l[i] = last /\ next[i] = line
          BY <2>2, <2>8, <4>1 DEF last
        <4>. QED
          BY <2>6, <3>2, <4>2
      <3>. QED
        BY <3>1, <3>2
    <2>10. Torn(l, next)
      BY <1>4, <2>8, <2>9 DEF Torn
    <2>. QED
      BY <2>10 DEF l, next
  <1>. QED
    BY <1>5, <1>6, <1>7

\* The lines of a text that is cut off are its lines, cut off.
LEMMA TornLines ==
  ASSUME NEW t \in Seq(Nat), NEW n \in 0 .. Len(t)
  PROVE  Torn(LinesUpTo(t)[n], Lines(t))
  <1>. DEFINE S == {m \in 0 .. Len(t) :
                      n <= m => Torn(LinesUpTo(t)[n], LinesUpTo(t)[m])}
  <1>1. Len(t) \in Nat /\ n \in Nat
    BY LenProperties
  <1>2. Torn(LinesUpTo(t)[n], LinesUpTo(t)[n])
    <2>. DEFINE l == LinesUpTo(t)[n]
    <2>1. l \in Seq(Texts)
      BY LinesType
    <2>. HIDE DEF l
    <2>2. Len(l) <= Len(l)
      BY <2>1, LenProperties
    <2>3. Torn(l, l)
      BY <2>1, <2>2, TornBetween
    <2>. QED
      BY <2>3 DEF l
  <1>3. 0 \in S
    <2>1. n <= 0 => n = 0
      BY <1>1
    <2>2. 0 \in 0 .. Len(t)
      BY <1>1
    <2>. QED
      BY <1>2, <2>1, <2>2
  <1>4. ASSUME NEW m \in 1 .. Len(t), m - 1 \in S PROVE m \in S
    <2>1. m \in 0 .. Len(t) /\ m - 1 \in 0 .. Len(t)
      BY <1>1
    <2>2. CASE n <= m - 1
      <3>1. Torn(LinesUpTo(t)[n], LinesUpTo(t)[m - 1])
        BY <1>4, <2>2
      <3>2. Torn(LinesUpTo(t)[m - 1], LinesUpTo(t)[m])
        BY TornNext
      <3>3. /\ LinesUpTo(t)[n] \in Seq(Texts) /\ LinesUpTo(t)[m - 1] \in Seq(Texts)
            /\ LinesUpTo(t)[m] \in Seq(Texts)
        BY <2>1, LinesType
      <3>4. Torn(LinesUpTo(t)[n], LinesUpTo(t)[m])
        BY <3>1, <3>2, <3>3, TornTwice
      <3>. QED
        BY <2>1, <3>4
    <2>3. CASE ~(n <= m - 1)
      <3>1. n <= m => n = m
        BY <1>1, <2>1, <2>3
      <3>. QED
        BY <1>2, <2>1, <3>1
    <2>. QED
      BY <2>2, <2>3
  <1>. HIDE DEF S
  <1>5. \A m \in 1 .. Len(t) : m - 1 \in S => m \in S
    BY <1>4
  <1>6. \A m \in 0 .. Len(t) : m \in S
    BY <1>1, <1>3, <1>5, UpTo
  <1>7. Len(t) \in S /\ n <= Len(t)
    BY <1>1, <1>6
  <1>. QED
    BY <1>7 DEF S, Lines

-----------------------------------------------------------------------------
(* Checkpoints: what is printed, and what that brings back *)

\* The concatenations FlattenSeq goes through.
Flattened(seqs) ==
  CHOOSE f : f = [i \in 1 .. Len(seqs) |->
                    IF i = 1 THEN seqs[i] ELSE f[i - 1] \o seqs[i]]

LEMMA FlattenedLast ==
  ASSUME NEW seqs
  PROVE  /\ Len(seqs) = 0 => FlattenSeq(seqs) = seqs
         /\ Len(seqs) # 0 => FlattenSeq(seqs) = Flattened(seqs)[Len(seqs)]
  <1>1. Len(seqs) = 0 => FlattenSeq(seqs) = seqs
    BY DEF FlattenSeq
  <1>2. Len(seqs) # 0 => FlattenSeq(seqs) = Flattened(seqs)[Len(seqs)]
    BY DEF FlattenSeq, Flattened
  <1>. QED
    BY <1>1, <1>2

LEMMA FlattenedStep ==
  ASSUME NEW T, NEW seqs \in Seq(T)
  PROVE  \A i \in 1 .. Len(seqs) :
           Flattened(seqs)[i] =
             IF i = 1 THEN seqs[i] ELSE Flattened(seqs)[i - 1] \o seqs[i]
  <1>. DEFINE Is(f, n) ==
                f = [i \in 1 .. n |-> IF i = 1 THEN seqs[i] ELSE f[i - 1] \o seqs[i]]
              S == {n \in 0 .. Len(seqs) : \E f : Is(f, n)}
  <1>1. Len(seqs) \in Nat
    BY LenProperties
  <1>2. 0 \in S
    <2>. DEFINE f == [i \in 1 .. 0 |-> seqs[i]]
    <2>1. Is(f, 0)
      OBVIOUS
    <2>. HIDE DEF Is
    <2>. QED
      BY <1>1, <2>1
  <1>3. ASSUME NEW n \in 1 .. Len(seqs), n - 1 \in S PROVE n \in S
    <2>1. PICK f : Is(f, n - 1)
      BY <1>3
    <2>. DEFINE Next1(h, k) == IF k = 1 THEN seqs[k] ELSE h[k - 1] \o seqs[k]
                g == [k \in 1 .. n |-> IF k < n THEN f[k] ELSE Next1(f, k)]
    <2>2. ASSUME NEW k \in 1 .. n PROVE g[k] = Next1(g, k)
      <3>1. k # 1 => k - 1 \in 1 .. n /\ k - 1 < n
        BY <1>1
      <3>2. k # 1 => g[k - 1] = f[k - 1]
        BY <3>1
      <3>3. Next1(g, k) = Next1(f, k)
        <4>. HIDE DEF g
        <4>. QED
          BY <3>2
      <3>4. CASE k < n
        <4>1. k \in 1 .. n - 1
          BY <1>1, <3>4
        <4>2. f[k] = Next1(f, k)
          BY <2>1, <4>1
        <4>3. g[k] = f[k]
          BY <3>4
        <4>. HIDE DEF g, Next1
        <4>. QED
          BY <3>3, <4>2, <4>3
      <3>5. CASE k = n
        <4>1. g[k] = Next1(f, k)
          BY <1>1, <3>5
        <4>. HIDE DEF g, Next1
        <4>. QED
          BY <3>3, <4>1
      <3>. QED
        BY <1>1, <3>4, <3>5
    <2>3. Is(g, n)
      <3>1. g = [k \in 1 .. n |-> g[k]]
        OBVIOUS
      <3>. HIDE DEF g
      <3>. QED
        BY <2>2, <3>1
    <2>. HIDE DEF Is, g
    <2>. QED
      BY <2>3
  <1>4. Len(seqs) \in S
    <2>. HIDE DEF S
    <2>1. \A n \in 1 .. Len(seqs) : n - 1 \in S => n \in S
      BY <1>3
    <2>2. \A n \in 0 .. Len(seqs) : n \in S
      BY <1>1, <1>2, <2>1, UpTo
    <2>. QED
      BY <1>1, <2>2
  <1>5. Flattened(seqs) = CHOOSE f : Is(f, Len(seqs))
    BY DEF Flattened
  <1>6. Is(Flattened(seqs), Len(seqs))
    <2>. HIDE DEF Is
    <2>. QED
      BY <1>4, <1>5
  <1>. HIDE DEF S
  <1>. DEFINE f == Flattened(seqs)
  <1>7. Is(f, Len(seqs))
    BY <1>6
  <1>. HIDE DEF f
  <1>8. \A i \in 1 .. Len(seqs) : f[i] = IF i = 1 THEN seqs[i] ELSE f[i - 1] \o seqs[i]
    BY <1>7, Zenon
  <1>. QED
    BY <1>8 DEF f

\* One more sequence.
FlattenedBehind(seqs, x) == FlattenSeq(Append(seqs, x)) = FlattenSeq(seqs) \o x

LEMMA FlattenAppend ==
  ASSUME NEW S, NEW T \in SUBSET Seq(S), NEW seqs \in Seq(T), NEW x \in T
  PROVE  FlattenedBehind(seqs, x)
  <1>. DEFINE t == Append(seqs, x)
              n == Len(seqs)
              P == {i \in 0 .. n : i = 0 \/ Flattened(t)[i] = Flattened(seqs)[i]}
  <1>1. n \in Nat
    BY LenProperties
  <1>2. /\ t \in Seq(T) /\ Len(t) = n + 1
        /\ \A i \in 1 .. n : t[i] = seqs[i]
        /\ t[n + 1] = x
    BY AppendProperties
  <1>. HIDE DEF t
  <1>3. n # 0 => Flattened(t)[n] = Flattened(seqs)[n]
    <2>1. 0 \in P
      BY <1>1
    <2>2. ASSUME NEW i \in 1 .. n, i - 1 \in P PROVE i \in P
      <3>1. i \in 1 .. Len(t) /\ i \in 0 .. n /\ t[i] = seqs[i]
        BY <1>1, <1>2
      <3>2. Flattened(t)[i] = IF i = 1 THEN t[i] ELSE Flattened(t)[i - 1] \o t[i]
        BY <1>2, <3>1, FlattenedStep
      <3>3. Flattened(seqs)[i] =
              IF i = 1 THEN seqs[i] ELSE Flattened(seqs)[i - 1] \o seqs[i]
        BY FlattenedStep
      <3>4. i # 1 => Flattened(t)[i - 1] = Flattened(seqs)[i - 1]
        BY <2>2
      <3>5. Flattened(t)[i] = Flattened(seqs)[i]
        BY <3>1, <3>2, <3>3, <3>4
      <3>. QED
        BY <3>1, <3>5
    <2>. HIDE DEF P
    <2>3. \A i \in 1 .. n : i - 1 \in P => i \in P
      BY <2>2
    <2>4. \A i \in 0 .. n : i \in P
      BY <1>1, <2>1, <2>3, UpTo
    <2>. QED
      BY <1>1, <2>4 DEF P
  <1>4. n + 1 \in 1 .. Len(t) /\ (n + 1) - 1 = n /\ (n + 1 = 1 <=> n = 0)
    BY <1>1, <1>2
  <1>5. FlattenSeq(t) = Flattened(t)[n + 1]
    BY <1>1, <1>2, FlattenedLast
  <1>6. Flattened(t)[n + 1] =
          IF n + 1 = 1 THEN t[n + 1] ELSE Flattened(t)[(n + 1) - 1] \o t[n + 1]
    BY <1>2, <1>4, FlattenedStep
  <1>7. CASE n = 0
    <2>1. FlattenSeq(seqs) = <<>>
      BY <1>7, FlattenedLast, EmptySeq
    <2>2. <<>> \o x = x
      BY ConcatEmptySeq
    <2>3. FlattenSeq(t) = x
      BY <1>2, <1>4, <1>5, <1>6, <1>7
    <2>. QED
      BY <2>1, <2>2, <2>3 DEF FlattenedBehind, t
  <1>8. CASE n # 0
    <2>1. FlattenSeq(seqs) = Flattened(seqs)[n]
      BY <1>8, FlattenedLast
    <2>2. FlattenSeq(t) = Flattened(seqs)[n] \o x
      BY <1>2, <1>3, <1>4, <1>5, <1>6, <1>8
    <2>. QED
      BY <2>1, <2>2 DEF FlattenedBehind, t
  <1>. QED
    BY <1>7, <1>8

\* What a C string shows of an item is the beginning of it.
LEMMA TextIs ==
  ASSUME NEW item \in Seq(Nat)
  PROVE  /\ Text(item) \in Seq(Nat)
         /\ \E n \in 0 .. Len(item) : Text(item) = SubSeq(item, 1, n)
  <1>1. Len(item) \in Nat /\ Find(item, NUL) \in 1 .. Len(item) + 1
    BY LenProperties, FindFirst
  <1>2. Find(item, NUL) - 1 \in 0 .. Len(item)
    BY <1>1
  <1>. QED
    BY <1>2, First DEF Text

\* The lines of the last items, the last one first; and what is printed of them.
Listing(items, n) ==
  [k \in 1 .. n |-> Lines(Text(items[Len(items) + 1 - k]))]
Printing(items, n) ==
  [k \in 1 .. n |-> Printed(items[Len(items) + 1 - k])]

\* What they bring back.
Back(items, n) == FlattenSeq(Listing(items, n))

Listings == Seq(Texts)

LEMMA ListingStep ==
  ASSUME NEW items \in Seq(Texts), NEW n \in 0 .. Len(items) - 1
  PROVE  /\ Listing(items, n) \in Seq(Listings)
         /\ Printing(items, n) \in Seq(Texts)
         /\ Lines(Text(items[Len(items) - n])) \in Listings
         /\ Printed(items[Len(items) - n]) \in Texts
         /\ Listing(items, n + 1) =
              Append(Listing(items, n), Lines(Text(items[Len(items) - n])))
         /\ Printing(items, n + 1) =
              Append(Printing(items, n), Printed(items[Len(items) - n]))
  <1>. DEFINE m == Len(items)
              i(k) == m + 1 - k
  <1>1. m \in Nat /\ n \in Nat /\ n + 1 \in Nat
    BY LenProperties
  <1>2. ASSUME NEW k \in 1 .. n + 1
        PROVE  /\ Lines(Text(items[i(k)])) \in Listings
               /\ Printed(items[i(k)]) \in Texts
    <2>1. i(k) \in 1 .. m
      BY <1>1
    <2>. HIDE DEF i
    <2>2. items[i(k)] \in Seq(Nat)
      BY <2>1, ElementOfSeq DEF Texts
    <2>. DEFINE text == Text(items[i(k)])
    <2>3. text \in Seq(Nat)
      BY <2>2, TextIs
    <2>. HIDE DEF text
    <2>4. Lines(text) \in Listings
      <3>1. Len(text) \in 0 .. Len(text)
        BY <2>3, LenProperties
      <3>. QED
        BY <2>3, <3>1, LinesType DEF Lines, Listings
    <2>5. text \o <<Newline>> \in Texts
      BY <2>3, NewlineEnds DEF Texts
    <2>. QED
      BY <2>4, <2>5 DEF Printed, text
  <1>3. i(n + 1) = m - n /\ n + 1 \in 1 .. n + 1
    BY <1>1
  <1>. HIDE DEF i, m
  <1>4. /\ Listing(items, n) \in Seq(Listings) /\ Len(Listing(items, n)) = n
        /\ Listing(items, n + 1) \in Seq(Listings) /\ Len(Listing(items, n + 1)) = n + 1
        /\ \A k \in 1 .. n : Listing(items, n)[k] = Lines(Text(items[i(k)]))
        /\ \A k \in 1 .. n + 1 : Listing(items, n + 1)[k] = Lines(Text(items[i(k)]))
    <2>. DEFINE a == [k \in 1 .. n |-> Lines(Text(items[i(k)]))]
                b == [k \in 1 .. n + 1 |-> Lines(Text(items[i(k)]))]
    <2>1. a = Listing(items, n) /\ b = Listing(items, n + 1)
      BY DEF Listing, i, m
    <2>2. a \in [1 .. n -> Listings] /\ b \in [1 .. n + 1 -> Listings]
      BY <1>1, <1>2
    <2>3. /\ \A k \in 1 .. n : a[k] = Lines(Text(items[i(k)]))
          /\ \A k \in 1 .. n + 1 : b[k] = Lines(Text(items[i(k)]))
      OBVIOUS
    <2>. HIDE DEF a, b
    <2>4. a \in Seq(Listings) /\ Len(a) = n /\ b \in Seq(Listings) /\ Len(b) = n + 1
      BY <1>1, <2>2, SequenceOf
    <2>. QED
      BY <2>1, <2>3, <2>4
  <1>5. /\ Printing(items, n) \in Seq(Texts) /\ Len(Printing(items, n)) = n
        /\ Printing(items, n + 1) \in Seq(Texts) /\ Len(Printing(items, n + 1)) = n + 1
        /\ \A k \in 1 .. n : Printing(items, n)[k] = Printed(items[i(k)])
        /\ \A k \in 1 .. n + 1 : Printing(items, n + 1)[k] = Printed(items[i(k)])
    <2>. DEFINE a == [k \in 1 .. n |-> Printed(items[i(k)])]
                b == [k \in 1 .. n + 1 |-> Printed(items[i(k)])]
    <2>1. a = Printing(items, n) /\ b = Printing(items, n + 1)
      BY DEF Printing, i, m
    <2>2. a \in [1 .. n -> Texts] /\ b \in [1 .. n + 1 -> Texts]
      BY <1>1, <1>2
    <2>3. /\ \A k \in 1 .. n : a[k] = Printed(items[i(k)])
          /\ \A k \in 1 .. n + 1 : b[k] = Printed(items[i(k)])
      OBVIOUS
    <2>. HIDE DEF a, b
    <2>4. a \in Seq(Texts) /\ Len(a) = n /\ b \in Seq(Texts) /\ Len(b) = n + 1
      BY <1>1, <2>2, SequenceOf
    <2>. QED
      BY <2>1, <2>3, <2>4
  <1>6. Lines(Text(items[m - n])) \in Listings /\ Printed(items[m - n]) \in Texts
    BY <1>2, <1>3
  <1>7. ASSUME NEW T, NEW s \in Seq(T), Len(s) = n, NEW x \in T,
               NEW t \in Seq(T), Len(t) = n + 1,
               \A k \in 1 .. n : t[k] = s[k], t[n + 1] = x
        PROVE  t = Append(s, x)
    <2>. DEFINE a == Append(s, x)
    <2>1. /\ a \in Seq(T) /\ Len(a) = n + 1 /\ a[n + 1] = x
          /\ \A k \in 1 .. n : a[k] = s[k]
      BY <1>7, AppendProperties
    <2>. HIDE DEF a
    <2>2. \A k \in 1 .. n + 1 : k \in 1 .. n \/ k = n + 1
      BY <1>1
    <2>3. \A k \in 1 .. Len(t) : t[k] = a[k]
      BY <1>7, <2>1, <2>2
    <2>4. t = a
      BY <1>7, <2>1, <2>3, SeqEqual
    <2>. QED
      BY <2>4 DEF a
  <1>8. \A k \in 1 .. n : k \in 1 .. n + 1
    BY <1>1
  <1>9. Listing(items, n + 1) = Append(Listing(items, n), Lines(Text(items[m - n])))
    <2>. DEFINE s == Listing(items, n)
                t == Listing(items, n + 1)
                x == Lines(Text(items[m - n]))
    <2>1. /\ s \in Seq(Listings) /\ Len(s) = n /\ x \in Listings
          /\ t \in Seq(Listings) /\ Len(t) = n + 1
          /\ \A k \in 1 .. n : t[k] = s[k]
      BY <1>3, <1>4, <1>6, <1>8
    <2>2. t[n + 1] = x
      BY <1>3, <1>4
    <2>. HIDE DEF s, t, x
    <2>3. t = Append(s, x)
      BY <1>7, <2>1, <2>2
    <2>. QED
      BY <2>3 DEF s, t, x
  <1>10. Printing(items, n + 1) = Append(Printing(items, n), Printed(items[m - n]))
    <2>. DEFINE s == Printing(items, n)
                t == Printing(items, n + 1)
                x == Printed(items[m - n])
    <2>1. /\ s \in Seq(Texts) /\ Len(s) = n /\ x \in Texts
          /\ t \in Seq(Texts) /\ Len(t) = n + 1
          /\ \A k \in 1 .. n : t[k] = s[k]
      BY <1>5, <1>6, <1>8
    <2>2. t[n + 1] = x
      BY <1>3, <1>5
    <2>. HIDE DEF s, t, x
    <2>3. t = Append(s, x)
      BY <1>7, <2>1, <2>2
    <2>. QED
      BY <2>3 DEF s, t, x
  <1>. QED
    BY <1>4, <1>5, <1>6, <1>9, <1>10 DEF m

\* One more item.
LEMMA BackStep ==
  ASSUME NEW items \in Seq(Texts), NEW n \in 0 .. Len(items) - 1
  PROVE  /\ Lines(Text(items[Len(items) - n])) \in Listings
         /\ Printed(items[Len(items) - n]) \in Texts
         /\ Back(items, n + 1) =
              Back(items, n) \o Lines(Text(items[Len(items) - n]))
         /\ FlattenSeq(Printing(items, n + 1)) =
              FlattenSeq(Printing(items, n)) \o Printed(items[Len(items) - n])
  <1>. DEFINE l == Lines(Text(items[Len(items) - n]))
              p == Printed(items[Len(items) - n])
  <1>1. /\ Listing(items, n) \in Seq(Listings) /\ Printing(items, n) \in Seq(Texts)
        /\ l \in Listings /\ p \in Texts
        /\ Listing(items, n + 1) = Append(Listing(items, n), l)
        /\ Printing(items, n + 1) = Append(Printing(items, n), p)
    BY ListingStep
  <1>2. Listings \in SUBSET Seq(Texts) /\ Texts \in SUBSET Seq(Nat)
    BY DEF Listings, Texts
  <1>. HIDE DEF l, p
  <1>3. FlattenedBehind(Listing(items, n), l)
    BY <1>1, <1>2, FlattenAppend
  <1>4. FlattenedBehind(Printing(items, n), p)
    BY <1>1, <1>2, FlattenAppend
  <1>. QED
    BY <1>1, <1>3, <1>4 DEF FlattenedBehind, Back, l, p

\* No item.
LEMMA BackNone ==
  ASSUME NEW items
  PROVE  Back(items, 0) = <<>> /\ FlattenSeq(Printing(items, 0)) = <<>>
  <1>. DEFINE a == [k \in 1 .. 0 |-> Lines(Text(items[Len(items) + 1 - k]))]
              b == [k \in 1 .. 0 |-> Printed(items[Len(items) + 1 - k])]
  <1>1. a \in [1 .. 0 -> Nat] /\ b \in [1 .. 0 -> Nat]
    OBVIOUS
  <1>2. a = Listing(items, 0) /\ b = Printing(items, 0)
    BY DEF Listing, Printing
  <1>. HIDE DEF a, b
  <1>3. a \in Seq(Nat) /\ Len(a) = 0 /\ b \in Seq(Nat) /\ Len(b) = 0
    BY <1>1, SequenceOf
  <1>4. a = <<>> /\ b = <<>>
    BY <1>3, EmptySeq
  <1>. QED
    BY <1>2, <1>3, <1>4, FlattenedLast DEF Back

\* What any number of items brings back is a sequence of lines.
LEMMA BackType ==
  ASSUME NEW items \in Seq(Texts), NEW n \in 0 .. Len(items)
  PROVE  Back(items, n) \in Seq(Texts)
  <1>. DEFINE S == {k \in 0 .. Len(items) : Back(items, k) \in Seq(Texts)}
  <1>1. Len(items) \in Nat
    BY LenProperties
  <1>2. 0 \in S
    <2>1. 0 \in 0 .. Len(items) /\ Back(items, 0) = <<>>
      BY <1>1, BackNone
    <2>2. <<>> \in Seq(Texts)
      BY EmptySeq
    <2>. QED
      BY <2>1, <2>2
  <1>3. ASSUME NEW k \in 1 .. Len(items), k - 1 \in S PROVE k \in S
    <2>1. k - 1 \in 0 .. Len(items) - 1 /\ (k - 1) + 1 = k /\ k \in 0 .. Len(items)
      BY <1>1
    <2>. DEFINE l == Lines(Text(items[Len(items) - (k - 1)]))
    <2>2. l \in Listings /\ Back(items, (k - 1) + 1) = Back(items, k - 1) \o l
      BY <2>1, BackStep
    <2>3. l \in Seq(Texts)
      BY <2>2 DEF Listings
    <2>. HIDE DEF l
    <2>4. Back(items, k - 1) \o l \in Seq(Texts)
      BY <1>3, <2>3, ConcatProperties
    <2>. QED
      BY <2>1, <2>2, <2>4
  <1>. HIDE DEF S
  <1>4. \A k \in 1 .. Len(items) : k - 1 \in S => k \in S
    BY <1>3
  <1>5. \A k \in 0 .. Len(items) : k \in S
    BY <1>1, <1>2, <1>4, UpTo
  <1>. QED
    BY <1>5 DEF S

\* What some of the last items bring back is what more of them do, cut off.
LEMMA BackTorn ==
  ASSUME NEW items \in Seq(Texts), NEW n \in 0 .. Len(items),
         NEW m \in n .. Len(items)
  PROVE  Torn(Back(items, n), Back(items, m))
  <1>. DEFINE S == {k \in 0 .. Len(items) :
                      n <= k => Torn(Back(items, n), Back(items, k))}
  <1>1. Len(items) \in Nat /\ n \in Nat
    BY LenProperties
  <1>2. Torn(Back(items, n), Back(items, n))
    <2>1. Back(items, n) \in Seq(Texts)
      BY BackType
    <2>2. Len(Back(items, n)) <= Len(Back(items, n))
      BY <2>1, LenProperties
    <2>. QED
      BY <2>1, <2>2, TornBetween
  <1>3. 0 \in S
    <2>1. (n <= 0 => n = 0) /\ 0 \in 0 .. Len(items)
      BY <1>1
    <2>. QED
      BY <1>2, <2>1
  <1>4. ASSUME NEW k \in 1 .. Len(items), k - 1 \in S PROVE k \in S
    <2>1. /\ k \in 0 .. Len(items) /\ k - 1 \in 0 .. Len(items) - 1
          /\ k - 1 \in 0 .. Len(items) /\ (k - 1) + 1 = k
      BY <1>1
    <2>2. CASE n <= k - 1
      <3>. DEFINE l == Lines(Text(items[Len(items) - (k - 1)]))
                  b == Back(items, k - 1)
                  c == Back(items, k)
      <3>1. /\ b \in Seq(Texts) /\ c \in Seq(Texts) /\ Back(items, n) \in Seq(Texts)
            /\ Torn(Back(items, n), b)
        BY <1>4, <2>1, <2>2, BackType
      <3>2. l \in Listings /\ Back(items, (k - 1) + 1) = b \o l
        BY <2>1, BackStep
      <3>3. l \in Seq(Texts) /\ c = b \o l
        BY <2>1, <3>2 DEF Listings
      <3>. HIDE DEF l, b, c
      <3>4. /\ Len(c) = Len(b) + Len(l) /\ Len(b) \in Nat /\ Len(l) \in Nat
            /\ \A i \in 1 .. Len(b) + Len(l) :
                 c[i] = IF i <= Len(b) THEN b[i] ELSE l[i - Len(b)]
        BY <3>1, <3>3, ConcatProperties, LenProperties
      <3>5. Len(b) <= Len(c) /\ \A i \in 1 .. Len(b) : b[i] = c[i]
        BY <3>4
      <3>6. Torn(b, c)
        BY <3>1, <3>5, TornBetween
      <3>7. Torn(Back(items, n), c)
        BY <3>1, <3>6, TornTwice
      <3>. QED
        BY <2>1, <3>7 DEF c
    <2>3. CASE ~(n <= k - 1)
      <3>1. n <= k => n = k
        BY <1>1, <2>1, <2>3
      <3>. QED
        BY <1>2, <2>1, <3>1
    <2>. QED
      BY <2>2, <2>3
  <1>. HIDE DEF S
  <1>5. \A k \in 1 .. Len(items) : k - 1 \in S => k \in S
    BY <1>4
  <1>6. \A k \in 0 .. Len(items) : k \in S
    BY <1>1, <1>3, <1>5, UpTo
  <1>7. m \in S /\ n <= m
    BY <1>1, <1>6
  <1>. QED
    BY <1>7 DEF S

\* Restored in these terms.
LEMMA RestoredIs ==
  ASSUME NEW items
  PROVE  Restored(items) = Back(items, Len(items))
  BY DEF Restored, Back, Listing

LEMMA RestoredRest ==
  ASSUME NEW items \in Seq(Texts), NEW k \in 0 .. Len(items)
  PROVE  Restored(SubSeq(items, k + 1, Len(items))) = Back(items, Len(items) - k)
  <1>. DEFINE m == Len(items)
              s == SubSeq(items, k + 1, m)
              n == m - k
  <1>1. m \in Nat /\ m \in 0 .. Len(items) /\ k \in 0 .. m /\ n \in Nat
    BY LenProperties
  <1>2. Len(s) = n /\ \A i \in 1 .. n : s[i] = items[k + i]
    BY <1>1, Slice
  <1>3. Listing(s, n) = Listing(items, n)
    <2>1. ASSUME NEW j \in 1 .. n
          PROVE  s[Len(s) + 1 - j] = items[Len(items) + 1 - j]
      <3>1. n + 1 - j \in 1 .. n /\ k + (n + 1 - j) = Len(items) + 1 - j
        BY <1>1
      <3>2. s[n + 1 - j] = items[k + (n + 1 - j)]
        BY <1>2, <3>1
      <3>. QED
        BY <1>2, <3>1, <3>2
    <2>. HIDE DEF s, n
    <2>. QED
      BY <2>1 DEF Listing
  <1>4. Restored(s) = Back(s, n)
    BY <1>2, RestoredIs
  <1>. QED
    BY <1>3, <1>4 DEF Back

-----------------------------------------------------------------------------
(* Checkpoints: items and what is left of them *)

\* Items are made of bytes.
LEMMA FragmentText ==
  /\ \A f \in Fragment : f \in Texts
  /\ \A s : s \in Seq(Fragment) => s \in Seq(Texts)
  <1>1. ASSUME NEW f \in Fragment PROVE f \in Texts
    <2>1. PICK e \in Item : \E a, b \in 1 .. Len(e) : f = SubSeq(e, a, b)
      BY DEF Fragment
    <2>2. PICK a \in 1 .. Len(e), b \in 1 .. Len(e) : f = SubSeq(e, a, b)
      BY <2>1
    <2>3. e \in Seq(Nat)
      BY QueueAssumption
    <2>4. Len(e) \in Nat
      BY <2>3, LenProperties
    <2>5. a \in Int /\ b \in Int /\ \A i \in a .. b : i \in 1 .. Len(e)
      BY <2>4
    <2>6. \A i \in a .. b : e[i] \in Nat
      BY <2>3, <2>5, ElementOfSeq
    <2>7. SubSeq(e, a, b) \in Seq(Nat)
      BY <2>5, <2>6, SubSeqProperties
    <2>. QED
      BY <2>2, <2>7 DEF Texts
  <1>2. Fragment \subseteq Texts
    BY <1>1
  <1>. QED
    BY <1>1, <1>2, SeqMonotonic

\* What is pushed is a fragment.
LEMMA ItemIsFragment ==
  ASSUME NEW e \in Item, e # <<>>
  PROVE  e \in Fragment
  <1>1. e \in Seq(Nat)
    BY QueueAssumption
  <1>2. Len(e) \in Nat \ {0} /\ SubSeq(e, 1, Len(e)) = e
    BY <1>1, EmptySeq, SubSeqFull
  <1>3. 1 \in 1 .. Len(e) /\ Len(e) \in 1 .. Len(e)
    BY <1>2
  <1>4. e \in {SubSeq(e, a, b) : a, b \in 1 .. Len(e)}
    BY <1>2, <1>3
  <1>. QED
    BY <1>4 DEF Fragment

\* A part of a fragment is a fragment.
LEMMA FragmentPart ==
  ASSUME NEW f \in Fragment, NEW c \in 1 .. Len(f), NEW d \in c .. Len(f)
  PROVE  SubSeq(f, c, d) \in Fragment
  <1>1. PICK e \in Item : \E a, b \in 1 .. Len(e) : f = SubSeq(e, a, b)
    BY DEF Fragment
  <1>2. PICK a \in 1 .. Len(e), b \in 1 .. Len(e) : f = SubSeq(e, a, b)
    BY <1>1
  <1>3. e \in Seq(Nat)
    BY QueueAssumption
  <1>4. Len(e) \in Nat
    BY <1>3, LenProperties
  <1>5. \A i \in a .. b : e[i] \in Nat
    <2>1. \A i \in a .. b : i \in 1 .. Len(e)
      BY <1>4
    <2>. QED
      BY <1>3, <2>1, ElementOfSeq
  <1>6. Len(f) = IF a <= b THEN b - a + 1 ELSE 0
    <2>1. a \in Int /\ b \in Int
      BY <1>4
    <2>2. Len(SubSeq(e, a, b)) = IF a <= b THEN b - a + 1 ELSE 0
      BY <1>5, <2>1, SubSeqProperties
    <2>. QED
      BY <1>2, <2>2
  <1>7. a <= b /\ Len(f) = b - a + 1 /\ c \in 1 .. b - a + 1 /\ d \in 1 .. b - a + 1
    BY <1>4, <1>6
  <1>8. SubSeq(SubSeq(e, a, b), c, d) = SubSeq(e, a + c - 1, a + d - 1)
    BY <1>3, <1>7, SubSeqOfSubSeq
  <1>9. a + c - 1 \in 1 .. Len(e) /\ a + d - 1 \in 1 .. Len(e)
    BY <1>4, <1>7
  <1>10. SubSeq(f, c, d) \in {SubSeq(e, x, y) : x, y \in 1 .. Len(e)}
    <2>. DEFINE u == a + c - 1
                v == a + d - 1
    <2>1. SubSeq(f, c, d) = SubSeq(e, u, v) /\ u \in 1 .. Len(e) /\ v \in 1 .. Len(e)
      BY <1>2, <1>8, <1>9
    <2>. HIDE DEF u, v
    <2>. QED
      BY <2>1
  <1>. QED
    BY <1>10 DEF Fragment

\* A beginning of a fragment that is not empty is one.
LEMMA FragmentPrefix ==
  ASSUME NEW f \in Fragment, NEW p \in Texts, IsPrefix(p, f), p # <<>>
  PROVE  p \in Fragment
  <1>1. p \in Seq(Nat) /\ f \in Seq(Nat)
    BY FragmentText DEF Texts
  <1>2. Len(p) \in Nat \ {0} /\ Len(f) \in Nat
    BY <1>1, EmptySeq, LenProperties
  <1>3. Len(p) <= Len(f) /\ p = SubSeq(f, 1, Len(p))
    <2>1. SubSeq(p, 1, Len(p)) = p
      BY <1>1, SubSeqFull
    <2>. QED
      BY <2>1 DEF IsPrefix
  <1>4. 1 \in 1 .. Len(f) /\ Len(p) \in 1 .. Len(f)
    BY <1>2, <1>3
  <1>5. SubSeq(f, 1, Len(p)) \in Fragment
    BY <1>4, FragmentPart
  <1>. QED
    BY <1>3, <1>5

\* The lines of what a C string shows of a fragment are fragments.
LEMMA LinesAreFragments ==
  ASSUME NEW f \in Fragment
  PROVE  Lines(Text(f)) \in Seq(Fragment)
  <1>. DEFINE t == Text(f)
              l == Lines(t)
  <1>1. f \in Seq(Nat)
    BY FragmentText DEF Texts
  <1>2. Len(f) \in Nat
    BY <1>1, LenProperties
  <1>3. PICK n \in 0 .. Len(f) : t = SubSeq(f, 1, n)
    BY <1>1, TextIs
  <1>4. t \in Seq(Nat) /\ Len(t) = n
    BY <1>1, <1>3, First
  <1>. HIDE DEF t
  <1>5. Runs(t, n, l)
    <2>1. n \in 0 .. Len(t)
      BY <1>4
    <2>. QED
      BY <1>4, <2>1, LinesAreRuns DEF Lines
  <1>. HIDE DEF l
  <1>6. ASSUME NEW i \in 1 .. Len(l) PROVE l[i] \in Fragment
    <2>1. PICK a \in 1 .. n : \E b \in a .. n : l[i] = SubSeq(t, a, b)
      BY <1>5 DEF Runs
    <2>2. PICK b \in a .. n : l[i] = SubSeq(t, a, b)
      BY <2>1
    <2>3. /\ 1 \in 1 .. Len(f) /\ n \in 1 .. Len(f) /\ a \in 1 .. n - 1 + 1
          /\ b \in 1 .. n - 1 + 1 /\ 1 + a - 1 = a /\ 1 + b - 1 = b
      BY <1>2
    <2>4. SubSeq(SubSeq(f, 1, n), a, b) = SubSeq(f, 1 + a - 1, 1 + b - 1)
      BY <1>1, <2>3, SubSeqOfSubSeq
    <2>5. l[i] = SubSeq(f, a, b)
      BY <1>3, <2>2, <2>3, <2>4
    <2>6. a \in 1 .. Len(f) /\ b \in a .. Len(f)
      BY <1>2
    <2>. QED
      BY <2>5, <2>6, FragmentPart
  <1>7. l \in Seq(Texts)
    BY <1>5 DEF Runs
  <1>8. Len(l) \in Nat /\ l \in [1 .. Len(l) -> Texts]
    BY <1>7, LenProperties
  <1>9. l \in [1 .. Len(l) -> Fragment]
    BY <1>6, <1>8
  <1>10. l \in Seq(Fragment)
    BY <1>8, <1>9, SeqDef
  <1>. QED
    BY <1>10 DEF l, t

\* What fragments bring back is fragments.
LEMMA BackFragments ==
  ASSUME NEW items \in Seq(Fragment), NEW n \in 0 .. Len(items)
  PROVE  Back(items, n) \in Seq(Fragment)
  <1>. DEFINE S == {k \in 0 .. Len(items) : Back(items, k) \in Seq(Fragment)}
  <1>1. Len(items) \in Nat /\ items \in Seq(Texts)
    BY LenProperties, FragmentText
  <1>2. 0 \in S
    <2>1. 0 \in 0 .. Len(items) /\ Back(items, 0) = <<>>
      BY <1>1, BackNone
    <2>2. <<>> \in Seq(Fragment)
      BY EmptySeq
    <2>. QED
      BY <2>1, <2>2
  <1>3. ASSUME NEW k \in 1 .. Len(items), k - 1 \in S PROVE k \in S
    <2>1. /\ k - 1 \in 0 .. Len(items) - 1 /\ (k - 1) + 1 = k
          /\ k \in 0 .. Len(items) /\ Len(items) - (k - 1) \in 1 .. Len(items)
      BY <1>1
    <2>. DEFINE f == items[Len(items) - (k - 1)]
                l == Lines(Text(f))
    <2>2. f \in Fragment
      BY <2>1, ElementOfSeq
    <2>3. l \in Seq(Fragment)
      BY <2>2, LinesAreFragments
    <2>4. Back(items, (k - 1) + 1) = Back(items, k - 1) \o l
      BY <1>1, <2>1, BackStep
    <2>. HIDE DEF l
    <2>5. Back(items, k - 1) \o l \in Seq(Fragment)
      BY <1>3, <2>3, ConcatProperties
    <2>. QED
      BY <2>1, <2>4, <2>5
  <1>. HIDE DEF S
  <1>4. \A k \in 1 .. Len(items) : k - 1 \in S => k \in S
    BY <1>3
  <1>5. \A k \in 0 .. Len(items) : k \in S
    BY <1>1, <1>2, <1>4, UpTo
  <1>. QED
    BY <1>5 DEF S

\* What is left of fragments that are cut off is fragments.
LEMMA TornFragments ==
  ASSUME NEW p \in Seq(Texts), NEW w \in Seq(Fragment), Torn(p, w),
         NEW i \in 1 .. Len(p), p[i] # <<>>
  PROVE  p[i] \in Fragment
  <1>1. Len(p) \in Nat /\ Len(w) \in Nat
    BY LenProperties
  <1>2. i \in 1 .. Len(w) /\ p[i] \in Texts
    BY <1>1, ElementOfSeq DEF Torn
  <1>3. w[i] \in Fragment
    BY <1>2, ElementOfSeq
  <1>4. p[i] = w[i] \/ IsPrefix(p[i], w[i])
    BY DEF Torn
  <1>. QED
    BY <1>2, <1>3, <1>4, FragmentPrefix

-----------------------------------------------------------------------------
(* Checkpoints: reading a line *)

\* The position n of the file is one where a line may start, left is behind it.
AtLine(bytes, n, left) ==
  /\ Ended(SubSeq(bytes, 1, n))
  /\ left = SubSeq(bytes, n + 1, Len(bytes))
  /\ left # <<>>

\* What getline returns, and the position it leaves the file at.
LineRead(left) == SubSeq(left, 1, Find(left, Newline) - 1)

ReadOn(bytes, n, left, m) ==
  /\ SubSeq(left, Find(left, Newline) + 1, Len(left)) =
       SubSeq(bytes, m + 1, Len(bytes))
  /\ SubSeq(bytes, m + 1, Len(bytes)) # <<>> => Ended(SubSeq(bytes, 1, m))
  /\ LineRead(left) \in Seq(Nat)
  /\ LineRead(left) = <<>> =>
       Lines(SubSeq(bytes, 1, m)) = Lines(SubSeq(bytes, 1, n))
  /\ LineRead(left) # <<>> =>
       Lines(SubSeq(bytes, 1, m)) =
         Append(Lines(SubSeq(bytes, 1, n)), LineRead(left))

\* getline goes behind the next newline, or to the end of the file.
LEMMA NextLine ==
  ASSUME NEW bytes \in Seq(Nat), NEW n \in 0 .. Len(bytes),
         NEW left, AtLine(bytes, n, left)
  PROVE  \E m \in 0 .. Len(bytes) : ReadOn(bytes, n, left, m)
  <1>. DEFINE line == LineRead(left)
  <1>. DEFINE f == Find(left, Newline)
              g == n + f - 1
              read == SubSeq(bytes, 1, n)
              now  == SubSeq(bytes, 1, g)
  <1>0. /\ Ended(SubSeq(bytes, 1, n)) /\ left # <<>>
        /\ left = SubSeq(bytes, n + 1, Len(bytes))
        /\ line = SubSeq(left, 1, f - 1)
    BY DEF AtLine, LineRead
  <1>. HIDE DEF line
  <1>1. /\ Len(bytes) \in Nat /\ n \in Nat /\ Len(bytes) \in 0 .. Len(bytes)
        /\ n \in 0 .. Len(bytes)
    BY LenProperties
  <1>2. /\ left \in Seq(Nat) /\ Len(left) = Len(bytes) - n
        /\ \A i \in 1 .. Len(bytes) - n : left[i] = bytes[n + i]
    BY <1>0, <1>1, Slice
  <1>3. Len(left) \in Nat \ {0}
    BY <1>0, <1>2, EmptySeq
  <1>4. /\ f \in 1 .. Len(left) + 1 /\ (f <= Len(left) => left[f] = Newline)
        /\ \A k \in 1 .. f - 1 : left[k] # Newline
    BY <1>2, FindFirst
  <1>. HIDE DEF f
  <1>5. /\ g \in n .. Len(bytes) /\ f - 1 \in 0 .. Len(left) /\ n < Len(bytes)
        /\ g \in 0 .. Len(bytes)
    BY <1>1, <1>2, <1>3, <1>4
  <1>6. /\ line \in Seq(Nat) /\ Len(line) = f - 1
        /\ \A i \in 1 .. f - 1 : line[i] = left[i]
    BY <1>0, <1>2, <1>5, First
  <1>7. line = SubSeq(bytes, n + 1, g)
    <2>. DEFINE s == SubSeq(bytes, n + 1, g)
    <2>1. /\ s \in Seq(Nat) /\ Len(s) = g - n
          /\ \A i \in 1 .. g - n : s[i] = bytes[n + i]
      BY <1>1, <1>5, Slice
    <2>2. g - n = f - 1 /\ \A i \in 1 .. f - 1 : i \in 1 .. Len(bytes) - n
      BY <1>1, <1>2, <1>4
    <2>. HIDE DEF s, g
    <2>3. \A i \in 1 .. Len(line) : line[i] = s[i]
      BY <1>2, <1>6, <2>1, <2>2
    <2>4. line = s
      BY <1>6, <2>1, <2>2, <2>3, SeqEqual
    <2>. QED
      BY <2>4 DEF s
  <1>8. now = read \o line
    <2>1. 1 \in 1 .. Len(bytes) + 1 /\ n \in 1 - 1 .. Len(bytes)
      BY <1>1
    <2>2. SubSeq(bytes, 1, n) \o SubSeq(bytes, n + 1, g) = SubSeq(bytes, 1, g)
      BY <1>5, <2>1, ConcatAdjacentSubSeq
    <2>. QED
      BY <1>7, <2>2
  <1>9. read \in Seq(Nat) /\ now \in Seq(Nat) /\ Ended(read)
    BY <1>0, <1>1, <1>5, First
  <1>10. Lines(read) \in Seq(Texts)
    <2>. HIDE DEF read
    <2>1. Len(read) \in 0 .. Len(read)
      BY <1>9, LenProperties
    <2>. QED
      BY <1>9, <2>1, LinesType DEF Lines
  <1>. HIDE DEF read, now
  <1>11. Lines(now) = Lines(read) \o Lines(line)
    BY <1>6, <1>8, <1>9, LinesConcat
  <1>12. line = <<>> => Lines(now) = Lines(read)
    <2>1. Lines(read) \o <<>> = Lines(read)
      BY <1>10, ConcatEmptySeq
    <2>. QED
      BY <1>11, <2>1, NoLines
  <1>13. line # <<>> => Lines(now) = Append(Lines(read), line)
    <2>. SUFFICES ASSUME line # <<>> PROVE Lines(now) = Append(Lines(read), line)
      OBVIOUS
    <2>1. \A i \in 1 .. Len(line) : line[i] # Newline
      BY <1>4, <1>6
    <2>2. Lines(line) = <<line>>
      BY <1>6, <2>1, OneLine
    <2>3. line \in Texts
      BY <1>6 DEF Texts
    <2>4. Append(Lines(read), line) = Lines(read) \o <<line>>
      BY <1>10, <2>3, AppendIsConcat
    <2>. QED
      BY <1>11, <2>2, <2>4
  <1>14. CASE f <= Len(left)
    <2>. DEFINE m == g + 1
                new == SubSeq(bytes, 1, m)
    <2>1. m \in 1 .. Len(bytes) /\ m - 1 = g /\ m = n + f /\ m \in 0 .. Len(bytes)
          /\ f \in 1 .. Len(bytes) - n
      BY <1>1, <1>2, <1>4, <1>5, <1>14
    <2>2. bytes[m] = Newline
      BY <1>2, <1>4, <1>14, <2>1
    <2>3. new = now \o <<Newline>>
      <3>1. 1 \in 1 .. Len(bytes) /\ m \in 1 .. Len(bytes)
        BY <2>1
      <3>2. SubSeq(bytes, 1, m) = SubSeq(bytes, 1, m - 1) \o <<bytes[m]>>
        BY <3>1, SubSeqRecursiveSecond
      <3>. QED
        BY <2>1, <2>2, <3>2 DEF now
    <2>4. Ended(new) /\ Lines(new) = Lines(now)
      BY <1>9, <2>3, NewlineEnds
    <2>5. SubSeq(left, f + 1, Len(left)) = SubSeq(bytes, m + 1, Len(bytes))
      <3>. DEFINE s == SubSeq(left, f + 1, Len(left))
                  t == SubSeq(bytes, m + 1, Len(bytes))
      <3>1. f \in 0 .. Len(left) /\ Len(left) \in 0 .. Len(left)
        BY <1>3, <1>4, <1>14
      <3>2. /\ s \in Seq(Nat) /\ Len(s) = Len(left) - f
            /\ \A i \in 1 .. Len(left) - f : s[i] = left[f + i]
        BY <1>2, <3>1, SliceBehind
      <3>3. /\ t \in Seq(Nat) /\ Len(t) = Len(bytes) - m
            /\ \A i \in 1 .. Len(bytes) - m : t[i] = bytes[m + i]
        BY <2>1, SliceBehind
      <3>. HIDE DEF s, t, m
      <3>4. /\ Len(left) - f = Len(bytes) - m
            /\ \A i \in 1 .. Len(left) - f : f + i \in 1 .. Len(bytes) - n
                                             /\ n + (f + i) = m + i
        BY <1>1, <1>2, <1>4, <2>1
      <3>5. ASSUME NEW i \in 1 .. Len(s) PROVE s[i] = t[i]
        <4>1. i \in 1 .. Len(left) - f /\ i \in 1 .. Len(bytes) - m
          BY <3>2, <3>4
        <4>2. s[i] = left[f + i] /\ t[i] = bytes[m + i]
          BY <3>2, <3>3, <4>1
        <4>3. left[f + i] = bytes[n + (f + i)]
          BY <1>2, <3>4, <4>1
        <4>. QED
          BY <3>4, <4>1, <4>2, <4>3
      <3>6. s = t
        BY <3>2, <3>3, <3>4, <3>5, SeqEqual
      <3>. QED
        BY <3>6 DEF s, t
    <2>. HIDE DEF m
    <2>6. /\ SubSeq(left, f + 1, Len(left)) = SubSeq(bytes, m + 1, Len(bytes))
          /\ SubSeq(bytes, m + 1, Len(bytes)) # <<>> => Ended(new)
          /\ line \in Seq(Nat)
          /\ line = <<>> => Lines(new) = Lines(read)
          /\ line # <<>> => Lines(new) = Append(Lines(read), line)
      BY <1>6, <1>12, <1>13, <2>4, <2>5
    <2>. QED
      BY <2>1, <2>6 DEF f, read, line, ReadOn
  <1>15. CASE ~(f <= Len(left))
    <2>1. g = Len(bytes) /\ f = Len(left) + 1
      BY <1>1, <1>2, <1>4, <1>15
    <2>2. /\ SubSeq(left, f + 1, Len(left)) = <<>>
          /\ SubSeq(bytes, g + 1, Len(bytes)) = <<>>
      <3>1. f + 1 \in Int /\ Len(left) \in Int /\ Len(left) < f + 1
        BY <1>3, <2>1
      <3>2. g + 1 \in Int /\ Len(bytes) \in Int /\ Len(bytes) < g + 1
        <4>. HIDE DEF g
        <4>. QED
          BY <1>1, <2>1
      <3>. QED
        BY <3>1, <3>2, SubSeqEmpty
    <2>. HIDE DEF g
    <2>3. /\ SubSeq(left, f + 1, Len(left)) = SubSeq(bytes, g + 1, Len(bytes))
          /\ SubSeq(bytes, g + 1, Len(bytes)) # <<>> => Ended(now)
          /\ line \in Seq(Nat)
          /\ line = <<>> => Lines(now) = Lines(read)
          /\ line # <<>> => Lines(now) = Append(Lines(read), line)
      BY <1>6, <1>12, <1>13, <2>2
    <2>4. g \in 0 .. Len(bytes)
      BY <1>5
    <2>. QED
      BY <2>3, <2>4 DEF f, read, now, line, ReadOn
  <1>. QED
    BY <1>14, <1>15

-----------------------------------------------------------------------------
(* Checkpoints: what every step does to one rank *)

\* CheckpointInv, of one rank: its items, those saved, its task, its file, what
\* is printed, what is left to read, whether write succeeded, and the items
\* there were when read was called.
RankOK(items, all, doing, bytes, printed, unread, whole, old) ==
  /\ items \in Seq(Fragment) /\ all \in Seq(Fragment)
  /\ doing = "write" =>
       /\ ~whole /\ bytes = <<>>
       /\ Len(items) <= Len(all) /\ items = SubSeq(all, 1, Len(items))
       /\ printed = FlattenSeq(Printing(all, Len(all) - Len(items)))
       /\ Ended(printed)
       /\ Lines(printed) = Back(all, Len(all) - Len(items))
  /\ doing # "write" =>
       /\ printed = <<>>
       /\ Torn(Lines(bytes), Back(all, Len(all)))
       /\ whole => Lines(bytes) = Back(all, Len(all))
  /\ doing = "read" =>
       \E n \in 0 .. Len(bytes) :
         /\ unread = SubSeq(bytes, n + 1, Len(bytes))
         /\ items = old \o Lines(SubSeq(bytes, 1, n))
         /\ unread # <<>> => Ended(SubSeq(bytes, 1, n))

\* The lines of any text are texts.
LEMMA LinesOf ==
  ASSUME NEW t \in Seq(Nat)
  PROVE  Lines(t) \in Seq(Texts)
  <1>1. Len(t) \in 0 .. Len(t)
    BY LenProperties
  <1>. QED
    BY <1>1, LinesType DEF Lines

\* OpenForWriting: nothing is printed yet.
LEMMA RankOpens ==
  ASSUME NEW c \in Seq(Fragment), NEW l, NEW o
  PROVE  RankOK(c, c, "write", <<>>, <<>>, l, FALSE, o)
  <1>1. Len(c) \in Nat /\ SubSeq(c, 1, Len(c)) = c
    BY LenProperties, SubSeqFull
  <1>2. Len(c) - Len(c) = 0 /\ Len(c) <= Len(c)
    BY <1>1
  <1>3. Back(c, 0) = <<>> /\ FlattenSeq(Printing(c, 0)) = <<>>
    BY BackNone
  <1>. QED
    BY <1>1, <1>2, <1>3, NoLines DEF RankOK

\* WriteItem: the last item is popped and printed.
LEMMA RankWrites ==
  ASSUME NEW c, NEW all, NEW bytes, NEW b \in Seq(Nat), NEW l, NEW i, NEW o,
         RankOK(c, all, "write", bytes, b, l, i, o), c # <<>>,
         NEW c2, c2 = SubSeq(c, 1, Len(c) - 1)
  PROVE  /\ b \o Printed(c[Len(c)]) \in Seq(Nat)
         /\ RankOK(c2, all, "write", bytes, b \o Printed(c[Len(c)]), l, i, o)
  <1>. DEFINE n == Len(c)
              m == Len(all)
              k == m - n
              last == c[n]
              text == Text(last)
              now == b \o Printed(last)
  <1>1. /\ c \in Seq(Fragment) /\ all \in Seq(Fragment) /\ all \in Seq(Texts)
        /\ ~i /\ bytes = <<>> /\ n <= m /\ c = SubSeq(all, 1, n)
        /\ b = FlattenSeq(Printing(all, k)) /\ Ended(b) /\ Lines(b) = Back(all, k)
    BY FragmentText DEF RankOK
  <1>2. n \in Nat \ {0} /\ m \in Nat /\ n \in 1 .. m
    BY <1>1, EmptySeq, LenProperties
  <1>3. k \in 0 .. m - 1 /\ m - k = n /\ k + 1 = m - (n - 1) /\ n \in 0 .. m
        /\ n \in 1 .. n /\ n - 1 \in 0 .. n /\ n - 1 \in 0 .. m
    BY <1>2
  <1>4. last = all[m - k] /\ last \in Texts
    <2>1. \A j \in 1 .. n : SubSeq(all, 1, n)[j] = all[j]
      BY <1>1, <1>3, First
    <2>2. last = all[n]
      BY <1>1, <1>3, <2>1
    <2>3. all[n] \in Texts
      BY <1>1, <1>2, ElementOfSeq
    <2>. QED
      BY <1>3, <2>2, <2>3
  <1>. HIDE DEF last
  <1>5. /\ Lines(text) \in Listings /\ Printed(last) \in Texts
        /\ Back(all, k + 1) = Back(all, k) \o Lines(text)
        /\ FlattenSeq(Printing(all, k + 1)) =
             FlattenSeq(Printing(all, k)) \o Printed(last)
    BY <1>1, <1>3, <1>4, BackStep
  <1>6. text \in Seq(Nat)
    BY <1>4, TextIs DEF Texts
  <1>. HIDE DEF text
  <1>7. /\ Printed(last) = text \o <<Newline>> /\ Printed(last) \in Seq(Nat)
        /\ Lines(Printed(last)) = Lines(text)
    BY <1>6, NewlineEnds DEF Printed, text
  <1>8. Lines(now) = Lines(b) \o Lines(text)
    BY <1>1, <1>7, LinesConcat
  <1>9. now \in Seq(Nat) /\ Ended(now)
    <2>1. b \o text \in Seq(Nat)
      BY <1>6, ConcatProperties
    <2>2. <<Newline>> \in Seq(Nat)
      BY DEF Newline
    <2>3. now = (b \o text) \o <<Newline>>
      BY <1>6, <1>7, <2>2, ConcatAssociative
    <2>. QED
      BY <2>1, <2>3, NewlineEnds
  <1>10. c2 \in Seq(Fragment) /\ Len(c2) = n - 1 /\ c2 = SubSeq(all, 1, n - 1)
    <2>1. c2 \in Seq(Fragment) /\ Len(c2) = n - 1
          /\ \A j \in 1 .. n - 1 : c2[j] = c[j]
      BY <1>1, <1>3, First
    <2>. DEFINE s == SubSeq(all, 1, n - 1)
    <2>2. /\ s \in Seq(Fragment) /\ Len(s) = n - 1
          /\ \A j \in 1 .. n - 1 : s[j] = all[j]
      BY <1>1, <1>3, First
    <2>3. \A j \in 1 .. n : c[j] = all[j]
      <3>1. \A j \in 1 .. n : SubSeq(all, 1, n)[j] = all[j]
        BY <1>1, <1>3, First
      <3>. QED
        BY <1>1, <3>1
    <2>4. \A j \in 1 .. n - 1 : j \in 1 .. n
      BY <1>2
    <2>. HIDE DEF s
    <2>5. \A j \in 1 .. Len(c2) : c2[j] = s[j]
      BY <2>1, <2>2, <2>3, <2>4
    <2>6. c2 = s
      BY <2>1, <2>2, <2>5, SeqEqual
    <2>. QED
      BY <2>1, <2>6 DEF s
  <1>11. /\ Len(all) - Len(c2) = k + 1 /\ Len(c2) <= Len(all)
         /\ c2 = SubSeq(all, 1, Len(c2))
    <2>1. m - (n - 1) = k + 1 /\ n - 1 <= m
      BY <1>2, <1>3
    <2>. HIDE DEF n, k
    <2>. QED
      BY <1>10, <2>1
  <1>12. now = FlattenSeq(Printing(all, k + 1)) /\ Lines(now) = Back(all, k + 1)
    BY <1>1, <1>5, <1>8
  <1>. HIDE DEF now, k
  <1>13. RankOK(c2, all, "write", bytes, now, l, i, o)
    BY <1>1, <1>9, <1>10, <1>11, <1>12 DEF RankOK
  <1>. QED
    BY <1>9, <1>13 DEF now, last

\* WriteFails and Crash: any part of what is printed is in the file.
LEMMA RankStops ==
  ASSUME NEW c, NEW all, NEW bytes \in Seq(Nat), NEW b \in Seq(Nat), NEW l, NEW i,
         NEW o, NEW doing, RankOK(c, all, doing, bytes, b, l, i, o),
         NEW k \in 0 .. Len(b), NEW c2 \in Seq(Fragment), NEW l2, NEW o2
  PROVE  /\ bytes \o SubSeq(b, 1, k) \in Seq(Nat)
         /\ RankOK(c2, all, "none", bytes \o SubSeq(b, 1, k), <<>>, l2, i, o2)
  <1>. DEFINE s == SubSeq(b, 1, k)
              m == Len(all)
  <1>1. s \in Seq(Nat)
    BY First
  <1>2. /\ all \in Seq(Fragment) /\ all \in Seq(Texts)
        /\ m \in Nat /\ m \in 0 .. m /\ Back(all, m) \in Seq(Texts)
    <2>1. all \in Seq(Fragment) /\ all \in Seq(Texts)
      BY FragmentText DEF RankOK
    <2>2. m \in Nat /\ m \in 0 .. m
      BY <2>1, LenProperties
    <2>. QED
      BY <2>1, <2>2, BackType
  <1>3. CASE doing = "write"
    <2>. DEFINE n == Len(all) - Len(c)
    <2>1. /\ ~i /\ bytes = <<>> /\ c \in Seq(Fragment) /\ Len(c) <= Len(all)
          /\ Lines(b) = Back(all, n)
      BY <1>3 DEF RankOK
    <2>2. Len(c) \in Nat
      BY <2>1, LenProperties
    <2>3. n \in 0 .. m /\ m \in n .. m
      BY <1>2, <2>1, <2>2
    <2>. HIDE DEF n
    <2>4. Torn(Back(all, n), Back(all, m)) /\ Back(all, n) \in Seq(Texts)
      BY <1>2, <2>3, BackTorn, BackType
    <2>5. Torn(Lines(s), Lines(b)) /\ Lines(s) \in Seq(Texts)
      <3>1. Lines(s) = LinesUpTo(b)[k] /\ Lines(s) \in Seq(Texts)
        BY <1>1, CutLines, LinesOf
      <3>. QED
        BY <3>1, TornLines
    <2>6. Torn(Lines(s), Back(all, m))
      BY <1>2, <2>1, <2>4, <2>5, TornTwice
    <2>7. bytes \o s = s
      BY <1>1, <2>1, ConcatEmptySeq
    <2>. HIDE DEF s
    <2>. QED
      BY <1>1, <1>2, <2>1, <2>6, <2>7 DEF RankOK, s
  <1>4. CASE doing # "write"
    <2>1. /\ b = <<>> /\ Torn(Lines(bytes), Back(all, m))
          /\ i => Lines(bytes) = Back(all, m)
      BY <1>4 DEF RankOK
    <2>2. s = <<>>
      <3>1. Len(b) = 0
        BY <2>1, EmptySeq
      <3>2. k = 0
        BY <3>1
      <3>. QED
        BY <3>2, SubSeqEmpty
    <2>3. bytes \o s = bytes
      BY <2>2, ConcatEmptySeq
    <2>. HIDE DEF s
    <2>. QED
      BY <1>2, <2>1, <2>3 DEF RankOK, s
  <1>. QED
    BY <1>3, <1>4

\* CloseFile: all of it is.
LEMMA RankCloses ==
  ASSUME NEW c, NEW all, NEW bytes \in Seq(Nat), NEW b \in Seq(Nat), NEW l, NEW i,
         NEW o, RankOK(c, all, "write", bytes, b, l, i, o), Len(c) = 0
  PROVE  /\ bytes \o SubSeq(b, 1, Len(b)) \in Seq(Nat)
         /\ RankOK(c, all, "none", bytes \o SubSeq(b, 1, Len(b)), <<>>, l, TRUE, o)
  <1>. DEFINE f == bytes \o SubSeq(b, 1, Len(b))
              m == Len(all)
  <1>1. /\ c \in Seq(Fragment) /\ all \in Seq(Fragment) /\ all \in Seq(Texts)
        /\ bytes = <<>> /\ Lines(b) = Back(all, m - Len(c))
    BY FragmentText DEF RankOK
  <1>2. m \in Nat /\ m - Len(c) = m /\ m \in 0 .. m /\ m \in m .. m
    <2>1. m \in Nat
      BY <1>1, LenProperties
    <2>. QED
      BY <2>1
  <1>3. f = b
    <2>1. SubSeq(b, 1, Len(b)) = b
      BY SubSeqFull
    <2>. QED
      BY <1>1, <2>1, ConcatEmptySeq
  <1>4. Torn(Back(all, m), Back(all, m))
    BY <1>1, <1>2, BackTorn
  <1>. HIDE DEF f
  <1>5. Lines(f) = Back(all, m)
    BY <1>1, <1>2, <1>3
  <1>. QED
    BY <1>1, <1>3, <1>4, <1>5 DEF RankOK, f

\* OpenForReading: nothing is read yet.
LEMMA RankBegins ==
  ASSUME NEW c, NEW all, NEW f \in Seq(Nat), NEW b, NEW l, NEW i, NEW o,
         RankOK(c, all, "none", f, b, l, i, o)
  PROVE  RankOK(c, all, "read", f, b, f, i, c)
  <1>1. Len(f) \in Nat /\ SubSeq(f, 1, Len(f)) = f
    BY LenProperties, SubSeqFull
  <1>2. 0 \in 0 .. Len(f) /\ 0 + 1 = 1
    BY <1>1
  <1>3. SubSeq(f, 1, 0) = <<>>
    BY SubSeqEmpty
  <1>4. c \in Seq(Fragment)
    BY DEF RankOK
  <1>5. c \o <<>> = c
    BY <1>4, ConcatEmptySeq
  <1>6. \E n \in 0 .. Len(f) :
          /\ f = SubSeq(f, n + 1, Len(f))
          /\ c = c \o Lines(SubSeq(f, 1, n))
          /\ f # <<>> => Ended(SubSeq(f, 1, n))
    <2>1. /\ f = SubSeq(f, 0 + 1, Len(f))
          /\ c = c \o Lines(SubSeq(f, 1, 0))
          /\ Ended(SubSeq(f, 1, 0))
      BY <1>1, <1>2, <1>3, <1>5, NoLines
    <2>. QED
      BY <1>2, <2>1
  <1>. QED
    BY <1>6 DEF RankOK

\* ReadLine: one more line is in the queue, unless it is empty.
LEMMA RankReads ==
  ASSUME NEW c, NEW all, NEW f \in Seq(Nat), NEW b, NEW l, NEW i,
         NEW o \in Seq(Texts), RankOK(c, all, "read", f, b, l, i, o), l # <<>>,
         NEW line, line = LineRead(l),
         NEW l2, l2 = SubSeq(l, Find(l, Newline) + 1, Len(l))
  PROVE  /\ line \in Seq(Nat)
         /\ line = <<>> => RankOK(c, all, "read", f, b, l2, i, o)
         /\ line # <<>> => RankOK(Append(c, line), all, "read", f, b, l2, i, o)
  <1>1. PICK n \in 0 .. Len(f) :
          /\ l = SubSeq(f, n + 1, Len(f))
          /\ c = o \o Lines(SubSeq(f, 1, n))
          /\ l # <<>> => Ended(SubSeq(f, 1, n))
    BY DEF RankOK
  <1>2. /\ c \in Seq(Fragment) /\ all \in Seq(Fragment) /\ all \in Seq(Texts)
        /\ c \in Seq(Texts) /\ Torn(Lines(f), Back(all, Len(all)))
    BY FragmentText DEF RankOK
  <1>3. PICK m \in 0 .. Len(f) :
          /\ l2 = SubSeq(f, m + 1, Len(f))
          /\ l2 # <<>> => Ended(SubSeq(f, 1, m))
          /\ line \in Seq(Nat)
          /\ line = <<>> => Lines(SubSeq(f, 1, m)) = Lines(SubSeq(f, 1, n))
          /\ line # <<>> =>
               Lines(SubSeq(f, 1, m)) = Append(Lines(SubSeq(f, 1, n)), line)
    <2>1. AtLine(f, n, l)
      BY <1>1 DEF AtLine
    <2>2. PICK m \in 0 .. Len(f) : ReadOn(f, n, l, m)
      BY <2>1, NextLine
    <2>. QED
      BY <2>2 DEF ReadOn
  <1>4. ASSUME line = <<>> PROVE RankOK(c, all, "read", f, b, l2, i, o)
    <2>1. /\ l2 = SubSeq(f, m + 1, Len(f))
          /\ c = o \o Lines(SubSeq(f, 1, m))
          /\ l2 # <<>> => Ended(SubSeq(f, 1, m))
      BY <1>1, <1>3, <1>4
    <2>. QED
      BY <2>1 DEF RankOK
  <1>5. ASSUME line # <<>>
        PROVE  RankOK(Append(c, line), all, "read", f, b, l2, i, o)
    <2>. DEFINE read == Lines(SubSeq(f, 1, n))
                now  == Lines(SubSeq(f, 1, m))
                back == Back(all, Len(all))
    <2>1. read \in Seq(Texts) /\ now \in Seq(Texts) /\ line \in Texts
      BY <1>3, First, LinesOf DEF Texts
    <2>2. now = Append(read, line)
      BY <1>3, <1>5
    <2>3. Len(read) + 1 = Len(now) /\ now[Len(now)] = line
          /\ Len(now) \in 1 .. Len(now)
      <3>. HIDE DEF read, now
      <3>1. Len(now) = Len(read) + 1 /\ now[Len(read) + 1] = line /\ Len(read) \in Nat
        BY <2>1, <2>2, AppendProperties, LenProperties
      <3>. QED
        BY <3>1
    <2>4. Torn(now, back) /\ back \in Seq(Fragment)
      <3>1. Len(all) \in 0 .. Len(all)
        BY <1>2, LenProperties
      <3>2. back \in Seq(Fragment) /\ back \in Seq(Texts)
        BY <1>2, <3>1, BackFragments, FragmentText
      <3>3. now = LinesUpTo(f)[m]
        BY CutLines
      <3>4. Torn(now, Lines(f)) /\ Lines(f) \in Seq(Texts)
        BY <3>3, TornLines, LinesOf
      <3>. HIDE DEF now, back
      <3>5. Torn(Lines(f), back)
        BY <1>2 DEF back
      <3>. QED
        BY <2>1, <3>2, <3>4, <3>5, TornTwice
    <2>. HIDE DEF read, now, back
    <2>5. line \in Fragment
      BY <1>5, <2>1, <2>3, <2>4, TornFragments
    <2>6. Append(c, line) \in Seq(Fragment)
      BY <1>2, <2>5, AppendProperties
    <2>7. Append(c, line) = o \o now
      <3>1. c = o \o read
        BY <1>1 DEF read
      <3>2. AddedBehind(o, read, line)
        BY <2>1, ConcatAdded
      <3>. QED
        BY <2>2, <3>1, <3>2 DEF AddedBehind, Added
    <2>8. /\ l2 = SubSeq(f, m + 1, Len(f))
          /\ Append(c, line) = o \o Lines(SubSeq(f, 1, m))
          /\ l2 # <<>> => Ended(SubSeq(f, 1, m))
      BY <1>3, <2>7 DEF now
    <2>. QED
      BY <2>6, <2>8 DEF RankOK
  <1>. QED
    BY <1>3, <1>4, <1>5

\* EndReading, and the callbacks: nothing depends on the queue any more.
LEMMA RankGoesOn ==
  ASSUME NEW c, NEW all, NEW f, NEW b, NEW l, NEW i, NEW o, NEW doing,
         RankOK(c, all, doing, f, b, l, i, o), doing # "write",
         NEW c2 \in Seq(Fragment), NEW o2
  PROVE  RankOK(c2, all, "none", f, b, l, i, o2)
  BY DEF RankOK

\* At the start there are no items, and no file.
LEMMA RankStarts ==
  RankOK(<<>>, <<>>, "none", <<>>, <<>>, <<>>, TRUE, <<>>)
  <1>1. <<>> \in Seq(Fragment) /\ Len(<<>>) = 0 /\ <<>> \in Seq(Texts)
    BY EmptySeq
  <1>2. Lines(<<>>) = <<>> /\ Back(<<>>, 0) = <<>>
    BY NoLines, BackNone
  <1>3. Torn(<<>>, <<>>)
    BY <1>1 DEF Torn
  <1>. QED
    BY <1>1, <1>2, <1>3 DEF RankOK

-----------------------------------------------------------------------------
(* Checkpoints: CheckpointInv is inductive *)

RankNow(r) ==
  RankOK(Contents(r), saved[r], task[r], file[r].bytes, buffer[r], rest[r],
         intact[r], before[r])

RankedInv == CheckpointTypeOK /\ QueuesOK /\ \A r \in Rank : RankNow(r)

\* The types of what there is of one rank.
LEMMA RankTypes ==
  ASSUME CheckpointTypeOK, QueuesOK, NEW r \in Rank
  PROVE  /\ QueueOK /\ ~Waiting(r)
         /\ Contents(r) \in Seq(Texts) /\ Len(Contents(r)) = count[r]
         /\ count[r] \in Nat
         /\ file[r] \in [exists : BOOLEAN, bytes : Seq(Nat)]
         /\ file[r].bytes \in Seq(Nat)
         /\ buffer[r] \in Seq(Nat) /\ rest[r] \in Seq(Nat)
         /\ saved[r] \in Seq(Texts) /\ before[r] \in Seq(Texts)
         /\ Len(saved[r]) \in Nat
  <1>1. QueueOK /\ ~Waiting(r)
    BY DEF CheckpointTypeOK, QueuesOK, QueueOK
  <1>2. Contents(r) \in Seq(Texts) /\ Len(Contents(r)) = count[r]
    BY <1>1, Stacked DEF Texts
  <1>3. count[r] \in Nat
    BY DEF CheckpointTypeOK, TypeOK
  <1>4. file[r] \in [exists : BOOLEAN, bytes : Seq(Nat)]
    BY DEF CheckpointTypeOK
  <1>5. /\ file[r].bytes \in Seq(Nat)
        /\ buffer[r] \in Seq(Nat) /\ rest[r] \in Seq(Nat)
    BY <1>4 DEF CheckpointTypeOK
  <1>6. saved[r] \in Seq(Texts) /\ before[r] \in Seq(Texts)
    BY DEF CheckpointTypeOK, Texts
  <1>7. Len(saved[r]) \in Nat
    BY <1>6, LenProperties
  <1>. QED
    BY <1>1, <1>2, <1>3, <1>4, <1>5, <1>6, <1>7

\* CheckpointInv and RankedInv say the same.
LEMMA InvOfRank ==
  ASSUME CheckpointTypeOK, QueuesOK, NEW r \in Rank
  PROVE  /\ task[r] = "write" /\ count[r] <= Len(saved[r]) =>
              Restored(SubSeq(saved[r], count[r] + 1, Len(saved[r]))) =
                Back(saved[r], Len(saved[r]) - Len(Contents(r)))
         /\ CutOff(Lines(file[r].bytes), Restored(saved[r])) <=>
              Torn(Lines(file[r].bytes), Back(saved[r], Len(saved[r])))
         /\ Restored(saved[r]) = Back(saved[r], Len(saved[r]))
         /\ FlattenSeq([k \in 1 .. Len(saved[r]) - count[r] |->
                          Printed(saved[r][Len(saved[r]) + 1 - k])]) =
              FlattenSeq(Printing(saved[r], Len(saved[r]) - Len(Contents(r))))
  <1>. DEFINE s == saved[r]
              c == Contents(r)
              f == file[r].bytes
  <1>1. /\ s \in Seq(Texts) /\ Len(s) \in Nat /\ Len(c) = count[r]
        /\ count[r] \in Nat /\ f \in Seq(Nat)
    BY RankTypes
  <1>. HIDE DEF s, c, f
  <1>2. count[r] <= Len(s) =>
          Restored(SubSeq(s, count[r] + 1, Len(s))) = Back(s, Len(s) - Len(c))
    <2>1. count[r] <= Len(s) => count[r] \in 0 .. Len(s)
      BY <1>1
    <2>. QED
      BY <1>1, <2>1, RestoredRest
  <1>3. Restored(s) = Back(s, Len(s)) /\ Back(s, Len(s)) \in Seq(Texts)
    <2>1. Len(s) \in 0 .. Len(s)
      BY <1>1
    <2>. QED
      BY <1>1, <2>1, RestoredIs, BackType
  <1>4. CutOff(Lines(f), Back(s, Len(s))) <=> Torn(Lines(f), Back(s, Len(s)))
    <2>1. Lines(f) \in Seq(Texts)
      BY <1>1, LinesOf
    <2>. QED
      BY <1>3, <2>1, CutOffIs
  <1>5. [k \in 1 .. Len(s) - count[r] |-> Printed(s[Len(s) + 1 - k])] =
          Printing(s, Len(s) - Len(c))
    BY <1>1 DEF Printing
  <1>. QED
    BY <1>2, <1>3, <1>4, <1>5 DEF s, c, f

LEMMA InvIsRanked == CheckpointInv <=> RankedInv
  <1>1. ASSUME CheckpointTypeOK, QueuesOK, NEW r \in Rank
        PROVE  RankNow(r) <=>
                 /\ Contents(r) \in Seq(Fragment) /\ saved[r] \in Seq(Fragment)
                 /\ task[r] = "write" =>
                      /\ Contents(r) = SubSeq(saved[r], 1, count[r])
                      /\ file[r].bytes = <<>>
                      /\ buffer[r] =
                           FlattenSeq([k \in 1 .. Len(saved[r]) - count[r] |->
                                         Printed(saved[r][Len(saved[r]) + 1 - k])])
                 /\ task[r] = "write" =>
                      /\ ~intact[r]
                      /\ count[r] <= Len(saved[r])
                      /\ Ended(buffer[r])
                      /\ Lines(buffer[r]) =
                           Restored(SubSeq(saved[r], count[r] + 1, Len(saved[r])))
                 /\ task[r] # "write" =>
                      /\ buffer[r] = <<>>
                      /\ CutOff(Lines(file[r].bytes), Restored(saved[r]))
                      /\ intact[r] => Lines(file[r].bytes) = Restored(saved[r])
                 /\ task[r] = "read" =>
                      \E n \in 0 .. Len(file[r].bytes) : ReadUpTo(r, n)
    <2>. DEFINE s == saved[r]
                c == Contents(r)
                f == file[r].bytes
                p == FlattenSeq(Printing(s, Len(s) - Len(c)))
                b == Back(s, Len(s) - Len(c))
    <2>1. /\ task[r] = "write" /\ count[r] <= Len(s) =>
               Restored(SubSeq(s, count[r] + 1, Len(s))) = b
          /\ CutOff(Lines(f), Restored(s)) <=> Torn(Lines(f), Back(s, Len(s)))
          /\ Restored(s) = Back(s, Len(s))
          /\ FlattenSeq([k \in 1 .. Len(s) - count[r] |->
                           Printed(s[Len(s) + 1 - k])]) = p
          /\ Len(c) = count[r]
      BY <1>1, InvOfRank, RankTypes
    <2>2. (\E n \in 0 .. Len(f) : ReadUpTo(r, n)) <=>
            (\E n \in 0 .. Len(f) :
               /\ rest[r] = SubSeq(f, n + 1, Len(f))
               /\ c = before[r] \o Lines(SubSeq(f, 1, n))
               /\ rest[r] # <<>> => Ended(SubSeq(f, 1, n)))
      BY DEF ReadUpTo
    <2>3. RankNow(r) <=>
            /\ c \in Seq(Fragment) /\ s \in Seq(Fragment)
            /\ task[r] = "write" =>
                 /\ ~intact[r] /\ f = <<>>
                 /\ Len(c) <= Len(s) /\ c = SubSeq(s, 1, Len(c))
                 /\ buffer[r] = p
                 /\ Ended(buffer[r])
                 /\ Lines(buffer[r]) = b
            /\ task[r] # "write" =>
                 /\ buffer[r] = <<>>
                 /\ Torn(Lines(f), Back(s, Len(s)))
                 /\ intact[r] => Lines(f) = Back(s, Len(s))
            /\ task[r] = "read" =>
                 \E n \in 0 .. Len(f) :
                   /\ rest[r] = SubSeq(f, n + 1, Len(f))
                   /\ c = before[r] \o Lines(SubSeq(f, 1, n))
                   /\ rest[r] # <<>> => Ended(SubSeq(f, 1, n))
      BY DEF RankNow, RankOK
    <2>. HIDE DEF p, b
    <2>. QED
      BY <2>1, <2>2, <2>3
  <1>2. CheckpointInv <=>
          /\ CheckpointTypeOK /\ QueuesOK
          /\ FragmentsOnly /\ NoItemTwice /\ PrintedOK /\ FilesOK /\ ReadingOK
    BY DEF CheckpointInv
  <1>. QED
    BY <1>1, <1>2 DEF RankedInv, FragmentsOnly, NoItemTwice, PrintedOK, FilesOK, ReadingOK

\* What a step does to the queues, as far as their types and layout go.
QueuesStep(r) ==
  /\ TypeOK' /\ QueuesOK' /\ OthersKept(r)
  /\ \A q \in Rank \ {r} : Contents(q)' = Contents(q)

\* The queues are left alone.
LEMMA QueuesKept ==
  ASSUME CheckpointTypeOK, QueuesOK, UNCHANGED vars, NEW r \in Rank
  PROVE  QueuesStep(r) /\ Contents(r)' = Contents(r)
  <1>1. TypeOK'
    BY DEF CheckpointTypeOK, TypeOK, vars
  <1>2. QueuesOK'
    BY DEF QueuesOK, Layout, Waiting, vars
  <1>3. OthersKept(r) /\ Contents(r)' = Contents(r)
    BY DEF OthersKept, Contents, vars
  <1>. QED
    BY <1>1, <1>2, <1>3, StacksKept DEF QueuesStep

\* push and pop leave the other queues and the messages alone.
LEMMA QueuesChange ==
  ASSUME CheckpointTypeOK, QueuesOK, NEW r \in Rank,
         QueueOK', OthersKept(r), wire' = wire
  PROVE  QueuesStep(r)
  <1>1. TypeOK'
    BY DEF QueueOK
  <1>2. QueuesOK'
    BY DEF QueueOK, QueuesOK, Waiting
  <1>. QED
    BY <1>1, <1>2, StacksKept DEF QueuesStep

\* What a step leaves alone on the other ranks.
FilesKept(r) ==
  \A q \in Rank \ {r} :
    /\ file'[q] = file[q] /\ task'[q] = task[q] /\ buffer'[q] = buffer[q]
    /\ rest'[q] = rest[q] /\ saved'[q] = saved[q] /\ intact'[q] = intact[q]
    /\ before'[q] = before[q]

\* A step of one rank.
LEMMA StepOfRank ==
  ASSUME RankedInv, NEW r \in Rank, QueuesStep(r), FilesKept(r),
         CheckpointTypeOK', RankNow(r)'
  PROVE  RankedInv'
  <1>1. ASSUME NEW q \in Rank \ {r} PROVE RankNow(q)'
    <2>1. Contents(q)' = Contents(q)
      BY DEF QueuesStep
    <2>2. RankNow(q)
      BY DEF RankedInv
    <2>. QED
      BY <2>1, <2>2 DEF RankNow, FilesKept
  <1>. QED
    BY <1>1 DEF RankedInv, QueuesStep

\* A callback enqueues or pops.
LEMMA CallbackKeeps ==
  ASSUME RankedInv, NEW r \in Rank, Callback(r)
  PROVE  RankedInv'
  <1>1. /\ CheckpointTypeOK /\ QueuesOK /\ QueueOK /\ task[r] = "none"
        /\ UNCHANGED fileVars /\ RankNow(r)
    BY RankTypes DEF RankedInv, Callback
  <1>2. Contents(r) \in Seq(Fragment)
    BY <1>1 DEF RankNow, RankOK
  <1>3. QueuesStep(r) /\ Contents(r)' \in Seq(Fragment)
    <2>1. ASSUME NEW element \in Item, enqueue(r, element)
          PROVE  QueuesStep(r) /\ Contents(r)' \in Seq(Fragment)
      <3>1. /\ element \in Seq(Nat) /\ push(r, element) /\ ~Waiting(r)
            /\ pushes' \in 0 .. MaxPushes /\ element # <<>>
        BY <1>1, <2>1, EnqueueStep DEF push
      <3>2. /\ QueueOK' /\ OthersKept(r) /\ wire' = wire
            /\ Contents(r)' = Append(Contents(r), element)
        BY <1>1, <3>1, PushEffect
      <3>3. element \in Fragment
        BY <3>1, ItemIsFragment
      <3>4. Append(Contents(r), element) \in Seq(Fragment)
        BY <1>2, <3>3, AppendProperties
      <3>. QED
        BY <1>1, <3>2, <3>4, QueuesChange
    <2>2. ASSUME pop(r) PROVE QueuesStep(r) /\ Contents(r)' \in Seq(Fragment)
      <3>1. /\ QueueOK' /\ OthersKept(r) /\ wire' = wire /\ Contents(r) # <<>>
            /\ Contents(r)' = SubSeq(Contents(r), 1, Len(Contents(r)) - 1)
        BY <1>1, <2>2, PopEffect
      <3>2. Len(Contents(r)) - 1 \in 0 .. Len(Contents(r))
        BY <1>2, <3>1, EmptySeq
      <3>3. SubSeq(Contents(r), 1, Len(Contents(r)) - 1) \in Seq(Fragment)
        BY <1>2, <3>2, First
      <3>. QED
        BY <1>1, <3>1, <3>3, QueuesChange
    <2>. QED
      BY <2>1, <2>2 DEF Callback
  <1>4. CheckpointTypeOK' /\ FilesKept(r)
    BY <1>1, <1>3 DEF CheckpointTypeOK, QueuesStep, fileVars, FilesKept
  <1>5. RankNow(r)'
    <2>1. RankOK(Contents(r)', saved[r], "none", file[r].bytes, buffer[r], rest[r],
                 intact[r], before[r])
      BY <1>1, <1>3, RankGoesOn DEF RankNow
    <2>. QED
      BY <1>1, <2>1 DEF RankNow, fileVars
  <1>. QED
    BY <1>1, <1>3, <1>4, <1>5, StepOfRank

LEMMA OpenForWritingKeeps ==
  ASSUME RankedInv, NEW r \in Rank, OpenForWriting(r)
  PROVE  RankedInv'
  <1>1. /\ CheckpointTypeOK /\ QueuesOK /\ RankNow(r) /\ task[r] = "none"
        /\ UNCHANGED vars
    BY DEF RankedInv, OpenForWriting
  <1>2. QueuesStep(r) /\ Contents(r)' = Contents(r)
    BY <1>1, QueuesKept
  <1>3. Contents(r) \in Seq(Fragment) /\ buffer[r] = <<>> /\ Contents(r) \in Seq(Texts)
    BY <1>1, FragmentText DEF RankNow, RankOK
  <1>4. /\ file' = [file EXCEPT ![r] = [exists |-> TRUE, bytes |-> <<>>]]
        /\ task' = [task EXCEPT ![r] = "write"]
        /\ saved' = [saved EXCEPT ![r] = Contents(r)]
        /\ intact' = [intact EXCEPT ![r] = FALSE]
        /\ used' = [used EXCEPT !.opens = @ + 1] /\ used.opens < MaxOpens
        /\ UNCHANGED <<buffer, rest, before>>
    BY DEF OpenForWriting
  <1>5. CheckpointTypeOK'
    <2>1. [exists |-> TRUE, bytes |-> <<>>] \in [exists : BOOLEAN, bytes : Seq(Nat)]
      BY EmptySeq
    <2>2. used' \in [opens : 0 .. MaxOpens, reads : 0 .. MaxReads,
                     crashes : 0 .. MaxCrashes]
      <3>1. used \in [opens : 0 .. MaxOpens, reads : 0 .. MaxReads,
                      crashes : 0 .. MaxCrashes]
        BY <1>1 DEF CheckpointTypeOK
      <3>2. used.opens + 1 \in 0 .. MaxOpens
        BY <1>4, <3>1, CheckpointAssumption
      <3>. QED
        BY <1>4, <3>1, <3>2
    <2>3. Contents(r) \in Seq(Seq(Nat))
      BY <1>3 DEF Texts
    <2>4. saved' \in [Rank -> Seq(Seq(Nat))]
      BY <1>1, <1>4, <2>3 DEF CheckpointTypeOK
    <2>. QED
      BY <1>1, <1>2, <1>4, <2>1, <2>2, <2>4 DEF CheckpointTypeOK, QueuesStep
  <1>6. FilesKept(r)
    BY <1>1, <1>4 DEF FilesKept, CheckpointTypeOK
  <1>7. RankNow(r)'
    <2>1. RankOK(Contents(r), Contents(r), "write", <<>>, <<>>, rest[r], FALSE,
                 before[r])
      BY <1>3, RankOpens
    <2>2. /\ saved'[r] = Contents(r) /\ task'[r] = "write" /\ file'[r].bytes = <<>>
          /\ buffer'[r] = <<>> /\ rest'[r] = rest[r] /\ intact'[r] = FALSE
          /\ before'[r] = before[r]
      BY <1>1, <1>3, <1>4 DEF CheckpointTypeOK
    <2>. QED
      BY <1>2, <2>1, <2>2 DEF RankNow
  <1>. QED
    BY <1>2, <1>5, <1>6, <1>7, StepOfRank

LEMMA WriteItemKeeps ==
  ASSUME RankedInv, NEW r \in Rank, WriteItem(r)
  PROVE  RankedInv'
  <1>. DEFINE c == Contents(r)
              now == buffer[r] \o Printed(c[Len(c)])
  <1>1. /\ CheckpointTypeOK /\ QueuesOK /\ QueueOK /\ RankNow(r)
        /\ task[r] = "write" /\ pop(r) /\ buffer[r] \in Seq(Nat)
    BY RankTypes DEF RankedInv, WriteItem
  <1>2. /\ QueueOK' /\ OthersKept(r) /\ wire' = wire /\ c # <<>>
        /\ Contents(r)' = SubSeq(c, 1, Len(c) - 1)
        /\ content' = [content EXCEPT ![r] = c[Len(c)]]
    BY <1>1, PopEffect
  <1>3. QueuesStep(r)
    BY <1>1, <1>2, QueuesChange
  <1>4. content'[r] = c[Len(c)]
    BY <1>1, <1>2 DEF CheckpointTypeOK, TypeOK
  <1>5. /\ buffer' = [buffer EXCEPT ![r] = now]
        /\ UNCHANGED <<file, task, rest, saved, intact, before, used>>
    BY <1>4 DEF WriteItem
  <1>6. /\ now \in Seq(Nat)
        /\ RankOK(Contents(r)', saved[r], "write", file[r].bytes, now, rest[r],
                  intact[r], before[r])
    BY <1>1, <1>2, RankWrites DEF RankNow
  <1>. HIDE DEF c, now
  <1>7. CheckpointTypeOK'
    BY <1>1, <1>3, <1>5, <1>6 DEF CheckpointTypeOK, QueuesStep
  <1>8. FilesKept(r)
    BY <1>1, <1>5 DEF FilesKept, CheckpointTypeOK
  <1>9. RankNow(r)'
    <2>1. buffer'[r] = now
      BY <1>1, <1>5 DEF CheckpointTypeOK
    <2>. QED
      BY <1>1, <1>5, <1>6, <2>1 DEF RankNow
  <1>. QED
    BY <1>3, <1>7, <1>8, <1>9, StepOfRank

LEMMA CloseFileKeeps ==
  ASSUME RankedInv, NEW r \in Rank, CloseFile(r)
  PROVE  RankedInv'
  <1>. DEFINE bytes == file[r].bytes \o SubSeq(buffer[r], 1, Len(buffer[r]))
              new == [file[r] EXCEPT !.bytes = bytes]
  <1>1. /\ CheckpointTypeOK /\ QueuesOK /\ RankNow(r)
        /\ task[r] = "write" /\ count[r] = 0 /\ UNCHANGED vars
    BY DEF RankedInv, CloseFile
  <1>2. QueuesStep(r) /\ Contents(r)' = Contents(r)
    BY <1>1, QueuesKept
  <1>3. /\ file[r] \in [exists : BOOLEAN, bytes : Seq(Nat)]
        /\ file[r].bytes \in Seq(Nat) /\ buffer[r] \in Seq(Nat)
        /\ Len(Contents(r)) = 0
    BY <1>1, RankTypes
  <1>4. /\ file' = [file EXCEPT ![r] = new]
        /\ buffer' = [buffer EXCEPT ![r] = <<>>]
        /\ intact' = [intact EXCEPT ![r] = TRUE]
        /\ task' = [task EXCEPT ![r] = "none"]
        /\ UNCHANGED <<rest, saved, before, used>>
    BY DEF CloseFile, Flushed
  <1>5. /\ bytes \in Seq(Nat)
        /\ RankOK(Contents(r), saved[r], "none", bytes, <<>>, rest[r], TRUE, before[r])
    <2>1. RankOK(Contents(r), saved[r], "write", file[r].bytes, buffer[r], rest[r],
                 intact[r], before[r])
      BY <1>1 DEF RankNow
    <2>. QED
      BY <1>3, <2>1, RankCloses
  <1>. HIDE DEF bytes
  <1>6. new \in [exists : BOOLEAN, bytes : Seq(Nat)] /\ new.bytes = bytes
    BY <1>3, <1>5
  <1>. HIDE DEF new
  <1>7. CheckpointTypeOK'
    BY <1>1, <1>2, <1>4, <1>6, EmptySeq DEF CheckpointTypeOK, QueuesStep
  <1>8. FilesKept(r)
    BY <1>1, <1>4 DEF FilesKept, CheckpointTypeOK
  <1>9. RankNow(r)'
    <2>1. /\ file'[r] = new /\ buffer'[r] = <<>> /\ intact'[r] = TRUE
          /\ task'[r] = "none"
      BY <1>1, <1>4 DEF CheckpointTypeOK
    <2>. QED
      BY <1>2, <1>4, <1>5, <1>6, <2>1 DEF RankNow
  <1>. QED
    BY <1>2, <1>7, <1>8, <1>9, StepOfRank

LEMMA WriteFailsKeeps ==
  ASSUME RankedInv, NEW r \in Rank, WriteFails(r)
  PROVE  RankedInv'
  <1>1. /\ CheckpointTypeOK /\ QueuesOK /\ QueueOK /\ RankNow(r)
        /\ task[r] = "write"
        /\ file[r] \in [exists : BOOLEAN, bytes : Seq(Nat)]
        /\ file[r].bytes \in Seq(Nat) /\ buffer[r] \in Seq(Nat)
    BY RankTypes DEF RankedInv, WriteFails
  <1>2. Contents(r) \in Seq(Fragment)
    BY <1>1 DEF RankNow, RankOK
  <1>3. QueuesStep(r) /\ Contents(r)' \in Seq(Fragment)
    <2>1. ASSUME pop(r) PROVE QueuesStep(r) /\ Contents(r)' \in Seq(Fragment)
      <3>1. /\ QueueOK' /\ OthersKept(r) /\ wire' = wire /\ Contents(r) # <<>>
            /\ Contents(r)' = SubSeq(Contents(r), 1, Len(Contents(r)) - 1)
        BY <1>1, <2>1, PopEffect
      <3>2. Len(Contents(r)) - 1 \in 0 .. Len(Contents(r))
        BY <1>2, <3>1, EmptySeq
      <3>3. SubSeq(Contents(r), 1, Len(Contents(r)) - 1) \in Seq(Fragment)
        BY <1>2, <3>2, First
      <3>. QED
        BY <1>1, <3>1, <3>3, QueuesChange
    <2>2. ASSUME UNCHANGED vars
          PROVE  QueuesStep(r) /\ Contents(r)' \in Seq(Fragment)
      BY <1>1, <1>2, <2>2, QueuesKept
    <2>. QED
      BY <2>1, <2>2 DEF WriteFails
  <1>4. PICK k \in 0 .. Len(buffer[r]) :
          file' = [file EXCEPT ![r] = Flushed(r, k)]
    BY DEF WriteFails
  <1>. DEFINE bytes == file[r].bytes \o SubSeq(buffer[r], 1, k)
              new == [file[r] EXCEPT !.bytes = bytes]
  <1>5. /\ file' = [file EXCEPT ![r] = new]
        /\ buffer' = [buffer EXCEPT ![r] = <<>>]
        /\ task' = [task EXCEPT ![r] = "none"]
        /\ UNCHANGED <<rest, saved, intact, before, used>>
    BY <1>4 DEF WriteFails, Flushed
  <1>6. /\ bytes \in Seq(Nat)
        /\ RankOK(Contents(r)', saved[r], "none", bytes, <<>>, rest[r], intact[r],
                  before[r])
    BY <1>1, <1>3, RankStops DEF RankNow
  <1>. HIDE DEF bytes
  <1>7. new \in [exists : BOOLEAN, bytes : Seq(Nat)] /\ new.bytes = bytes
    BY <1>1, <1>6
  <1>. HIDE DEF new
  <1>8. CheckpointTypeOK'
    BY <1>1, <1>3, <1>5, <1>7, EmptySeq DEF CheckpointTypeOK, QueuesStep
  <1>9. FilesKept(r)
    BY <1>1, <1>5 DEF FilesKept, CheckpointTypeOK
  <1>10. RankNow(r)'
    <2>1. file'[r] = new /\ buffer'[r] = <<>> /\ task'[r] = "none"
      BY <1>1, <1>5 DEF CheckpointTypeOK
    <2>. QED
      BY <1>5, <1>6, <1>7, <2>1 DEF RankNow
  <1>. QED
    BY <1>3, <1>8, <1>9, <1>10, StepOfRank

LEMMA OpenForReadingKeeps ==
  ASSUME RankedInv, NEW r \in Rank, OpenForReading(r)
  PROVE  RankedInv'
  <1>1. /\ CheckpointTypeOK /\ QueuesOK /\ RankNow(r) /\ task[r] = "none"
        /\ UNCHANGED vars
        /\ file[r].bytes \in Seq(Nat) /\ Contents(r) \in Seq(Texts)
    BY RankTypes DEF RankedInv, OpenForReading
  <1>2. QueuesStep(r) /\ Contents(r)' = Contents(r)
    BY <1>1, QueuesKept
  <1>3. /\ task' = [task EXCEPT ![r] = "read"]
        /\ rest' = [rest EXCEPT ![r] = file[r].bytes]
        /\ before' = [before EXCEPT ![r] = Contents(r)]
        /\ used' = [used EXCEPT !.reads = @ + 1] /\ used.reads < MaxReads
        /\ UNCHANGED <<file, buffer, saved, intact>>
    BY DEF OpenForReading
  <1>4. CheckpointTypeOK'
    <2>1. used' \in [opens : 0 .. MaxOpens, reads : 0 .. MaxReads,
                     crashes : 0 .. MaxCrashes]
      <3>1. used \in [opens : 0 .. MaxOpens, reads : 0 .. MaxReads,
                      crashes : 0 .. MaxCrashes]
        BY <1>1 DEF CheckpointTypeOK
      <3>2. used.reads + 1 \in 0 .. MaxReads
        BY <1>3, <3>1, CheckpointAssumption
      <3>. QED
        BY <1>3, <3>1, <3>2
    <2>2. Contents(r) \in Seq(Seq(Nat))
      BY <1>1 DEF Texts
    <2>3. before' \in [Rank -> Seq(Seq(Nat))]
      BY <1>1, <1>3, <2>2 DEF CheckpointTypeOK
    <2>. QED
      BY <1>1, <1>2, <1>3, <2>1, <2>3 DEF CheckpointTypeOK, QueuesStep
  <1>5. FilesKept(r)
    BY <1>1, <1>3 DEF FilesKept, CheckpointTypeOK
  <1>6. RankNow(r)'
    <2>1. RankOK(Contents(r), saved[r], "none", file[r].bytes, buffer[r], rest[r],
                 intact[r], before[r])
      BY <1>1 DEF RankNow
    <2>2. RankOK(Contents(r), saved[r], "read", file[r].bytes, buffer[r],
                 file[r].bytes, intact[r], Contents(r))
      BY <1>1, <2>1, RankBegins
    <2>3. /\ task'[r] = "read" /\ rest'[r] = file[r].bytes
          /\ before'[r] = Contents(r)
      BY <1>1, <1>3 DEF CheckpointTypeOK
    <2>. QED
      BY <1>2, <1>3, <2>2, <2>3 DEF RankNow
  <1>. QED
    BY <1>2, <1>4, <1>5, <1>6, StepOfRank

\* What ReadLine does to the queue.
LEMMA ReadLineStep ==
  ASSUME RankedInv, NEW r \in Rank, ReadLine(r)
  PROVE  /\ LineRead(rest[r]) \in Seq(Nat)
         /\ LineRead(rest[r]) = <<>> => UNCHANGED vars
         /\ LineRead(rest[r]) # <<>> =>
              /\ push(r, LineRead(rest[r])) /\ ~Waiting(r) /\ QueueOK
              /\ pushes' \in 0 .. MaxPushes
         /\ QueuesStep(r)
         /\ RankOK(Contents(r)', saved[r], "read", file[r].bytes, buffer[r],
                   SubSeq(rest[r], Find(rest[r], Newline) + 1, Len(rest[r])),
                   intact[r], before[r])
  <1>. DEFINE line == LineRead(rest[r])
              left == SubSeq(rest[r], Find(rest[r], Newline) + 1, Len(rest[r]))
  <1>1. /\ CheckpointTypeOK /\ QueuesOK /\ QueueOK /\ ~Waiting(r) /\ RankNow(r)
        /\ task[r] = "read" /\ rest[r] # <<>>
        /\ file[r].bytes \in Seq(Nat) /\ before[r] \in Seq(Texts)
    BY RankTypes DEF RankedInv, ReadLine
  <1>2. \/ push(r, line) /\ UNCHANGED pushes /\ line # <<>>
        \/ line = <<>> /\ UNCHANGED vars
    BY DEF ReadLine, LineRead, push
  <1>3. RankOK(Contents(r), saved[r], "read", file[r].bytes, buffer[r], rest[r],
               intact[r], before[r])
    BY <1>1 DEF RankNow
  <1>. HIDE DEF line, left
  <1>4. /\ line \in Seq(Nat)
        /\ line = <<>> =>
             RankOK(Contents(r), saved[r], "read", file[r].bytes, buffer[r], left,
                    intact[r], before[r])
        /\ line # <<>> =>
             RankOK(Append(Contents(r), line), saved[r], "read", file[r].bytes,
                    buffer[r], left, intact[r], before[r])
    BY <1>1, <1>3, RankReads DEF line, left
  <1>5. CASE line = <<>>
    <2>1. UNCHANGED vars
      BY <1>2, <1>5
    <2>2. QueuesStep(r) /\ Contents(r)' = Contents(r)
      BY <1>1, <2>1, QueuesKept
    <2>. QED
      BY <1>4, <1>5, <2>1, <2>2 DEF line, left
  <1>6. CASE line # <<>>
    <2>1. push(r, line) /\ pushes' \in 0 .. MaxPushes
      BY <1>1, <1>2, <1>6 DEF CheckpointTypeOK, TypeOK
    <2>2. /\ QueueOK' /\ OthersKept(r) /\ wire' = wire
          /\ Contents(r)' = Append(Contents(r), line)
      BY <1>1, <1>4, <2>1, PushEffect
    <2>3. QueuesStep(r)
      BY <1>1, <2>2, QueuesChange
    <2>. QED
      BY <1>1, <1>4, <1>6, <2>1, <2>2, <2>3 DEF line, left
  <1>. QED
    BY <1>5, <1>6

LEMMA ReadLineKeeps ==
  ASSUME RankedInv, NEW r \in Rank, ReadLine(r)
  PROVE  RankedInv'
  <1>. DEFINE left == SubSeq(rest[r], Find(rest[r], Newline) + 1, Len(rest[r]))
  <1>1. CheckpointTypeOK /\ QueuesOK /\ task[r] = "read" /\ rest[r] \in Seq(Nat)
    BY RankTypes DEF RankedInv, ReadLine
  <1>2. /\ QueuesStep(r)
        /\ RankOK(Contents(r)', saved[r], "read", file[r].bytes, buffer[r], left,
                  intact[r], before[r])
    BY ReadLineStep
  <1>3. /\ rest' = [rest EXCEPT ![r] = left]
        /\ UNCHANGED <<file, task, buffer, saved, intact, before, used>>
    BY DEF ReadLine
  <1>4. left \in Seq(Nat)
    <2>. DEFINE f == Find(rest[r], Newline)
                s == rest[r]
    <2>1. s \in Seq(Nat)
      BY <1>1
    <2>. HIDE DEF s
    <2>2. Len(s) \in Nat /\ Find(s, Newline) \in 1 .. Len(s) + 1
      BY <2>1, LenProperties, FindFirst
    <2>3. \A i \in Find(s, Newline) + 1 .. Len(s) : s[i] \in Nat
      <3>1. \A i \in Find(s, Newline) + 1 .. Len(s) : i \in 1 .. Len(s)
        BY <2>2
      <3>. QED
        BY <2>1, <3>1, ElementOfSeq
    <2>4. Find(s, Newline) + 1 \in Int /\ Len(s) \in Int
      BY <2>2
    <2>5. SubSeq(s, Find(s, Newline) + 1, Len(s)) \in Seq(Nat)
      BY <2>3, <2>4, SubSeqProperties
    <2>. QED
      BY <2>5 DEF s
  <1>. HIDE DEF left
  <1>5. CheckpointTypeOK'
    BY <1>1, <1>2, <1>3, <1>4 DEF CheckpointTypeOK, QueuesStep
  <1>6. FilesKept(r)
    BY <1>1, <1>3 DEF FilesKept, CheckpointTypeOK
  <1>7. RankNow(r)'
    <2>1. rest'[r] = left
      BY <1>1, <1>3 DEF CheckpointTypeOK
    <2>. QED
      BY <1>1, <1>2, <1>3, <2>1 DEF RankNow
  <1>. QED
    BY <1>2, <1>5, <1>6, <1>7, StepOfRank

LEMMA EndReadingKeeps ==
  ASSUME RankedInv, NEW r \in Rank, EndReading(r)
  PROVE  RankedInv'
  <1>1. /\ CheckpointTypeOK /\ QueuesOK /\ RankNow(r) /\ task[r] = "read"
        /\ UNCHANGED vars
    BY DEF RankedInv, EndReading
  <1>2. QueuesStep(r) /\ Contents(r)' = Contents(r)
    BY <1>1, QueuesKept
  <1>3. /\ task' = [task EXCEPT ![r] = "none"]
        /\ before' = [before EXCEPT ![r] = <<>>]
        /\ UNCHANGED <<file, buffer, rest, saved, intact, used>>
    BY DEF EndReading
  <1>4. CheckpointTypeOK'
    <2>1. <<>> \in Seq(Seq(Nat))
      BY EmptySeq
    <2>2. before' \in [Rank -> Seq(Seq(Nat))]
      BY <1>1, <1>3, <2>1 DEF CheckpointTypeOK
    <2>. QED
      BY <1>1, <1>2, <1>3, <2>2 DEF CheckpointTypeOK, QueuesStep
  <1>5. FilesKept(r)
    BY <1>1, <1>3 DEF FilesKept, CheckpointTypeOK
  <1>6. RankNow(r)'
    <2>1. RankOK(Contents(r), saved[r], "read", file[r].bytes, buffer[r], rest[r],
                 intact[r], before[r])
      BY <1>1 DEF RankNow
    <2>2. Contents(r) \in Seq(Fragment)
      BY <2>1 DEF RankOK
    <2>3. RankOK(Contents(r), saved[r], "none", file[r].bytes, buffer[r], rest[r],
                 intact[r], <<>>)
      BY <2>1, <2>2, RankGoesOn
    <2>4. task'[r] = "none" /\ before'[r] = <<>>
      BY <1>1, <1>3 DEF CheckpointTypeOK
    <2>. QED
      BY <1>2, <1>3, <2>3, <2>4 DEF RankNow
  <1>. QED
    BY <1>2, <1>4, <1>5, <1>6, StepOfRank

\* Empty queues, without a message on its way.
LEMMA EmptyQueues ==
  ASSUME NEW r \in Rank, base[r] = <<>>, strings[r] = <<>>, head[r] = 0, count[r] = 0
  PROVE  Contents(r) = <<>>
  <1>1. SubSeq(<<>>, 1, 0) = <<>> /\ Len(<<>>) = 0
    BY SubSeqEmpty, EmptySeq
  <1>2. Contents(r) = Items(<<>>, <<>>, Len(<<>>))
    BY <1>1 DEF Contents
  <1>. QED
    BY <1>2, NoItems

LEMMA RankedInit == CheckpointInit => RankedInv
  <1>. SUFFICES ASSUME CheckpointInit PROVE RankedInv
    OBVIOUS
  <1>1. QueueOK
    BY QueueInit DEF CheckpointInit
  <1>2. CheckpointTypeOK
    <2>1. <<>> \in Seq(Nat) /\ <<>> \in Seq(Seq(Nat))
      BY EmptySeq
    <2>2. [exists |-> FALSE, bytes |-> <<>>] \in [exists : BOOLEAN, bytes : Seq(Nat)]
      BY <2>1
    <2>3. used \in [opens : 0 .. MaxOpens, reads : 0 .. MaxReads,
                    crashes : 0 .. MaxCrashes]
      BY CheckpointAssumption DEF CheckpointInit
    <2>. QED
      BY <1>1, <2>1, <2>2, <2>3 DEF CheckpointInit, CheckpointTypeOK, QueueOK
  <1>3. QueuesOK
    BY <1>1 DEF CheckpointInit, Init, QueueOK, QueuesOK, Waiting
  <1>4. ASSUME NEW r \in Rank PROVE RankNow(r)
    <2>1. base[r] = <<>> /\ strings[r] = <<>> /\ head[r] = 0 /\ count[r] = 0
      BY DEF CheckpointInit, Init
    <2>2. Contents(r) = <<>>
      BY <2>1, EmptyQueues
    <2>3. /\ saved[r] = <<>> /\ task[r] = "none" /\ file[r].bytes = <<>>
          /\ buffer[r] = <<>> /\ rest[r] = <<>> /\ intact[r] = TRUE /\ before[r] = <<>>
      BY DEF CheckpointInit
    <2>. QED
      BY <2>2, <2>3, RankStarts DEF RankNow
  <1>. QED
    BY <1>2, <1>3, <1>4 DEF RankedInv

\* The queues after a crash are those of the start.
LEMMA CrashQueues ==
  ASSUME TypeOK, Crash
  PROVE  /\ QueueOK' /\ QueuesOK'
         /\ \A r \in Rank : Contents(r)' = <<>> /\ wire'[r] = NoWork
         /\ content' = [r \in Rank |-> <<>>]
  <1>1. /\ base' = [r \in Rank |-> <<>>] /\ strings' = [r \in Rank |-> <<>>]
        /\ head' = [r \in Rank |-> 0] /\ count' = [r \in Rank |-> 0]
        /\ offsets_count' = [r \in Rank |-> 0]
        /\ wire' = [r \in Rank |-> NoWork]
        /\ content' = [r \in Rank |-> <<>>]
        /\ pushes' = pushes
    BY DEF Crash
  <1>2. Fits(<<>>, <<>>, 0, 0) /\ Len(<<>>) = 0 /\ <<>> \in Seq(Nat)
    BY FitsNone, EmptySeq
  <1>3. /\ NoWork.data = <<>> /\ NoWork.offsets = <<>>
        /\ NoWork \in [offsets : Seq(Nat), data : Seq(Nat)]
    BY <1>2 DEF NoWork
  <1>4. TypeOK'
    <2>1. /\ [r \in Rank |-> <<>>] \in [Rank -> Seq(Nat)]
          /\ [r \in Rank |-> 0] \in [Rank -> Nat]
          /\ [r \in Rank |-> NoWork] \in
               [Rank -> [offsets : Seq(Nat), data : Seq(Nat)]]
      BY <1>2, <1>3
    <2>. QED
      BY <1>1, <2>1 DEF TypeOK
  <1>5. ASSUME NEW r \in Rank
        PROVE  /\ base'[r] = <<>> /\ strings'[r] = <<>> /\ head'[r] = 0
               /\ count'[r] = 0 /\ wire'[r] = NoWork
    BY <1>1
  <1>6. QueueOK'
    <2>1. ASSUME NEW r \in Rank
          PROVE  /\ Fits(base'[r], strings'[r], count'[r], head'[r])
                 /\ Fits(wire'[r].data, wire'[r].offsets, Len(wire'[r].offsets),
                         Len(wire'[r].data))
                 /\ wire'[r] # NoWork => count'[r] = 0
      BY <1>2, <1>3, <1>5
    <2>. QED
      BY <1>4, <2>1, FitsQueue
  <1>7. QueuesOK'
    BY <1>5, <1>6 DEF QueueOK, QueuesOK, Waiting
  <1>8. ASSUME NEW r \in Rank PROVE Contents(r)' = <<>>
    <2>1. SubSeq(<<>>, 1, 0) = <<>>
      BY SubSeqEmpty
    <2>2. Contents(r)' = Items(<<>>, <<>>, Len(<<>>))
      BY <1>2, <1>5, <2>1 DEF Contents
    <2>. QED
      BY <2>2, NoItems
  <1>. QED
    BY <1>1, <1>5, <1>6, <1>7, <1>8

LEMMA CrashKeeps ==
  ASSUME RankedInv, Crash
  PROVE  RankedInv'
  <1>1. CheckpointTypeOK /\ QueuesOK /\ TypeOK
    BY DEF RankedInv, CheckpointTypeOK
  <1>2. QueueOK' /\ QueuesOK' /\ \A r \in Rank : Contents(r)' = <<>>
    BY <1>1, CrashQueues
  <1>3. PICK flushed \in [Rank -> UNION {0 .. Len(buffer[r]) : r \in Rank}] :
          /\ \A r \in Rank : flushed[r] <= Len(buffer[r])
          /\ file' = [r \in Rank |-> Flushed(r, flushed[r])]
    BY DEF Crash
  <1>4. /\ task' = [r \in Rank |-> "none"]
        /\ buffer' = [r \in Rank |-> <<>>] /\ rest' = [r \in Rank |-> <<>>]
        /\ before' = [r \in Rank |-> <<>>]
        /\ used' = [used EXCEPT !.crashes = @ + 1] /\ used.crashes < MaxCrashes
        /\ UNCHANGED <<saved, intact>>
    BY DEF Crash
  <1>. DEFINE bytes(r) == file[r].bytes \o SubSeq(buffer[r], 1, flushed[r])
              new(r) == [file[r] EXCEPT !.bytes = bytes(r)]
  <1>5. ASSUME NEW r \in Rank
        PROVE  /\ new(r) \in [exists : BOOLEAN, bytes : Seq(Nat)]
               /\ file'[r] = new(r)
               /\ RankNow(r)'
    <2>1. /\ RankNow(r) /\ file[r].bytes \in Seq(Nat) /\ buffer[r] \in Seq(Nat)
          /\ file[r] \in [exists : BOOLEAN, bytes : Seq(Nat)]
      BY <1>1, RankTypes DEF RankedInv
    <2>2. flushed[r] \in 0 .. Len(buffer[r])
      <3>1. PICK q \in Rank : flushed[r] \in 0 .. Len(buffer[q])
        BY <1>3
      <3>2. Len(buffer[q]) \in Nat /\ Len(buffer[r]) \in Nat
        BY <1>1, RankTypes, LenProperties
      <3>. QED
        BY <1>3, <3>1, <3>2
    <2>3. <<>> \in Seq(Fragment)
      BY EmptySeq
    <2>. DEFINE k == flushed[r]
                b == bytes(r)
    <2>4. /\ b \in Seq(Nat)
          /\ RankOK(<<>>, saved[r], "none", b, <<>>, <<>>, intact[r], <<>>)
      <3>1. RankOK(Contents(r), saved[r], task[r], file[r].bytes, buffer[r], rest[r],
                   intact[r], before[r])
        BY <2>1 DEF RankNow
      <3>2. k \in 0 .. Len(buffer[r])
        BY <2>2
      <3>. HIDE DEF k
      <3>3. /\ file[r].bytes \o SubSeq(buffer[r], 1, k) \in Seq(Nat)
            /\ RankOK(<<>>, saved[r], "none",
                      file[r].bytes \o SubSeq(buffer[r], 1, k), <<>>, <<>>,
                      intact[r], <<>>)
        BY <2>1, <2>3, <3>1, <3>2, RankStops
      <3>. QED
        BY <3>3 DEF k
    <2>5. file'[r] = new(r)
      BY <1>3 DEF Flushed
    <2>. HIDE DEF b
    <2>6. new(r) = [file[r] EXCEPT !.bytes = b]
      BY DEF b
    <2>. HIDE DEF new
    <2>7. new(r) \in [exists : BOOLEAN, bytes : Seq(Nat)] /\ new(r).bytes = b
      BY <2>1, <2>4, <2>6
    <2>8. RankNow(r)'
      <3>1. /\ task'[r] = "none" /\ buffer'[r] = <<>> /\ rest'[r] = <<>>
            /\ before'[r] = <<>> /\ saved'[r] = saved[r] /\ intact'[r] = intact[r]
            /\ file'[r].bytes = b /\ Contents(r)' = <<>>
        BY <1>2, <1>4, <2>5, <2>7
      <3>. QED
        BY <2>4, <3>1 DEF RankNow
    <2>. QED
      BY <2>5, <2>7, <2>8
  <1>. HIDE DEF new
  <1>6. CheckpointTypeOK'
    <2>1. file' = [r \in Rank |-> new(r)]
      BY <1>3 DEF Flushed, new
    <2>2. file' \in [Rank -> [exists : BOOLEAN, bytes : Seq(Nat)]]
      BY <1>5, <2>1
    <2>3. <<>> \in Seq(Nat) /\ <<>> \in Seq(Seq(Nat))
      BY EmptySeq
    <2>4. used' \in [opens : 0 .. MaxOpens, reads : 0 .. MaxReads,
                     crashes : 0 .. MaxCrashes]
      <3>1. used \in [opens : 0 .. MaxOpens, reads : 0 .. MaxReads,
                      crashes : 0 .. MaxCrashes]
        BY <1>1 DEF CheckpointTypeOK
      <3>2. used.crashes + 1 \in 0 .. MaxCrashes
        BY <1>4, <3>1, CheckpointAssumption
      <3>. QED
        BY <1>4, <3>1, <3>2
    <2>. QED
      BY <1>1, <1>2, <1>4, <2>2, <2>3, <2>4 DEF CheckpointTypeOK, QueueOK
  <1>. QED
    BY <1>2, <1>5, <1>6 DEF RankedInv

LEMMA RankedNext == RankedInv /\ [CheckpointNext]_allVars => RankedInv'
  <1>. SUFFICES ASSUME RankedInv, [CheckpointNext]_allVars PROVE RankedInv'
    OBVIOUS
  <1>1. ASSUME NEW r \in Rank, Callback(r) PROVE RankedInv'
    BY <1>1, CallbackKeeps
  <1>2. ASSUME NEW r \in Rank, OpenForWriting(r) PROVE RankedInv'
    BY <1>2, OpenForWritingKeeps
  <1>3. ASSUME NEW r \in Rank, WriteItem(r) PROVE RankedInv'
    BY <1>3, WriteItemKeeps
  <1>4. ASSUME NEW r \in Rank, CloseFile(r) PROVE RankedInv'
    BY <1>4, CloseFileKeeps
  <1>5. ASSUME NEW r \in Rank, WriteFails(r) PROVE RankedInv'
    BY <1>5, WriteFailsKeeps
  <1>6. ASSUME NEW r \in Rank, OpenForReading(r) PROVE RankedInv'
    BY <1>6, OpenForReadingKeeps
  <1>7. ASSUME NEW r \in Rank, ReadLine(r) PROVE RankedInv'
    BY <1>7, ReadLineKeeps
  <1>8. ASSUME NEW r \in Rank, EndReading(r) PROVE RankedInv'
    BY <1>8, EndReadingKeeps
  <1>9. CASE Crash
    BY <1>9, CrashKeeps
  <1>10. CASE UNCHANGED allVars
    <2>1. UNCHANGED vars /\ UNCHANGED fileVars
      BY <1>10 DEF allVars
    <2>2. CheckpointTypeOK'
      BY <2>1 DEF RankedInv, CheckpointTypeOK, TypeOK, vars, fileVars
    <2>3. QueuesOK'
      BY <2>1 DEF RankedInv, QueuesOK, Layout, Waiting, vars
    <2>4. ASSUME NEW r \in Rank PROVE RankNow(r)'
      <3>1. RankNow(r) /\ Contents(r)' = Contents(r)
        BY <2>1 DEF RankedInv, Contents, vars
      <3>. QED
        BY <2>1, <3>1 DEF RankNow, fileVars
    <2>. QED
      BY <2>2, <2>3, <2>4 DEF RankedInv
  <1>. QED
    BY <1>1, <1>2, <1>3, <1>4, <1>5, <1>6, <1>7, <1>8, <1>9, <1>10 DEF CheckpointNext

\* What Queue::write and Queue::read (queue.cpp) keep true of a queue, its file
\* and the text in between, whatever the items, between any two of their turns
\* and across any number of failed calls and crashes of the job.
THEOREM CheckpointInvariant == CheckpointSpec => []CheckpointInv
  <1>1. CheckpointInit => RankedInv
    BY RankedInit
  <1>2. RankedInv /\ [CheckpointNext]_allVars => RankedInv'
    BY RankedNext
  <1>3. RankedInv => CheckpointInv
    BY InvIsRanked
  <1>. QED
    BY <1>1, <1>2, <1>3, PTL DEF CheckpointSpec

-----------------------------------------------------------------------------
(* Checkpoints: what a restart brings back *)

\* When the whole file is read, its lines are behind the items there were.
LEMMA AllRead ==
  ASSUME RankedInv, NEW r \in Rank, task[r] = "read", rest[r] = <<>>
  PROVE  /\ Contents(r) = before[r] \o Lines(file[r].bytes)
         /\ CutOff(Lines(file[r].bytes), Restored(saved[r]))
         /\ intact[r] => Lines(file[r].bytes) = Restored(saved[r])
  <1>. DEFINE f == file[r].bytes
              s == saved[r]
  <1>1. /\ CheckpointTypeOK /\ QueuesOK /\ f \in Seq(Nat)
        /\ RankOK(Contents(r), s, "read", f, buffer[r], <<>>, intact[r], before[r])
    BY RankTypes DEF RankedInv, RankNow
  <1>2. /\ CutOff(Lines(f), Restored(s)) <=> Torn(Lines(f), Back(s, Len(s)))
        /\ Restored(s) = Back(s, Len(s))
    BY <1>1, InvOfRank
  <1>. HIDE DEF f, s
  <1>3. PICK n \in 0 .. Len(f) :
          /\ <<>> = SubSeq(f, n + 1, Len(f))
          /\ Contents(r) = before[r] \o Lines(SubSeq(f, 1, n))
    BY <1>1 DEF RankOK
  <1>4. n = Len(f)
    <2>1. Len(SubSeq(f, n + 1, Len(f))) = Len(f) - n
      BY <1>1, SliceBehind
    <2>2. Len(f) \in Nat /\ n \in Nat
      BY <1>1, LenProperties
    <2>3. SubSeq(f, n + 1, Len(f)) = <<>> /\ Len(<<>>) = 0
      BY <1>3, EmptySeq
    <2>4. Len(SubSeq(f, n + 1, Len(f))) = 0
      BY <2>3
    <2>5. Len(f) - n = 0
      BY <2>1, <2>4
    <2>. QED
      BY <2>2, <2>5
  <1>5. SubSeq(f, 1, n) = f
    BY <1>1, <1>4, SubSeqFull
  <1>6. /\ Torn(Lines(f), Back(s, Len(s)))
        /\ intact[r] => Lines(f) = Back(s, Len(s))
    BY <1>1 DEF RankOK
  <1>. QED
    BY <1>2, <1>3, <1>5, <1>6 DEF f, s

\* Queue::read pushes exactly what the last Queue::write that ended with success
\* wrote, in reverse order, each item cut at its first NUL byte and split at its
\* newlines (queue.cpp), for any items and however the queue was used before.
THEOREM ReadBringsBack == CheckpointSpec => []RoundTrip
  <1>1. RankedInv => RoundTrip
    <2>. SUFFICES ASSUME RankedInv, NEW r \in Rank,
                         task[r] = "read", rest[r] = <<>>, intact[r]
                  PROVE  Contents(r) = before[r] \o Restored(saved[r])
      BY DEF RoundTrip
    <2>. QED
      BY AllRead
  <1>2. CheckpointInit => RankedInv
    BY RankedInit
  <1>3. RankedInv /\ [CheckpointNext]_allVars => RankedInv'
    BY RankedNext
  <1>. QED
    BY <1>1, <1>2, <1>3, PTL DEF CheckpointSpec

\* What is behind the first of two sequences.
LEMMA ReadBehind ==
  ASSUME NEW s \in Seq(Texts), NEW t \in Seq(Texts), NEW c, c = s \o t
  PROVE  IsPrefix(s, c) /\ SubSeq(c, Len(s) + 1, Len(c)) = t
  <1>1. Len(s) \in Nat /\ Len(t) \in Nat
    BY LenProperties
  <1>2. /\ c \in Seq(Texts) /\ Len(c) = Len(s) + Len(t)
        /\ \A i \in 1 .. Len(s) + Len(t) :
             c[i] = IF i <= Len(s) THEN s[i] ELSE t[i - Len(s)]
    BY ConcatProperties
  <1>3. Len(s) <= Len(c) /\ \A i \in 1 .. Len(s) : s[i] = c[i]
    BY <1>1, <1>2
  <1>4. IsPrefix(s, c)
    BY <1>2, <1>3, PrefixIs
  <1>. DEFINE u == SubSeq(c, Len(s) + 1, Len(c))
              n == Len(s)
  <1>5. /\ u \in Seq(Texts) /\ Len(u) = Len(c) - n
        /\ \A i \in 1 .. Len(c) - n : u[i] = c[n + i]
    <2>1. Len(s) \in 0 .. Len(c)
      BY <1>1, <1>2
    <2>. QED
      BY <1>2, <2>1, SliceBehind
  <1>. HIDE DEF u
  <1>6. ASSUME NEW i \in 1 .. Len(u) PROVE u[i] = t[i]
    <2>1. /\ n + i \in 1 .. Len(s) + Len(t) /\ ~(n + i <= Len(s))
          /\ (n + i) - Len(s) = i /\ i \in 1 .. Len(c) - n
      BY <1>1, <1>2, <1>5
    <2>2. c[n + i] = t[(n + i) - Len(s)]
      BY <1>2, <2>1
    <2>. QED
      BY <1>5, <2>1, <2>2
  <1>7. Len(u) = Len(t)
    BY <1>1, <1>2, <1>5
  <1>8. u = t
    BY <1>5, <1>6, <1>7, SeqEqual
  <1>. QED
    BY <1>4, <1>8 DEF u

\* After a crash or a failure in the middle of Queue::write (queue.cpp), wherever
\* it comes, Queue::read pushes the first of these items, the last of them
\* perhaps cut off, and nothing else.
THEOREM TornFileIsBeginning == CheckpointSpec => []TornFile
  <1>1. RankedInv => TornFile
    <2>. SUFFICES ASSUME RankedInv, NEW r \in Rank, task[r] = "read", rest[r] = <<>>
                  PROVE  /\ IsPrefix(before[r], Contents(r))
                         /\ CutOff(SubSeq(Contents(r), Len(before[r]) + 1, count[r]),
                                   Restored(saved[r]))
      BY DEF TornFile
    <2>. DEFINE l == Lines(file[r].bytes)
                c == Contents(r)
    <2>1. /\ before[r] \in Seq(Texts) /\ Len(c) = count[r]
          /\ file[r].bytes \in Seq(Nat)
      BY RankTypes DEF RankedInv
    <2>2. l \in Seq(Texts)
      BY <2>1, LinesOf
    <2>3. c = before[r] \o l /\ CutOff(l, Restored(saved[r]))
      BY AllRead
    <2>. HIDE DEF l, c
    <2>4. IsPrefix(before[r], c) /\ SubSeq(c, Len(before[r]) + 1, Len(c)) = l
      BY <2>1, <2>2, <2>3, ReadBehind
    <2>. QED
      BY <2>1, <2>3, <2>4 DEF c
  <1>2. CheckpointInit => RankedInv
    BY RankedInit
  <1>3. RankedInv /\ [CheckpointNext]_allVars => RankedInv'
    BY RankedNext
  <1>. QED
    BY <1>1, <1>2, <1>3, PTL DEF CheckpointSpec

\* An item is in the queue or in the file, never in both: write (queue.cpp)
\* pops what it prints, so that a caller who carries on after a failure has in
\* the queue what write did not get to, for any items.
THEOREM NothingTwice == CheckpointSpec => []NoItemTwice
  <1>1. CheckpointInv => NoItemTwice
    BY DEF CheckpointInv
  <1>. QED
    BY <1>1, CheckpointInvariant, PTL

-----------------------------------------------------------------------------
(* Checkpoints: the queues are stacks still *)

\* What push does to the stack.
LEMMA RestartedPush ==
  ASSUME QueueOK, NEW r \in Rank, NEW element \in Fragment, push(r, element),
         ~Waiting(r), pushes' \in 0 .. MaxPushes
  PROVE  RestartedStacks!Next
  <1>1. element \in Seq(Nat)
    BY FragmentText DEF Texts
  <1>2. /\ OthersKept(r) /\ wire' = wire /\ content' = content
        /\ Contents(r)' = Append(Contents(r), element)
    BY <1>1, PushEffect
  <1>3. [q \in Rank |-> Contents(q)]' =
          [[q \in Rank |-> Contents(q)] EXCEPT ![r] = Append(Contents(r), element)]
    BY <1>2, StackUpdate
  <1>4. RestartedStacks!Push(r, element)
    BY <1>2, <1>3, BatchesKept DEF RestartedStacks!Push
  <1>. QED
    BY <1>4 DEF RestartedStacks!Next

\* What pop does to it.
LEMMA RestartedPop ==
  ASSUME QueueOK, NEW r \in Rank, pop(r)
  PROVE  RestartedStacks!Next
  <1>1. /\ OthersKept(r) /\ wire' = wire /\ Contents(r) # <<>>
        /\ Contents(r)' = SubSeq(Contents(r), 1, Len(Contents(r)) - 1)
        /\ content' = [content EXCEPT ![r] = Contents(r)[Len(Contents(r))]]
    BY PopEffect
  <1>2. [q \in Rank |-> Contents(q)]' =
          [[q \in Rank |-> Contents(q)] EXCEPT
             ![r] = SubSeq(Contents(r), 1, Len(Contents(r)) - 1)]
    BY <1>1, StackUpdate
  <1>3. RestartedStacks!Pop(r)
    BY <1>1, <1>2, BatchesKept DEF RestartedStacks!Pop
  <1>. QED
    BY <1>3 DEF RestartedStacks!Next

\* ReadLine pushes a fragment: it is in the queue now.
LEMMA ReadLineIsPush ==
  ASSUME RankedInv, NEW r \in Rank, ReadLine(r)
  PROVE  RestartedStacks!Next \/ UNCHANGED vars
  <1>. DEFINE line == LineRead(rest[r])
  <1>1. /\ line \in Seq(Nat) /\ (line = <<>> => UNCHANGED vars)
        /\ line # <<>> => /\ push(r, line) /\ ~Waiting(r) /\ QueueOK
                          /\ pushes' \in 0 .. MaxPushes
        /\ Contents(r)' \in Seq(Fragment)
    BY ReadLineStep DEF RankOK
  <1>. HIDE DEF line
  <1>2. CASE line # <<>>
    <2>1. Contents(r)' = Append(Contents(r), line)
      BY <1>1, <1>2, PushEffect
    <2>2. Contents(r) \in Seq(Texts)
      BY RankTypes DEF RankedInv
    <2>3. line \in Texts
      BY <1>1 DEF Texts
    <2>. DEFINE new == Append(Contents(r), line)
    <2>4. new \in Seq(Fragment) /\ Len(new) = Len(Contents(r)) + 1
          /\ new[Len(Contents(r)) + 1] = line /\ Len(Contents(r)) \in Nat
      BY <1>1, <2>1, <2>2, <2>3, AppendProperties, LenProperties
    <2>. HIDE DEF new
    <2>5. Len(Contents(r)) + 1 \in 1 .. Len(new)
      BY <2>4
    <2>6. line \in Fragment
      BY <2>4, <2>5, ElementOfSeq
    <2>. QED
      BY <1>1, <1>2, <2>6, RestartedPush
  <1>. QED
    BY <1>1, <1>2

\* Whatever happens, checkpoints, failed calls and crashes included, the
\* callbacks see stacks of items: write (queue.cpp) pops, read pushes, and a job
\* that is started again has empty ones.
THEOREM QueuesStayStacks == CheckpointSpec => QueuesSurvive
  <1>1. CheckpointInit => RestartedStacks!Init
    <2>. SUFFICES ASSUME CheckpointInit PROVE RestartedStacks!Init
      OBVIOUS
    <2>1. QueueOK /\ Init
      BY QueueInit DEF CheckpointInit
    <2>2. ASSUME NEW r \in Rank PROVE Contents(r) = <<>> /\ Incoming(r) = <<>>
      <3>1. Contents(r) = <<>>
        BY <2>1, EmptyQueues DEF Init
      <3>2. wire[r] = NoWork
        BY <2>1 DEF Init
      <3>. QED
        BY <2>1, <3>1, <3>2, Stacked
    <2>3. content = [r \in Rank |-> <<>>]
      BY <2>1 DEF Init
    <2>. QED
      BY <2>2, <2>3 DEF RestartedStacks!Init
  <1>2. RankedInv /\ [CheckpointNext]_allVars =>
          [RestartedStacks!Next \/ RestartedStacks!Init']_RestartedStacks!vars
    <2>. SUFFICES ASSUME RankedInv, [CheckpointNext]_allVars
                  PROVE  \/ RestartedStacks!Next \/ RestartedStacks!Init'
                         \/ UNCHANGED RestartedStacks!vars
      OBVIOUS
    <2>1. CheckpointTypeOK /\ QueuesOK /\ QueueOK /\ TypeOK
      BY DEF RankedInv, CheckpointTypeOK, QueuesOK, QueueOK
    <2>2. UNCHANGED vars => UNCHANGED RestartedStacks!vars
      BY DEF vars, RestartedStacks!vars, Contents, Incoming
    <2>3. ASSUME NEW r \in Rank, pop(r) PROVE RestartedStacks!Next
      BY <2>1, <2>3, RestartedPop
    <2>4. ASSUME NEW r \in Rank, NEW element \in Item, enqueue(r, element)
          PROVE  RestartedStacks!Next
      <3>1. /\ push(r, element) /\ ~Waiting(r) /\ pushes' \in 0 .. MaxPushes
            /\ element # <<>>
        BY <2>1, <2>4, EnqueueStep DEF push
      <3>2. element \in Fragment
        BY <3>1, ItemIsFragment
      <3>. QED
        BY <2>1, <3>1, <3>2, RestartedPush
    <2>5. CASE UNCHANGED allVars
      BY <2>2, <2>5 DEF allVars
    <2>6. ASSUME NEW r \in Rank, Callback(r) PROVE RestartedStacks!Next
      BY <2>3, <2>4, <2>6 DEF Callback
    <2>7. ASSUME NEW r \in Rank,
                 \/ OpenForWriting(r) \/ CloseFile(r)
                 \/ OpenForReading(r) \/ EndReading(r)
          PROVE  UNCHANGED vars
      BY <2>7 DEF OpenForWriting, CloseFile, OpenForReading, EndReading
    <2>8. ASSUME NEW r \in Rank, WriteItem(r) PROVE RestartedStacks!Next
      BY <2>3, <2>8 DEF WriteItem
    <2>9. ASSUME NEW r \in Rank, WriteFails(r)
          PROVE  RestartedStacks!Next \/ UNCHANGED vars
      BY <2>3, <2>9 DEF WriteFails
    <2>10. ASSUME NEW r \in Rank, ReadLine(r)
           PROVE  RestartedStacks!Next \/ UNCHANGED vars
      BY <2>10, ReadLineIsPush
    <2>11. CASE Crash
      <3>1. /\ QueueOK' /\ content' = [r \in Rank |-> <<>>]
            /\ \A r \in Rank : Contents(r)' = <<>> /\ wire'[r] = NoWork
        BY <2>1, <2>11, CrashQueues
      <3>2. ASSUME NEW r \in Rank PROVE Incoming(r)' = <<>>
        <4>1. wire'[r] = NoWork
          BY <3>1
        <4>2. NoWork.offsets = <<>> /\ NoWork.data = <<>>
          BY DEF NoWork
        <4>. QED
          BY <4>1, <4>2, NoItems DEF Incoming
      <3>. QED
        BY <3>1, <3>2 DEF RestartedStacks!Init
    <2>. QED
      BY <2>2, <2>5, <2>6, <2>7, <2>8, <2>9, <2>10, <2>11 DEF CheckpointNext
  <1>3. CheckpointInit => RankedInv
    BY RankedInit
  <1>4. RankedInv /\ [CheckpointNext]_allVars => RankedInv'
    BY RankedNext
  <1>. QED
    BY <1>1, <1>2, <1>3, <1>4, PTL DEF CheckpointSpec, QueuesSurvive

=============================================================================
