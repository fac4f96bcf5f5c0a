------------------------------- MODULE Queue -------------------------------
(***************************************************************************)
(* Queue (src/src/queue.cpp) as bytes: a memory pool, the offsets of the   *)
(* items in it, the offset of the next free byte and the number of items;  *)
(* and the transfer of items between the queues of two ranks, sendWork and *)
(* workReceive of State (src/src/state.cpp).                               *)
(*                                                                         *)
(* The vectors keep their length, and the bytes that were in them, when    *)
(* items leave the queue.  Allocation does not fail.  The two messages of  *)
(* a transfer (offsets and data, same tag and source) arrive in order and  *)
(* are one record here.  MainLoop shows when transfers happen: to a rank   *)
(* whose queue is empty, and which runs no callback until it has received  *)
(* the items (RequestMatching).                                            *)
(***************************************************************************)
EXTENDS Integers, Sequences

CONSTANTS
  Rank,         \* the ranks
  Item,         \* contents a callback may enqueue: sequences of bytes
  Page,         \* bytes Queue::extend adds at a time (4096 pages)
  StringChunk,  \* offsets Queue::extendStr adds at a time
  OffsetChunk,  \* offsets State::extendOffsets adds at a time (4096)
  MaxPushes     \* bound: elements the callbacks enqueue altogether

ASSUME QueueAssumption ==
  /\ Page \in Nat \ {0} /\ StringChunk \in Nat \ {0} /\ OffsetChunk \in Nat \ {0}
  /\ MaxPushes \in Nat
  /\ Item \subseteq Seq(Nat)

VARIABLES
  base,           \* base[r]: the memory pool; byte a is base[r][a + 1]
  strings,        \* strings[r]: offsets; that of item i is strings[r][i + 1]
  head,           \* head[r]: offset of the next free byte
  count,          \* count[r]: number of items
  offsets_count,  \* offsets_count[r]: length of the offset buffers of State
  wire,           \* wire[r]: work on its way to r: offsets and data
  content,        \* content[r]: what the last successful pop returned
  pushes          \* elements enqueued so far, to bound the model

vars == <<base, strings, head, count, offsets_count, wire, content, pushes>>

NoWork == [offsets |-> <<>>, data |-> <<>>]

TypeOK ==
  /\ base \in [Rank -> Seq(Nat)] /\ strings \in [Rank -> Seq(Nat)]
  /\ head \in [Rank -> Nat] /\ count \in [Rank -> Nat]
  /\ offsets_count \in [Rank -> Nat]
  /\ wire \in [Rank -> [offsets : Seq(Nat), data : Seq(Nat)]]
  /\ content \in [Rank -> Seq(Nat)]
  /\ pushes \in 0 .. MaxPushes

Init ==
  /\ base = [r \in Rank |-> <<>>] /\ strings = [r \in Rank |-> <<>>]
  /\ head = [r \in Rank |-> 0] /\ count = [r \in Rank |-> 0]
  /\ offsets_count = [r \in Rank |-> 0]
  /\ wire = [r \in Rank |-> NoWork]
  /\ content = [r \in Rank |-> <<>>]
  /\ pushes = 0

-----------------------------------------------------------------------------
(* Memory *)

\* The size reached by adding chunk until there is room for amount.
Grown(size, amount, chunk) ==
  IF size >= amount THEN size
  ELSE size + chunk * ((amount - size + chunk - 1) \div chunk)

\* extend and extendStr: a vector, resized if need be; new entries are 0.
Extend(array, amount, chunk) ==
  array \o [a \in 1 .. Grown(Len(array), amount, chunk) - Len(array) |-> 0]

\* memcpy of data to offset `at', or the assignment of consecutive entries.
Copy(array, at, data) ==
  [a \in 1 .. Len(array) |-> IF a \in at + 1 .. at + Len(data) THEN data[a - at]
                                                               ELSE array[a]]

\* The bytes from offset `from' up to offset `to'.
Bytes(array, from, to) == SubSeq(array, from + 1, to)

-----------------------------------------------------------------------------
(* Operations.  A rank that waits for work runs no callback. *)

Waiting(r) == wire[r] # NoWork

\* push: an empty element is refused, without effect.
push(r, element) ==
  /\ element # <<>>
  /\ strings' = [strings EXCEPT ![r] =
       Copy(Extend(@, count[r] + 1, StringChunk), count[r], <<head[r]>>)]
  /\ base' = [base EXCEPT ![r] =
       Copy(Extend(@, head[r] + Len(element), Page), head[r], element)]
  /\ head' = [head EXCEPT ![r] = @ + Len(element)]
  /\ count' = [count EXCEPT ![r] = @ + 1]
  /\ UNCHANGED <<offsets_count, wire, content>>

\* Circle::enqueue, called by a callback.
enqueue(r, element) ==
  /\ ~Waiting(r) /\ pushes < MaxPushes
  /\ push(r, element)
  /\ pushes' = pushes + 1

\* (mutant) head is not moved back.
pop_noReset(r) ==
  LET current == strings[r][count[r]]
  IN  /\ ~Waiting(r) /\ count[r] >= 1
      /\ content' = [content EXCEPT ![r] = Bytes(base[r], current, head[r])]
      /\ count' = [count EXCEPT ![r] = @ - 1]
      /\ UNCHANGED <<base, strings, head, offsets_count, wire, pushes>>

\* (mutant) head is moved back to before the item.
pop_tooFar(r) ==
  LET current == strings[r][count[r]]
  IN  /\ ~Waiting(r) /\ count[r] >= 1
      /\ content' = [content EXCEPT ![r] = Bytes(base[r], current, head[r])]
      /\ head' = [head EXCEPT ![r] = current - 1]
      /\ count' = [count EXCEPT ![r] = @ - 1]
      /\ UNCHANGED <<base, strings, offsets_count, wire, pushes>>

\* (mutant) The item is taken to end where the pool ends.
pop_wholePool(r) ==
  LET current == strings[r][count[r]]
  IN  /\ ~Waiting(r) /\ count[r] >= 1
      /\ content' = [content EXCEPT ![r] = Bytes(base[r], current, Len(base[r]))]
      /\ head' = [head EXCEPT ![r] = current]
      /\ count' = [count EXCEPT ![r] = @ - 1]
      /\ UNCHANGED <<base, strings, offsets_count, wire, pushes>>

\* pop: the bytes from the offset of the last item to head; an empty queue is
\* left alone.
pop(r) ==
  LET current == strings[r][count[r]]
  IN  /\ ~Waiting(r) /\ count[r] >= 1
      /\ content' = [content EXCEPT ![r] = Bytes(base[r], current, head[r])]
      /\ head' = [head EXCEPT ![r] = current]
      /\ count' = [count EXCEPT ![r] = @ - 1]
      /\ UNCHANGED <<base, strings, offsets_count, wire, pushes>>

\* sendWork: the last n items go to dest, with offsets relative to the first.
sendWork(r, dest, n) ==
  LET start_elem   == count[r] - n
      start_offset == strings[r][start_elem + 1]
  IN  /\ ~Waiting(r) /\ ~Waiting(dest) /\ count[dest] = 0
      /\ offsets_count' = [offsets_count EXCEPT ![r] = Grown(@, 2 + n, OffsetChunk)]
      /\ wire' = [wire EXCEPT ![dest] =
           [offsets |-> [i \in 1 .. n |-> strings[r][start_elem + i] - start_offset],
            data    |-> Bytes(base[r], start_offset, head[r])]]
      /\ count' = [count EXCEPT ![r] = @ - n]
      /\ head' = [head EXCEPT ![r] = start_offset]
      /\ UNCHANGED <<base, strings, content, pushes>>

\* workReceive: the data go to the base of the pool, the offsets to strings.
workReceive(r) ==
  LET items == Len(wire[r].offsets)
      chars == Len(wire[r].data)
  IN  /\ Waiting(r)
      /\ offsets_count' = [offsets_count EXCEPT ![r] = Grown(@, 2 + items, OffsetChunk)]
      /\ base' = [base EXCEPT ![r] =
           Copy(Extend(@, head[r] + chars, Page), 0, wire[r].data)]
      /\ strings' = [strings EXCEPT ![r] =
           Copy(Extend(@, items, StringChunk), 0, wire[r].offsets)]
      /\ count' = [count EXCEPT ![r] = items]
      /\ head' = [head EXCEPT ![r] = @ + chars]
      /\ wire' = [wire EXCEPT ![r] = NoWork]
      /\ UNCHANGED <<content, pushes>>

Next ==
  \E r \in Rank :
    \/ \E element \in Item : enqueue(r, element)
    \/ pop(r)
    \/ \E dest \in Rank \ {r} : \E n \in 1 .. count[r] : sendWork(r, dest, n)
    \/ workReceive(r)

Spec == Init /\ [][Next]_vars

-----------------------------------------------------------------------------
(* The items a queue, or a message, stands for *)

\* The items that start at the given offsets, the last one ending at `end'.
Items(array, offsets, end) ==
  [i \in 1 .. Len(offsets) |->
     Bytes(array, offsets[i], IF i = Len(offsets) THEN end ELSE offsets[i + 1])]

Contents(r) == Items(base[r], SubSeq(strings[r], 1, count[r]), head[r])
Incoming(r) == Items(wire[r].data, wire[r].offsets, Len(wire[r].data))

Stacks == INSTANCE ItemStacks
  WITH stack  <- [r \in Rank |-> Contents(r)],
       batch  <- [r \in Rank |-> Incoming(r)],
       popped <- content

\* The callbacks see stacks of items: what pop returns is what was pushed
\* last, on this rank or, with a batch of stolen items, on another, however
\* the pools have been reused.
QueueIsStack == Stacks!Spec

\* The first n offsets are those of n items, none of them empty, that lie one
\* behind the other from 0 up to `end'.
LaidOut(offsets, n, end) ==
  /\ n <= Len(offsets)
  /\ IF n = 0 THEN end = 0 ELSE offsets[1] = 0 /\ offsets[n] < end
  /\ \A i, j \in 1 .. n : i < j => offsets[i] < offsets[j]

\* The layout every operation relies on, of the queues and of the messages:
\* workReceive stops the program if the first offset is not 0 ("The base
\* address of the queue doesn't match what it should be") and adds to head,
\* which must be 0 by then; pop and sendWork take the bytes up to head for the
\* last item.
Layout ==
  \A r \in Rank :
    /\ LaidOut(strings[r], count[r], head[r]) /\ head[r] <= Len(base[r])
    /\ LaidOut(wire[r].offsets, Len(wire[r].offsets), Len(wire[r].data))
    /\ Waiting(r) => count[r] = 0

\* The state every operation on the queue relies on: types and layout.
QueueOK == TypeOK /\ Layout

=============================================================================
