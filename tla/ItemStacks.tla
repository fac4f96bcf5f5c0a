----------------------------- MODULE ItemStacks -----------------------------
(***************************************************************************)
(* What the queues of the ranks promise the callbacks: every rank has a    *)
(* stack of items, items leave it from the top, one by one (dequeue) or in *)
(* a batch that moves to another rank as it is (work stealing), and none   *)
(* is lost, duplicated or altered.                                         *)
(***************************************************************************)
EXTENDS Integers, Sequences

CONSTANTS Rank, Item

VARIABLES
  stack,   \* stack[r]: the items of rank r, the last one on top
  batch,   \* batch[r]: items on their way to rank r, <<>> if none are
  popped   \* popped[r]: the item the last dequeue of rank r returned

vars == <<stack, batch, popped>>

Init ==
  /\ stack = [r \in Rank |-> <<>>]
  /\ batch = [r \in Rank |-> <<>>]
  /\ popped = [r \in Rank |-> <<>>]

Push(r, item) ==
  /\ stack' = [stack EXCEPT ![r] = Append(@, item)]
  /\ UNCHANGED <<batch, popped>>

Pop(r) ==
  /\ stack[r] # <<>>
  /\ popped' = [popped EXCEPT ![r] = stack[r][Len(stack[r])]]
  /\ stack' = [stack EXCEPT ![r] = SubSeq(@, 1, Len(@) - 1)]
  /\ UNCHANGED batch

\* The n items on top of the stack of r go to d, in the same order.
Send(r, d, n) ==
  LET len == Len(stack[r])
  IN  /\ batch[d] = <<>>
      /\ batch' = [batch EXCEPT ![d] = SubSeq(stack[r], len - n + 1, len)]
      /\ stack' = [stack EXCEPT ![r] = SubSeq(@, 1, len - n)]
      /\ UNCHANGED popped

Receive(r) ==
  /\ batch[r] # <<>> /\ stack[r] = <<>>
  /\ stack' = [stack EXCEPT ![r] = batch[r]]
  /\ batch' = [batch EXCEPT ![r] = <<>>]
  /\ UNCHANGED popped

Next ==
  \E r \in Rank :
    \/ \E item \in Item : Push(r, item)
    \/ Pop(r)
    \/ \E d \in Rank \ {r} : \E n \in 1 .. Len(stack[r]) : Send(r, d, n)
    \/ Receive(r)

Spec == Init /\ [][Next]_vars

=============================================================================
