# A TLA+ verification of libcircle

libcircle (`src/`, C++ over MPI) runs one job on all ranks of a communicator.
Every rank has a queue of work items; a *create* callback fills the queue, a
*process* callback takes items out of it and may put new ones in. Ranks that
run out of items steal some from random other ranks, and a distributed
termination detection tells all of them when no item is left anywhere. This
directory models that machinery, checks it with TLC on small instances and
proves its central safety properties with TLAPS for any number of ranks.

## 1. Inventory

| Part | State | Operations | Interacts with |
|---|---|---|---|
| Work sharing (`State`, `src/src/state.cpp`) | `work_requested`, `work_requested_rank`, `work_outstanding`, messages WORK_REQUEST / WORK_REPLY / WORK_RECEIPT | `workreqCheck`, `sendWork`, `sendNoWork`, `sendWorkToMany`, `workreceiptCheck`, `requestWork`, `workReceive`, `getNextProc` | reads and writes the queue; `sendWork` colors the rank for the token ring; `workreceiptCheck` resets the flag of the tree |
| Division of the queue | none (arithmetic) | `spread_counts`, the two splits and the loop of `sendWorkToMany` | work sharing |
| Main and cleanup loop | position in the loops, `barrier_started` | `State::mainLoop` | calls everything else |
| Ring termination | `token_is_local`, `token_proc`, `token_buf`, `token_send_req`, the token message | `checkForTerm`, `tokenIsSend`, `tokenRecv`, `tokenCheck` | main loop, cleanup loop |
| Tree termination | `term_flag`, `term_up`, `term_replies`, TERM messages | `checkForTermAllReduce` | main loop; waits for `work_outstanding` |
| Communication tree (`TreeState`) | parent, children | constructor, getters | tree termination, barrier, reduction, abort |
| Cleanup barrier | `barrier_started`, `barrier_up`, `barrier_replies`, BARRIER messages | `barrierStart`, `barrierTest` | ends the cleanup loop |
| Local queue (`Queue`, `src/src/queue.cpp`) | memory pool, `strings`, `head`, `count` | `push`, `pop`, `extend`, `extendStr`; `sendWork` and `workReceive` move bytes between queues | callbacks, work sharing |
| Checkpoint | one file per rank | `Queue::write`, `Queue::read`, `Circle::checkpoint`, `Circle::readRestarts` | queue |
| Reductions | `reduce_*`, REDUCE messages, user callbacks | `reduceCheck`, `reduceSync`, `Circle::reduce` | main loop, communication tree |
| Abort | `ABORT_FLAG`, `abort_*`, ABORT messages | `abortStart`, `abortCheck`, `abortReduce`, `bcast_abort` | all handlers |
| `Circle` class, C / Fortran / Python interfaces, log, backtrace, summary | settings | setters, wrappers, output | |

What is hard in this code, and what would make it wrong:

* **Interleavings.** A rank's loop is a sequence of handlers that poll
  (`MPI_Iprobe`) and never wait; handlers of different ranks interleave freely.
  Work moves while the token goes round: the token must not declare an end
  that a transfer behind it has undone (`NoEarlyExit`).
* **Messages not yet visible.** A probe may come back empty although the
  message was sent. Messages of different tags or sources overtake each other.
* **Matching.** Replies, flags and barrier messages carry no identity; only the
  protocol keeps an answer from being taken for another one (`RequestMatching`,
  `TermMatching`, `ReplyMatching`). `workReceive` overwrites the queue.
* **Request objects.** `tokenIsSend` overwrites a request, `tokenRecv` blocks
  in `MPI_Wait` (`TokenRequestSafe`).
* **Leaving.** A rank that leaves owes answers to others; nothing may be left
  in the communicator for the next `execute` (`DrainedAtReturn`,
  `TokenDrainedAtReturn`, `TermDrainedAtReturn`, `NoStrayReceipts`), and all
  must get out (`AllReturn`, `BarrierLive`).
* **Edges.** Fewer items than ranks, one rank, incomplete last level of the
  tree, reuse of memory with stale bytes.
* **Rounds.** Reductions of successive rounds, and the synchronous one at the
  end, use one tag and carry no number; the last one must count what ranks did
  while others had left the main loop already (`FinalResult`); a rank in cleanup must answer with a
  reply that spoils the round (`ReduceMatching`, `ResultComplete`).
* **Blocking sends.** Work goes out with blocking `MPI_Send` calls, inside a
  loop over the requestors, as two messages with the tag of a no-work reply. MPI
  may hold the sender until they are received. Ranks could wait for each other
  (`NoWaitChain`, `RequestsAnswered`) and messages of two replies mix
  (`TransferMatching`); and whatever is modelled with a handler as one step
  relies on interruptions making no difference (`HandlersAtomic`).
* **Crashes and failing writes.** The checkpoint is written over the only copy,
  popping as it goes (`RoundTrip`, `TornFile`, `NoItemTwice`).
* **Not covered:** the cut of a byte count to `int`, contributions of no
  bytes to a reduction, a tree of width 0 (the notes in `PROJECT.json`).

The list with lines and properties is under `hazards` in `PROJECT.json`.

## 2. Modules

| Module | Models | Used by |
|---|---|---|
| `WorkSplit` | `spread_counts`, the equal and random split | `WorkSharing`, `WorkTransfer` |
| `WorkSharing` | the request / reply / receipt handlers on numbers of items, one step each | `MainLoop`, `AtomicSharing` |
| `AtomicSharing` | what these handlers promise, whatever the order of the calls | `WorkTransfer` |
| `WorkTransfer` | the same handlers, interrupted at every message; blocking sends | `MCTransfer` |
| `WorkTransferInv` | the inductive invariant of `WorkTransfer` | `MCTransfer`, proofs |
| `MainLoop` | the two loops of `mainLoop`, without termination detection | `CircleRing`, `CircleTree` |
| `CircleRing` | `mainLoop` with the token ring (default) | `MCRing` |
| `CircleRingInv` | the inductive invariant of `CircleRing` | `MCRing`, proofs |
| `TreeTopology` | `TreeState`: parent and children | `CircleTree`, `Barrier`, `Reduction` |
| `Reduction` | `reduceCheck` and `reduceSync` over the tree | `MCReduction` |
| `ReductionInv` | the inductive invariant of `Reduction` | `MCReduction`, proofs |
| `CircleTree` | `mainLoop` with the allreduce (`TermTree`) | `MCTree` |
| `CircleTreeInv` | the inductive invariant of `CircleTree` | `MCTree`, proofs |
| `BarrierSpec` | what a barrier promises | `Barrier` |
| `Barrier` | `barrierStart` / `barrierTest`, message by message | `MCBarrier` |
| `ItemStacks` | what the callbacks see: stacks of items, stolen in batches | `Queue` |
| `Queue` | the queue and the transfers as bytes and offsets | `MCQueue`, `Checkpoint` |
| `Checkpoint` | `Queue::write` and `Queue::read`, the file, crash and restart | `CheckpointInv` |
| `CheckpointInv` | the inductive invariant of `Checkpoint` | `MCCheckpoint`, proofs |
| `WorkTransferProofs`, `MainLoopProofs`, `CircleRingProofs`, `CircleTreeProofs`, `TreeTopologyProofs`, `BarrierProofs`, `QueueProofs`, `ReductionProofs` | proofs; those of `Checkpoint` are in `QueueProofs` | |

Correspondence with the code:

* A step of `CircleRing` or `CircleTree` is one call of a handler by one rank.
  `pc[r]` is the handler that comes next in `mainLoop`: `workreqCheck`,
  `workreceiptCheck`, `requestWork` (on an empty queue only), `work` (process
  callback or termination check), then `barrierTest`, `cleanupWorkreq`,
  `cleanupRequest`, `cleanupToken` in the cleanup loop, and `return`. A handler
  is one step because what it does between its sends and receives is local. The
  one handler in which an answer could arrive in mid-call,
  `checkForTermAllReduce`, is split where it sends to the parent and then
  probes for the result. The loops of `workreqCheck` and `sendWorkToMany` send
  in mid-call too: `WorkTransfer` interrupts them at every message, and shows
  that this makes no difference.
* In `WorkTransfer` `pc[r]` is the next message or test of the rank: `reply` (the
  first message to `requestors[i]`), `sendData`, `sent` (where `sendWork`
  subtracts the items), `recvData` (the second `MPI_Recv` of `workReceive`).
  `sending[r]` is a message whose `MPI_Send` may not have returned; while that
  message is still on the wire the rank is held and does nothing. Which messages
  MPI copies at once is the constant `Buffered`. Requests and no-work replies
  (zero bytes, one `int`) must be among them (`ShortMessagesCopied`): if either
  is taken out, TLC finds the deadlock of two ranks that ask, or refuse, each
  other, which MPI's standard allows and its implementations avoid by copying
  short messages. Receipts are copied too; with ring termination nothing in the
  code even waits for them (finding 2). Termination detection is left out: an
  idle rank asks for ever.
* `AtomicSharing` is `WorkSharing` without the order of the main loop. The
  refinement mapping counts a reply as sent when the loop that will send it
  starts, and as received when its data are; a rank inside the loop has
  `sizes[0]` items.
* In `Checkpoint` `buffer` is what was printed and need not be in the file; a
  successful `fclose` puts all of it there, a failed call or a crash any prefix.
  (After a failed `fprintf` the code does not close the file; its buffer is
  taken to be lost or written at that point, not at the end of the process.)
  A file that cannot be opened has no effect and is no step.
* `count[r]` is `qp->count`. The contents of the items are in `Queue`, which
  relies on one fact of the protocol that `RequestMatching` establishes: work
  arrives only at a rank whose queue is empty and which waits for it. The two
  messages of a transfer (offsets, data) are one record.
* MPI is external. Messages of one source, destination and tag keep their
  order; different ones do not. `PromptTags` is the set of tags for which a
  probe never misses a message that was sent. For the others every probe may
  miss, any number of times.
* `MPI_Issend` of the token: the request is `pending` until the destination
  has received the token, `matched` until `MPI_Test` or `MPI_Wait` has been
  called on it, then `null`.
* In `MainLoop` the barrier is its promise: `barrierTest` returns 1 only after
  all ranks have called `barrierStart`. `Barrier` shows that the messages of the
  code keep this promise.
* In `Reduction` the number of ranks and the width of the tree are variables
  chosen in the initial state, so that one run goes through all the trees. A
  buffer of user data is the bag of contributions in it; a contribution is a
  rank and the number of the call of `reduceInitCallback` it comes from.
  The barrier appears as what `Barrier` shows of it. Termination detection may
  tell any rank to leave the main loop at any time (`LeaveMain`), whatever is left
  to process and while other ranks go on: findings 1 and 3 are such cases, and nothing
  about reductions rests on detection being right. The header and the data of a
  reply are put on the wire in one step: the receiver blocks in `MPI_Recv` for
  the second, and the sender does nothing between the two. A turn of `reduceCheck`'s loop over the children is a step
  (`ReduceGather`), the last one with what follows it in the same call
  (`ReduceFinish`): a call that takes several replies is as many steps, between
  which nothing is sent.
* `checkForTermAllReduce` declares a local `term_flag` that hides the member.
  `CircleTree` translates what the compiler makes of it: the member is ANDed
  with the children's flags and read by nobody; 0 goes up, and 1 comes down.
* Left out of the loops: tests of `ABORT_FLAG` (nothing can raise it, the bodies
  of `Circle::abort` and `bcast_abort` are disabled, so `abortReduce` and the
  checkpoint after the loops do nothing), reductions (off unless a
  reduction period is set; `Reduction` has them), counters for the summary.

## 3. Runs

| Run | Instance | Shows |
|---|---|---|
| `ring_safety` | 3 ranks, up to 3 items on rank 0, one more created by callbacks, random split; a probe for a work request or for the token may miss | the invariant `RingInv` and all safety properties of the ring |
| `ring_live` | 3 ranks, equal split, 2 items, all probes prompt | every rank returns (`AllReturn`), with an empty queue (`NoWorkLost`) |
| `ring_stray` (violation) | 2 ranks, 2 items | a receipt left behind (finding 2) |
| `ring_late` (violation) | 3 ranks, 2 items, work replies may be seen late | items never processed (finding 3) |
| `tree_safety` | 3 ranks in a chain, 3 items and one created later, random split, *every* probe may miss | the invariant `TreeInv`: matching of all messages, exact accounting of receipts; nothing left behind |
| `tree_live` | 3 ranks, root with two children, equal split, 2 items | every rank returns |
| `tree_early` (violation) | 2 ranks, 6 items | items never processed (finding 1) |
| `reduction` | every tree up to 4 ranks and width 2, one item, two periodic reductions and the synchronous one | the invariant `ReduceInv`; both ends of each edge of the tree agree; what rank 0 delivers holds the latest contribution of each rank exactly once; the number of processed items it reports never goes back, and counts every processed item in the end, whenever the ranks leave the main loop; nothing is left behind and all ranks return |
| `barrier` | 6 ranks, width 2, three barriers in a row | the message protocol implements `BarrierSpec`, with its liveness |
| `queue` | 2 ranks, items of 1 and 2 bytes, 5 pushes, chunks of 2 and 3 | the bytes implement `ItemStacks` |
| `transfer` | 3 ranks, up to 3 items on rank 0, random split, offsets and data held until received or not | the interrupted handlers implement `AtomicSharing`; no wait depends on another wait; the messages of a transfer stay together; shares fit and the sender keeps one item; every request is answered |
| `checkpoint` | 1 rank, an ordinary item and one with a newline and a NUL byte, 3 pushes, 2 checkpoints, 2 restarts, 1 crash | the invariant `CheckpointInv`; what `read` brings back after a checkpoint that succeeded, failed or was cut short; no item in queue and file at once; the queue stays a stack |

**Bounds.** Three ranks are the fewest with a rank that is neither first nor
last in the ring, so that work can go to a rank before, behind or at the token;
in the tree they give a chain of two levels or a root with two children. Three
items allow a division among two requestors (1, 1, 1); with the random split a
rank can also be given two of the three and then be asked for work itself, by
a rank the token has passed. That is the case in which a rank other than 0
must turn black (with the equal split it takes four items or a callback that
creates two), and the case in which a rank of the tree owes work to another
when the result of the allreduce reaches it. `Budget` bounds what process
callbacks create; without such a bound a job need not end. Two reductions
let a rank be asked again after it has replied, refuse in cleanup what its
siblings have taken part in, and go on to the synchronous reduction while
others are still in the barrier. Six ranks in the
barrier give an incomplete last level; three rounds let a rank be one barrier
ahead of another while messages of the one before are still taken. In `queue`
the chunks are smaller than two items, so that pools grow, shrink logically and
are reused with stale bytes. In `transfer` three items allow one loop with two
requestors, and a rank that was given work and is asked while its giver is still
inside the loop. All probes are prompt there, for `RequestsAnswered`; the
theorems hold with probes that miss. In
`checkpoint` two checkpoints and two restarts give a checkpoint over an older
one, a restart from one that was cut short, and a read into a queue that is not
empty. A rank reads and writes its own file only, so one is enough; the theorems
have any number of them. The
safety of a job of one rank, which has no one to ask and sends the token to
itself, is covered by the theorems about the ring.

**Fairness.** Every rank keeps executing its loops, which never sleep and call
no blocking operation that could wait for ever (`TokenRequestSafe` shows it for
`MPI_Wait`): weak fairness of `Step(r)`. In the liveness runs all probes are
prompt; MPI's progress rule says that a message is found sooner or later, not
after how many probes. `Return(r)` is strongly fair: the loops of `MainLoop`
poll the barrier in every turn and once all ranks have entered it, it must end,
which `BarrierLive` shows of `barrierTest` under weak fairness of its steps. In
`Barrier` entering is not fair: a barrier nobody enters never ends. In
`WorkTransfer` every rank keeps running, and a held `MPI_Send` returns once its
message is received. In `Reduction` every rank keeps running; the steps are the calls that find
something, and a call that finds nothing (`Idle`) changes nothing. There a rank
that runs leaves the main loop in the end; that termination detection lets it is
`AllReturn` of `ring_live` and `tree_live`.

**Deadlock** is checked in all runs of the main loop and the barrier (a rank
that waits for ever is a deadlock or a violation of liveness); in `transfer` it includes
ranks that are held in `MPI_Send` for ever; it is off in `queue` and
`checkpoint`, whose user has used up pushes and checkpoints in the end.

## 4. Findings

1. **Tree termination ends the job too early** (`tree_early`). The local
   `term_flag` at `src/src/state.cpp:637` hides the member with the children's
   answer; the root resets it to 1. The first allreduce that all ranks have
   taken part in ends the job, on ranks that may have given or received work
   meanwhile.
2. **A work receipt can be left behind** (`ring_stray`). The cleanup loop never
   calls `workreceiptCheck`. With ring termination nobody waits for
   receipts either, so a receipt may be in the communicator when all ranks have
   returned. With tree termination there is none (`NoStrayReceipts` in
   `tree_safety`), since a rank with an unacknowledged transfer does not go
   on with the allreduce.
3. **With ring termination work can arrive too late** (`ring_late`). If the
   probe for a work reply misses one that was sent, the sender can pass the
   token on, turn white, and the token, going round once more, finds all ranks
   idle and white. The items arrive in the cleanup loop and are not processed.
   If a probe never misses a work reply, no item is lost: that is a theorem.

Not a disagreement, but to be known (`RoundTrip` states it): a checkpoint of an
empty queue leaves the file of an earlier one in place, and the next restart
reads that file; an item with a newline comes back as several, and what follows a NUL
byte is dropped.

## 5. Properties

Of the main loop: `NoEarlyExit` (no rank leaves the main loop while work
exists), `RequestMatching`, `ReceiptAccounting` (`work_outstanding` is exactly
the transfers and receipts under way), `DrainedAtReturn`, `NoWorkLost`,
`NoStrayReceipts`, `AllReturn`. Of the ring: `RingInv`, `TokenRequestSafe`,
`TokenDrainedAtReturn`. Of the tree: `TreeInv` (the flags of the allreduce
match the ranks that wait for them), `TermCleanupOK` (what the comment before
the cleanup loop claims), `TermDrainedAtReturn`. Of the
work-sharing handlers message by message: `NoWaitChain`, `RequestsAnswered`,
`TransferMatching`, `HandlersAtomic`, `SharesFit`, `KeepsOne`. Of the
checkpoint: `CheckpointInv` (what queue, file and printed text have to do with
each other), `RoundTrip`, `TornFile`, `NoItemTwice`, `QueuesSurvive`. Of the other
components: `CommunicationTree` (`ParentChildAgree`, `ChildrenFit`,
`ParentBelow`), `BarrierOK` (types, `ReplyMatching` and what it rests on), `BarrierSafe`,
`BarrierLive`, `QueueOK` (types and `Layout`), `QueueIsStack`, and of the
reductions `ReduceInv` (with `ReduceMatching`: no message is taken for one of
another reduction), `ResultComplete`, `ProgressMonotone`, `FinalResult`,
`ReduceDrained`, `AllReturn`. For each, `PROJECT.json` names a mutated definition, a plausible
bug in the code, with which TLC finds the property violated. The mutated forms
stand before their originals and are marked `(mutant)`; no specification uses
them.

## 6. Proofs

All for any number of ranks, any queue lengths, both splits. "Whatever probes
miss" means for any `PromptTags`: every probe may come back empty.

| Module | Theorem | Statement |
|---|---|---|
| `CircleRingProofs` | `TypeCorrect`, `RequestsMatch`, `ReceiptsAccounted` | `Spec => []TypeOK`, `[]RequestMatching`, `[]ReceiptAccounting`, whatever probes miss |
| | `RingInvariant` | `Spec => []RingInv`, if no probe misses a work reply |
| | `NoRankExitsEarly`, `NoWorkIsLost`, `TokenRequestsSafe`, `NothingInFlight`, `NoTokenInFlight` | `[]NoEarlyExit`, `[]NoWorkLost`, `[]TokenRequestSafe`, `[]DrainedAtReturn`, `[]TokenDrainedAtReturn`, on the same condition |
| `CircleTreeProofs` | `TreeInvariant` | `Spec => []TreeInv`, for any width of the tree, whatever probes miss |
| | `ReceiptsAccounted`, `CleanupStartsClean`, `NothingInFlight`, `NoTermInFlight`, `NoReceiptLeftBehind` | `[]ReceiptAccounting`, `[]TermCleanupOK`, `[]DrainedAtReturn`, `[]TermDrainedAtReturn`, `[]NoStrayReceipts`, likewise |
| `WorkTransferProofs` | `TransferInvariant` | `Spec => []TransferInv`, whatever probes miss and whichever sends of work MPI holds |
| | `NoWaitChains`, `TransfersMatch` | `[]NoWaitChain`, `[]TransferMatching` |
| | `SharesAlwaysFit`, `SenderKeepsOne` | `[]SharesFit`, `[]KeepsOne`: the loop of `sendWorkToMany` |
| | `HandlersAreAtomic` | `Spec => HandlersAtomic`: the interrupted handlers implement `AtomicSharing` |
| `BarrierProofs` | `BarrierInvariant`, `BarrierIsSafe` | `Spec => []BarrierOK`; `Spec => BarrierSafe`: the messages implement `BarrierSpec` |
| `QueueProofs` | `QueueInvariant`, `QueueImplementsStacks` | `Spec => []QueueOK`; `Spec => QueueIsStack`: bytes and offsets implement `ItemStacks` |
| | `CheckpointInvariant` | `CheckpointSpec => []CheckpointInv`, for any number of ranks, items, checkpoints, restarts, failed calls and crashes |
| | `ReadBringsBack`, `TornFileIsBeginning`, `NothingTwice` | `CheckpointSpec => []RoundTrip`, `[]TornFile`, `[]NoItemTwice` |
| | `QueuesStayStacks` | `CheckpointSpec => QueuesSurvive`: pops and pushes of `write` and `read`, crashes and restarts are steps of `ItemStacks` or its initial state |
| `ReductionProofs` | `ReduceInvariant` | `Spec => []ReduceInv`, for any number of ranks, items and reductions and any width of the tree |
| | `ResultsComplete`, `ProgressNeverGoesBack` | `Spec => ResultComplete`, `Spec => ProgressMonotone` |
| | `FinalResultComplete`, `NothingLeftBehind` | `Spec => []FinalResult` (every processed item is counted), `Spec => []ReduceDrained` |
| | `TreesAreTrees` | `Spec => []CommunicationTree`, whichever number of ranks and width the initial state chose |
| `TreeTopologyProofs` | `TreeIsATree` | `CommunicationTree`, for any width |

Assumptions: `SharingAssumption` and `LoopAssumption` on the constants (types;
at least one rank), `TreeWidthAssumption` (a width of 0 divides by zero) and,
where the table says so, `PromptReplies` (`"WORK_REPLY" \in PromptTags`).
Finding 3 shows that the ring is not safe without it; nothing of the tree
needs it, since `TreeInv` claims nothing about the work that is left
(finding 1). For `WorkTransfer`: `TransferAssumption` (types; at least two
ranks) and `ShortMessagesCopied`. For `Barrier`: `BarrierAssumption` (at least
one rank, width not 0). For `Reduction`: `ReductionAssumption` (types of the
bounds; at least one rank, width not 0). For `Queue`: `QueueAssumption` (chunks of at least one
entry; items are strings of bytes, of any length), and for `Checkpoint`
`CheckpointAssumption` with it (the bounds of the model are numbers).

**The invariant of the ring.** `NoEarlyExit` says nothing of the states
before the end, so it is not inductive. `RingInv` (module `CircleRingInv`) adds
what the token knows:

* `TokenOnce`: the token is in one place at most.
* `WhiteOnWire`, `WhiteHeld`: a white token vouches for the ranks it has
  passed, *unless* a rank it has yet to visit is black. When it is back at rank
  0 there is none to visit, so all are quiet.
* `LateWork`: a rank about to pass the token on has looked for a reply
  before; work that was sent to it since then came from a rank that turned black
  by sending it, or one further up the ring is black. This is where
  `PromptReplies` is needed.
* `TerminateQuiet`, `TerminateOrder`: the terminate color is seen only when all
  is quiet, on exactly the ranks that have left the main loop, and the token
  is ahead of all of them, so that no token comes to a rank in cleanup.
* `BarrierInv`: a rank in the barrier has nothing outstanding; a rank returns
  when all are in it.
* `RequestMatching` and `AskOnEmpty`, which are inductive together without any
  condition (`MainLoopProofs`); they make a quiet rank stay quiet until work
  is sent to it.

`ReceiptAccounting` is inductive with `RequestMatching`: the ranks a rank waits
for are a set (`WorkSentTo`), since a rank that asks waits for one reply only.

`MainLoopProofs` proves, per handler, what it does to `RequestMatching`, to
`ReceiptAccounting` and to the predicates `Quiet` and `WorkComing`; `CircleRingProofs` goes through the
actions of `CircleRing`, with one lemma per part of the invariant that an action
can disturb. TLC checks `RingInv` in `ring_safety`.

**The invariant of the tree.** `TermMatching` does not say which flags a
rank has counted. `TreeInv` (module `CircleTreeInv`) adds

* `TermEdges`: what is under way between a rank and its parent is one of three
  things: nothing, both being in the same loop; a 0 going up, both in the main
  loop; a 1 coming down, the parent having left. So no flag of an allreduce is
  ever taken for that of another one: the first that completes is the last.
* `TermCounts`: `term_replies` is the number of children *gathered*, which have
  sent their flag, neither it nor an answer being under way; a rank that has
  sent its own has gathered all.
* `TermBarrier`: a rank leaves the main loop with every transfer acknowledged,
  which is why, with `ReceiptAccounting`, no receipt stays behind.

That the children of a rank are different ranks, each with this one as its
parent, comes from `TreeTopologyProofs` (`ChildrenInterval`: they are the
ranks between two bounds, so that counting them needs no induction).

**The invariant of the barrier** is built the same way, but a rank starts the
next barrier at once. `EdgeOK` therefore says which barrier both ends of an
edge are in: the parent is one ahead while its answer is under way. `NobodyAhead`
compares ranks that are not neighbours. When the root leaves, every rank has
told its parent: the smallest one that has not would have a parent, smaller
still, that has not (`RootHeardAll`). Any other rank leaves a barrier that its
parent has left before.
`BarrierIsSafe` maps `BarrierStart` to `Enter`, `BarrierDown` to `Leave`, and the
other steps to stutters.

**The queues.** `QueueOK` is inductive as it stands: that offsets increase
(`LaidOut`) is said for every pair of them, not for neighbours, so that no
induction is needed. The refinement compares item by item: `Contents(r)[k]` is
the bytes from one offset to the next, and a transfer moves the last items with
their offsets less that of the first of them. The rest is arithmetic on
positions, and that a vector extended by whole chunks keeps its entries.

**The invariant of the checkpoints.** `RoundTrip` and `TornFile` speak of the
end of `Queue::read` only. `CheckpointInv` (module `CheckpointInv`) follows the
items from the queue to the printed text, to the file and back:

* `NoItemTwice`: while a queue is written it holds the front part of the `saved`
  items, and what was printed are the others, last first. It is part of the
  invariant: without it nothing ties the file to the items.
* `PrintedOK`: the lines of the printed text are what the popped items bring
  back, and the text ends where a line does, so that the next item starts a new
  line.
* `FilesOK`: once `write` is left, the lines of the file are those of all saved
  items if it ended with success, and a torn beginning of them otherwise. This holds
  until the file is opened for writing again, over any number of crashes.
* `ReadingOK`: `read` has taken some number of bytes of the file, and pushed
  exactly the lines among them.
* `QueuesOK`: no transfer is under way and the offsets are in order;
  `FragmentsOnly`: items are parts of items that callbacks enqueued. These are
  what `QueuesSurvive` needs.

Ranks share nothing here but a crash, so the proof keeps one rank's part
(`RankNow`) and shows for each step that the others' are left alone
(`StepOfRank`); a crash is done for all ranks at once (`CrashKeeps`). The lemmas
`Rank...` carry one rank's part through a step, without the queues' bytes.

They rest on what the lines of a text are. `LinesUpTo` is a recursive function
over the bytes, and the library's theorems on induction and recursion take an
operator as a parameter, which the provers cannot instantiate. `UpTo` is used in
their place: a set of numbers that has 0, and n if it has n - 1, has all of them up to a
bound. (It follows from the least element of the others, which the library gives.) With it are
proved `LinesAreRuns` (a line is a stretch of the text),
`LinesConcat` (behind the end of a line the lines of two texts are put one behind the
other), `CutLines` and `TornLines` (a text cut off at any byte has lines cut off
likewise), `OneLine` (what `getline` takes is the next line), and, for the
listing of a queue, `BackStep` (popping an item adds its lines behind) and
`BackTorn`.

`QueuesStayStacks` needs the invariant since a popped item, or a line that is
pushed, must be a fragment of what was enqueued; the rest is as in
`QueueImplementsStacks`.

**The invariant of the transfers.** `NoWaitChain` alone is not inductive: that
the receiver of a held message does not wait itself depends on how both got
there. `TransferInv` (module `WorkTransferInv`) says

* `LoopShape`, `LoopSum`: inside the loop the ranks still to be served are
  different and have all asked; what the queue has lost since the loop began is
  the sum of the shares sent, in closed form (`SentBefore`, with the lemmas
  `SpreadSum` and `Shares`), since sums over arrays would need induction. `SharesFit`
  and `KeepsOne` follow by arithmetic.
* `HeldInLoop`: only offsets and data hold their sender, at the requestor the
  loop is at. This is where `ShortMessagesCopied` is needed.
* `Stages`: a rank has asked one rank at most, with an empty queue, and its
  request is in exactly one stage: on the way, owed by the loop of the other
  rank, refused, half sent, sent, or taken half or in full. No message between
  two ranks exists outside these stages, so the two messages of a transfer
  cannot be mixed with others.

`NoWaitChain` then holds because a rank somebody waits for is either one that
asked, whose queue is empty and which therefore sends no work, or one that is
between the two messages of a transfer to a rank that waits in `MPI_Recv`, whose
offsets have been received. `WorkTransferProofs` has a lemma per action and part
of the invariant; TLC checks `TransferInv` in `transfer`.

**Handlers as single steps.** `HandlersAreAtomic` justifies that every other
module takes a handler as one step. Under the mapping of `WorkTransfer` a rank
inside the loop of `workreqCheck` has what it will keep (`KeptCount`), the
replies it has yet to send are there already (`RepliesDue`), and transfers whose
data have not been received are still outstanding (`TransfersOpen`). So
`TakeRequests` is the whole of `Answer`, the steps of the loop after it stutter,
and a requestor that takes a no-work reply or the data does `Ask`. Each action
has a lemma. They rest on `ReplyValue`: by the stages of `TransferInv` there is at
most one reply between two ranks, sent or due, and it is worth what was divided
when the loop began.

**The invariant of the reductions.** `ReduceMatching` says which messages may
be between two ranks, nothing of what they say. `ReduceInv` (module
`ReductionInv`) has a part on the control and a part on the data. The control is
again said edge by edge:

* `ReduceEdges`: between a rank and its parent there is nothing, or a request to
  a rank that has none outstanding, or a reply to a parent that waits for it, or
  the result of `reduceSync` to a parent that has not taken it. A rank takes part
  in a reduction only if its parent does, so two reductions never meet on an
  edge.
* `RepliesCounted`: `reduce_replies` is the number of children *heard* (`Heard`),
  each once.
* `PhasesOK`: who has entered the barrier has no reduction outstanding, and
  `reduceSync` begins when all have entered, on quiet edges.

What is gathered would be a sum over a subtree, which cannot be computed by
induction here. It is said by sets instead. `Below(r)` is the subtree of `r`, the
ranks in every set that holds `r` and is closed under children; `Covered(r)` is
`r` and the subtrees of the children heard. `BuffersOK` says that a buffer, or
the data of a valid reply, is `Latest` of such a set: the contribution of the last
`reduceInitCallback` of each of its ranks, once. Subtrees of different children
are disjoint, so that taking a reply adds the two bags; when all children are
heard, `Covered(r)` is `Below(r)`, and `Below(0)` is every rank.

For the totals, `ItemsOf(counts, S)` is the number of pairs of a rank of `S` and
one of its items, a cardinality in place of a sum. `FinalResult` says that the
result of `reduceSync` is this number for all ranks and what they have processed, which
is not what the job had to do if detection was wrong (findings 1 and 3); with the
ring and prompt replies it is (`NoWorkIsLost`). It
follows from `SyncTotals`, and that from `PhasesOK`: once a rank is in
`reduceSync` all have entered the barrier, so none is in the main loop and
processes anything. Ranks that leave the main loop early do no harm, since
`reduceSync` waits for the barrier. `ProgressMonotone` needs more, since the
ranks of one reduction are asked at different times: `TotalsOK` says that there
are counts `reported`, which each rank had reached when the last result was
delivered, such that this result is at most their sum, and whatever is being
gathered, anywhere in the tree, is at least their sum over the ranks it covers.
When rank 0 delivers, what the ranks have processed by now takes the place of
`reported`, which is sound since no other rank is gathering, and no reply is on
its way, at that moment.
`ReductionProofs` proves the two parts action by action (`...Control`, `...Data`).

**Only model-checked:** liveness (`AllReturn`, `BarrierLive`,
`RequestsAnswered`), which is out of the prover's reach, as is whatever speaks
of `ENABLED`. Every invariant, action property and refinement of the passing
runs is stated by a theorem; in `tree_early` and `ring_late` `NoWorkLost`, and in
`ring_stray` `NoStrayReceipts`, do not hold.

## 7. Not modelled, and why

Logging, backtraces, the printed summary and the MPI start and end are output
or environment. The language interfaces and the setters of `Circle` pass calls
on. The abort broadcast has no state to model: the bodies of `Circle::abort` and
`bcast_abort` are disabled (`#if 0`), so `ABORT_FLAG` stays 0 and no ABORT message
is ever sent. A contribution of no bytes to a reduction, which makes the code
copy from a null pointer, and a tree of width 0, which makes it divide by zero,
are left to the C library and the hardware. Byte counts above the width of an
`int` take a queue of 2 GiB. The experiment under `src/experimental` is not built. Failure of
allocation, and MPI errors, which end the program by default, are left out.

## 8. Plan

All components are modelled that keep state other parts rely on, and all safety
properties are proved. What remains is to follow the code: the abort broadcast
is to be modelled when it is connected again.
