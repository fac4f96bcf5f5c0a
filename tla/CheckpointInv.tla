---------------------------- MODULE CheckpointInv ----------------------------
(***************************************************************************)
(* The inductive invariant behind the checkpoints: what Checkpoint keeps   *)
(* true at every step, strong enough to imply that a restart brings back   *)
(* the items that were written, all of them or the first ones, and none    *)
(* twice, for any number of ranks, any items and any number of crashes.    *)
(***************************************************************************)
EXTENDS Checkpoint

\* No transfer is under way, and every queue is laid out.
QueuesOK == Layout /\ \A r \in Rank : ~Waiting(r)

\* Items are made of what the callbacks enqueued: read cuts and splits them,
\* and never invents one.
FragmentsOnly ==
  \A r \in Rank :
    Contents(r) \in Seq(Fragment) /\ saved[r] \in Seq(Fragment)

-----------------------------------------------------------------------------
(* Files *)

\* A text ends where a line does.
Ended(text) == text = <<>> \/ text[Len(text)] = Newline

\* What has been printed is whole lines: those of the items that are not in
\* the queue any more.
PrintedOK ==
  \A r \in Rank :
    task[r] = "write" =>
      /\ ~intact[r]
      /\ count[r] <= Len(saved[r])
      /\ Ended(buffer[r])
      /\ Lines(buffer[r]) =
           Restored(SubSeq(saved[r], count[r] + 1, Len(saved[r])))

\* What a file has once write is left: all that the queue had, if write ended
\* with success, and what comes first of it otherwise.
FilesOK ==
  \A r \in Rank :
    task[r] # "write" =>
      /\ buffer[r] = <<>>
      /\ CutOff(Lines(file[r].bytes), Restored(saved[r]))
      /\ intact[r] => Lines(file[r].bytes) = Restored(saved[r])

\* The lines of the first n bytes have been pushed, and a line is pushed whole.
ReadUpTo(r, n) ==
  LET bytes == file[r].bytes
  IN  /\ rest[r] = SubSeq(bytes, n + 1, Len(bytes))
      /\ Contents(r) = before[r] \o Lines(SubSeq(bytes, 1, n))
      /\ rest[r] # <<>> => Ended(SubSeq(bytes, 1, n))

ReadingOK ==
  \A r \in Rank :
    task[r] = "read" => \E n \in 0 .. Len(file[r].bytes) : ReadUpTo(r, n)

CheckpointInv ==
  /\ CheckpointTypeOK
  /\ QueuesOK
  /\ FragmentsOnly
  /\ NoItemTwice
  /\ PrintedOK
  /\ FilesOK
  /\ ReadingOK

=============================================================================
