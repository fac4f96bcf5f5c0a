----------------------------- MODULE Checkpoint -----------------------------
(***************************************************************************)
(* Circle::checkpoint and Circle::readRestarts: Queue::write and           *)
(* Queue::read (src/src/queue.cpp) on the byte-level queues of Queue, and  *)
(* the file circle<rank>.txt that outlives the job.                        *)
(*                                                                         *)
(* The loops of write and read take one item or line at a time, so that a  *)
(* crash of the job can come between any two.  The C library is external:  *)
(* what fprintf is given reaches the file at the latest when fclose        *)
(* succeeds; before that, or if a call fails, any prefix of it does.       *)
(*                                                                         *)
(* A rank reads and writes its own file only, and no work is transferred   *)
(* while it does: transfers are left to Queue.                             *)
(***************************************************************************)
EXTENDS Queue, SequencesExt

CONSTANTS
  MaxOpens,   \* bound: checkpoint files opened for writing
  MaxReads,   \* bound: checkpoint files opened for reading
  MaxCrashes  \* bound: crashes of the job

ASSUME CheckpointAssumption ==
  MaxOpens \in Nat /\ MaxReads \in Nat /\ MaxCrashes \in Nat

NUL == 0       \* ends a C string
Newline == 10  \* ends a line

VARIABLES
  file,     \* file[r]: circle<r>.txt: whether it exists, and its bytes
  task,     \* task[r]: "write" or "read" while inside Queue::write or read
  buffer,   \* buffer[r]: bytes printed and not known to be in the file
  rest,     \* rest[r]: bytes of the file that read has not looked at yet
  saved,    \* history: the items of the queue when the file was opened
  intact,   \* history: that call of write ended with success
  before,   \* history: the items of the queue when read was called
  used      \* operations so far, to bound the model

fileVars == <<file, task, buffer, rest, saved, intact, before, used>>
allVars == <<vars, fileVars>>

CheckpointTypeOK ==
  /\ TypeOK
  /\ file \in [Rank -> [exists : BOOLEAN, bytes : Seq(Nat)]]
  /\ task \in [Rank -> {"none", "write", "read"}]
  /\ buffer \in [Rank -> Seq(Nat)] /\ rest \in [Rank -> Seq(Nat)]
  /\ saved \in [Rank -> Seq(Seq(Nat))] /\ before \in [Rank -> Seq(Seq(Nat))]
  /\ intact \in [Rank -> BOOLEAN]
  /\ used \in [opens : 0 .. MaxOpens, reads : 0 .. MaxReads,
               crashes : 0 .. MaxCrashes]

CheckpointInit ==
  /\ Init
  /\ file = [r \in Rank |-> [exists |-> FALSE, bytes |-> <<>>]]
  /\ task = [r \in Rank |-> "none"]
  /\ buffer = [r \in Rank |-> <<>>] /\ rest = [r \in Rank |-> <<>>]
  /\ saved = [r \in Rank |-> <<>>] /\ before = [r \in Rank |-> <<>>]
  /\ intact = [r \in Rank |-> TRUE]
  /\ used = [opens |-> 0, reads |-> 0, crashes |-> 0]

\* The callbacks use the queue between two checkpoints.
Callback(r) ==
  /\ task[r] = "none"
  /\ (\E element \in Item : enqueue(r, element)) \/ pop(r)
  /\ UNCHANGED fileVars

-----------------------------------------------------------------------------
(* Queue::write *)

\* The position of the first x in seq, or the one behind its end.
Find(seq, x) ==
  Min({k \in 1 .. Len(seq) : seq[k] = x} \cup {Len(seq) + 1})

\* What a C string shows of the bytes of an item: those before the first NUL.
Text(item) == SubSeq(item, 1, Find(item, NUL) - 1)

\* (mutant) All bytes are written.
Printed_whole(item) == item \o <<Newline>>

\* (mutant) The lines are not ended.
Printed_open(item) == Text(item)

\* fprintf(checkpoint_file, "%s\n", str.c_str()): up to the first NUL.
Printed(item) == Text(item) \o <<Newline>>

\* (mutant) fopen(filename, "a") keeps what is there.
OpenForWriting_append(r) ==
  /\ task[r] = "none" /\ count[r] > 0 /\ used.opens < MaxOpens
  /\ file' = [file EXCEPT ![r].exists = TRUE]
  /\ task' = [task EXCEPT ![r] = "write"]
  /\ saved' = [saved EXCEPT ![r] = Contents(r)]
  /\ intact' = [intact EXCEPT ![r] = FALSE]
  /\ used' = [used EXCEPT !.opens = @ + 1]
  /\ UNCHANGED <<vars, buffer, rest, before>>

\* fopen(filename, "w") empties the file; an empty queue is not written and
\* leaves the file as it is.
OpenForWriting(r) ==
  /\ task[r] = "none" /\ count[r] > 0 /\ used.opens < MaxOpens
  /\ file' = [file EXCEPT ![r] = [exists |-> TRUE, bytes |-> <<>>]]
  /\ task' = [task EXCEPT ![r] = "write"]
  /\ saved' = [saved EXCEPT ![r] = Contents(r)]
  /\ intact' = [intact EXCEPT ![r] = FALSE]
  /\ used' = [used EXCEPT !.opens = @ + 1]
  /\ UNCHANGED <<vars, buffer, rest, before>>

\* One turn of the loop: the last item is popped and printed.
WriteItem(r) ==
  /\ task[r] = "write" /\ count[r] > 0
  /\ pop(r)
  /\ buffer' = [buffer EXCEPT ![r] = @ \o Printed(content'[r])]
  /\ UNCHANGED <<file, task, rest, saved, intact, before, used>>

\* The file as it is when `flushed' bytes of the buffer have reached it.
Flushed(r, flushed) ==
  [file[r] EXCEPT !.bytes = @ \o SubSeq(buffer[r], 1, flushed)]

\* fclose at the end of the loop succeeds.
CloseFile(r) ==
  /\ task[r] = "write" /\ count[r] = 0
  /\ file' = [file EXCEPT ![r] = Flushed(r, Len(buffer[r]))]
  /\ buffer' = [buffer EXCEPT ![r] = <<>>]
  /\ intact' = [intact EXCEPT ![r] = TRUE]
  /\ task' = [task EXCEPT ![r] = "none"]
  /\ UNCHANGED <<vars, rest, saved, before, used>>

\* fprintf fails, after the item was popped, or fclose fails: write returns a
\* negative value, what has not reached the file is lost.
WriteFails(r) ==
  /\ task[r] = "write"
  /\ \/ pop(r)
     \/ count[r] = 0 /\ UNCHANGED vars
  /\ \E flushed \in 0 .. Len(buffer[r]) :
       file' = [file EXCEPT ![r] = Flushed(r, flushed)]
  /\ buffer' = [buffer EXCEPT ![r] = <<>>]
  /\ task' = [task EXCEPT ![r] = "none"]
  /\ UNCHANGED <<rest, saved, intact, before, used>>

-----------------------------------------------------------------------------
(* Queue::read *)

\* The file is opened; read returns -1 without effect if there is none.
OpenForReading(r) ==
  /\ task[r] = "none" /\ file[r].exists /\ used.reads < MaxReads
  /\ task' = [task EXCEPT ![r] = "read"]
  /\ rest' = [rest EXCEPT ![r] = file[r].bytes]
  /\ before' = [before EXCEPT ![r] = Contents(r)]
  /\ used' = [used EXCEPT !.reads = @ + 1]
  /\ UNCHANGED <<vars, file, buffer, saved, intact>>

\* One turn of the loop: getline, and push, which refuses an empty line.
ReadLine(r) ==
  LET line == SubSeq(rest[r], 1, Find(rest[r], Newline) - 1)
  IN  /\ task[r] = "read" /\ rest[r] # <<>>
      /\ \/ push(r, line) /\ UNCHANGED pushes
         \/ line = <<>> /\ UNCHANGED vars
      /\ rest' = [rest EXCEPT ![r] =
                    SubSeq(@, Find(@, Newline) + 1, Len(@))]
      /\ UNCHANGED <<file, task, buffer, saved, intact, before, used>>

\* The end of the file.
EndReading(r) ==
  /\ task[r] = "read" /\ rest[r] = <<>>
  /\ task' = [task EXCEPT ![r] = "none"]
  /\ before' = [before EXCEPT ![r] = <<>>]
  /\ UNCHANGED <<vars, file, buffer, rest, saved, intact, used>>

-----------------------------------------------------------------------------
\* The job dies on all ranks, at any time, and is started again: the queues
\* are lost, the files remain, with some prefix of what was printed.
Crash ==
  /\ used.crashes < MaxCrashes
  /\ \E flushed \in [Rank -> UNION {0 .. Len(buffer[r]) : r \in Rank}] :
       /\ \A r \in Rank : flushed[r] <= Len(buffer[r])
       /\ file' = [r \in Rank |-> Flushed(r, flushed[r])]
  /\ base' = [r \in Rank |-> <<>>] /\ strings' = [r \in Rank |-> <<>>]
  /\ head' = [r \in Rank |-> 0] /\ count' = [r \in Rank |-> 0]
  /\ offsets_count' = [r \in Rank |-> 0]
  /\ wire' = [r \in Rank |-> NoWork]
  /\ content' = [r \in Rank |-> <<>>]
  /\ task' = [r \in Rank |-> "none"]
  /\ buffer' = [r \in Rank |-> <<>>] /\ rest' = [r \in Rank |-> <<>>]
  /\ before' = [r \in Rank |-> <<>>]
  /\ used' = [used EXCEPT !.crashes = @ + 1]
  /\ UNCHANGED <<pushes, saved, intact>>

CheckpointNext ==
  \/ \E r \in Rank :
       \/ Callback(r)
       \/ OpenForWriting(r) \/ WriteItem(r) \/ CloseFile(r) \/ WriteFails(r)
       \/ OpenForReading(r) \/ ReadLine(r) \/ EndReading(r)
  \/ Crash

CheckpointSpec == CheckpointInit /\ [][CheckpointNext]_allVars

-----------------------------------------------------------------------------
(* What a restart is expected to bring back *)

\* LinesUpTo(text)[n]: the non-empty lines of the first n bytes of a text, the
\* last of which may go on behind them.  A byte other than a newline starts a
\* line if it is the first or follows a newline.
LinesUpTo(text) ==
  LET lines[n \in 0 .. Len(text)] ==
        IF n = 0 THEN <<>>
        ELSE IF text[n] = Newline THEN lines[n - 1]
        ELSE IF n = 1 \/ text[n - 1] = Newline
        THEN Append(lines[n - 1], <<text[n]>>)
        ELSE [lines[n - 1] EXCEPT ![Len(lines[n - 1])] = Append(@, text[n])]
  IN  lines

Lines(text) == LinesUpTo(text)[Len(text)]

\* What the file of a queue with these items brings back: the last item is
\* written first and so becomes the first of the new queue.
Restored(items) ==
  FlattenSeq([k \in 1 .. Len(items) |-> Lines(Text(items[Len(items) + 1 - k]))])

\* `part' is `whole' cut off at some byte.
CutOff(part, whole) ==
  LET n == Len(part)
  IN  \/ n = 0
      \/ /\ n <= Len(whole)
         /\ SubSeq(part, 1, n - 1) = SubSeq(whole, 1, n - 1)
         /\ IsPrefix(part[n], whole[n])

-----------------------------------------------------------------------------
(* Correctness *)

\* Queue::read appends to the queue exactly the items of the last queue that
\* was written with success, in reverse order, each cut at its first NUL byte
\* and split at its newlines; an item without either comes back as it was.
\* A checkpoint of an empty queue in between changes nothing: the items of
\* the earlier one come back.
RoundTrip ==
  \A r \in Rank :
    task[r] = "read" /\ rest[r] = <<>> /\ intact[r] =>
      Contents(r) = before[r] \o Restored(saved[r])

\* After a crash, or a failure, in the middle of Queue::write the file brings
\* back the first of these items, in the same order, of which the last may be
\* cut off: never an item that was not in the queue, and none twice.
TornFile ==
  \A r \in Rank :
    task[r] = "read" /\ rest[r] = <<>> =>
      LET read == SubSeq(Contents(r), Len(before[r]) + 1, count[r])
      IN  /\ IsPrefix(before[r], Contents(r))
          /\ CutOff(read, Restored(saved[r]))

\* An item is in the queue or in the file, never in both: when Queue::write
\* gives up, the items it did not get to are still in the queue, and those it
\* did are not, so that a caller who carries on does no item twice.
NoItemTwice ==
  \A r \in Rank :
    task[r] = "write" =>
      /\ Contents(r) = SubSeq(saved[r], 1, count[r])
      /\ file[r].bytes = <<>>
      /\ buffer[r] =
           FlattenSeq([k \in 1 .. Len(saved[r]) - count[r] |->
                         Printed(saved[r][Len(saved[r]) + 1 - k])])

\* The queues are stacks of items still: write pops, read pushes, a restart
\* starts with empty stacks.
Fragment == UNION {{SubSeq(e, a, b) : a, b \in 1 .. Len(e)} : e \in Item}

RestartedStacks == INSTANCE ItemStacks
  WITH Item   <- Fragment,
       stack  <- [r \in Rank |-> Contents(r)],
       batch  <- [r \in Rank |-> Incoming(r)],
       popped <- content

QueuesSurvive ==
  /\ RestartedStacks!Init
  /\ [][RestartedStacks!Next \/ RestartedStacks!Init']_(RestartedStacks!vars)

=============================================================================
