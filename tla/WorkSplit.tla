----------------------------- MODULE WorkSplit -----------------------------
(***************************************************************************)
(* How State::sendWorkToMany divides the local queue among the ranks that  *)
(* asked for work (src/src/state.cpp, sendWorkToMany and spread_counts).   *)
(* Pure arithmetic: no state.                                              *)
(***************************************************************************)
EXTENDS Integers

\* (mutant) One entry too many gets an extra item.
spread_counts_more(ranks, count) ==
  LET base  == count \div ranks
      extra == count - base * ranks
  IN  [i \in 0 .. ranks - 1 |-> IF i <= extra THEN base + 1 ELSE base]

\* static void spread_counts(int *sizes, int ranks, int count): the first
\* `extra' entries get one item more than the others.
spread_counts(ranks, count) ==
  LET base  == count \div ranks
      extra == count - base * ranks
  IN  [i \in 0 .. ranks - 1 |-> IF i < extra THEN base + 1 ELSE base]

\* (mutant) The sender may give everything away.
SendCounts_all(count) == 1 .. count

\* The values send_count can take under SPLIT_RANDOM: rand_r(&seed) % count
\* is in 0 .. count-1, and the sender keeps at least one item.
SendCounts(count) ==
  {IF k = count THEN count - 1 ELSE k : k \in 1 .. count}

\* The arrays `sizes' sendWorkToMany can build for rcount requestors when the
\* queue holds count items: entry 0 is what the sender keeps, entry i+1 what
\* the i-th requestor gets.  RuntimeFlags::SplitEqual is set if `equal'.
Splits(equal, count, rcount) ==
  IF equal
  THEN {spread_counts(rcount + 1, count)}
  ELSE {[i \in 0 .. rcount |->
           IF i = 0 THEN count - send_count
                    ELSE spread_counts(rcount, send_count)[i - 1]] :
        send_count \in SendCounts(count)}

-----------------------------------------------------------------------------
(* The sums of the shares *)

\* The items in the first k entries of spread_counts(ranks, count).
Spread(ranks, count, k) ==
  LET base  == count \div ranks
      extra == count - base * ranks
  IN  k * base + (IF k < extra THEN k ELSE extra)

\* The items of the first k shares, sizes[1] .. sizes[k], where the sender
\* keeps `keep' = sizes[0].
SentBefore(equal, count, rcount, keep, k) ==
  IF equal THEN Spread(rcount + 1, count, k + 1) - keep
           ELSE Spread(rcount, count - keep, k)
=============================================================================
