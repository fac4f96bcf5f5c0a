---------------------------- MODULE BarrierSpec ----------------------------
(***************************************************************************)
(* What a barrier promises, used over and over: no rank leaves barrier k   *)
(* before every rank has entered it, and a rank enters the next one only   *)
(* after it has left the last.                                             *)
(***************************************************************************)
EXTENDS Naturals

CONSTANT Rank

VARIABLES
  entered,  \* entered[r]: barriers rank r has entered
  passed    \* passed[r]: barriers rank r has left

vars == <<entered, passed>>

Init ==
  /\ entered = [r \in Rank |-> 0]
  /\ passed = [r \in Rank |-> 0]

Enter(r) ==
  /\ entered[r] = passed[r]
  /\ entered' = [entered EXCEPT ![r] = @ + 1]
  /\ UNCHANGED passed

Leave(r) ==
  /\ passed[r] < entered[r]
  /\ \A s \in Rank : entered[r] <= entered[s]
  /\ passed' = [passed EXCEPT ![r] = @ + 1]
  /\ UNCHANGED entered

Next == \E r \in Rank : Enter(r) \/ Leave(r)

Spec == Init /\ [][Next]_vars

\* Once every rank has entered a barrier, every rank leaves it.
FairSpec == Spec /\ \A r \in Rank : WF_vars(Leave(r))

=============================================================================
