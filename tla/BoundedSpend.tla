---------------------------- MODULE BoundedSpend ----------------------------
(***************************************************************************)
(* What the payment journal of experiments/work_contracts promises the     *)
(* owner of a campaign, and nothing else: the single action of a job is    *)
(* committed to at most once, and only while all commitments together fit  *)
(* the fixed campaign cap; a commitment is released only by concluding     *)
(* without effect; a concluded commitment never changes again.  How many   *)
(* processes dispatch, what the rail answers and what is lost on the way   *)
(* is not visible at this level.                                           *)
(***************************************************************************)
EXTENDS Integers

CONSTANTS
  Jobs,
  Total(_),       \* the amounts of a set of jobs, added up
  Cap             \* the campaign cap, Journal.limit

VARIABLE phase

(* The jobs whose amount counts against the cap. *)
Committed == {j \in Jobs : phase[j] \in {"exposed", "spent"}}

Init == phase = [j \in Jobs |-> "open"]

Commit(j) ==
  /\ phase[j] = "open"
  /\ Total(Committed \cup {j}) <= Cap
  /\ phase' = [phase EXCEPT ![j] = "exposed"]

Spend(j) ==
  /\ phase[j] = "exposed"
  /\ phase' = [phase EXCEPT ![j] = "spent"]

Release(j) ==
  /\ phase[j] = "exposed"
  /\ phase' = [phase EXCEPT ![j] = "released"]

Next == \E j \in Jobs : Commit(j) \/ Spend(j) \/ Release(j)

Spec == Init /\ [][Next]_phase
=============================================================================
