---------------------------- MODULE FencedLease ----------------------------
(***************************************************************************)
(* What the tables of jobs promise whoever submitted one, and nothing      *)
(* else: a job is lent to one holder at a time, each loan under the next   *)
(* number; another may be lent it over the head of the first; it shows a   *)
(* result only when the holder of its last loan delivers it, stamped with  *)
(* that loan, and ends by that; a job recalled while nobody has it ends at *)
(* once and, recalled or not, a job that ended is never lent, recalled or  *)
(* delivered again.  Where the holders run, how leases run out, what is    *)
(* retried, paused or lost in a crash is not visible at this level.        *)
(***************************************************************************)
EXTENDS Naturals

CONSTANTS
  Jobs,
  Holders,
  Nobody,
  Stamp(_, _)     \* what a result shows of the number and the holder of a loan

VARIABLES
  turn,           \* loans of each job so far
  holder,         \* who has it, or Nobody
  recalled,       \* whether its owner recalled it
  standing,       \* open, delivered or closed without a result
  shown           \* the stamps of its results

Init ==
  /\ turn = [j \in Jobs |-> 0]
  /\ holder = [j \in Jobs |-> Nobody]
  /\ recalled = [j \in Jobs |-> FALSE]
  /\ standing = [j \in Jobs |-> "open"]
  /\ shown = [j \in Jobs |-> {}]

Held(j) == standing[j] = "open" /\ holder[j] # Nobody

(* A job that was recalled is lent only to take it over. *)
Lend(j, w) ==
  /\ standing[j] = "open"
  /\ recalled[j] => Held(j)
  /\ turn' = [turn EXCEPT ![j] = @ + 1]
  /\ holder' = [holder EXCEPT ![j] = w]
  /\ UNCHANGED <<recalled, standing, shown>>

Return(j) ==
  /\ Held(j)
  /\ holder' = [holder EXCEPT ![j] = Nobody]
  /\ UNCHANGED <<turn, recalled, standing, shown>>

Recall(j) ==
  /\ standing[j] = "open"
  /\ recalled' = [recalled EXCEPT ![j] = TRUE]
  /\ standing' = IF Held(j) THEN standing ELSE [standing EXCEPT ![j] = "closed"]
  /\ UNCHANGED <<turn, holder, shown>>

GiveUp(j) ==
  /\ Held(j)
  /\ standing' = [standing EXCEPT ![j] = "closed"]
  /\ holder' = [holder EXCEPT ![j] = Nobody]
  /\ UNCHANGED <<turn, recalled, shown>>

Deliver(j) ==
  /\ Held(j)
  /\ standing' = [standing EXCEPT ![j] = "delivered"]
  /\ shown' = [shown EXCEPT ![j] = {Stamp(turn[j], holder[j])}]
  /\ holder' = [holder EXCEPT ![j] = Nobody]
  /\ UNCHANGED <<turn, recalled>>

Next ==
  \E j \in Jobs :
    \/ \E w \in Holders : Lend(j, w)
    \/ Return(j) \/ Recall(j) \/ GiveUp(j) \/ Deliver(j)

Spec == Init /\ [][Next]_<<turn, holder, recalled, standing, shown>>
=============================================================================
