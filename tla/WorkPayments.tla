---------------------------- MODULE WorkPayments ----------------------------
(***************************************************************************)
(* Payment of one accepted milestone (metacoin_service/economy): its       *)
(* decisions and disputes (evidence.py), the provider entitlement they     *)
(* create, the payment intents that settle it on the local chain           *)
(* (money.py) and the accounting journal (journal.py).                     *)
(*                                                                         *)
(* A request runs in one BEGIN IMMEDIATE .. COMMIT transaction, so each    *)
(* handler is one step, except submit: it commits the submission, begins a *)
(* second transaction and calls the rail inside it.  Other requests can    *)
(* run in between.  A refused request rolls back and is no step at all.    *)
(*                                                                         *)
(* The rail is external: it executes an authorization at most once, before *)
(* its deadline and within the call, whatever becomes of the answer.  All  *)
(* amounts are one unit.                                                   *)
(***************************************************************************)
EXTENDS Integers, FiniteSets

CONSTANTS
  Handlers,         \* requests that can be inside submit at a time
  MaxIntents,       \* bound: intents prepared for the entitlement
  MaxSubmissions,   \* bound: submissions of one intent
  MaxDecisions,     \* bound: decisions on the milestone
  Absent            \* no intent, or a handler that is not in submit

ASSUME BoundsAssumption ==
  MaxIntents \in Nat /\ MaxSubmissions \in Nat /\ MaxDecisions \in Nat

VARIABLES
  milestone,        \* row of work_milestones; verdict is that of its current decision
  dispute,          \* the dispute that is not closed, or "none"; "open" until its first outcome
  ent,              \* row of work_entitlements; decision 0 while there is none
  award,            \* "open", or "closed" with its reservation released
  intent,           \* table payment_intents
  late,             \* intents whose valid_until has passed
  entries,          \* journal_entries by event key (those that move exposure)
  submitting,       \* what each handler carries across submit's COMMIT
  used,             \* external: intents whose Permit2 nonce was exercised
  overtaken         \* history: intents reconciled while a handler was submitting them

vars == <<milestone, dispute, ent, award, intent, late, entries, submitting, used, overtaken>>

Intents   == 1 .. MaxIntents
Attempts  == 0 .. MaxSubmissions
Decisions == 0 .. MaxDecisions
Verdicts  == {"accepted", "rejected"}
InFlight  == {"submitted", "unknown"}

IntentStates == {"prepared", "authorized", "settled", "failed", "expired"} \cup InFlight
IntentRows   == [state : IntentStates, submissions : Attempts]
Carried      == [intent : Intents, attempt : Attempts]

ASSUME AbsentAssumption == Absent \notin IntentRows \cup Carried

Events == [event : {"submit", "fail", "unsubmitted", "expire"}, intent : Intents, attempt : Attempts]
            \cup [event : {"settle"}, intent : Intents]

Exists(i) == intent[i] # Absent

Init ==
  /\ milestone = [state |-> "delivered", decision |-> 0, verdict |-> "delivered"]
  /\ dispute = "none"
  /\ ent = [state |-> "none", decision |-> 0]
  /\ award = "open"
  /\ intent = [i \in Intents |-> Absent]
  /\ late = {}
  /\ entries = {}
  /\ submitting = [h \in Handlers |-> Absent]
  /\ used = {}
  /\ overtaken = {}

-----------------------------------------------------------------------------
(* Decisions and disputes. *)

(* _entitlement: an accepted decision makes the one entitlement payable     *)
(* unless its payment is under way or done.                                 *)
Entitled(decision) ==
  [state |-> IF ent.state \in {"paid", "exposed", "submitted", "authorized"} THEN ent.state ELSE "payable",
   decision |-> decision]

(* What a reversed acceptance leaves of the entitlement. *)
ReversedUnchecked(state) ==                                          \* mutant form
  IF state \in {"paid", "exposed", "submitted"} THEN "refund_pending" ELSE "void"
Reversed(state) ==
  CASE state \in {"paid", "exposed", "submitted"} -> "refund_pending"
    [] state = "none"                             -> "none"
    [] OTHER                                      -> "void"

RecordDecision(verdict) ==
  LET decision == milestone.decision + 1
  IN  /\ decision <= MaxDecisions
      /\ milestone' = [state |-> verdict, decision |-> decision, verdict |-> verdict]
      /\ ent' = IF verdict = "accepted" THEN Entitled(decision)
                ELSE [ent EXCEPT !.state = Reversed(@)]

(* The requester decides a delivered milestone, which has no entitlement.   *)
Decide(verdict) ==
  /\ milestone.state = "delivered"
  /\ RecordDecision(verdict)
  /\ UNCHANGED <<dispute, award, intent, late, entries, submitting, used, overtaken>>

(* A party disputes within the window; a payable entitlement is held.       *)
OpenDispute ==
  /\ milestone.state \in Verdicts \cup {"delivered"}
  /\ dispute = "none"
  /\ dispute' = "open"
  /\ milestone' = [milestone EXCEPT !.state = "disputed"]
  /\ ent' = [ent EXCEPT !.state = IF @ = "payable" THEN "held" ELSE @]
  /\ UNCHANGED <<award, intent, late, entries, submitting, used, overtaken>>

(* The resolver's outcomes: supersede_acceptance and reverse_acceptance     *)
(* record a decision, uphold restores the current one, unresolved leaves    *)
(* the milestone disputed.                                                  *)
DecideDispute(outcome) ==
  /\ dispute \in {"open", "reopened"}
  /\ dispute' = "decided"
  /\ \/ outcome = "supersede_acceptance" /\ RecordDecision("accepted")
     \/ outcome = "reverse_acceptance" /\ RecordDecision("rejected")
     \/ /\ outcome = "uphold"
        /\ milestone' = [milestone EXCEPT !.state = milestone.verdict]
        /\ ent' = [ent EXCEPT !.state = IF @ = "held" THEN "payable" ELSE @]
     \/ outcome = "unresolved" /\ UNCHANGED <<milestone, ent>>
  /\ UNCHANGED <<award, intent, late, entries, submitting, used, overtaken>>

(* A decided dispute is open to another outcome after an appeal or a recheck.*)
Reopen ==
  /\ dispute = "decided"
  /\ dispute' = "reopened"
  /\ UNCHANGED <<milestone, ent, award, intent, late, entries, submitting, used, overtaken>>

(* Closed by a party or at the deadline: a decided dispute leaves the       *)
(* milestone as it is, any other gives a disputed one its last verdict      *)
(* back.  The policy accept_last_decision treats a reopened one as decided.*)
CloseDispute ==
  /\ dispute' = "none"
  /\ \/ dispute \in {"decided", "reopened"} /\ UNCHANGED milestone
     \/ /\ dispute \in {"open", "reopened"}
        /\ milestone' = [milestone EXCEPT !.state = IF @ = "disputed" THEN milestone.verdict ELSE @]
  /\ UNCHANGED <<ent, award, intent, late, entries, submitting, used, overtaken>>

-----------------------------------------------------------------------------
(* Payment intents. *)

(* _bindings: pay only under the current, accepted decision. *)
BoundWithoutMilestone ==                                             \* mutant form
  ent.state \in {"payable", "authorized", "unknown"}
Bound ==
  /\ ent.state \in {"payable", "authorized", "unknown"}
  /\ milestone.state = "accepted"
  /\ milestone.decision = ent.decision
  /\ milestone.verdict = "accepted"

(* The states of an intent that a new intent may replace. *)
ResolvedOrUnknown == {"failed", "void", "expired", "unknown"}        \* mutant form
Resolved == {"failed", "void", "expired"}

(* A live intent is returned instead of a second one. *)
Prepare(i) ==
  /\ Bound
  /\ \A other \in Intents : Exists(other) => intent[other].state \in Resolved
  /\ ~Exists(i) /\ \A earlier \in Intents : earlier < i => Exists(earlier)
  /\ intent' = [intent EXCEPT ![i] = [state |-> "prepared", submissions |-> 0]]
  /\ UNCHANGED <<milestone, dispute, ent, award, late, entries, submitting, used, overtaken>>

Authorize(i) ==
  /\ Exists(i) /\ intent[i].state = "prepared"
  /\ Bound
  /\ intent' = [intent EXCEPT ![i].state = "authorized"]
  /\ ent' = [ent EXCEPT !.state = "authorized"]
  /\ UNCHANGED <<milestone, dispute, award, late, entries, submitting, used, overtaken>>

(* now() passes valid_until, which is set when the intent is authorized. *)
Expire(i) ==
  /\ Exists(i) /\ intent[i].state # "prepared" /\ i \notin late
  /\ late' = late \cup {i}
  /\ UNCHANGED <<milestone, dispute, ent, award, intent, entries, submitting, used, overtaken>>

Submittable(i) == Exists(i) /\ intent[i].state = "authorized" /\ Bound

(* submit refuses an expired authorization and commits the expiry. *)
SubmitLate(i) ==
  /\ Submittable(i) /\ i \in late
  /\ intent' = [intent EXCEPT ![i].state = "expired"]
  /\ UNCHANGED <<milestone, dispute, ent, award, late, entries, submitting, used, overtaken>>

(* submit up to its COMMIT, "durable before the rail is touched". *)
Submit(h, i) ==
  LET attempt == intent[i].submissions + 1
  IN  /\ submitting[h] = Absent
      /\ Submittable(i) /\ i \notin late
      /\ attempt <= MaxSubmissions
      /\ intent' = [intent EXCEPT ![i] = [state |-> "submitted", submissions |-> attempt]]
      /\ ent' = [ent EXCEPT !.state = "submitted"]
      /\ entries' = entries \cup {[event |-> "submit", intent |-> i, attempt |-> attempt]}
      /\ submitting' = [submitting EXCEPT ![h] = [intent |-> i, attempt |-> attempt]]
      /\ UNCHANGED <<milestone, dispute, award, late, used, overtaken>>

(* _observe_settled, with close_award_if_done. *)
ObserveSettled(i) ==
  /\ intent' = [intent EXCEPT ![i].state = "settled"]
  /\ ent' = [ent EXCEPT !.state = "paid"]
  /\ entries' = entries \cup {[event |-> "settle", intent |-> i]}
  /\ award' = IF milestone.state \in Verdicts THEN "closed" ELSE award

(* What the second transaction of submit writes for each answer.  An other  *)
(* amount leaves the entitlement as it was; with no answer at all (the      *)
(* handler raised) the transaction rolls back.                              *)
Answers == {"settled", "refused", "lost", "other_amount", "raised"}

RecordedOptimistically(answer) ==                                    \* mutant form
  CASE answer \in {"settled", "lost", "other_amount"} -> "settled"
    [] answer = "refused"                             -> "failed"
    [] OTHER                                          -> "unknown"
Recorded(answer) ==
  CASE answer = "settled" -> "settled"
    [] answer = "refused" -> "failed"
    [] OTHER              -> "unknown"

RecordAnswer(i, attempt, answer) ==
  \/ answer = "raised" /\ UNCHANGED <<intent, ent, entries, award>>
  \/ answer # "raised" /\ Recorded(answer) = "settled" /\ ObserveSettled(i)
  \/ /\ answer # "raised" /\ Recorded(answer) = "failed"
     /\ intent' = [intent EXCEPT ![i].state = "failed"]
     /\ ent' = [ent EXCEPT !.state = "payable"]
     /\ entries' = entries \cup {[event |-> "fail", intent |-> i, attempt |-> attempt]}
     /\ UNCHANGED award
  \/ /\ answer # "raised" /\ Recorded(answer) = "unknown"
     /\ intent' = [intent EXCEPT ![i].state = "unknown"]
     /\ ent' = [ent EXCEPT !.state = IF answer = "lost" THEN "exposed" ELSE @]
     /\ UNCHANGED <<entries, award>>

(* The rail executes an unused nonce, or not, and submit records the answer.*)
CallRail(h, executes, answer) ==
  /\ submitting[h] # Absent
  /\ LET i == submitting[h].intent
     IN  /\ executes => i \notin used \cup late
         /\ answer \in {"settled", "other_amount"} => executes
         /\ answer = "refused" => ~executes
         /\ used' = IF executes THEN used \cup {i} ELSE used
         /\ RecordAnswer(i, submitting[h].attempt, answer)
  /\ submitting' = [submitting EXCEPT ![h] = Absent]
  /\ UNCHANGED <<milestone, dispute, late, overtaken>>

-----------------------------------------------------------------------------
(* reconcile: what the nonce bitmap says of a submission. *)
ExercisedInTime(i) == i \in used /\ i \notin late                    \* mutant form
Exercised(i) == i \in used

(* Only an intent in flight has exposure to release. *)
ReleaseAlways(i, event) ==                                           \* mutant form
  {[event |-> event, intent |-> i, attempt |-> intent[i].submissions]}
Release(i, event) ==
  IF intent[i].state \in InFlight
  THEN {[event |-> event, intent |-> i, attempt |-> intent[i].submissions]}
  ELSE {}

Queried(i) ==
  /\ Exists(i)
  /\ \/ intent[i].state \in InFlight \cup {"expired"}
     \/ intent[i].state = "authorized" /\ (intent[i].submissions > 0 \/ i \in late)

Overtake(i) ==
  overtaken' = overtaken \cup {j \in {i} : \E h \in Handlers : submitting[h] # Absent /\ submitting[h].intent = i}

ReconcileExercised(i) ==
  /\ Queried(i) /\ Exercised(i)
  /\ ObserveSettled(i)
  /\ Overtake(i)
  /\ UNCHANGED <<milestone, dispute, late, submitting, used>>

ReconcileExpired(i) ==
  /\ Queried(i) /\ ~Exercised(i)
  /\ i \in late \/ intent[i].state = "expired"
  /\ intent' = [intent EXCEPT ![i].state = "expired"]
  /\ entries' = entries \cup Release(i, "expire")
  /\ ent' = [ent EXCEPT !.state = "payable"]
  /\ Overtake(i)
  /\ UNCHANGED <<milestone, dispute, award, late, submitting, used>>

ReconcileRetryable(i) ==
  /\ Queried(i) /\ ~Exercised(i)
  /\ i \notin late /\ intent[i].state # "expired"
  /\ intent' = [intent EXCEPT ![i].state = "authorized"]
  /\ entries' = entries \cup Release(i, "unsubmitted")
  /\ ent' = [ent EXCEPT !.state = "authorized"]
  /\ Overtake(i)
  /\ UNCHANGED <<milestone, dispute, award, late, submitting, used>>

(* close_award: nothing is open any more, the reservation is released. *)
CloseAward ==
  /\ award = "open"
  /\ milestone.state \in Verdicts
  /\ ent.state \in {"none", "paid", "void"}
  /\ award' = "closed"
  /\ UNCHANGED <<milestone, dispute, ent, intent, late, entries, submitting, used, overtaken>>

-----------------------------------------------------------------------------
Evidence ==
  \/ \E verdict \in Verdicts : Decide(verdict)
  \/ OpenDispute \/ Reopen \/ CloseDispute
  \/ \E outcome \in {"uphold", "supersede_acceptance", "reverse_acceptance", "unresolved"} :
       DecideDispute(outcome)

Money ==
  \/ \E i \in Intents : \/ Prepare(i) \/ Authorize(i) \/ Expire(i) \/ SubmitLate(i)
                        \/ ReconcileExercised(i) \/ ReconcileExpired(i) \/ ReconcileRetryable(i)
                        \/ \E h \in Handlers : Submit(h, i)
  \/ \E h \in Handlers, executes \in BOOLEAN, answer \in Answers : CallRail(h, executes, answer)
  \/ CloseAward

Next == Evidence \/ Money

Spec == Init /\ [][Next]_vars

-----------------------------------------------------------------------------
Postings(i, events) == Cardinality({e \in entries : e.event \in events /\ e.intent = i})

(* exposure:pending of the journal, per intent. *)
Exposure(i) == Postings(i, {"submit"}) - Postings(i, {"fail", "unsubmitted", "expire", "settle"})

(* Types; an entitlement exists once a decision accepted the milestone. *)
TypeOK ==
  /\ milestone \in [state : Verdicts \cup {"delivered", "disputed"}, decision : Decisions,
                    verdict : Verdicts \cup {"delivered"}]
  /\ dispute \in {"none", "open", "decided", "reopened"}
  /\ ent \in [state : {"none", "payable", "held", "authorized", "submitted", "exposed",
                       "paid", "void", "refund_pending"}, decision : Decisions]
  /\ ent.state = "none" <=> ent.decision = 0
  /\ award \in {"open", "closed"}
  /\ intent \in [Intents -> {Absent} \cup IntentRows]
  /\ late \subseteq Intents
  /\ entries \subseteq Events
  /\ submitting \in [Handlers -> {Absent} \cup Carried]
  /\ used \subseteq Intents
  /\ overtaken \subseteq Intents

(* An entitlement is paid by one transfer, whatever was lost, expired,      *)
(* renewed or disputed, as long as nobody reconciles an intent whose        *)
(* submission is still running (money.py:260).                              *)
OneTransferUnlessOvertaken == overtaken = {} => Cardinality(used) <= 1

(* The same without the proviso, as submit's docstring states it: "never a  *)
(* second spend".                                                           *)
OneTransferPerEntitlement == Cardinality(used) <= 1

(* A transfer that happened is never written off: its intent stays          *)
(* submitted or unknown until it is settled.                                *)
TransferNeverForgotten ==
  overtaken = {} => \A i \in used : Exists(i) /\ intent[i].state \in InFlight \cup {"settled"}

(* The journal holds one unit of exposure for each intent in flight and     *)
(* none for any other, whatever became of the entitlement meanwhile.        *)
ExposureIsInFlight ==
  overtaken = {} =>
    \A i \in Intents : Exposure(i) = IF Exists(i) /\ intent[i].state \in InFlight THEN 1 ELSE 0

(* A settled intent, or a paid entitlement, means the rail moved a transfer.*)
PaidMeansMoved ==
  /\ \A i \in Intents : Exists(i) /\ intent[i].state = "settled" => i \in used
  /\ ent.state = "paid" => used # {}

(* A dispute pauses "release of the reserved obligation" (evidence.py:355)  *)
(* from its opening until an outcome, or its closing, gives the acceptance  *)
(* back: until then, over unresolved outcomes, expiry, reconciliation and   *)
(* renewal, no submission starts, and none under a reversal.  An appeal or  *)
(* a recheck after that does not bring the pause back: a submission may     *)
(* start while the dispute is "reopened".                                   *)
NothingSubmittedBeforeOutcome ==
  [][\A e \in entries' \ entries : e.event = "submit" =>
        /\ milestone.verdict = "accepted"
        /\ milestone.state # "disputed"
        /\ dispute # "open"]_vars
=============================================================================
