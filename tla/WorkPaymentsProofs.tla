------------------------- MODULE WorkPaymentsProofs --------------------------
(***************************************************************************)
(* Proofs about WorkPayments, for any number of handlers, intents,         *)
(* submissions and decisions.                                              *)
(***************************************************************************)
EXTENDS WorkPayments, FiniteSetTheorems, TLAPS

USE BoundsAssumption

-----------------------------------------------------------------------------
(* Types, and the references between rows that the handlers rely on: an     *)
(* intent exists only for an entitlement, a handler carries an intent that  *)
(* exists, an open dispute has its milestone disputed.                      *)
Linked ==
  /\ \A i \in Intents : Exists(i) => ent.state # "none"
  /\ \A h \in Handlers : submitting[h] # Absent => Exists(submitting[h].intent)
  /\ dispute = "open" => milestone.state = "disputed"

TInv == TypeOK /\ Linked

(* What an UPDATE of payment_intents.state leaves of the table. *)
LEMMA StateUpdated ==
  ASSUME intent \in [Intents -> {Absent} \cup IntentRows],
         NEW i \in Intents, Exists(i), NEW s \in IntentStates,
         intent' = [intent EXCEPT ![i].state = s]
  PROVE  /\ intent' \in [Intents -> {Absent} \cup IntentRows]
         /\ intent'[i].state = s /\ intent'[i].submissions = intent[i].submissions
         /\ \A j \in Intents : j # i => intent'[j] = intent[j]
         /\ \A j \in Intents : Exists(j)' <=> Exists(j)
<1>1. intent[i] \in IntentRows
  BY DEF Exists
<1>2. [intent[i] EXCEPT !.state = s] \in IntentRows
  BY <1>1 DEF IntentRows
<1>3. intent' = [intent EXCEPT ![i] = [intent[i] EXCEPT !.state = s]]
  OBVIOUS
<1>4. LET row == [intent[i] EXCEPT !.state = s]
      IN  row.state = s /\ row.submissions = intent[i].submissions
  BY <1>1 DEF IntentRows
<1> QED
  BY <1>2, <1>3, <1>4, AbsentAssumption DEF Exists

(* What INSERT and the two-column UPDATE of submit leave of it. *)
LEMMA RowWritten ==
  ASSUME intent \in [Intents -> {Absent} \cup IntentRows],
         NEW i \in Intents, NEW s \in IntentStates, NEW n \in Attempts,
         intent' = [intent EXCEPT ![i] = [state |-> s, submissions |-> n]]
  PROVE  /\ intent' \in [Intents -> {Absent} \cup IntentRows]
         /\ intent'[i].state = s /\ intent'[i].submissions = n
         /\ \A j \in Intents : j # i => intent'[j] = intent[j]
         /\ \A j \in Intents : Exists(j)' <=> Exists(j) \/ j = i
<1>1. [state |-> s, submissions |-> n] \in IntentRows
  BY DEF IntentRows
<1> QED
  BY <1>1, AbsentAssumption DEF Exists

LEMMA InitTypes == Init => TInv
BY DEF Init, TInv, TypeOK, Linked, Exists, Intents, Attempts, Decisions, Verdicts, InFlight, Events

LEMMA EvidenceTypes == TInv /\ Evidence => TInv'
<1> SUFFICES ASSUME TInv, Evidence PROVE TInv'
  OBVIOUS
<1> USE DEF TInv, TypeOK, Linked, Exists, Intents, Attempts, Decisions, Verdicts, InFlight, Events
<1>1. CASE \E verdict \in Verdicts : Decide(verdict)
  <2>1. CASE Decide("accepted")
    BY <2>1 DEF Decide, RecordDecision, Entitled
  <2>2. ASSUME NEW verdict \in Verdicts \ {"accepted"}, Decide(verdict) PROVE TInv'
    BY <2>2 DEF Decide, RecordDecision, Reversed
  <2>. QED
    BY <1>1, <2>1, <2>2
<1>2. CASE OpenDispute
  BY <1>2 DEF OpenDispute
<1>3. CASE Reopen
  BY <1>3 DEF Reopen
<1>4. CASE CloseDispute
  BY <1>4 DEF CloseDispute
<1>5. CASE \E outcome \in {"uphold", "supersede_acceptance", "reverse_acceptance", "unresolved"} :
             DecideDispute(outcome)
  BY <1>5 DEF DecideDispute, RecordDecision, Entitled, Reversed
<1> QED
  BY <1>1, <1>2, <1>3, <1>4, <1>5 DEF Evidence

LEMMA MoneyTypes == TInv /\ Money => TInv'
<1> SUFFICES ASSUME TInv, Money PROVE TInv'
  OBVIOUS
<1> USE DEF TInv, TypeOK, Linked
<1>1. ASSUME NEW i \in Intents, Prepare(i) PROVE TInv'
  <2>1. 0 \in Attempts /\ "prepared" \in IntentStates
    BY DEF Attempts, IntentStates
  <2>2. /\ intent' \in [Intents -> {Absent} \cup IntentRows]
        /\ \A j \in Intents : Exists(j)' <=> Exists(j) \/ j = i
    BY <1>1, <2>1, RowWritten DEF Prepare
  <2> QED
    BY <1>1, <2>2 DEF Prepare, Bound, Carried
<1>2. ASSUME NEW i \in Intents, Authorize(i) PROVE TInv'
  <2>1. /\ intent' \in [Intents -> {Absent} \cup IntentRows]
        /\ \A j \in Intents : Exists(j)' <=> Exists(j)
    BY <1>2, StateUpdated DEF Authorize, IntentStates
  <2> QED
    BY <1>2, <2>1 DEF Authorize, Bound, Carried
<1>3. ASSUME NEW i \in Intents, Expire(i) PROVE TInv'
  BY <1>3 DEF Expire, Exists
<1>4. ASSUME NEW i \in Intents, SubmitLate(i) PROVE TInv'
  <2>1. /\ intent' \in [Intents -> {Absent} \cup IntentRows]
        /\ \A j \in Intents : Exists(j)' <=> Exists(j)
    BY <1>4, StateUpdated DEF SubmitLate, Submittable, IntentStates
  <2> QED
    BY <1>4, <2>1 DEF SubmitLate, Carried
<1>5. ASSUME NEW i \in Intents, NEW h \in Handlers, Submit(h, i) PROVE TInv'
  <2> DEFINE attempt == intent[i].submissions + 1
  <2>1. attempt \in Attempts
    BY <1>5 DEF Submit, Submittable, Exists, IntentRows, Attempts
  <2>2. /\ intent' \in [Intents -> {Absent} \cup IntentRows]
        /\ \A j \in Intents : Exists(j)' <=> Exists(j) \/ j = i
    BY <1>5, <2>1, RowWritten DEF Submit, IntentStates, InFlight
  <2>3. [intent |-> i, attempt |-> attempt] \in Carried
    BY <2>1 DEF Carried
  <2>4. /\ submitting' \in [Handlers -> {Absent} \cup Carried]
        /\ submitting'[h] = [intent |-> i, attempt |-> attempt]
        /\ \A g \in Handlers : g # h => submitting'[g] = submitting[g]
    <3> HIDE DEF attempt
    <3>1. submitting' = [submitting EXCEPT ![h] = [intent |-> i, attempt |-> attempt]]
      BY <1>5 DEF Submit, attempt
    <3> QED
      BY <2>3, <3>1
  <2>5. entries' \subseteq Events
    BY <1>5, <2>1 DEF Submit, Events
  <2>6. \A g \in Handlers : submitting'[g] # Absent => intent'[submitting'[g].intent] # Absent
    <3>1. submitting'[h].intent = i /\ intent'[i] # Absent
      BY <2>2, <2>4 DEF Exists
    <3>2. ASSUME NEW g \in Handlers, g # h, submitting[g] # Absent
          PROVE  intent'[submitting[g].intent] # Absent
      BY <2>2, <3>2 DEF Carried, Exists
    <3> QED
      BY <2>4, <3>1, <3>2
  <2> QED
    BY <1>5, <2>2, <2>4, <2>5, <2>6 DEF Submit, Submittable, Bound, Exists
<1>6. ASSUME NEW i \in Intents, ReconcileExercised(i) PROVE TInv'
  <2>1. /\ intent' \in [Intents -> {Absent} \cup IntentRows]
        /\ \A j \in Intents : Exists(j)' <=> Exists(j)
    BY <1>6, StateUpdated DEF ReconcileExercised, Queried, ObserveSettled, IntentStates
  <2>2. entries' \subseteq Events /\ overtaken' \subseteq Intents
    BY <1>6 DEF ReconcileExercised, ObserveSettled, Overtake, Events
  <2> QED
    BY <1>6, <2>1, <2>2 DEF ReconcileExercised, ObserveSettled, Queried, Carried
<1>7. ASSUME NEW i \in Intents, ReconcileExpired(i) PROVE TInv'
  <2>1. /\ intent' \in [Intents -> {Absent} \cup IntentRows]
        /\ \A j \in Intents : Exists(j)' <=> Exists(j)
    BY <1>7, StateUpdated DEF ReconcileExpired, Queried, IntentStates
  <2>2. entries' \subseteq Events /\ overtaken' \subseteq Intents
    BY <1>7 DEF ReconcileExpired, Queried, Release, Overtake, Events, Exists, IntentRows
  <2> QED
    BY <1>7, <2>1, <2>2 DEF ReconcileExpired, Queried, Carried
<1>8. ASSUME NEW i \in Intents, ReconcileRetryable(i) PROVE TInv'
  <2>1. /\ intent' \in [Intents -> {Absent} \cup IntentRows]
        /\ \A j \in Intents : Exists(j)' <=> Exists(j)
    BY <1>8, StateUpdated DEF ReconcileRetryable, Queried, IntentStates
  <2>2. entries' \subseteq Events /\ overtaken' \subseteq Intents
    BY <1>8 DEF ReconcileRetryable, Queried, Release, Overtake, Events, Exists, IntentRows
  <2> QED
    BY <1>8, <2>1, <2>2 DEF ReconcileRetryable, Queried, Carried
<1>9. ASSUME NEW h \in Handlers, NEW executes \in BOOLEAN, NEW answer \in Answers,
             CallRail(h, executes, answer)
      PROVE TInv'
  <2> DEFINE i == submitting[h].intent
  <2>1. submitting[h] \in Carried /\ i \in Intents /\ Exists(i)
    BY <1>9 DEF CallRail, Carried
  <2>2. /\ submitting' \in [Handlers -> {Absent} \cup Carried]
        /\ \A g \in Handlers : submitting'[g] = IF g = h THEN Absent ELSE submitting[g]
    BY <1>9 DEF CallRail
  <2>3. used' \subseteq Intents
    BY <1>9, <2>1 DEF CallRail
  <2>4. RecordAnswer(i, submitting[h].attempt, answer)
    BY <1>9 DEF CallRail
  <2>5. CASE answer = "raised"
    BY <1>9, <2>2, <2>3, <2>4, <2>5 DEF CallRail, RecordAnswer, Exists, Carried
  <2>6. CASE answer = "settled"
    <3>1. ObserveSettled(i)
      BY <2>4, <2>6 DEF RecordAnswer, Recorded
    <3>2. /\ intent' \in [Intents -> {Absent} \cup IntentRows]
          /\ \A j \in Intents : Exists(j)' <=> Exists(j)
      BY <3>1, <2>1, StateUpdated DEF ObserveSettled, IntentStates
    <3>3. entries' \subseteq Events
      BY <3>1, <2>1 DEF ObserveSettled, Events
    <3> QED
      BY <1>9, <2>1, <2>2, <2>3, <3>1, <3>2, <3>3 DEF CallRail, ObserveSettled, Carried
  <2>7. CASE answer = "refused"
    <3>1. /\ intent' = [intent EXCEPT ![i].state = "failed"]
          /\ ent' = [ent EXCEPT !.state = "payable"]
          /\ entries' = entries \cup {[event |-> "fail", intent |-> i, attempt |-> submitting[h].attempt]}
          /\ UNCHANGED award
      BY <2>4, <2>7 DEF RecordAnswer, Recorded
    <3>2. /\ intent' \in [Intents -> {Absent} \cup IntentRows]
          /\ \A j \in Intents : Exists(j)' <=> Exists(j)
      BY <3>1, <2>1, StateUpdated DEF IntentStates
    <3>3. entries' \subseteq Events
      BY <3>1, <2>1 DEF Carried, Events
    <3> QED
      BY <1>9, <2>1, <2>2, <2>3, <3>1, <3>2, <3>3 DEF CallRail, Carried
  <2>8. CASE answer \in {"lost", "other_amount"}
    <3>1. /\ intent' = [intent EXCEPT ![i].state = "unknown"]
          /\ ent' = [ent EXCEPT !.state = IF answer = "lost" THEN "exposed" ELSE @]
          /\ UNCHANGED <<entries, award>>
      BY <2>4, <2>8 DEF RecordAnswer, Recorded
    <3>2. /\ intent' \in [Intents -> {Absent} \cup IntentRows]
          /\ \A j \in Intents : Exists(j)' <=> Exists(j)
      BY <3>1, <2>1, StateUpdated DEF IntentStates, InFlight
    <3> QED
      BY <1>9, <2>1, <2>2, <2>3, <3>1, <3>2 DEF CallRail, Carried
  <2> QED
    BY <2>5, <2>6, <2>7, <2>8 DEF Answers
<1>10. CASE CloseAward
  BY <1>10 DEF CloseAward, Exists
<1> QED
  BY <1>1, <1>2, <1>3, <1>4, <1>5, <1>6, <1>7, <1>8, <1>9, <1>10 DEF Money

LEMMA TypesInductive == TInv /\ [Next]_vars => TInv'
<1>1. TInv /\ UNCHANGED vars => TInv'
  BY DEF TInv, TypeOK, Linked, vars, Exists
<1> QED
  BY <1>1, EvidenceTypes, MoneyTypes DEF Next

LEMMA TypesAlways == Spec => []TInv
BY InitTypes, TypesInductive, PTL DEF Spec

(* Every row of the tables of a payment keeps its type, and an entitlement  *)
(* exists exactly when a decision made one.                                 *)
THEOREM TypesCorrect == Spec => []TypeOK
<1>1. TInv => TypeOK
  BY DEF TInv
<1> QED
  BY <1>1, TypesAlways, PTL

(* A dispute pauses the payment until an outcome restores the acceptance: a *)
(* submission starts only under a decision that accepted the milestone, and *)
(* neither while its dispute is open nor while it is left disputed.         *)
THEOREM DisputePausesPayment == Spec => NothingSubmittedBeforeOutcome
<1> DEFINE NotPaused == milestone.verdict = "accepted" /\ milestone.state # "disputed" /\ dispute # "open"
           Paused == \A e \in entries' \ entries : e.event = "submit" =>
                       /\ milestone.verdict = "accepted"
                       /\ milestone.state # "disputed"
                       /\ dispute # "open"
<1>1. TInv /\ [Next]_vars => [Paused]_vars
  <2> SUFFICES ASSUME TInv, Next, NEW e \in entries' \ entries, e.event = "submit"
               PROVE  NotPaused
    BY DEF vars
  <2>1. ASSUME NEW i \in Intents, NEW h \in Handlers, Submit(h, i)
        PROVE  NotPaused
    BY <2>1 DEF Submit, Submittable, Bound, TInv, Linked
  <2>2. ASSUME NEW i \in Intents,
               \/ Prepare(i) \/ Authorize(i) \/ Expire(i) \/ SubmitLate(i)
               \/ ReconcileExercised(i) \/ ReconcileExpired(i) \/ ReconcileRetryable(i)
        PROVE  FALSE
    BY <2>2 DEF Prepare, Authorize, Expire, SubmitLate, ReconcileExercised, ObserveSettled,
                ReconcileExpired, ReconcileRetryable, Release
  <2>3. ASSUME NEW h \in Handlers, NEW executes \in BOOLEAN, NEW answer \in Answers,
               CallRail(h, executes, answer)
        PROVE  FALSE
    <3>1. \/ entries' = entries
          \/ entries' = entries \cup {[event |-> "settle", intent |-> submitting[h].intent]}
          \/ entries' = entries \cup {[event |-> "fail", intent |-> submitting[h].intent,
                                      attempt |-> submitting[h].attempt]}
      BY <2>3 DEF CallRail, RecordAnswer, ObserveSettled
    <3> QED
      BY <3>1
  <2>4. ASSUME CloseAward \/ Evidence PROVE FALSE
    BY <2>4 DEF CloseAward, Evidence, Decide, OpenDispute, Reopen, CloseDispute, DecideDispute
  <2> QED
    BY <2>1, <2>2, <2>3, <2>4 DEF Next, Money
<1> QED
  BY <1>1, TypesAlways, PTL DEF Spec, NothingSubmittedBeforeOutcome

-----------------------------------------------------------------------------
(* Why a second transfer needs an overtaken submission: until one is, at    *)
(* most one intent is unresolved, and while a handler submits an intent the *)
(* row says so and its nonce is unused.                                     *)
Unresolved(i) == Exists(i) /\ intent[i].state \notin Resolved

OneUnresolved == \A i, j \in Intents : Unresolved(i) /\ Unresolved(j) => i = j

SubmittingIsSubmitted ==
  \A h \in Handlers : submitting[h] # Absent =>
    /\ intent[submitting[h].intent].state = "submitted"
    /\ submitting[h].intent \notin used
    /\ \A g \in Handlers : submitting[g] # Absent /\ submitting[g].intent = submitting[h].intent => g = h

UsedIsKept == \A i \in used : Exists(i) /\ intent[i].state \in InFlight \cup {"settled"}

SInv == overtaken = {} => OneUnresolved /\ SubmittingIsSubmitted /\ UsedIsKept

LEMMA EvidenceKeepsPayments == SInv /\ Evidence => SInv'
<1>1. Evidence => UNCHANGED <<intent, submitting, used, overtaken>>
  BY DEF Evidence, Decide, OpenDispute, Reopen, CloseDispute, DecideDispute
<1> QED
  BY <1>1 DEF SInv, OneUnresolved, SubmittingIsSubmitted, UsedIsKept, Unresolved, Exists

LEMMA MoneyKeepsPayments == TInv /\ SInv /\ Money => SInv'
<1> SUFFICES ASSUME TInv, SInv, Money, overtaken' = {}
             PROVE  OneUnresolved' /\ SubmittingIsSubmitted' /\ UsedIsKept'
  BY DEF SInv
<1>0. overtaken = {}
  BY DEF Money, Prepare, Authorize, Expire, SubmitLate, Submit, ReconcileExercised, ReconcileExpired,
         ReconcileRetryable, CallRail, CloseAward, Overtake
<1>a. OneUnresolved /\ SubmittingIsSubmitted /\ UsedIsKept
  BY <1>0 DEF SInv
<1>b. intent \in [Intents -> {Absent} \cup IntentRows]
  BY DEF TInv, TypeOK
<1>c. /\ \A h \in Handlers : submitting[h] # Absent => submitting[h].intent \in Intents
      /\ submitting \in [Handlers -> {Absent} \cup Carried]
      /\ used \subseteq Intents
  BY DEF TInv, TypeOK, Carried
<1>d. ASSUME NEW i \in Intents, Exists(i), Overtake(i)
      PROVE  \A h \in Handlers : submitting[h] # Absent => submitting[h].intent # i
  BY <1>d DEF Overtake
<1> USE DEF OneUnresolved, SubmittingIsSubmitted, UsedIsKept, Unresolved, Resolved, InFlight
<1>1. ASSUME NEW i \in Intents, Prepare(i)
      PROVE  OneUnresolved' /\ SubmittingIsSubmitted' /\ UsedIsKept'
  <2> 0 \in Attempts /\ "prepared" \in IntentStates
    BY DEF Attempts, IntentStates
  <2>1. /\ \A j \in Intents : j # i => intent'[j] = intent[j]
        /\ \A j \in Intents : Exists(j)' <=> Exists(j) \/ j = i
    BY <1>1, <1>b, RowWritten DEF Prepare
  <2> QED
    BY <1>1, <1>a, <1>c, <2>1 DEF Prepare, TInv, Linked
<1>2. ASSUME NEW i \in Intents, Authorize(i)
      PROVE  OneUnresolved' /\ SubmittingIsSubmitted' /\ UsedIsKept'
  <2>1. /\ \A j \in Intents : j # i => intent'[j] = intent[j]
        /\ \A j \in Intents : Exists(j)' <=> Exists(j)
    BY <1>2, <1>b, StateUpdated DEF Authorize, IntentStates
  <2> QED
    BY <1>2, <1>a, <1>c, <2>1 DEF Authorize
<1>3. ASSUME CloseAward \/ \E i \in Intents : Expire(i)
      PROVE  OneUnresolved' /\ SubmittingIsSubmitted' /\ UsedIsKept'
  BY <1>3, <1>a DEF Expire, CloseAward, Exists
<1>4. ASSUME NEW i \in Intents, SubmitLate(i)
      PROVE  OneUnresolved' /\ SubmittingIsSubmitted' /\ UsedIsKept'
  <2>1. /\ intent'[i].state = "expired"
        /\ \A j \in Intents : j # i => intent'[j] = intent[j]
        /\ \A j \in Intents : Exists(j)' <=> Exists(j)
    BY <1>4, <1>b, StateUpdated DEF SubmitLate, Submittable, IntentStates
  <2> QED
    BY <1>4, <1>a, <1>c, <2>1 DEF SubmitLate, Submittable
<1>5. ASSUME NEW i \in Intents, NEW h \in Handlers, Submit(h, i)
      PROVE  OneUnresolved' /\ SubmittingIsSubmitted' /\ UsedIsKept'
  <2> DEFINE attempt == intent[i].submissions + 1
  <2>1. attempt \in Attempts
    BY <1>5, <1>b DEF Submit, Submittable, Exists, IntentRows, Attempts
  <2>2. /\ intent'[i].state = "submitted"
        /\ \A j \in Intents : j # i => intent'[j] = intent[j]
        /\ \A j \in Intents : Exists(j)' <=> Exists(j) \/ j = i
    BY <1>5, <1>b, <2>1, RowWritten DEF Submit, IntentStates, InFlight
  <2>3. /\ submitting'[h].intent = i
        /\ \A g \in Handlers : g # h => submitting'[g] = submitting[g]
    BY <1>5, <1>c DEF Submit
  <2>4. Exists(i) /\ intent[i].state = "authorized"
    BY <1>5 DEF Submit, Submittable
  <2>5. i \notin used /\ \A g \in Handlers : submitting[g] # Absent => submitting[g].intent # i
    BY <1>a, <2>4
  <2>6. OneUnresolved' /\ UsedIsKept'
    BY <1>5, <1>a, <1>c, <2>2, <2>4, <2>5 DEF Submit
  <2>7. SubmittingIsSubmitted'
    BY <1>5, <1>a, <1>c, <2>2, <2>3, <2>5 DEF Submit
  <2> QED
    BY <2>6, <2>7
<1>6. ASSUME NEW i \in Intents, ReconcileExercised(i)
      PROVE  OneUnresolved' /\ SubmittingIsSubmitted' /\ UsedIsKept'
  <2>1. /\ intent'[i].state = "settled"
        /\ \A j \in Intents : j # i => intent'[j] = intent[j]
        /\ \A j \in Intents : Exists(j)' <=> Exists(j)
    BY <1>6, <1>b, StateUpdated DEF ReconcileExercised, Queried, ObserveSettled, IntentStates
  <2>2. i \in used /\ \A h \in Handlers : submitting[h] # Absent => submitting[h].intent # i
    BY <1>6, <1>d DEF ReconcileExercised, Exercised, Queried
  <2> QED
    BY <1>6, <1>a, <1>c, <2>1, <2>2 DEF ReconcileExercised
<1>7. ASSUME NEW i \in Intents, ReconcileExpired(i)
      PROVE  OneUnresolved' /\ SubmittingIsSubmitted' /\ UsedIsKept'
  <2>1. /\ intent'[i].state = "expired"
        /\ \A j \in Intents : j # i => intent'[j] = intent[j]
        /\ \A j \in Intents : Exists(j)' <=> Exists(j)
    BY <1>7, <1>b, StateUpdated DEF ReconcileExpired, Queried, IntentStates
  <2>2. i \notin used /\ \A h \in Handlers : submitting[h] # Absent => submitting[h].intent # i
    BY <1>7, <1>d DEF ReconcileExpired, Exercised, Queried
  <2> QED
    BY <1>7, <1>a, <1>c, <2>1, <2>2 DEF ReconcileExpired
<1>8. ASSUME NEW i \in Intents, ReconcileRetryable(i)
      PROVE  OneUnresolved' /\ SubmittingIsSubmitted' /\ UsedIsKept'
  <2>1. /\ \A j \in Intents : j # i => intent'[j] = intent[j]
        /\ \A j \in Intents : Exists(j)' <=> Exists(j)
    BY <1>8, <1>b, StateUpdated DEF ReconcileRetryable, Queried, IntentStates
  <2>2. i \notin used /\ \A h \in Handlers : submitting[h] # Absent => submitting[h].intent # i
    BY <1>8, <1>d DEF ReconcileRetryable, Exercised, Queried
  <2>3. Unresolved(i)
    BY <1>8 DEF ReconcileRetryable, Queried
  <2> QED
    BY <1>8, <1>a, <1>c, <2>1, <2>2, <2>3 DEF ReconcileRetryable
<1>9. ASSUME NEW h \in Handlers, NEW executes \in BOOLEAN, NEW answer \in Answers,
             CallRail(h, executes, answer)
      PROVE OneUnresolved' /\ SubmittingIsSubmitted' /\ UsedIsKept'
  <2> DEFINE i == submitting[h].intent
  <2>1. /\ submitting[h] # Absent /\ i \in Intents /\ Exists(i)
        /\ intent[i].state = "submitted" /\ i \notin used
    BY <1>9, <1>a, <1>c DEF CallRail, TInv, Linked
  <2>2. \A g \in Handlers : submitting'[g] # Absent => submitting'[g] = submitting[g] /\ g # h
    BY <1>9, <1>c DEF CallRail
  <2>3. /\ \A j \in Intents : j # i => intent'[j] = intent[j]
        /\ \A j \in Intents : Exists(j)' <=> Exists(j)
        /\ \/ intent'[i].state \in InFlight \cup {"settled"}
           \/ intent'[i].state = "failed" /\ ~executes
    <3>1. RecordAnswer(i, submitting[h].attempt, answer) /\ (answer = "refused" => ~executes)
      BY <1>9 DEF CallRail
    <3>2. CASE answer = "raised"
      BY <3>1, <3>2, <2>1 DEF RecordAnswer, Exists
    <3>3. CASE answer # "raised"
      <4>1. /\ Recorded(answer) \in IntentStates
            /\ intent' = [intent EXCEPT ![i].state = Recorded(answer)]
        BY <3>1, <3>3 DEF RecordAnswer, Recorded, ObserveSettled, Answers, IntentStates, InFlight
      <4>2. /\ intent'[i].state = Recorded(answer)
            /\ \A j \in Intents : j # i => intent'[j] = intent[j]
            /\ \A j \in Intents : Exists(j)' <=> Exists(j)
        BY <4>1, <2>1, <1>b, StateUpdated
      <4> QED
        BY <4>2, <3>1, <3>3 DEF Recorded, Answers
    <3> QED
      BY <3>2, <3>3
  <2>4. used' = IF executes THEN used \cup {i} ELSE used
    BY <1>9 DEF CallRail
  <2>5. OneUnresolved' /\ UsedIsKept'
    BY <1>a, <1>c, <2>1, <2>3, <2>4
  <2>6. SubmittingIsSubmitted'
    BY <1>a, <1>c, <2>1, <2>2, <2>3, <2>4
  <2> QED
    BY <2>5, <2>6
<1> QED
  BY <1>1, <1>2, <1>3, <1>4, <1>5, <1>6, <1>7, <1>8, <1>9 DEF Money

LEMMA PaymentsAlways == Spec => [](TInv /\ SInv)
<1>1. Init => SInv
  BY DEF Init, SInv, OneUnresolved, SubmittingIsSubmitted, UsedIsKept, Unresolved, Exists
<1>2. SInv /\ UNCHANGED vars => SInv'
  BY DEF SInv, OneUnresolved, SubmittingIsSubmitted, UsedIsKept, Unresolved, Exists, vars
<1>3. TInv /\ SInv /\ [Next]_vars => SInv'
  BY <1>2, EvidenceKeepsPayments, MoneyKeepsPayments DEF Next
<1> QED
  BY <1>1, <1>3, TypesAlways, PTL DEF Spec

(* The entitlement is paid by one transfer unless a reconcile overtook a    *)
(* submission that was still running.                                       *)
THEOREM PaidByOneTransfer == Spec => []OneTransferUnlessOvertaken
<1>1. TInv /\ SInv => OneTransferUnlessOvertaken
  <2> SUFFICES ASSUME TInv, SInv, overtaken = {} PROVE Cardinality(used) <= 1
    BY DEF OneTransferUnlessOvertaken
  <2>1. \A i, j \in used : i = j
    BY DEF TInv, TypeOK, SInv, OneUnresolved, UsedIsKept, Unresolved, Resolved, InFlight
  <2>2. CASE used = {}
    BY <2>2, FS_EmptySet
  <2>3. CASE used # {}
    <3>1. PICK i \in used : used = {i}
      BY <2>1, <2>3
    <3> QED
      BY <3>1, FS_Singleton
  <2> QED
    BY <2>2, <2>3
<1> QED
  BY <1>1, PaymentsAlways, PTL

(* A transfer that happened is never written off as failed or expired, with *)
(* the same proviso.                                                        *)
THEOREM NoTransferForgotten == Spec => []TransferNeverForgotten
<1>1. SInv => TransferNeverForgotten
  BY DEF SInv, UsedIsKept, TransferNeverForgotten
<1> QED
  BY <1>1, PaymentsAlways, PTL

-----------------------------------------------------------------------------
LEMMA EvidenceKeepsPaid == TInv /\ PaidMeansMoved /\ Evidence => PaidMeansMoved'
<1> SUFFICES ASSUME TInv, PaidMeansMoved, Evidence PROVE PaidMeansMoved'
  OBVIOUS
<1>1. UNCHANGED <<intent, used>>
  BY DEF Evidence, Decide, OpenDispute, Reopen, CloseDispute, DecideDispute
<1>2. ent'.state = "paid" => ent.state = "paid"
  BY DEF TInv, TypeOK, Evidence, Decide, OpenDispute, Reopen, CloseDispute, DecideDispute,
         RecordDecision, Entitled, Reversed, Verdicts
<1> QED
  BY <1>1, <1>2 DEF PaidMeansMoved, Exists

LEMMA MoneyKeepsPaid == TInv /\ PaidMeansMoved /\ Money => PaidMeansMoved'
<1> SUFFICES ASSUME TInv, PaidMeansMoved, Money PROVE PaidMeansMoved'
  OBVIOUS
<1>a. intent \in [Intents -> {Absent} \cup IntentRows]
  BY DEF TInv, TypeOK
<1> USE DEF PaidMeansMoved
<1>1. ASSUME NEW i \in Intents, NEW s \in IntentStates \ {"settled"}, Exists(i),
             intent' = [intent EXCEPT ![i].state = s], used \subseteq used',
             ent'.state # "paid" \/ ent' = ent
      PROVE  PaidMeansMoved'
  <2>1. /\ intent'[i].state = s
        /\ \A j \in Intents : j # i => intent'[j] = intent[j]
        /\ \A j \in Intents : Exists(j)' <=> Exists(j)
    BY <1>a, <1>1, StateUpdated
  <2> QED
    BY <1>1, <2>1
<1>2. ASSUME NEW i \in Intents, NEW s \in IntentStates \ {"settled"}, NEW n \in Attempts,
             intent' = [intent EXCEPT ![i] = [state |-> s, submissions |-> n]], used' = used,
             ent'.state # "paid" \/ ent' = ent
      PROVE  PaidMeansMoved'
  <2>1. /\ intent'[i].state = s
        /\ \A j \in Intents : j # i => intent'[j] = intent[j]
        /\ \A j \in Intents : Exists(j)' <=> Exists(j) \/ j = i
    BY <1>a, <1>2, RowWritten
  <2> QED
    BY <1>2, <2>1
<1>3. ASSUME NEW i \in Intents, Exists(i), ObserveSettled(i), used \subseteq used', i \in used'
      PROVE  PaidMeansMoved'
  <2>1. /\ intent'[i].state = "settled"
        /\ \A j \in Intents : j # i => intent'[j] = intent[j]
        /\ \A j \in Intents : Exists(j)' <=> Exists(j)
    BY <1>a, <1>3, StateUpdated DEF ObserveSettled, IntentStates
  <2> QED
    BY <1>3, <2>1
<1>4. ASSUME UNCHANGED <<intent, ent>>, used \subseteq used' PROVE PaidMeansMoved'
  BY <1>4 DEF Exists
<1>b. ent \in [state : {"none", "payable", "held", "authorized", "submitted", "exposed",
                        "paid", "void", "refund_pending"}, decision : Decisions]
  BY DEF TInv, TypeOK
<1>5. ASSUME NEW i \in Intents, Prepare(i) PROVE PaidMeansMoved'
  <2> 0 \in Attempts /\ "prepared" \in IntentStates \ {"settled"}
    BY DEF Attempts, IntentStates
  <2> QED
    BY <1>2, <1>5 DEF Prepare
<1>6. ASSUME NEW i \in Intents, Authorize(i) \/ SubmitLate(i) PROVE PaidMeansMoved'
  BY <1>1, <1>6, <1>b DEF Authorize, SubmitLate, Submittable, IntentStates
<1>7. ASSUME NEW i \in Intents, NEW h \in Handlers, Submit(h, i) PROVE PaidMeansMoved'
  <2>1. intent[i].submissions + 1 \in Attempts
    BY <1>7, <1>a DEF Submit, Submittable, Exists, IntentRows, Attempts
  <2> QED
    BY <1>2, <1>7, <1>b, <2>1 DEF Submit, IntentStates, InFlight
<1>8. ASSUME NEW i \in Intents, ReconcileExercised(i) PROVE PaidMeansMoved'
  BY <1>3, <1>8 DEF ReconcileExercised, Queried, Exercised
<1>9. ASSUME NEW i \in Intents, ReconcileExpired(i) \/ ReconcileRetryable(i) PROVE PaidMeansMoved'
  BY <1>1, <1>9, <1>b DEF ReconcileExpired, ReconcileRetryable, Queried, IntentStates
<1>10. ASSUME NEW h \in Handlers, NEW executes \in BOOLEAN, NEW answer \in Answers,
              CallRail(h, executes, answer)
       PROVE  PaidMeansMoved'
  <2> DEFINE i == submitting[h].intent
  <2>1. i \in Intents /\ Exists(i)
    BY <1>10 DEF CallRail, TInv, TypeOK, Linked, Carried
  <2>2. used' = (IF executes THEN used \cup {i} ELSE used) /\ RecordAnswer(i, submitting[h].attempt, answer)
    BY <1>10 DEF CallRail
  <2>3. CASE answer = "raised"
    BY <1>4, <2>2, <2>3 DEF RecordAnswer
  <2>4. CASE answer = "settled"
    <3>1. ObserveSettled(i) /\ i \in used'
      BY <1>10, <2>2, <2>4 DEF CallRail, RecordAnswer, Recorded
    <3> QED
      BY <1>3, <2>1, <2>2, <3>1
  <2>5. CASE answer = "refused"
    BY <1>1, <1>b, <2>1, <2>2, <2>5 DEF RecordAnswer, Recorded, IntentStates
  <2>6. CASE answer \in {"lost", "other_amount"}
    <3>1. /\ intent' = [intent EXCEPT ![i].state = "unknown"]
          /\ ent' = [ent EXCEPT !.state = IF answer = "lost" THEN "exposed" ELSE @]
      BY <2>2, <2>6 DEF RecordAnswer, Recorded
    <3>2. ent'.state # "paid" \/ ent' = ent
      BY <3>1, <1>b
    <3> QED
      BY <1>1, <2>1, <2>2, <3>1, <3>2 DEF IntentStates, InFlight
  <2> QED
    BY <2>3, <2>4, <2>5, <2>6 DEF Answers
<1>11. ASSUME CloseAward \/ \E i \in Intents : Expire(i) PROVE PaidMeansMoved'
  BY <1>4, <1>11 DEF CloseAward, Expire
<1> QED
  BY <1>5, <1>6, <1>7, <1>8, <1>9, <1>10, <1>11 DEF Money

(* Whatever interleaves, a settled intent and a paid entitlement stand for  *)
(* a transfer the rail made.                                                *)
THEOREM PaidIsMoved == Spec => []PaidMeansMoved
<1>1. Init => PaidMeansMoved
  BY DEF Init, PaidMeansMoved, Exists
<1>2. TInv /\ PaidMeansMoved /\ [Next]_vars => PaidMeansMoved'
  <2>1. PaidMeansMoved /\ UNCHANGED vars => PaidMeansMoved'
    BY DEF PaidMeansMoved, Exists, vars
  <2> QED
    BY <2>1, EvidenceKeepsPaid, MoneyKeepsPaid DEF Next
<1> QED
  BY <1>1, <1>2, TypesAlways, PTL DEF Spec
-----------------------------------------------------------------------------
(* The journal and the intents agree.  A count of entries changes by one    *)
(* only when the entry is new, so the invariant dates the entries: none is  *)
(* later than the intent's last submission, and a submission in flight has  *)
(* no entry that releases it.                                               *)
Releasing == {"fail", "unsubmitted", "expire"}

EntriesAreDated ==
  \A e \in entries :
    /\ Exists(e.intent)
    /\ IF e.event = "settle" THEN intent[e.intent].state = "settled"
       ELSE /\ e.attempt <= intent[e.intent].submissions
            /\ e.event \in Releasing /\ e.attempt = intent[e.intent].submissions
                 => intent[e.intent].state \notin InFlight

CarriedIsLast ==
  \A h \in Handlers : submitting[h] # Absent =>
    submitting[h].attempt = intent[submitting[h].intent].submissions

LInv ==
  overtaken = {} =>
    IsFiniteSet(entries) /\ EntriesAreDated /\ CarriedIsLast /\ ExposureIsInFlight

(* An event key that is posted for the first time counts once. *)
LEMMA EntryPosted ==
  ASSUME IsFiniteSet(entries), NEW e, e \notin entries, entries' = entries \cup {e},
         NEW i, NEW events
  PROVE  /\ IsFiniteSet(entries')
         /\ Postings(i, events) \in Nat
         /\ Postings(i, events)' =
              Postings(i, events) + (IF e.event \in events /\ e.intent = i THEN 1 ELSE 0)
<1> DEFINE of(S) == {x \in S : x.event \in events /\ x.intent = i}
<1>1. IsFiniteSet(entries')
  BY FS_AddElement
<1>2. IsFiniteSet(of(entries))
  BY FS_Subset
<1>3. Cardinality(of(entries)) \in Nat
  BY <1>2, FS_CardinalityType
<1>a. /\ Postings(i, events) = Cardinality(of(entries))
      /\ Postings(i, events)' = Cardinality(of(entries'))
  BY DEF Postings
<1> HIDE DEF of
<1>4. CASE e.event \in events /\ e.intent = i
  <2>1. of(entries') = of(entries) \cup {e} /\ e \notin of(entries)
    BY <1>4 DEF of
  <2>2. Cardinality(of(entries')) = Cardinality(of(entries)) + 1
    BY <1>2, <2>1, FS_AddElement
  <2> QED
    BY <1>1, <1>3, <1>4, <1>a, <2>2
<1>5. CASE ~(e.event \in events /\ e.intent = i)
  <2>1. of(entries') = of(entries)
    BY <1>5 DEF of
  <2> QED
    BY <1>1, <1>3, <1>5, <1>a, <2>1
<1> QED
  BY <1>4, <1>5

(* What it does to the exposure of the intents. *)
LEMMA ExposureMoved ==
  ASSUME IsFiniteSet(entries), NEW e, e \notin entries, entries' = entries \cup {e},
         NEW i
  PROVE  /\ e.intent # i => Exposure(i)' = Exposure(i)
         /\ e.intent = i /\ e.event = "submit" => Exposure(i)' = Exposure(i) + 1
         /\ e.intent = i /\ e.event \in Releasing \cup {"settle"} => Exposure(i)' = Exposure(i) - 1
<1>1. /\ Postings(i, {"submit"}) \in Nat
      /\ Postings(i, {"submit"})' =
           Postings(i, {"submit"}) + (IF e.event \in {"submit"} /\ e.intent = i THEN 1 ELSE 0)
  BY EntryPosted
<1> DEFINE closing == {"fail", "unsubmitted", "expire", "settle"}
<1>2. /\ Postings(i, closing) \in Nat
      /\ Postings(i, closing)' =
           Postings(i, closing) + (IF e.event \in closing /\ e.intent = i THEN 1 ELSE 0)
  BY EntryPosted
<1>3. Exposure(i)' = Postings(i, {"submit"})' - Postings(i, closing)'
  BY DEF Exposure
<1> QED
  BY <1>1, <1>2, <1>3 DEF Exposure, Releasing

LEMMA ExposureKept ==
  ASSUME entries' = entries, NEW i
  PROVE  Exposure(i)' = Exposure(i)
BY DEF Exposure, Postings

(* An intent changes state and stays in flight, or out of it: nothing is    *)
(* posted.                                                                  *)
LEMMA NothingToPost ==
  ASSUME TInv, LInv, overtaken = {}, entries' = entries,
         NEW i \in Intents, Exists(i), NEW s \in IntentStates,
         intent' = [intent EXCEPT ![i].state = s],
         intent[i].state # "settled",
         s \in InFlight <=> intent[i].state \in InFlight,
         \A h \in Handlers : submitting'[h] # Absent => submitting'[h] = submitting[h]
  PROVE  LInv'
<1> USE DEF TInv, TypeOK, Linked
<1>1. /\ intent'[i].state = s /\ intent'[i].submissions = intent[i].submissions
      /\ \A j \in Intents : j # i => intent'[j] = intent[j]
      /\ \A j \in Intents : Exists(j)' <=> Exists(j)
  BY StateUpdated
<1>2. EntriesAreDated'
  <2> SUFFICES ASSUME NEW e \in entries
               PROVE  /\ Exists(e.intent)'
                      /\ IF e.event = "settle" THEN intent'[e.intent].state = "settled"
                         ELSE /\ e.attempt <= intent'[e.intent].submissions
                              /\ e.event \in Releasing /\ e.attempt = intent'[e.intent].submissions
                                   => intent'[e.intent].state \notin InFlight
    BY DEF EntriesAreDated, Exists
  <2>1. e.intent \in Intents
    BY DEF Events
  <2> QED
    BY <1>1, <2>1 DEF LInv, EntriesAreDated
<1>3. CarriedIsLast'
  BY <1>1 DEF LInv, CarriedIsLast, Carried
<1>4. ExposureIsInFlight'
  BY <1>1, ExposureKept DEF LInv, ExposureIsInFlight
<1> QED
  BY <1>2, <1>3, <1>4 DEF LInv

(* An intent in flight is resolved and its release, or its settlement, is   *)
(* posted: it is not in the journal yet.                                    *)
LEMMA ReleasePosted ==
  ASSUME TInv, LInv, overtaken = {},
         NEW i \in Intents, Exists(i), NEW s \in IntentStates \ InFlight,
         intent' = [intent EXCEPT ![i].state = s],
         intent[i].state \in InFlight,
         NEW e \in Events, entries' = entries \cup {e}, e.intent = i,
         IF e.event = "settle" THEN s = "settled"
         ELSE e.event \in Releasing /\ e.attempt = intent[i].submissions,
         \A h \in Handlers : submitting'[h] # Absent => submitting'[h] = submitting[h]
  PROVE  LInv'
<1> USE DEF TInv, TypeOK, Linked
<1>1. /\ intent'[i].state = s /\ intent'[i].submissions = intent[i].submissions
      /\ \A j \in Intents : j # i => intent'[j] = intent[j]
      /\ \A j \in Intents : Exists(j)' <=> Exists(j)
  BY StateUpdated
<1>2. intent[i].state # "settled" /\ intent[i].submissions <= intent[i].submissions
  BY DEF InFlight, Exists, IntentRows, Attempts
<1>3. e \notin entries
  BY <1>2 DEF LInv, EntriesAreDated
<1>4. EntriesAreDated'
  <2> SUFFICES ASSUME NEW x \in entries'
               PROVE  /\ Exists(x.intent)'
                      /\ IF x.event = "settle" THEN intent'[x.intent].state = "settled"
                         ELSE /\ x.attempt <= intent'[x.intent].submissions
                              /\ x.event \in Releasing /\ x.attempt = intent'[x.intent].submissions
                                   => intent'[x.intent].state \notin InFlight
    BY DEF EntriesAreDated, Exists
  <2>1. x.intent \in Intents
    BY DEF Events
  <2>2. CASE x = e
    BY <1>1, <1>2, <2>2
  <2>3. CASE x \in entries
    BY <1>1, <1>2, <2>1, <2>3 DEF LInv, EntriesAreDated
  <2> QED
    BY <2>2, <2>3
<1>5. CarriedIsLast'
  BY <1>1 DEF LInv, CarriedIsLast, Carried
<1>6. ExposureIsInFlight'
  <2>1. Exposure(i) = 1 /\ Exposure(i)' = Exposure(i) - 1
    BY <1>3, ExposureMoved DEF LInv, ExposureIsInFlight
  <2>2. \A j \in Intents : j # i => Exposure(j)' = Exposure(j)
    BY <1>3, ExposureMoved DEF LInv
  <2> QED
    BY <1>1, <2>1, <2>2 DEF LInv, ExposureIsInFlight
<1> QED
  BY <1>3, <1>4, <1>5, <1>6, FS_AddElement DEF LInv
LEMMA EvidenceKeepsLedger == LInv /\ Evidence => LInv'
<1>1. Evidence => UNCHANGED <<intent, entries, submitting, overtaken>>
  BY DEF Evidence, Decide, OpenDispute, Reopen, CloseDispute, DecideDispute
<1> QED
  BY <1>1, ExposureKept DEF LInv, EntriesAreDated, CarriedIsLast, ExposureIsInFlight, Exists

(* The rows that a handler writes after its call to the rail. *)
LEMMA AnswerKeepsLedger ==
  ASSUME TInv, SInv, LInv, overtaken = {}, NEW h \in Handlers, NEW executes \in BOOLEAN,
         NEW answer \in Answers, CallRail(h, executes, answer)
  PROVE  LInv'
<1> DEFINE i == submitting[h].intent
           attempt == submitting[h].attempt
<1>1. /\ submitting[h] # Absent /\ i \in Intents /\ Exists(i)
      /\ intent[i].state = "submitted" /\ attempt = intent[i].submissions /\ attempt \in Attempts
  BY DEF CallRail, TInv, TypeOK, Linked, Carried, SInv, SubmittingIsSubmitted, LInv, CarriedIsLast
<1>2. \A g \in Handlers : submitting'[g] # Absent => submitting'[g] = submitting[g]
  BY DEF CallRail, TInv, TypeOK
<1>3. RecordAnswer(i, attempt, answer) /\ overtaken' = overtaken
  BY DEF CallRail
<1>4. CASE answer = "raised"
  <2>1. UNCHANGED <<intent, entries>>
    BY <1>3, <1>4 DEF RecordAnswer
  <2> QED
    BY <1>2, <2>1, ExposureKept DEF LInv, EntriesAreDated, CarriedIsLast, ExposureIsInFlight, Exists
<1>5. CASE answer = "settled"
  <2> DEFINE e == [event |-> "settle", intent |-> i]
  <2>1. /\ intent' = [intent EXCEPT ![i].state = "settled"]
        /\ entries' = entries \cup {e}
    BY <1>3, <1>5 DEF RecordAnswer, Recorded, ObserveSettled
  <2>2. e \in Events /\ e.intent = i /\ e.event = "settle"
    BY <1>1 DEF Events
  <2> QED
    BY <1>1, <1>2, <2>1, <2>2, ReleasePosted DEF InFlight, IntentStates
<1>6. CASE answer = "refused"
  <2> DEFINE e == [event |-> "fail", intent |-> i, attempt |-> attempt]
  <2>1. /\ intent' = [intent EXCEPT ![i].state = "failed"]
        /\ entries' = entries \cup {e}
    BY <1>3, <1>6 DEF RecordAnswer, Recorded
  <2>2. e \in Events /\ e.intent = i /\ e.event = "fail" /\ e.attempt = attempt
    BY <1>1 DEF Events
  <2> QED
    BY <1>1, <1>2, <2>1, <2>2, ReleasePosted DEF InFlight, IntentStates, Releasing
<1>7. CASE answer \in {"lost", "other_amount"}
  <2>1. intent' = [intent EXCEPT ![i].state = "unknown"] /\ entries' = entries
    BY <1>3, <1>7 DEF RecordAnswer, Recorded
  <2> QED
    BY <1>1, <1>2, <2>1, NothingToPost DEF InFlight, IntentStates
<1> QED
  BY <1>4, <1>5, <1>6, <1>7 DEF Answers

(* The submission is posted under an attempt the intent had not reached.    *)
LEMMA SubmitKeepsLedger ==
  ASSUME TInv, SInv, LInv, overtaken = {}, NEW h \in Handlers, NEW i \in Intents, Submit(h, i)
  PROVE  LInv'
<1> DEFINE attempt == intent[i].submissions + 1
           e == [event |-> "submit", intent |-> i, attempt |-> attempt]
<1> USE DEF TInv, TypeOK
<1>1. /\ attempt \in Attempts /\ intent[i].submissions \in Nat
      /\ Exists(i) /\ intent[i].state = "authorized"
  BY DEF Submit, Submittable, Exists, IntentRows, Attempts
<1>2. /\ intent'[i].state = "submitted" /\ intent'[i].submissions = attempt
      /\ \A j \in Intents : j # i => intent'[j] = intent[j]
      /\ \A j \in Intents : Exists(j)' <=> Exists(j)
  <2>1. intent' = [intent EXCEPT ![i] = [state |-> "submitted", submissions |-> attempt]]
    BY DEF Submit
  <2>2. "submitted" \in IntentStates
    BY DEF IntentStates, InFlight
  <2>3. intent \in [Intents -> {Absent} \cup IntentRows]
    OBVIOUS
  <2>. HIDE DEF TInv, TypeOK, attempt
  <2>. QED
    BY <1>1, <2>1, <2>2, <2>3, RowWritten
<1>3. /\ e \in Events /\ e.intent = i /\ e.event = "submit" /\ e.attempt = attempt
      /\ entries' = entries \cup {e}
  BY <1>1 DEF Submit, Events
<1>4. e \notin entries
  <2>1. ~(attempt <= intent[i].submissions)
    BY <1>1
  <2> HIDE DEF attempt
  <2> QED
    BY <1>3, <2>1 DEF LInv, EntriesAreDated
<1>5. EntriesAreDated'
  <2> SUFFICES ASSUME NEW x \in entries'
               PROVE  /\ Exists(x.intent)'
                      /\ IF x.event = "settle" THEN intent'[x.intent].state = "settled"
                         ELSE /\ x.attempt <= intent'[x.intent].submissions
                              /\ x.event \in Releasing /\ x.attempt = intent'[x.intent].submissions
                                   => intent'[x.intent].state \notin InFlight
    BY DEF EntriesAreDated, Exists
  <2>1. CASE x = e
    BY <1>1, <1>2, <1>3, <2>1 DEF Releasing, Attempts
  <2>2. CASE x \in entries /\ x.intent # i
    <3>1. x.intent \in Intents
      BY <2>2 DEF Events
    <3> QED
      BY <1>2, <2>2, <3>1 DEF LInv, EntriesAreDated
  <2>3. CASE x \in entries /\ x.intent = i
    <3>1. x.event # "settle" /\ x.attempt <= intent[i].submissions
      BY <1>1, <2>3 DEF LInv, EntriesAreDated
    <3>2. x.attempt \in Nat
      BY <2>3, <3>1 DEF Events, Attempts
    <3>3. x.attempt <= attempt /\ x.attempt # attempt
      BY <1>1, <3>1, <3>2
    <3> HIDE DEF attempt
    <3> QED
      BY <1>1, <1>2, <2>3, <3>1, <3>3
  <2> QED
    BY <1>3, <2>1, <2>2, <2>3
<1>6. CarriedIsLast'
  <2>1. /\ submitting'[h] = [intent |-> i, attempt |-> attempt]
        /\ \A g \in Handlers : g # h => submitting'[g] = submitting[g]
    <3>1. submitting' = [submitting EXCEPT ![h] = [intent |-> i, attempt |-> attempt]]
      BY DEF Submit
    <3> HIDE DEF attempt
    <3> QED
      BY <3>1
  <2>2. ASSUME NEW g \in Handlers, g # h, submitting[g] # Absent
        PROVE  submitting[g].intent \in Intents /\ submitting[g].intent # i
    BY <1>1, <2>2 DEF SInv, SubmittingIsSubmitted, Carried
  <2> QED
    BY <1>2, <2>1, <2>2 DEF LInv, CarriedIsLast
<1>7. ExposureIsInFlight'
  <2>1. Exposure(i) = 0 /\ Exposure(i)' = Exposure(i) + 1
    BY <1>1, <1>3, <1>4, ExposureMoved DEF LInv, ExposureIsInFlight, InFlight
  <2>2. \A j \in Intents : j # i => Exposure(j)' = Exposure(j)
    BY <1>3, <1>4, ExposureMoved DEF LInv
  <2> QED
    BY <1>1, <1>2, <2>1, <2>2 DEF LInv, ExposureIsInFlight, InFlight
<1> QED
  BY <1>3, <1>4, <1>5, <1>6, <1>7, FS_AddElement DEF LInv

LEMMA MoneyKeepsLedger == TInv /\ SInv /\ LInv /\ Money => LInv'
<1> SUFFICES ASSUME TInv, SInv, LInv, Money, overtaken' = {} PROVE LInv'
  BY DEF LInv
<1>0. overtaken = {}
  BY DEF Money, Prepare, Authorize, Expire, SubmitLate, Submit, ReconcileExercised, ReconcileExpired,
         ReconcileRetryable, CallRail, CloseAward, Overtake
<1>a. UsedIsKept
  BY <1>0 DEF SInv
<1>1. ASSUME NEW i \in Intents, Prepare(i) PROVE LInv'
  <2>0. 0 \in Attempts /\ "prepared" \in IntentStates
    BY DEF Attempts, IntentStates
  <2>1. /\ intent'[i].state = "prepared" /\ ~Exists(i)
        /\ \A j \in Intents : j # i => intent'[j] = intent[j]
        /\ \A j \in Intents : Exists(j)' <=> Exists(j) \/ j = i
    BY <1>1, <2>0, RowWritten DEF Prepare, TInv, TypeOK
  <2>2. EntriesAreDated'
    <3>1. ASSUME NEW e \in entries PROVE e.intent \in Intents /\ e.intent # i
      BY <1>0, <2>1 DEF LInv, EntriesAreDated, TInv, TypeOK, Events
    <3> QED
      BY <1>0, <1>1, <2>1, <3>1 DEF Prepare, LInv, EntriesAreDated
  <2>3. CarriedIsLast'
    BY <1>0, <1>1, <2>1 DEF Prepare, LInv, CarriedIsLast, TInv, Linked, TypeOK, Carried
  <2>4. ExposureIsInFlight'
    BY <1>0, <1>1, <2>1, ExposureKept DEF Prepare, LInv, ExposureIsInFlight, InFlight
  <2> QED
    BY <1>0, <1>1, <2>2, <2>3, <2>4 DEF Prepare, LInv
<1>2. ASSUME NEW i \in Intents, Authorize(i) \/ SubmitLate(i) PROVE LInv'
  BY <1>0, <1>2, NothingToPost DEF Authorize, SubmitLate, Submittable, InFlight, IntentStates
<1>3. ASSUME CloseAward \/ \E i \in Intents : Expire(i) PROVE LInv'
  BY <1>3, ExposureKept DEF CloseAward, Expire, LInv, EntriesAreDated, CarriedIsLast,
                            ExposureIsInFlight, Exists
<1>4. ASSUME NEW i \in Intents, ReconcileExercised(i) PROVE LInv'
  <2> DEFINE e == [event |-> "settle", intent |-> i]
  <2>1. Exists(i) /\ intent[i].state \in InFlight
    BY <1>4, <1>a DEF ReconcileExercised, Queried, Exercised, UsedIsKept, InFlight
  <2>2. e \in Events /\ e.intent = i /\ e.event = "settle"
    BY DEF Events
  <2>3. /\ intent' = [intent EXCEPT ![i].state = "settled"]
        /\ entries' = entries \cup {e}
        /\ submitting' = submitting
    BY <1>4 DEF ReconcileExercised, ObserveSettled
  <2> QED
    BY <1>0, <2>1, <2>2, <2>3, ReleasePosted DEF InFlight, IntentStates
<1>5. ASSUME NEW i \in Intents, NEW event \in {"unsubmitted", "expire"},
             NEW s \in {"authorized", "expired"}, Queried(i),
             intent' = [intent EXCEPT ![i].state = s], entries' = entries \cup Release(i, event),
             submitting' = submitting
      PROVE  LInv'
  <2>1. /\ Exists(i) /\ intent[i].state # "settled" /\ s \in IntentStates \ InFlight
        /\ intent[i].submissions \in Attempts
    BY <1>5 DEF Queried, InFlight, IntentStates, TInv, TypeOK, Exists, IntentRows
  <2>2. CASE intent[i].state \in InFlight
    <3> DEFINE e == [event |-> event, intent |-> i, attempt |-> intent[i].submissions]
    <3>1. entries' = entries \cup {e}
      BY <1>5, <2>2 DEF Release
    <3>2. /\ e \in Events /\ e.intent = i /\ e.event \in Releasing /\ e.event # "settle"
          /\ e.attempt = intent[i].submissions
      BY <2>1 DEF Events, Releasing
    <3> HIDE DEF e
    <3> QED
      BY <1>0, <1>5, <2>1, <2>2, <3>1, <3>2, ReleasePosted
  <2>3. CASE intent[i].state \notin InFlight
    <3>1. entries' = entries
      BY <1>5, <2>3 DEF Release
    <3> QED
      BY <1>0, <1>5, <2>1, <2>3, <3>1, NothingToPost
  <2> QED
    BY <2>2, <2>3
<1>6. ASSUME NEW i \in Intents, ReconcileExpired(i) \/ ReconcileRetryable(i) PROVE LInv'
  BY <1>5, <1>6 DEF ReconcileExpired, ReconcileRetryable
<1> QED
  BY <1>0, <1>1, <1>2, <1>3, <1>4, <1>6, SubmitKeepsLedger, AnswerKeepsLedger DEF Money

(* Unless a reconcile overtook a submission, the journal holds one unit of  *)
(* exposure for each intent whose transfer may be under way, and none for   *)
(* any other: replay of the journal finds the figures of the tables.        *)
THEOREM JournalHoldsExposure == Spec => []ExposureIsInFlight
<1>1. Init => LInv
  <2>1. Init => \A i \in Intents : Postings(i, {"submit"}) = 0
                  /\ Postings(i, {"fail", "unsubmitted", "expire", "settle"}) = 0
    BY FS_EmptySet DEF Init, Postings
  <2> QED
    BY <2>1, FS_EmptySet DEF Init, LInv, EntriesAreDated, CarriedIsLast, ExposureIsInFlight,
                             Exposure, Exists
<1>2. LInv /\ UNCHANGED vars => LInv'
  BY ExposureKept DEF LInv, EntriesAreDated, CarriedIsLast, ExposureIsInFlight, Exists, vars
<1>3. TInv /\ SInv /\ LInv /\ [Next]_vars => LInv'
  BY <1>2, EvidenceKeepsLedger, MoneyKeepsLedger DEF Next
<1>4. LInv => ExposureIsInFlight
  BY DEF LInv, ExposureIsInFlight
<1> QED
  BY <1>1, <1>3, <1>4, PaymentsAlways, PTL DEF Spec
=============================================================================
