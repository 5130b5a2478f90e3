----------------------- MODULE BuyerSettlementProofs ------------------------
(***************************************************************************)
(* The production buyer is one of the adapters ActionJournal allows, so    *)
(* everything proved of the journal holds of the journal with the buyer.   *)
(* Then what the buyer adds: what reaches the wire (WireInv) and what the  *)
(* outcomes it reports rest on (VerdictInv).                               *)
(***************************************************************************)
EXTENDS BuyerSettlement, ActionJournalProofs

(* What the buyer returns is a well-formed answer about its own request. *)
LEMMA OutcomeIsAnswer ==
  ASSUME IInv, NEW c \in Callers, InAdapter(c), NEW state \in Terminal
  PROVE  Outcome(IdOf(c), state) \in Answers
<1>1. HasRow(IdOf(c)) /\ IdOf(c) \in Ids
  BY DEF IInv, CallsHaveRows, TypeOK, InAdapter, IdOf, Calls, Requests, Idle
<1>2. row[IdOf(c)].job \in Jobs
  BY <1>1 DEF IInv, TypeOK, HasRow, Rows
<1>3. UnitsDue(IdOf(c), state) \in Grants
  BY <1>2, AdapterAssumption, GrantsAssumption DEF UnitsDue
<1>. QED
  BY <1>1, <1>3, AdapterAssumption DEF Outcome, Answers

(* Every step of the composed system is a step of the journal or leaves the *)
(* journal as it is.                                                        *)
LEMMA BuyerStepIsJournalStep ==
  ASSUME IInv, [BNext]_bvars
  PROVE  [Next]_vars
<1>1. CASE JournalMoves
  BY <1>1 DEF JournalMoves, Next
<1>2. ASSUME NEW c \in Callers, InAdapter(c), NEW state \in Terminal, Return(c, state)
      PROVE  Next
  BY <1>2, OutcomeIsAnswer DEF Return, Next
<1>3. ASSUME NEW c \in Callers, Raise(c) PROVE Next
  BY <1>3 DEF Raise, Next
<1>4. ASSUME NEW c \in Callers, BuyerStep(c) PROVE [Next]_vars
  <2>1. CASE RecallStored(c)
    BY <1>2, <2>1 DEF RecallStored, Settled
  <2>2. CASE RecallNothing(c) \/ TimeOut(c)
    BY <1>3, <2>2 DEF RecallNothing, TimeOut
  <2>3. CASE AskPrice(c) \/ Represent(c) \/ Present(c) \/ \E reply \in Replies : Receive(c, reply)
    BY <2>3 DEF AskPrice, Represent, Present, Receive, Goes
  <2>4. CASE NotPriced(c)
    BY <1>2, <1>3, <2>4 DEF NotPriced, Terminal
  <2>5. CASE SignAndPersist(c)
    BY <1>3, <2>5 DEF SignAndPersist, Goes
  <2>6. CASE Conclude(c)
    BY <1>2, <1>3, <2>6 DEF Conclude
  <2>. QED
    BY <1>4, <2>1, <2>2, <2>3, <2>4, <2>5, <2>6 DEF BuyerStep
<1>5. CASE Environment
  BY <1>5 DEF Environment, Settle, Decide
<1>6. CASE UNCHANGED bvars
  BY <1>6 DEF bvars
<1>. QED
  BY <1>1, <1>4, <1>5, <1>6 DEF BNext

(* The journal with the production buyer as its adapter behaves as the     *)
(* journal does with an arbitrary one.                                     *)
THEOREM BuyerIsAdapter == BSpec => Spec
<1>1. BInit => Init /\ IInv
  BY InitIInv DEF BInit
<1>2. IInv /\ [BNext]_bvars => [Next]_vars /\ IInv'
  BY BuyerStepIsJournalStep, StepIInv
<1>. QED
  BY <1>1, <1>2, PTL DEF BSpec, Spec

(* With the production buyer, too, the exposure stays within the cap.      *)
THEOREM BuyerExposureBounded == BSpec => []ExposureWithinCap
BY BuyerIsAdapter, ExposureBounded, PTL
-----------------------------------------------------------------------------
(* What a step of the composed system does to one caller.                  *)

(* The journal alone: who enters the adapter, and who leaves the rest.     *)
LEMMA JournalCall ==
  ASSUME TypeOK, JournalStep, NEW c \in Callers
  PROVE  \/ call'[c] = call[c]
         \/ call'[c].at \notin {"submit", "waiting", "asking", "record"}
         \/ ClaimReserved(c) \/ Submit(c) \/ MarkUnknown(c)
<1> DEFINE Goal(d) ==
         \/ call'[d] = call[d]
         \/ call'[d].at \notin {"submit", "waiting", "asking", "record"}
         \/ ClaimReserved(d) \/ Submit(d) \/ MarkUnknown(d)
<1>0. call \in [Callers -> Calls]
  BY DEF TypeOK
<1>1. ASSUME NEW j \in Jobs, Expire(j) \/ Register(j) PROVE Goal(c)
  BY <1>1 DEF Expire, Register
<1>2. ASSUME NEW d \in Callers, NEW j \in Jobs, NEW root \in Roots, NEW k \in Clocks,
             StartAudit(d, j, root, k)
      PROVE  Goal(c)
  BY <1>0, <1>2 DEF StartAudit
<1>3. ASSUME NEW d \in Callers, FinishAudit(d) \/ Crash(d) \/ ClaimNothing(d) \/ ClaimExpired(d)
                                \/ Record(d) \/ MarkLost(d) \/ Refuse(d)
      PROVE  Goal(c)
  BY <1>0, <1>3 DEF FinishAudit, Crash, ClaimNothing, ClaimExpired, Record, MarkLost, Refuse, Idle
<1>4. ASSUME NEW d \in Callers, NEW q \in Requests, NEW k \in Clocks,
             ReserveNew(d, q, k) \/ ReserveAgain(d, q, k)
      PROVE  Goal(c)
  BY <1>0, <1>4 DEF ReserveNew, ReserveAgain
<1>5. ASSUME NEW d \in Callers, ClaimReserved(d) \/ Submit(d) \/ MarkUnknown(d) PROVE Goal(c)
  BY <1>0, <1>5 DEF ClaimReserved, Submit, MarkUnknown
<1>6. ASSUME NEW d \in Callers, NEW id \in Ids, ReleaseExpired(d, id) \/ StartReconcile(d, id)
      PROVE  Goal(c)
  BY <1>0, <1>6 DEF ReleaseExpired, StartReconcile
<1>. HIDE DEF Goal
<1>7. Goal(c)
  BY <1>1, <1>2, <1>3, <1>4, <1>5, <1>6 DEF JournalStep, Claim, Finish
<1>. QED
  BY <1>7 DEF Goal

(* A caller leaves the adapter with an answer of its own, or without any.  *)
Leaves(c) ==
  /\ InAdapter(c)
  /\ UNCHANGED <<row, submits>>
  /\ http' = [http EXCEPT ![c] = Quiet]
  /\ \/ \E state \in Terminal : Return(c, state)
     \/ /\ \E k \in Calls : k.at \in {"lost", "idle"} /\ call' = [call EXCEPT ![c] = k]

(* Answering and raising both leave the adapter. *)
LEMMA ReturnLeaves ==
  ASSUME TypeOK, NEW c \in Callers, NEW state \in Terminal, Return(c, state)
  PROVE  Leaves(c)
BY DEF Return, Answered, Leaves, InAdapter

LEMMA RaiseLeaves ==
  ASSUME TypeOK, NEW c \in Callers, Raise(c)
  PROVE  Leaves(c)
<1>1. call[c].request \in Requests
  BY DEF Raise, Unanswered, TypeOK, Calls, Idle
<1>2. CASE call[c].at = "waiting"
  <2> DEFINE k == [at |-> "lost", request |-> call[c].request]
  <2>1. k \in Calls /\ k.at = "lost" /\ call' = [call EXCEPT ![c] = k]
    BY <1>1, <1>2 DEF Calls, Raise, Unanswered
  <2>. QED
    BY <1>2, <2>1 DEF Raise, Unanswered, Leaves, InAdapter
<1>3. CASE call[c].at # "waiting"
  <2>1. Idle \in Calls /\ Idle.at = "idle" /\ call' = [call EXCEPT ![c] = Idle]
    BY <1>3 DEF Calls, Raise, Unanswered, Idle
  <2>. QED
    BY <1>3, <2>1 DEF Raise, Unanswered, Leaves, InAdapter
<1>. QED
  BY <1>2, <1>3

(* A caller that goes on stays where it is in the journal.                 *)
GoesOn(c) ==
  \/ AskPrice(c) \/ Represent(c) \/ Present(c) \/ \E reply \in Replies : Receive(c, reply)
  \/ SignAndPersist(c) /\ ~Stored(IdOf(c))

(* A step of the buyer, seen from its caller. *)
LEMMA BuyerSteps ==
  ASSUME TypeOK, Priced, NEW c \in Callers, BuyerStep(c)
  PROVE  \/ Leaves(c) /\ (RecallStored(c) \/ RecallNothing(c) \/ NotPriced(c) \/ TimeOut(c) \/ Conclude(c))
         \/ GoesOn(c) /\ UNCHANGED vars /\ InAdapter(c)
<1>1. CASE RecallStored(c)
  BY <1>1, ReturnLeaves DEF RecallStored, Settled
<1>2. CASE RecallNothing(c) \/ TimeOut(c)
  BY <1>2, RaiseLeaves DEF RecallNothing, TimeOut
<1>3. CASE NotPriced(c)
  BY <1>3, ReturnLeaves, RaiseLeaves DEF NotPriced, Terminal
<1>4. CASE Conclude(c)
  BY <1>4, ReturnLeaves, RaiseLeaves DEF Conclude
<1>5. CASE SignAndPersist(c)
  <2>1. ~Stored(IdOf(c))
    BY <1>5 DEF SignAndPersist, Priced
  <2>. QED
    BY <1>5, <2>1 DEF SignAndPersist, Goes, GoesOn
<1>6. CASE AskPrice(c) \/ Represent(c) \/ Present(c) \/ \E reply \in Replies : Receive(c, reply)
  BY <1>6 DEF AskPrice, Represent, Present, Receive, Goes, GoesOn, InAdapter
<1>. QED
  BY <1>1, <1>2, <1>3, <1>4, <1>5, <1>6 DEF BuyerStep
(* How a step changes one caller's position and exchange, and how often the *)
(* adapter was entered.                                                    *)
CallMoves(c) ==
  \/ call'[c] = call[c]
  \/ call'[c].at \notin {"submit", "waiting", "asking", "record"}
  \/ ClaimReserved(c) \/ Submit(c) \/ MarkUnknown(c)
  \/ \E state \in Terminal : Return(c, state)

(* What any step does to one caller. *)
LEMMA BuyerCall ==
  ASSUME TypeOK, Priced, BNext, NEW c \in Callers
  PROVE  CallMoves(c)
<1>0. call \in [Callers -> Calls]
  BY DEF TypeOK
<1>1. CASE JournalMoves
  BY <1>1, JournalCall DEF JournalMoves, CallMoves
<1>2. ASSUME NEW d \in Callers, BuyerStep(d) PROVE CallMoves(c)
  <2>1. CASE UNCHANGED vars
    BY <2>1 DEF vars, CallMoves
  <2>2. ASSUME NEW state \in Terminal, Return(d, state) PROVE CallMoves(c)
    BY <1>0, <2>2 DEF Return, Answered, CallMoves
  <2>3. ASSUME NEW k \in Calls, k.at \in {"lost", "idle"}, call' = [call EXCEPT ![d] = k]
        PROVE  CallMoves(c)
    BY <1>0, <2>3 DEF CallMoves
  <2>. QED
    BY <1>2, <2>1, <2>2, <2>3, BuyerSteps DEF Leaves
<1>3. CASE Environment
  BY <1>3 DEF Environment, Settle, Decide, vars, CallMoves
<1>. QED
  BY <1>1, <1>2, <1>3 DEF BNext

(* Only a journal submission counts a call of the adapter. *)
LEMMA BuyerSubmits ==
  ASSUME TypeOK, Priced, BNext
  PROVE  submits' = submits \/ \E c \in Callers : Submit(c)
<1>1. CASE JournalMoves
  BY <1>1, Frame DEF JournalMoves, Next
<1>2. ASSUME NEW c \in Callers, BuyerStep(c) PROVE submits' = submits
  BY <1>2, BuyerSteps DEF Leaves, vars
<1>3. CASE Environment
  BY <1>3 DEF Environment, Settle, Decide, vars
<1>. QED
  BY <1>1, <1>2, <1>3 DEF BNext

(* Nobody's entry into the adapter is forgotten. *)
LEMMA SubmitsGrow ==
  ASSUME TypeOK, Priced, BNext, NEW id \in Ids, submits[id] # 0
  PROVE  submits'[id] # 0
<1>1. ASSUME NEW c \in Callers, Submit(c) PROVE submits'[id] \in {submits[id], submits[id] + 1}
  BY <1>1 DEF Submit, TypeOK
<1>. QED
  BY <1>1, BuyerSubmits DEF TypeOK

(* The right to submit is spent by the caller that starts to wait. *)
LEMMA OneWaitsStep ==
  ASSUME IInv, OneWaits, Priced, BNext
  PROVE  OneWaits'
<1>0. /\ TypeOK /\ RightToSubmit /\ call \in [Callers -> Calls]
      /\ \A c \in Callers : call[c].at # "idle" /\ call[c].at # "audit" => IdOf(c) \in Ids
  BY DEF IInv, TypeOK, Calls, Requests, Idle, IdOf
<1>1. ASSUME NEW c \in Callers, call'[c].at = "waiting"
      PROVE  \/ call'[c] = call[c]
             \/ Submit(c) /\ call'[c].request = call[c].request
  BY <1>0, <1>1, BuyerCall DEF CallMoves, ClaimReserved, Submit, MarkUnknown, Return, Answered
<1>2. ASSUME NEW c \in Callers, call'[c].at = "waiting" PROVE submits'[call'[c].request.id] # 0
  <2>1. CASE call'[c] = call[c]
    BY <1>0, <1>2, <2>1, SubmitsGrow DEF OneWaits, IdOf
  <2>2. CASE Submit(c) /\ call'[c].request = call[c].request
    BY <1>0, <2>2 DEF Submit, TypeOK, IdOf
  <2>. QED
    BY <1>1, <1>2, <2>1, <2>2
<1>3. ASSUME NEW c \in Callers, NEW d \in Callers, c # d, Submit(c),
             call'[d].at = "waiting", call'[d].request.id = call[c].request.id
      PROVE  FALSE
  <2>1. call'[d] = call[d]
    BY <1>0, <1>3 DEF Submit
  <2>2. submits[IdOf(d)] # 0
    BY <1>3, <2>1 DEF OneWaits
  <2>3. submits[IdOf(c)] = 0
    BY <1>0, <1>3 DEF RightToSubmit, HoldsRight, Submit, IdOf
  <2>. QED
    BY <1>3, <2>1, <2>2, <2>3 DEF IdOf
<1>4. ASSUME NEW c \in Callers, NEW d \in Callers, call'[c].at = "waiting", call'[d].at = "waiting",
             call'[d].request.id = call'[c].request.id
      PROVE  d = c
  <2>1. CASE call'[c] = call[c] /\ call'[d] = call[d]
    BY <1>4, <2>1 DEF OneWaits, IdOf
  <2>. QED
    BY <1>1, <1>3, <1>4, <2>1
<1>. QED
  BY <1>2, <1>4 DEF OneWaits, IdOf

-----------------------------------------------------------------------------
(* How a step changes what is stored for one request.                      *)

SignsFor(c, id) == /\ SignAndPersist(c) /\ ~Stored(id) /\ IdOf(c) = id /\ UNCHANGED vars
                   /\ Persist(id, [id |-> id, nonce |-> signed[id] + 1])
                   /\ http' = [http EXCEPT ![c] = [at |-> "sending",
                                  payment |-> [id |-> id, nonce |-> signed[id] + 1]]]

Updates(id, state) == Stored(id) /\ submission' = [submission EXCEPT ![id].state = state]

SubmissionStep ==
  \/ submission' = submission /\ signed' = signed
  \/ \E c \in Callers, id \in Ids : SignsFor(c, id)
  \/ \E c \in Callers, state \in Unresolvable \cup Terminal :
       InAdapter(c) /\ Updates(IdOf(c), state) /\ signed' = signed

(* What any step does to the stored submissions and the signatures. *)
LEMMA SubmissionEffect ==
  ASSUME TypeOK, Priced, BNext
  PROVE  SubmissionStep
<1>1. ASSUME NEW c \in Callers, InAdapter(c), NEW state, Set(IdOf(c), state)
      PROVE  submission' = submission \/ Updates(IdOf(c), state)
  BY <1>1 DEF Set, Updates
<1>2. ASSUME NEW c \in Callers, TimeOut(c) PROVE SubmissionStep
  BY <1>1, <1>2 DEF TimeOut, SubmissionStep, Unresolvable
<1>3. ASSUME NEW c \in Callers, Conclude(c) PROVE SubmissionStep
  <2>1. Classify(http[c].reply) \in Unresolvable \cup Terminal
    BY DEF Classify, Unresolvable, Terminal
  <2>. QED
    BY <1>1, <1>3, <2>1 DEF Conclude, SubmissionStep
<1>4. ASSUME NEW c \in Callers, SignAndPersist(c), ~Stored(IdOf(c)) PROVE SubmissionStep
  <2>1. IdOf(c) \in Ids
    BY <1>4 DEF SignAndPersist, InAdapter, TypeOK, Calls, Requests, Idle, IdOf
  <2>2. SignsFor(c, IdOf(c))
    BY <1>4 DEF SignAndPersist, SignsFor, Goes
  <2>. QED
    BY <2>1, <2>2 DEF SubmissionStep
<1>5. ASSUME NEW c \in Callers, BuyerStep(c) PROVE SubmissionStep
  BY <1>2, <1>3, <1>4, <1>5, BuyerSteps DEF GoesOn, RecallStored, RecallNothing, NotPriced,
     AskPrice, Represent, Present, Receive, SubmissionStep
<1>6. CASE JournalMoves \/ Environment
  BY <1>6 DEF JournalMoves, Environment, Settle, Decide, SubmissionStep
<1>. QED
  BY <1>5, <1>6 DEF BNext

(* What is stored stays stored, with its payment; it appears by a signature *)
(* of the one caller that waits for the request.                           *)
LEMMA StoredAfter ==
  ASSUME TypeOK, BuyerTypeOK, SubmissionStep, NEW id \in Ids
  PROVE  /\ Stored(id) => Stored(id)' /\ submission'[id].payment = submission[id].payment
         /\ Stored(id)' => Stored(id) \/ \E c \in Callers : SignsFor(c, id)
<1>1. ASSUME NEW c \in Callers, NEW k \in Ids, SignsFor(c, k), k # id
      PROVE  submission'[id] = submission[id]
  BY <1>1 DEF SignsFor, Persist, BuyerTypeOK
<1>2. ASSUME NEW c \in Callers, NEW state \in Unresolvable \cup Terminal,
             InAdapter(c), Updates(IdOf(c), state)
      PROVE  /\ Stored(id)' <=> Stored(id)
             /\ Stored(id) => submission'[id].payment = submission[id].payment
  <2>1. submission \in [Ids -> Submissions \cup {NoSubmission}]
    BY DEF BuyerTypeOK
  <2>2. IdOf(c) \in Ids
    BY <1>2 DEF InAdapter, TypeOK, Calls, Requests, Idle, IdOf
  <2>3. CASE IdOf(c) # id
    BY <1>2, <2>1, <2>2, <2>3 DEF Updates, Stored
  <2>4. CASE IdOf(c) = id
    <3>1. submission[id] \in Submissions
      BY <1>2, <2>1, <2>4 DEF Updates, Stored
    <3>2. submission'[id] = [submission[id] EXCEPT !.state = state]
      BY <1>2, <2>1, <2>4 DEF Updates
    <3>3. submission'[id] \in Submissions /\ submission'[id].payment = submission[id].payment
      BY <1>2, <3>1, <3>2 DEF Submissions
    <3>. QED
      BY <1>2, <2>4, <3>3, NoSubmissionAssumption DEF Updates, Stored
  <2>. QED
    BY <2>3, <2>4
<1>3. CASE submission' = submission
  BY <1>3 DEF Stored
<1>4. ASSUME NEW c \in Callers, NEW k \in Ids, SignsFor(c, k)
      PROVE  /\ Stored(id) => Stored(id)' /\ submission'[id].payment = submission[id].payment
             /\ Stored(id)' => Stored(id) \/ \E d \in Callers : SignsFor(d, id)
  <2>1. CASE k = id
    BY <1>4, <2>1 DEF SignsFor
  <2>2. CASE k # id
    BY <1>1, <1>4, <2>2 DEF Stored
  <2>. QED
    BY <2>1, <2>2
<1>. QED
  BY <1>2, <1>3, <1>4 DEF SubmissionStep
-----------------------------------------------------------------------------
(* How a step changes one exchange: dropped, kept with the caller's place,  *)
(* or carried on by its caller.                                            *)
HttpMoves(c) ==
  \/ http'[c] = Quiet
  \/ http'[c] = http[c] /\ call'[c] = call[c]
  \/ GoesOn(c) /\ UNCHANGED vars /\ InAdapter(c)

(* What any step does to the exchange of one caller. *)
LEMMA BuyerHttp ==
  ASSUME TypeOK, BuyerTypeOK, Entered, Priced, BNext, NEW c \in Callers
  PROVE  HttpMoves(c)
<1>0. call \in [Callers -> Calls] /\ http \in [Callers -> Exchanges]
  BY DEF TypeOK, BuyerTypeOK
<1>1. CASE JournalMoves
  <2>1. CASE call'[c].at \notin {"waiting", "asking"}
    BY <1>1, <2>1 DEF JournalMoves, HttpMoves
  <2>2. CASE call'[c].at \in {"waiting", "asking"}
    <3>1. http'[c] = http[c]
      BY <1>1, <2>2 DEF JournalMoves
    <3>2. call'[c] = call[c] \/ Submit(c) \/ MarkUnknown(c)
      BY <1>0, <1>1, <2>2, JournalCall DEF JournalMoves, ClaimReserved
    <3>3. CASE Submit(c) \/ MarkUnknown(c)
      BY <3>1, <3>3 DEF Entered, InAdapter, Submit, MarkUnknown, HttpMoves
    <3>. QED
      BY <3>1, <3>2, <3>3 DEF HttpMoves
  <2>. QED
    BY <2>1, <2>2
<1>2. ASSUME NEW d \in Callers, BuyerStep(d) PROVE HttpMoves(c)
  <2>1. CASE d = c
    BY <1>0, <1>2, <2>1, BuyerSteps DEF Leaves, HttpMoves
  <2>2. CASE d # c /\ Leaves(d)
    BY <1>0, <2>2 DEF Leaves, Return, Answered, HttpMoves
  <2>3. CASE d # c /\ GoesOn(d) /\ UNCHANGED vars
    <3>1. \E x : http' = [http EXCEPT ![d] = x]
      BY <2>3 DEF GoesOn, AskPrice, Represent, Present, Receive, SignAndPersist, Goes
    <3>. QED
      BY <1>0, <2>3, <3>1 DEF HttpMoves, vars
  <2>. QED
    BY <1>2, <2>1, <2>2, <2>3, BuyerSteps
<1>3. CASE Environment
  BY <1>3 DEF Environment, Settle, Decide, HttpMoves, vars
<1>. QED
  BY <1>1, <1>2, <1>3 DEF BNext

(* An exchange goes on only inside the adapter. *)
LEMMA EnteredStep ==
  ASSUME TypeOK, BuyerTypeOK, Entered, Priced, BNext
  PROVE  Entered'
<1>1. SUFFICES ASSUME NEW c \in Callers, http'[c] # Quiet PROVE InAdapter(c)'
  BY DEF Entered
<1>. QED
  BY <1>1, BuyerHttp DEF HttpMoves, Entered, InAdapter, vars

(* While its caller asks for a price nobody else signs for a request. *)
LEMMA SignerWaits ==
  ASSUME TypeOK, BuyerTypeOK, OneWaits, Priced,
         NEW c \in Callers, NEW d \in Callers, NEW id \in Ids,
         http[c].at = "pricing", IdOf(c) = id, SignsFor(d, id)
  PROVE  c = d
BY DEF SignsFor, SignAndPersist, Priced, OneWaits

(* Nobody else stores a submission while a caller is told the price. *)
LEMMA PricedStep ==
  ASSUME TypeOK, BuyerTypeOK, OneWaits, Entered, Priced, BNext
  PROVE  Priced'
<1>1. SUFFICES ASSUME NEW c \in Callers, http'[c].at = "pricing"
               PROVE  call'[c].at = "waiting" /\ submission'[call'[c].request.id] = NoSubmission
  BY DEF Priced, IdOf, Stored
<1>2. CASE http'[c] = Quiet
  BY <1>1, <1>2 DEF Quiet
<1>3. CASE http'[c] = http[c] /\ call'[c] = call[c]
  <2>1. call[c].at = "waiting" /\ ~Stored(IdOf(c)) /\ IdOf(c) \in Ids
    BY <1>1, <1>3 DEF Priced, TypeOK, Calls, Requests, Idle, IdOf
  <2>2. ASSUME NEW d \in Callers, SignsFor(d, IdOf(c)) PROVE FALSE
    <3>1. d = c
      BY <1>1, <1>3, <2>1, <2>2, SignerWaits
    <3>. QED
      BY <1>1, <2>2, <3>1 DEF SignsFor, BuyerTypeOK
  <2>. QED
    BY <1>3, <2>1, <2>2, StoredAfter, SubmissionEffect DEF IdOf, Stored
<1>4. CASE GoesOn(c) /\ UNCHANGED vars
  <2>1. AskPrice(c)
    BY <1>1, <1>4 DEF GoesOn, Represent, Present, Receive, SignAndPersist, Goes, BuyerTypeOK
  <2>. QED
    BY <1>4, <2>1 DEF AskPrice, IdOf, Stored, vars
<1>. QED
  BY <1>2, <1>3, <1>4, BuyerHttp DEF HttpMoves

(* A signature and its row are written by the same step. *)
LEMMA SignedStep ==
  ASSUME TypeOK, BuyerTypeOK, OneWaits, Priced, SignedIsStored, BNext
  PROVE  SignedIsStored'
<1>0. SubmissionStep /\ signed \in [Ids -> Nat] /\ submission \in [Ids -> Submissions \cup {NoSubmission}]
  BY SubmissionEffect DEF BuyerTypeOK
<1>1. SUFFICES ASSUME NEW id \in Ids
               PROVE  /\ signed'[id] = IF Stored(id)' THEN 1 ELSE 0
                      /\ Stored(id)' => submits'[id] # 0 /\ submission'[id].payment.id = id
  BY DEF SignedIsStored
<1>2. CASE \E c \in Callers : SignsFor(c, id)
  <2>1. PICK c \in Callers : SignsFor(c, id)
    BY <1>2
  <2> DEFINE p == [id |-> id, nonce |-> signed[id] + 1]
             s == [payment |-> p, state |-> "SUBMITTED"]
  <2>2. submission'[id] = s
    BY <1>0, <2>1 DEF SignsFor, Persist
  <2>3. s \in Submissions
    BY <1>0 DEF Submissions, Payments, Unresolvable
  <2>4. submits'[id] # 0
    BY <2>1 DEF SignsFor, SignAndPersist, Priced, OneWaits, vars
  <2>5. signed'[id] = 1
    BY <1>0, <2>1 DEF SignsFor, SignAndPersist, SignedIsStored
  <2>. QED
    BY <2>2, <2>3, <2>4, <2>5, NoSubmissionAssumption DEF Stored
<1>3. CASE ~\E c \in Callers : SignsFor(c, id)
  <2>1. Stored(id)' <=> Stored(id)
    BY <1>0, <1>3, StoredAfter
  <2>2. ASSUME NEW c \in Callers, NEW k \in Ids, SignsFor(c, k) PROVE signed'[id] = signed[id]
    BY <1>0, <1>3, <2>2 DEF SignsFor, SignAndPersist
  <2>3. signed'[id] = signed[id]
    BY <1>0, <2>2 DEF SubmissionStep
  <2>. QED
    BY <1>0, <2>1, <2>3, StoredAfter, SubmitsGrow DEF SignedIsStored
<1>. QED
  BY <1>2, <1>3

(* What a caller sends stays what is stored. *)
LEMMA SentStep ==
  ASSUME TypeOK, BuyerTypeOK, Entered, Priced, SentIsStored, BNext
  PROVE  SentIsStored'
<1>0. SubmissionStep /\ submission \in [Ids -> Submissions \cup {NoSubmission}]
      /\ http \in [Callers -> Exchanges]
  BY SubmissionEffect DEF BuyerTypeOK
<1>1. SUFFICES ASSUME NEW c \in Callers, http'[c].at \in {"sending", "awaiting", "replied"}
               PROVE  /\ submission'[call'[c].request.id] # NoSubmission
                      /\ http'[c].payment = submission'[call'[c].request.id].payment
  BY DEF SentIsStored, Sends, IdOf, Stored
<1>2. CASE http'[c] = Quiet
  BY <1>1, <1>2 DEF Quiet
<1>3. CASE http'[c] = http[c] /\ call'[c] = call[c]
  <2>1. Stored(IdOf(c)) /\ http[c].payment = submission[IdOf(c)].payment
    BY <1>1, <1>3 DEF SentIsStored, Sends
  <2>2. IdOf(c) \in Ids
    BY <1>1, <1>3 DEF Entered, Quiet, InAdapter, TypeOK, Calls, Requests, Idle, IdOf
  <2>. QED
    BY <1>0, <1>3, <2>1, <2>2, StoredAfter DEF IdOf, Stored
<1>4. CASE GoesOn(c) /\ UNCHANGED vars /\ InAdapter(c)
  <2>0. IdOf(c) \in Ids /\ call' = call
    BY <1>4 DEF InAdapter, TypeOK, Calls, Requests, Idle, IdOf, vars
  <2>1. CASE AskPrice(c)
    BY <1>0, <1>1, <2>1 DEF AskPrice, Goes
  <2>2. CASE Represent(c)
    BY <1>0, <2>0, <2>2 DEF Represent, Goes, PaymentOf, IdOf, Stored
  <2>3. CASE Present(c)
    BY <1>0, <2>0, <2>3 DEF Present, Goes, SentIsStored, Sends, IdOf, Stored
  <2>4. ASSUME NEW reply \in Replies, Receive(c, reply)
        PROVE  /\ submission'[call'[c].request.id] # NoSubmission
               /\ http'[c].payment = submission'[call'[c].request.id].payment
    BY <1>0, <2>0, <2>4 DEF Receive, Goes, SentIsStored, Sends, IdOf, Stored
  <2>5. CASE SignAndPersist(c) /\ ~Stored(IdOf(c))
    <3> DEFINE p == [id |-> IdOf(c), nonce |-> signed[IdOf(c)] + 1]
               s == [payment |-> p, state |-> "SUBMITTED"]
    <3>1. submission' = [submission EXCEPT ![IdOf(c)] = s] /\ http'[c].payment = p
      BY <1>0, <2>5 DEF SignAndPersist, Persist, Goes
    <3>2. submission'[IdOf(c)] = s
      BY <1>0, <2>0, <3>1
    <3>3. s \in Submissions
      BY <2>0 DEF BuyerTypeOK, Submissions, Payments, Unresolvable
    <3>. QED
      BY <2>0, <3>1, <3>2, <3>3, NoSubmissionAssumption DEF IdOf, Stored
  <2>. QED
    BY <1>4, <2>1, <2>2, <2>3, <2>4, <2>5 DEF GoesOn
<1>. QED
  BY <1>2, <1>3, <1>4, BuyerHttp DEF HttpMoves
LEMMA PresentedStep ==
  ASSUME TypeOK, BuyerTypeOK, Entered, Priced, SignedIsStored, SentIsStored, PresentedIsStored, BNext
  PROVE  PresentedIsStored'
<1>1. presented' = presented \/ \E c \in Callers : Present(c)
  <2>1. ASSUME NEW c \in Callers, BuyerStep(c) PROVE presented' = presented \/ Present(c)
    BY <2>1 DEF BuyerStep, RecallStored, RecallNothing, AskPrice, Represent, NotPriced, SignAndPersist,
       TimeOut, Conclude, Receive
  <2>2. CASE JournalMoves \/ Environment
    BY <2>2 DEF JournalMoves, Environment, Settle, Decide
  <2>. QED
    BY <2>1, <2>2 DEF BNext
<1>2. ASSUME NEW p \in presented'
      PROVE  p.id \in Ids /\ Stored(p.id) /\ submission[p.id].payment = p
  <2>1. CASE p \in presented
    BY <2>1 DEF PresentedIsStored, BuyerTypeOK, Payments
  <2>2. ASSUME NEW c \in Callers, Present(c), p = http[c].payment
        PROVE  p.id \in Ids /\ Stored(p.id) /\ submission[p.id].payment = p
    <3>1. IdOf(c) \in Ids
      BY <2>2 DEF Present, InAdapter, TypeOK, Calls, Requests, Idle, IdOf
    <3>2. Stored(IdOf(c)) /\ p = submission[IdOf(c)].payment
      BY <2>2 DEF Present, SentIsStored, Sends
    <3>. QED
      BY <3>1, <3>2 DEF SignedIsStored
  <2>. QED
    BY <1>1, <1>2, <2>1, <2>2 DEF Present
<1>. QED
  BY <1>2, SubmissionEffect, StoredAfter DEF PresentedIsStored, Stored

(* The exchange a caller goes on with is a well-formed one. *)
LEMMA HttpType ==
  ASSUME TypeOK, BuyerTypeOK, Priced, SentIsStored, NEW c \in Callers, GoesOn(c), InAdapter(c)
  PROVE  http' \in [Callers -> Exchanges]
<1>0. /\ IdOf(c) \in Ids /\ http \in [Callers -> Exchanges] /\ signed \in [Ids -> Nat]
      /\ submission \in [Ids -> Submissions \cup {NoSubmission}]
  BY DEF InAdapter, TypeOK, Calls, Requests, Idle, IdOf, BuyerTypeOK
<1>1. CASE AskPrice(c)
  BY <1>0, <1>1 DEF AskPrice, Goes, Exchanges
<1>2. CASE Represent(c)
  <2>1. PaymentOf(IdOf(c)) \in Payments
    BY <1>0, <1>2 DEF Represent, Stored, Submissions, PaymentOf
  <2>. QED
    BY <1>0, <1>2, <2>1 DEF Represent, Goes, Exchanges
<1>3. ASSUME http[c].at \in {"sending", "awaiting", "replied"} PROVE http[c].payment \in Payments
  BY <1>0, <1>3 DEF SentIsStored, Sends, Stored, Submissions
<1>4. CASE Present(c)
  <2>1. http[c].payment \in Payments /\ (http[c].payment \in presented) \in BOOLEAN
    BY <1>3, <1>4 DEF Present
  <2>. QED
    BY <1>0, <1>4, <2>1 DEF Present, Goes, Exchanges
<1>5. ASSUME NEW reply \in Replies, Receive(c, reply) PROVE http' \in [Callers -> Exchanges]
  BY <1>0, <1>3, <1>5 DEF Receive, Goes, Exchanges
<1>6. CASE SignAndPersist(c) /\ ~Stored(IdOf(c))
  <2> DEFINE p == [id |-> IdOf(c), nonce |-> signed[IdOf(c)] + 1]
  <2>1. p \in Payments
    BY <1>0 DEF Payments
  <2>2. http' = [http EXCEPT ![c] = [at |-> "sending", payment |-> p]]
    BY <1>6 DEF SignAndPersist, Goes
  <2>. HIDE DEF p
  <2>. QED
    BY <1>0, <2>1, <2>2 DEF Exchanges
<1>. QED
  BY <1>1, <1>2, <1>4, <1>5, <1>6 DEF GoesOn

(* The types of the buyer are kept. *)
LEMMA BuyerTypeStep ==
  ASSUME TypeOK, BuyerTypeOK, Entered, Priced, SentIsStored, BNext
  PROVE  BuyerTypeOK'
<1>0. /\ submission \in [Ids -> Submissions \cup {NoSubmission}]
      /\ http \in [Callers -> Exchanges]
      /\ signed \in [Ids -> Nat]
      /\ presented \subseteq Payments
      /\ verdict \in [Ids -> {"none", "refused", "pending", "settled"}]
      /\ transfers \subseteq presented
  BY DEF BuyerTypeOK
<1>1. submission' \in [Ids -> Submissions \cup {NoSubmission}] /\ signed' \in [Ids -> Nat]
  <2>1. ASSUME NEW c \in Callers, NEW id \in Ids, SignsFor(c, id)
        PROVE  submission' \in [Ids -> Submissions \cup {NoSubmission}] /\ signed' \in [Ids -> Nat]
    <3> DEFINE s == [payment |-> [id |-> id, nonce |-> signed[id] + 1], state |-> "SUBMITTED"]
    <3>1. s \in Submissions
      BY <1>0 DEF Submissions, Payments, Unresolvable
    <3>2. submission' = [submission EXCEPT ![id] = s] /\ signed' = [signed EXCEPT ![id] = @ + 1]
      BY <2>1 DEF SignsFor, SignAndPersist, Persist
    <3>. HIDE DEF s
    <3>. QED
      BY <1>0, <3>1, <3>2
  <2>2. ASSUME NEW c \in Callers, NEW state \in Unresolvable \cup Terminal,
               InAdapter(c), Updates(IdOf(c), state)
        PROVE  submission' \in [Ids -> Submissions \cup {NoSubmission}]
    <3>1. IdOf(c) \in Ids
      BY <2>2 DEF InAdapter, TypeOK, Calls, Requests, Idle, IdOf
    <3>2. [submission[IdOf(c)] EXCEPT !.state = state] \in Submissions
      BY <1>0, <2>2, <3>1 DEF Updates, Stored, Submissions
    <3>. QED
      BY <1>0, <2>2, <3>1, <3>2 DEF Updates
  <2>. QED
    BY <1>0, <2>1, <2>2, SubmissionEffect DEF SubmissionStep
<1>2. http' \in [Callers -> Exchanges]
  <2>1. CASE JournalMoves
    BY <1>0, <2>1 DEF JournalMoves, Exchanges
  <2>2. ASSUME NEW c \in Callers, BuyerStep(c) PROVE http' \in [Callers -> Exchanges]
    <3>1. CASE Leaves(c)
      BY <1>0, <3>1 DEF Leaves, Exchanges
    <3>. QED
      BY <2>2, <3>1, BuyerSteps, HttpType
  <2>3. CASE Environment
    BY <1>0, <2>3 DEF Environment, Settle, Decide
  <2>. QED
    BY <2>1, <2>2, <2>3 DEF BNext
<1>3. /\ presented' \subseteq Payments /\ presented \subseteq presented'
      /\ verdict' \in [Ids -> {"none", "refused", "pending", "settled"}]
      /\ transfers' \subseteq presented'
  <2>1. ASSUME NEW c \in Callers, BuyerStep(c)
        PROVE  /\ presented' \subseteq Payments /\ presented \subseteq presented'
               /\ verdict' = verdict /\ transfers' = transfers
    <3>1. CASE Present(c)
      <4>1. http[c].payment \in Payments
        <5>1. IdOf(c) \in Ids
          BY <3>1 DEF Present, InAdapter, TypeOK, Calls, Requests, Idle, IdOf
        <5>. QED
          BY <1>0, <3>1, <5>1 DEF Present, SentIsStored, Sends, Stored, Submissions
      <4>. QED
        BY <1>0, <3>1, <4>1 DEF Present
    <3>2. CASE ~Present(c)
      BY <1>0, <2>1, <3>2 DEF BuyerStep, RecallStored, RecallNothing, AskPrice, Represent, NotPriced,
         SignAndPersist, TimeOut, Conclude, Receive
    <3>. QED
      BY <3>1, <3>2
  <2>2. CASE JournalMoves
    BY <1>0, <2>2 DEF JournalMoves
  <2>3. ASSUME NEW p \in presented, NEW d \in {"refused", "pending"}, Settle(p) \/ Decide(p, d)
        PROVE  /\ presented' = presented /\ transfers' \subseteq presented
               /\ verdict' \in [Ids -> {"none", "refused", "pending", "settled"}]
    BY <1>0, <2>3 DEF Settle, Decide
  <2>4. CASE Environment
    BY <1>0, <2>3, <2>4 DEF Environment
  <2>. QED
    BY <1>0, <2>1, <2>2, <2>4 DEF BNext
<1>. QED
  BY <1>1, <1>2, <1>3 DEF BuyerTypeOK

(* Every step of the composed system preserves what makes the wire see one *)
(* payment per request.                                                    *)
LEMMA StepWireInv == IInv /\ WireInv /\ [BNext]_bvars => WireInv'
<1>. SUFFICES ASSUME IInv, WireInv, [BNext]_bvars PROVE WireInv'
  OBVIOUS
<1>1. CASE BNext
  <2>1. TypeOK
    BY DEF IInv
  <2>. QED
    BY <1>1, <2>1, BuyerTypeStep, OneWaitsStep, EnteredStep, PricedStep, SignedStep, SentStep,
       PresentedStep DEF WireInv
<1>2. CASE UNCHANGED bvars
  BY <1>2 DEF bvars, buyer, vars, WireInv, BuyerTypeOK, OneWaits, Entered, Priced, SignedIsStored,
     SentIsStored, Sends, PresentedIsStored, Stored, IdOf, InAdapter
<1>. QED
  BY <1>1, <1>2

(* No exchange, submission or payment exists at first. *)
LEMMA InitWireInv == BInit => WireInv
<1>. SUFFICES ASSUME BInit PROVE WireInv
  OBVIOUS
<1>1. BuyerTypeOK
  BY DEF BInit, BuyerTypeOK, Exchanges
<1>2. OneWaits /\ Entered /\ Priced /\ SignedIsStored /\ SentIsStored /\ PresentedIsStored
  BY DEF BInit, Init, Idle, Quiet, OneWaits, Entered, Priced, SignedIsStored, SentIsStored, Sends,
     PresentedIsStored, Stored
<1>. QED
  BY <1>1, <1>2 DEF WireInv
-----------------------------------------------------------------------------
(* What stands behind an outcome stays there.                              *)

(* The server's conclusions are final. *)
LEMMA VerdictFinal ==
  ASSUME BuyerTypeOK, BNext, NEW id \in Ids
  PROVE  /\ verdict[id] = "settled" => verdict'[id] = "settled"
         /\ verdict[id] = "refused" => verdict'[id] = "refused"
<1>1. ASSUME NEW c \in Callers, BuyerStep(c) PROVE verdict' = verdict
  BY <1>1 DEF BuyerStep, RecallStored, RecallNothing, AskPrice, Represent, NotPriced, SignAndPersist,
     Present, Receive, TimeOut, Conclude
<1>2. ASSUME NEW p \in presented, NEW d \in {"refused", "pending"}, Settle(p) \/ Decide(p, d)
      PROVE  /\ verdict[id] = "settled" => verdict'[id] = "settled"
             /\ verdict[id] = "refused" => verdict'[id] = "refused"
  BY <1>2 DEF Settle, Decide, BuyerTypeOK
<1>. QED
  BY <1>1, <1>2 DEF BNext, JournalMoves, Environment

(* A concluded or claimed request that nobody waits for and that has no     *)
(* payment will never have one.                                            *)
LEMMA UntouchedStays ==
  ASSUME IInv, WireInv, BNext, NEW id \in Ids, Untouched(id)
  PROVE  Untouched(id)'
<1>0. TypeOK /\ BuyerTypeOK /\ Priced /\ call \in [Callers -> Calls]
  BY DEF IInv, WireInv, TypeOK
<1>1. ~Stored(id)'
  BY <1>0, StoredAfter, SubmissionEffect DEF Untouched, SignsFor, SignAndPersist, Priced
<1>2. HasRow(id)' /\ row'[id].state # "RESERVED"
  <2>1. CASE Next
    BY <1>0, <2>1, RowEffect, RowsStay, StateAfter DEF Untouched, IInv
  <2>2. CASE UNCHANGED vars
    BY <2>2 DEF Untouched, HasRow, vars
  <2>. QED
    BY <2>1, <2>2, BuyerStepIsJournalStep
<1>3. ASSUME NEW c \in Callers, call'[c].at \in {"submit", "waiting"}, call'[c].request.id = id
      PROVE  FALSE
  <2>1. CASE call'[c] = call[c]
    BY <1>3, <2>1 DEF Untouched, IdOf
  <2>2. CASE ClaimReserved(c)
    BY <1>0, <1>3, <2>2 DEF ClaimReserved, Claimable, Untouched
  <2>3. CASE Submit(c)
    BY <1>0, <1>3, <2>3 DEF Submit, Untouched, IdOf
  <2>. QED
    BY <1>0, <1>3, <2>1, <2>2, <2>3, BuyerCall DEF CallMoves, MarkUnknown, Return, Answered
<1>. QED
  BY <1>1, <1>2, <1>3 DEF Untouched, IdOf

BackedNext(id, state) ==
  /\ state = "CONFIRMED" => verdict'[id] = "settled"
  /\ state = "FAILED_CONFIRMED" /\ id \in Idempotent => verdict'[id] = "refused" \/ Untouched(id)'

(* An outcome that was backed stays backed. *)
LEMMA BackedStays ==
  ASSUME IInv, WireInv, BNext, NEW id \in Ids, NEW state, Backed(id, state)
  PROVE  BackedNext(id, state)
BY VerdictFinal, UntouchedStays DEF Backed, BackedNext, WireInv

(* A reply is classified as what the server has concluded. *)
LEMMA ReplyBacked ==
  ASSUME NEW c \in Callers, NEW reply \in Replies, Receive(c, reply)
  PROVE  Backed(IdOf(c), Classify(reply))
<1>1. Classify(reply) = "CONFIRMED" => reply = "settled"
  BY DEF Classify, Replies
<1>2. Classify(reply) = "FAILED_CONFIRMED" => reply = "refused"
  BY DEF Classify, Replies
<1>. QED
  BY <1>1, <1>2 DEF Receive, Says, Backed

(* Nobody waits for a request whose row is reserved, and nothing is stored. *)
LEMMA ReservedIsUntouched ==
  ASSUME IInv, WireInv, NEW id \in Ids, HasRow(id), row[id].state = "RESERVED"
  PROVE  /\ ~Stored(id)
         /\ \A c \in Callers : call[c].at \in {"submit", "waiting"} => IdOf(c) # id
BY DEF IInv, WireInv, SubmittedAtMostOnce, SignedIsStored, RightToSubmit, HoldsRight, OneWaits, IdOf

(* An expired reservation is written off before anything happened to it. *)
LEMMA ExpiredIsUntouched ==
  ASSUME IInv, WireInv, JournalMoves, NEW id \in Ids, HasRow(id), row[id].state = "RESERVED",
         row'[id].state = "FAILED_CONFIRMED", HasRow(id)'
  PROVE  Untouched(id)'
<1>0. TypeOK /\ call \in [Callers -> Calls]
  BY DEF IInv, TypeOK
<1>1. ~Stored(id)'
  BY ReservedIsUntouched DEF JournalMoves, Stored
<1>2. ASSUME NEW c \in Callers, call'[c].at \in {"submit", "waiting"}, call'[c].request.id = id
      PROVE  FALSE
  <2>1. CASE call'[c] = call[c]
    BY <1>2, <2>1, ReservedIsUntouched DEF IdOf
  <2>2. CASE ClaimReserved(c)
    <3>1. row' = Moved(id, "SUBMISSION_PENDING")
      BY <1>0, <1>2, <2>2 DEF ClaimReserved
    <3>2. row[id] \in Rows /\ row \in [Ids -> Rows \cup {NoRow}]
      BY <1>0 DEF TypeOK, HasRow
    <3>. QED
      BY <3>1, <3>2 DEF Moved, Rows
  <2>3. CASE Submit(c)
    BY <1>0, <1>2, <2>3, ReservedIsUntouched DEF Submit, IdOf
  <2>. QED
    BY <1>0, <1>2, <2>1, <2>2, <2>3, JournalCall DEF JournalMoves, MarkUnknown
<1>. QED
  BY <1>1, <1>2 DEF Untouched, IdOf

(* A request refused before any price was agreed is never sent. *)
LEMMA NotPricedIsUntouched ==
  ASSUME IInv, WireInv, NEW c \in Callers, NotPriced(c), NEW state \in Terminal, Return(c, state)
  PROVE  \A id \in Ids : id = IdOf(c) => Untouched(id)'
<1>0. TypeOK /\ call \in [Callers -> Calls] /\ call[c].at = "waiting" /\ IdOf(c) \in Ids
  BY DEF IInv, TypeOK, WireInv, Priced, NotPriced, Calls, Requests, Idle, IdOf
<1>1. SUFFICES ASSUME NEW id \in Ids, id = IdOf(c) PROVE Untouched(id)'
  OBVIOUS
<1>2. ~Stored(id)'
  BY <1>1 DEF NotPriced, WireInv, Priced, Stored
<1>3. HasRow(id)' /\ row'[id].state # "RESERVED"
  BY <1>0, <1>1 DEF IInv, WireInv, CallsHaveRows, SubmittedAtMostOnce, OneWaits, Return, Answered,
     IdOf, HasRow
<1>4. ASSUME NEW d \in Callers, call'[d].at \in {"submit", "waiting"}, call'[d].request.id = id
      PROVE  FALSE
  <2>1. d # c /\ call'[d] = call[d]
    BY <1>0, <1>4 DEF Return, Answered
  <2>. QED
    BY <1>0, <1>1, <1>4, <2>1 DEF IInv, WireInv, RightToSubmit, HoldsRight, OneWaits, IdOf
<1>. QED
  BY <1>2, <1>3, <1>4 DEF Untouched, IdOf
-----------------------------------------------------------------------------
(* Each place that carries an outcome, after a step.                       *)

LEMMA MovedStep ==
  ASSUME BuyerTypeOK, SettledIsMoved, BNext
  PROVE  SettledIsMoved'
<1>1. ASSUME NEW c \in Callers, BuyerStep(c) PROVE verdict' = verdict /\ transfers' = transfers
  BY <1>1 DEF BuyerStep, RecallStored, RecallNothing, AskPrice, Represent, NotPriced, SignAndPersist,
     Present, Receive, TimeOut, Conclude
<1>2. ASSUME NEW p \in presented, Settle(p) PROVE SettledIsMoved'
  <2>1. p.id \in Ids /\ \A q \in transfers : q.id \in Ids
    BY DEF BuyerTypeOK, Payments
  <2>. QED
    BY <1>2, <2>1 DEF Settle, SettledIsMoved, BuyerTypeOK
<1>3. ASSUME NEW p \in presented, NEW d \in {"refused", "pending"}, Decide(p, d) PROVE SettledIsMoved'
  <2>1. p.id \in Ids /\ \A q \in transfers : q.id \in Ids
    BY DEF BuyerTypeOK, Payments
  <2>. QED
    BY <1>3, <2>1 DEF Decide, SettledIsMoved, BuyerTypeOK
<1>4. CASE verdict' = verdict /\ transfers' = transfers
  BY <1>4 DEF SettledIsMoved
<1>. QED
  BY <1>1, <1>2, <1>3, <1>4 DEF BNext, JournalMoves, Environment

(* A reply carries an outcome that is backed. *)
LEMMA RepliesStep ==
  ASSUME IInv, WireInv, VerdictInv, BNext,
         NEW c \in Callers, http'[c].at = "replied",
         NEW id, id = call'[c].request.id, NEW s, s = Classify(http'[c].reply)
  PROVE  BackedNext(id, s)
<1>0. /\ TypeOK /\ BuyerTypeOK /\ Entered /\ Priced
      /\ call \in [Callers -> Calls] /\ http \in [Callers -> Exchanges]
  BY DEF IInv, WireInv, TypeOK, BuyerTypeOK
<1>1. CASE http'[c] = http[c] /\ call'[c] = call[c]
  <2>1. InAdapter(c) /\ Backed(id, s)
    BY <1>0, <1>1 DEF Entered, Quiet, VerdictInv, IdOf
  <2>2. id \in Ids
    BY <1>0, <1>1, <2>1 DEF InAdapter, Calls, Requests, Idle
  <2>. QED
    BY <2>1, <2>2, BackedStays
<1>2. CASE GoesOn(c) /\ UNCHANGED vars /\ InAdapter(c)
  <2>1. PICK reply \in Replies : Receive(c, reply)
    BY <1>0, <1>2 DEF GoesOn, AskPrice, Represent, Present, SignAndPersist, Goes
  <2>2. http'[c].reply = reply
    BY <1>0, <2>1 DEF Receive, Goes
  <2>3. id = IdOf(c) /\ id \in Ids
    BY <1>0, <1>2 DEF InAdapter, Calls, Requests, Idle, IdOf, vars
  <2>4. Backed(id, s)
    BY <2>1, <2>2, <2>3, ReplyBacked
  <2>. QED
    BY <2>3, <2>4, BackedStays
<1>3. http'[c] # Quiet
  BY DEF Quiet
<1>. QED
  BY <1>0, <1>1, <1>2, <1>3, BuyerHttp DEF HttpMoves

(* A stored state is the one stored before, or that of a reply. *)
LEMMA StoresStep ==
  ASSUME IInv, WireInv, VerdictInv, BNext,
         NEW id \in Ids, Stored(id)', NEW s, s = submission'[id].state
  PROVE  BackedNext(id, s)
<1>0. TypeOK /\ BuyerTypeOK /\ Priced /\ submission \in [Ids -> Submissions \cup {NoSubmission}]
  BY DEF IInv, WireInv, BuyerTypeOK
<1>1. CASE submission'[id] = submission[id]
  BY <1>1, BackedStays DEF VerdictInv, Stored
<1>2. ASSUME s \notin Terminal PROVE BackedNext(id, s)
  BY <1>2 DEF Terminal, BackedNext
<1>3. ASSUME NEW c \in Callers, InAdapter(c), NEW state, Set(IdOf(c), state),
             state \notin Terminal \/ Backed(IdOf(c), state)
      PROVE  BackedNext(id, s)
  <2>1. IdOf(c) \in Ids
    BY <1>0, <1>3 DEF InAdapter, TypeOK, Calls, Requests, Idle, IdOf
  <2>2. CASE Stored(IdOf(c)) /\ IdOf(c) = id
    <3>1. submission[id] \in Submissions
      BY <1>0, <2>2 DEF Stored
    <3>2. s = state
      BY <1>0, <1>3, <2>2, <3>1 DEF Set, Submissions
    <3>. QED
      BY <1>2, <1>3, <2>2, <3>2, BackedStays
  <2>3. CASE ~Stored(IdOf(c)) \/ IdOf(c) # id
    BY <1>0, <1>1, <1>3, <2>1, <2>3 DEF Set
  <2>. QED
    BY <2>2, <2>3
<1>4. ASSUME NEW c \in Callers, TimeOut(c) PROVE BackedNext(id, s)
  BY <1>3, <1>4 DEF TimeOut, Terminal
<1>5. ASSUME NEW c \in Callers, Conclude(c) PROVE BackedNext(id, s)
  BY <1>3, <1>5 DEF Conclude, VerdictInv
<1>6. ASSUME NEW c \in Callers, NEW k \in Ids, SignsFor(c, k) PROVE BackedNext(id, s)
  <2>1. CASE k = id
    BY <1>0, <1>2, <1>6, <2>1 DEF SignsFor, Persist, Terminal
  <2>2. CASE k # id
    BY <1>0, <1>1, <1>6, <2>2 DEF SignsFor, Persist
  <2>. QED
    BY <2>1, <2>2
<1>7. submission' = submission
      \/ \E c \in Callers : TimeOut(c) \/ Conclude(c) \/ \E k \in Ids : SignsFor(c, k)
  <2>1. ASSUME NEW c \in Callers, SignAndPersist(c), ~Stored(IdOf(c)) PROVE SignsFor(c, IdOf(c)) /\ IdOf(c) \in Ids
    BY <1>0, <2>1 DEF SignAndPersist, SignsFor, Goes, InAdapter, TypeOK, Calls, Requests, Idle, IdOf
  <2>2. ASSUME NEW c \in Callers, BuyerStep(c), ~TimeOut(c), ~Conclude(c)
        PROVE  submission' = submission \/ \E k \in Ids : SignsFor(c, k)
    BY <1>0, <2>1, <2>2, BuyerSteps DEF GoesOn, RecallStored, RecallNothing, NotPriced, AskPrice,
       Represent, Present, Receive
  <2>. QED
    BY <2>2 DEF BNext, JournalMoves, Environment, Settle, Decide
<1>. QED
  BY <1>1, <1>4, <1>5, <1>6, <1>7

(* An answer on its way to the journal. *)
LEMMA AnswersStep ==
  ASSUME IInv, WireInv, VerdictInv, BNext,
         NEW c \in Callers, call'[c].at = "record",
         NEW id, id = call'[c].request.id, NEW s, s = call'[c].answer.state
  PROVE  BackedNext(id, s)
<1>0. TypeOK /\ BuyerTypeOK /\ Priced /\ call \in [Callers -> Calls]
  BY DEF IInv, WireInv, TypeOK
<1>1. CASE call'[c] = call[c]
  <2>1. id \in Ids /\ Backed(id, s)
    BY <1>0, <1>1 DEF VerdictInv, Calls, Requests, Idle, IdOf
  <2>. QED
    BY <2>1, BackedStays
<1>2. ASSUME NEW state \in Terminal, Return(c, state)
      PROVE  id = IdOf(c) /\ id \in Ids /\ s = state
  BY <1>0, <1>2 DEF Return, Answered, Outcome, Calls, Requests, Idle, IdOf
<1>3. ASSUME NEW state \in Terminal, Return(c, state), Backed(IdOf(c), state) PROVE BackedNext(id, s)
  BY <1>2, <1>3, BackedStays
<1>4. ASSUME Leaves(c), RecallStored(c) PROVE BackedNext(id, s)
  <2>1. submission[IdOf(c)].state \in Terminal /\ Return(c, submission[IdOf(c)].state)
        /\ Stored(IdOf(c)) /\ InAdapter(c)
    BY <1>4 DEF RecallStored, Settled
  <2>2. IdOf(c) \in Ids
    BY <1>0, <2>1 DEF InAdapter, Calls, Requests, Idle, IdOf
  <2>3. Backed(IdOf(c), submission[IdOf(c)].state)
    BY <2>1, <2>2 DEF VerdictInv
  <2>. QED
    BY <1>3, <2>1, <2>3
<1>5. ASSUME Raise(c) PROVE FALSE
  BY <1>0, <1>5 DEF Raise, Unanswered, Idle
<1>6. ASSUME NotPriced(c) PROVE BackedNext(id, s)
  <2>1. Return(c, "FAILED_CONFIRMED") /\ "FAILED_CONFIRMED" \in Terminal
    BY <1>5, <1>6 DEF NotPriced, Terminal
  <2>2. id = IdOf(c) /\ id \in Ids /\ s = "FAILED_CONFIRMED"
    BY <1>2, <2>1
  <2>3. Untouched(id)'
    BY <1>6, <2>1, <2>2, NotPricedIsUntouched
  <2>. QED
    BY <2>2, <2>3 DEF BackedNext
<1>7. ASSUME Conclude(c) PROVE BackedNext(id, s)
  BY <1>3, <1>5, <1>7 DEF Conclude, VerdictInv
<1>8. ASSUME BuyerStep(c) PROVE BackedNext(id, s)
  BY <1>0, <1>1, <1>4, <1>5, <1>6, <1>7, <1>8, BuyerSteps DEF RecallNothing, TimeOut, vars
<1>9. ASSUME NEW d \in Callers, d # c, BuyerStep(d) PROVE call'[c] = call[c]
  BY <1>0, <1>9, BuyerSteps DEF Leaves, Return, Answered, vars
<1>10. CASE JournalMoves
  BY <1>0, <1>1, <1>10, JournalCall DEF JournalMoves, ClaimReserved, Submit, MarkUnknown
<1>11. CASE Environment
  BY <1>1, <1>11 DEF Environment, Settle, Decide, vars
<1>. QED
  BY <1>8, <1>9, <1>1, <1>10, <1>11 DEF BNext

(* How a row concludes. *)
LEMMA RowConcludes ==
  ASSUME TypeOK, CallsHaveRows, JournalStep, NEW id \in Ids, HasRow(id)', row'[id].state \in Terminal
  PROVE  \/ HasRow(id) /\ row'[id] = row[id]
         \/ HasRow(id) /\ row[id].state = "RESERVED" /\ row'[id].state = "FAILED_CONFIRMED"
         \/ \E c \in Callers : /\ call[c].at = "record" /\ IdOf(c) = id
                               /\ row'[id].state = call[c].answer.state
<1>0. /\ row \in [Ids -> Rows \cup {NoRow}] /\ call \in [Callers -> Calls]
      /\ \A c \in Callers : call[c].at \notin {"idle", "audit"} => IdOf(c) \in Ids /\ HasRow(IdOf(c))
  BY DEF TypeOK, CallsHaveRows, Calls, Requests, Idle, IdOf
<1> DEFINE Goal ==
         \/ HasRow(id) /\ row'[id] = row[id]
         \/ HasRow(id) /\ row[id].state = "RESERVED" /\ row'[id].state = "FAILED_CONFIRMED"
         \/ \E c \in Callers : /\ call[c].at = "record" /\ IdOf(c) = id
                               /\ row'[id].state = call[c].answer.state
<1>1. CASE row'[id] = row[id]
  BY <1>1 DEF HasRow
<1>2. ASSUME NEW k \in Ids, NEW s \in {"SUBMISSION_PENDING", "OUTCOME_UNKNOWN"}, HasRow(k), row' = Moved(k, s)
      PROVE  Goal
  <2>1. CASE k = id
    <3>1. row[id] \in Rows
      BY <1>0, <1>2, <2>1 DEF HasRow
    <3>. QED
      BY <1>0, <1>2, <2>1, <3>1 DEF Moved, Rows, Terminal
  <2>2. CASE k # id
    BY <1>0, <1>1, <1>2, <2>2 DEF Moved
  <2>. QED
    BY <2>1, <2>2
<1>3. ASSUME NEW k \in Ids, HasRow(k), row[k].state = "RESERVED", ExpireRow(k) PROVE Goal
  <2>1. CASE k = id
    <3>1. row[id] \in Rows
      BY <1>0, <1>3, <2>1 DEF HasRow
    <3>. QED
      BY <1>0, <1>3, <2>1, <3>1 DEF ExpireRow, Concluded, ExpiryResult, Rows
  <2>2. CASE k # id
    BY <1>0, <1>1, <1>3, <2>2 DEF ExpireRow, Concluded
  <2>. QED
    BY <2>1, <2>2
<1>4. ASSUME NEW c \in Callers, Record(c) PROVE Goal
  <2>0. call[c].at = "record" /\ IdOf(c) \in Ids /\ HasRow(IdOf(c))
    BY <1>0, <1>4 DEF Record
  <2>1. CASE IdOf(c) = id
    <3>1. row[id] \in Rows
      BY <1>0, <2>0, <2>1 DEF HasRow
    <3>2. row'[id].state = call[c].answer.state
      BY <1>0, <1>4, <2>1, <3>1 DEF Record, Concluded, Rows, IdOf
    <3>. QED
      BY <2>0, <2>1, <3>2
  <2>2. CASE IdOf(c) # id
    BY <1>0, <1>1, <1>4, <2>2 DEF Record, Concluded, IdOf
  <2>. QED
    BY <2>1, <2>2
<1>5. ASSUME NEW c \in Callers, NEW q \in Requests, NEW k \in Clocks, ReserveNew(c, q, k) PROVE Goal
  <2>1. CASE q.id = id
    BY <1>0, <1>5, <2>1 DEF ReserveNew, Terminal
  <2>2. CASE q.id # id
    BY <1>0, <1>1, <1>5, <2>2 DEF ReserveNew
  <2>. QED
    BY <2>1, <2>2
<1>6. ASSUME NEW c \in Callers, ClaimExpired(c) PROVE Goal
  BY <1>0, <1>3, <1>6 DEF ClaimExpired, Expirable, IdOf
<1>7. ASSUME NEW c \in Callers, ClaimReserved(c) PROVE Goal
  BY <1>0, <1>2, <1>7 DEF ClaimReserved, IdOf
<1>8. ASSUME NEW c \in Callers, MarkLost(c) \/ MarkUnknown(c) PROVE Goal
  BY <1>0, <1>1, <1>2, <1>8 DEF MarkLost, MarkUnknown, Unresolved, IdOf
<1>9. ASSUME NEW c \in Callers, NEW k \in Ids, ReleaseExpired(c, k) PROVE Goal
  BY <1>3, <1>9 DEF ReleaseExpired, Expirable
<1>10. ASSUME row' = row PROVE Goal
  BY <1>1, <1>10
<1>11. ASSUME NEW j \in Jobs, Expire(j) \/ Register(j) PROVE row' = row
  BY <1>11 DEF Expire, Register
<1>12. ASSUME NEW c \in Callers,
              FinishAudit(c) \/ ClaimNothing(c) \/ Submit(c) \/ Refuse(c) \/ Crash(c)
       PROVE  row' = row
  BY <1>12 DEF FinishAudit, ClaimNothing, Submit, Refuse, Crash
<1>13. /\ \A c \in Callers, j \in Jobs, root \in Roots, k \in Clocks : StartAudit(c, j, root, k) => row' = row
       /\ \A c \in Callers, q \in Requests, k \in Clocks : ReserveAgain(c, q, k) => row' = row
  BY DEF StartAudit, ReserveAgain
<1>14. ASSUME NEW c \in Callers, NEW k \in Ids, StartReconcile(c, k) PROVE row' = row
  BY <1>14 DEF StartReconcile
<1>. HIDE DEF Goal
<1>15. Goal
  BY <1>4, <1>5, <1>6, <1>7, <1>8, <1>9, <1>10, <1>11, <1>12, <1>13, <1>14 DEF JournalStep, Claim, Finish
<1>. QED
  BY <1>15 DEF Goal

(* The state of a row is the one it had, or that of an answer. *)
LEMMA RowsStep ==
  ASSUME IInv, WireInv, VerdictInv, BNext,
         NEW id \in Ids, HasRow(id)', NEW s, s = row'[id].state
  PROVE  BackedNext(id, s)
<1>0. TypeOK /\ CallsHaveRows /\ Priced
  BY DEF IInv, WireInv
<1>1. CASE row'[id] = row[id]
  BY <1>1, BackedStays DEF VerdictInv, HasRow
<1>2. ASSUME s \notin Terminal PROVE BackedNext(id, s)
  BY <1>2 DEF Terminal, BackedNext
<1>3. ASSUME JournalMoves, s \in Terminal PROVE BackedNext(id, s)
  <2>1. ASSUME HasRow(id), row[id].state = "RESERVED", s = "FAILED_CONFIRMED" PROVE BackedNext(id, s)
    BY <1>3, <2>1, ExpiredIsUntouched DEF BackedNext
  <2>2. ASSUME NEW c \in Callers, call[c].at = "record", IdOf(c) = id, s = call[c].answer.state
        PROVE  BackedNext(id, s)
    BY <2>2, BackedStays DEF VerdictInv
  <2>. QED
    BY <1>0, <1>1, <1>3, <2>1, <2>2, RowConcludes DEF JournalMoves
<1>4. ASSUME NEW c \in Callers, BuyerStep(c) PROVE row' = row
  BY <1>0, <1>4, BuyerSteps DEF Leaves, vars
<1>5. CASE Environment
  BY <1>1, <1>5 DEF Environment, Settle, Decide, vars
<1>. QED
  BY <1>1, <1>2, <1>3, <1>4, <1>5 DEF BNext

(* Every place together. *)
LEMMA StepVerdictInv == IInv /\ WireInv /\ VerdictInv /\ [BNext]_bvars => VerdictInv'
<1>. SUFFICES ASSUME IInv, WireInv, VerdictInv, [BNext]_bvars PROVE VerdictInv'
  OBVIOUS
<1>1. CASE BNext
  <2>1. SettledIsMoved'
    BY <1>1, MovedStep DEF WireInv, VerdictInv
  <2>2. ASSUME NEW c \in Callers, http'[c].at = "replied"
        PROVE  Backed(IdOf(c), Classify(http[c].reply))'
    BY <1>1, <2>2, RepliesStep DEF Backed, BackedNext, Untouched, IdOf, Stored, HasRow, Classify
  <2>3. ASSUME NEW id \in Ids, Stored(id)' PROVE Backed(id, submission[id].state)'
    BY <1>1, <2>3, StoresStep DEF Backed, BackedNext
  <2>4. ASSUME NEW c \in Callers, call'[c].at = "record" PROVE Backed(IdOf(c), call[c].answer.state)'
    BY <1>1, <2>4, AnswersStep DEF Backed, BackedNext, Untouched, IdOf, Stored, HasRow
  <2>5. ASSUME NEW id \in Ids, HasRow(id)' PROVE Backed(id, row[id].state)'
    BY <1>1, <2>5, RowsStep DEF Backed, BackedNext
  <2>. QED
    BY <2>1, <2>2, <2>3, <2>4, <2>5 DEF VerdictInv
<1>2. CASE UNCHANGED bvars
  BY <1>2 DEF bvars, buyer, vars, VerdictInv, SettledIsMoved, Backed, Untouched, Classify, Stored,
     IdOf, HasRow
<1>. QED
  BY <1>1, <1>2
(* Initially there is no payment and no outcome. *)
LEMMA InitVerdictInv == BInit => VerdictInv
BY DEF BInit, Init, Idle, Quiet, VerdictInv, SettledIsMoved, Stored, HasRow

-----------------------------------------------------------------------------
(* The composed system.                                                    *)

(* Both invariants hold beside that of the journal in every reachable state.*)
THEOREM BuyerInvariant == BSpec => [](IInv /\ WireInv /\ VerdictInv)
<1>1. BInit => IInv /\ WireInv /\ VerdictInv
  BY InitIInv, InitWireInv, InitVerdictInv DEF BInit
<1>2. IInv /\ WireInv /\ VerdictInv /\ [BNext]_bvars => (IInv /\ WireInv /\ VerdictInv)'
  BY BuyerStepIsJournalStep, StepIInv, StepWireInv, StepVerdictInv
<1>. QED
  BY <1>1, <1>2, PTL DEF BSpec

(* buyer.sqlite, the exchanges and the external record stay well formed.   *)
THEOREM BuyerTypeCorrect == BSpec => []BuyerTypeOK
<1>1. WireInv => BuyerTypeOK
  BY DEF WireInv
<1>. QED
  BY <1>1, BuyerInvariant, PTL

(* Over all dispatches, retries, crashes and reconciliations of a request   *)
(* one authorization is signed.                                            *)
THEOREM OneSignature == BSpec => []SignedAtMostOnce
<1>1. WireInv => SignedAtMostOnce
  BY DEF WireInv, SignedIsStored, SignedAtMostOnce
<1>. QED
  BY <1>1, BuyerInvariant, PTL

(* What reached the wire is the stored payment of its request.             *)
THEOREM SentAfterStored == BSpec => []PresentedIsStored
<1>1. WireInv => PresentedIsStored
  BY DEF WireInv
<1>. QED
  BY <1>1, BuyerInvariant, PTL

(* However often a payment is presented, and whatever the server forgets,  *)
(* a request moves funds at most once.                                     *)
THEOREM MovedOnce == BSpec => []OneTransferPerRequest
<1>1. WireInv => OneTransferPerRequest
  BY DEF WireInv, BuyerTypeOK, PresentedIsStored, OneTransferPerRequest
<1>. QED
  BY <1>1, BuyerInvariant, PTL

(* A confirmation in the journal is backed by a transfer for its request.  *)
THEOREM ConfirmationBacked == BSpec => []ConfirmedMeansSettled
<1>1. VerdictInv => ConfirmedMeansSettled
  BY DEF VerdictInv, Backed, SettledIsMoved, ConfirmedMeansSettled
<1>. QED
  BY <1>1, BuyerInvariant, PTL

(* Nothing moved, nor will it, for a request that a server which recalls    *)
(* its verdicts refused or that never was sent.                            *)
LEMMA FailureConclusive ==
  ASSUME WireInv, VerdictInv, NEW id \in Idempotent PROVE NothingMoved(id)
<1>1. id \in Ids
  BY IdempotentAssumption
<1>2. ASSUME HasRow(id), row[id].state = "FAILED_CONFIRMED", NEW p \in transfers, p.id = id PROVE FALSE
  <2>1. verdict[id] = "settled" /\ Stored(id)
    BY <1>2 DEF VerdictInv, SettledIsMoved, WireInv, BuyerTypeOK, PresentedIsStored
  <2>2. verdict[id] = "refused" \/ Untouched(id)
    BY <1>1, <1>2 DEF VerdictInv, Backed
  <2>. QED
    BY <2>1, <2>2 DEF Untouched
<1>. QED
  BY <1>2 DEF NothingMoved

(* Where the server recalls its verdicts, a refusal in the journal means   *)
(* that nothing moved, over lost replies, crashes and re-presentations.    *)
THEOREM RefusalConclusive == BSpec => []RecalledRefusalIsConclusive
<1>1. WireInv /\ VerdictInv => RecalledRefusalIsConclusive
  BY FailureConclusive DEF RecalledRefusalIsConclusive
<1>. QED
  BY <1>1, BuyerInvariant, PTL

(* What left the payer's account fits the cap, for every journal, number of *)
(* processes and behaviour of the servers, written-off payments aside.     *)
THEOREM SpendingBounded == BSpec => []TransfersWithinCap
<1>1. IInv /\ WireInv /\ VerdictInv => TransfersWithinCap
  <2>. SUFFICES ASSUME IInv, WireInv, VerdictInv PROVE TransfersWithinCap
    OBVIOUS
  <2> DEFINE moved == {row[p.id].job : p \in {t \in transfers : HasRow(t.id) /\ ~WrittenOff(t.id)}}
  <2>1. ASSUME NEW p \in transfers, HasRow(p.id), ~WrittenOff(p.id)
        PROVE  row[p.id].job \in ExposedJobs
    <3>1. p.id \in Ids
      BY DEF WireInv, BuyerTypeOK, Payments
    <3>2. row[p.id].state # "FAILED_CONFIRMED"
      BY <2>1, <3>1, FailureConclusive DEF WrittenOff, NothingMoved
    <3>. QED
      BY <2>1, <3>1, <3>2 DEF ExposedJobs, HasRow
  <2>2. moved \subseteq ExposedJobs
    BY <2>1
  <2>3. ExposedJobs \in SUBSET Jobs
    BY DEF ExposedJobs, IInv, TypeOK, HasRow, Rows
  <2>4. moved \in SUBSET Jobs
    BY <2>2, <2>3
  <2>. HIDE DEF moved
  <2>5. Total(moved) <= Total(ExposedJobs) /\ Total(moved) \in Nat /\ Total(ExposedJobs) \in Nat
    BY <2>2, <2>3, <2>4, TotalMonotone, TotalType
  <2>6. Total(moved) <= Cap
    BY <2>5, CapAssumption DEF IInv, ExposureWithinCap, Exposure
  <2>. QED
    BY <2>6 DEF TransfersWithinCap, moved
<1>. QED
  BY <1>1, BuyerInvariant, PTL
=============================================================================
