-------------------------- MODULE BuyerSettlement ---------------------------
(***************************************************************************)
(* metacoin_service/buyer.py under the payment journal: HttpBuyerAdapter   *)
(* is the adapter that ActionJournal leaves open.  While a caller is in    *)
(* adapter.submit ("waiting") or adapter.reconcile ("asking") it runs the  *)
(* buyer: look up buyer.sqlite, get a price, sign, persist, present the    *)
(* payment, classify the reply.  Each buyer.sqlite transaction is one      *)
(* step.                                                                   *)
(*                                                                         *)
(* The resource server and the chain are external.  A presented payment    *)
(* may be settled at any later time (delayed and duplicated deliveries     *)
(* included) but a nonce moves funds at most once.  An idempotent server   *)
(* answers a repeated presentation with the recorded verdict; any other    *)
(* may refuse it because the nonce is already in use.                      *)
(***************************************************************************)
EXTENDS ActionJournal

CONSTANTS
  Idempotent,     \* the requests whose server deduplicates by payment identifier
  NoSubmission

ASSUME IdempotentAssumption == Idempotent \subseteq Ids

(* The journal's answers include those this adapter gives. *)
ASSUME AdapterAssumption ==
  /\ \A j \in Jobs : Amount[j] \in Grants
  /\ {"transfer", "refusal"} \subseteq References

VARIABLES
  submission,     \* table submissions of buyer.sqlite
  http,           \* the HTTP exchange each caller is in
  signed,         \* history: signatures made per request id; each has a fresh nonce
  presented,      \* payments that reached the wire
  verdict,        \* external: what the server decided about an identifier
  transfers       \* external: payments that moved funds on the chain

buyer == <<submission, http, signed, presented, verdict, transfers>>
bvars == <<vars, buyer>>

Unresolvable == {"SUBMITTED", "OUTCOME_UNKNOWN"}
Replies  == {"settled", "refused", "pending", "unexpected"}
Payments == [id : Ids, nonce : Nat]

Quiet == [at |-> "quiet"]
Exchanges == {Quiet} \cup [at : {"pricing"}]
               \cup [at : {"sending"}, payment : Payments]
               \cup [at : {"awaiting"}, payment : Payments, repeated : BOOLEAN]
               \cup [at : {"replied"}, payment : Payments, reply : Replies]

Submissions == [payment : Payments, state : Unresolvable \cup Terminal]

ASSUME NoSubmissionAssumption == NoSubmission \notin Submissions

InAdapter(c) == call[c].at \in {"waiting", "asking"}
IdOf(c)      == call[c].request.id
Stored(id)   == submission[id] # NoSubmission

(* HttpBuyerAdapter._outcome. *)
Outcome(id, state) ==
  [about |-> id, state |-> state, units |-> UnitsDue(id, state),
   reference |-> IF state = "CONFIRMED" THEN "transfer" ELSE "refusal"]

BInit ==
  /\ Init
  /\ submission = [id \in Ids |-> NoSubmission]
  /\ http = [c \in Callers |-> Quiet]
  /\ signed = [id \in Ids |-> 0]
  /\ presented = {}
  /\ verdict = [id \in Ids |-> "none"]
  /\ transfers = {}

(* The adapter returns an outcome, or raises / returns None. *)
Return(c, state) == Answered(c, Outcome(IdOf(c), state)) /\ http' = [http EXCEPT ![c] = Quiet]
Raise(c)         == Unanswered(c) /\ http' = [http EXCEPT ![c] = Quiet]

Goes(c, exchange) == http' = [http EXCEPT ![c] = exchange] /\ UNCHANGED vars

-----------------------------------------------------------------------------
(* submit and reconcile both start by reading the stored submission.        *)
Settled(id) == Stored(id) /\ submission[id].state \in Terminal

RecallStored(c) ==
  /\ InAdapter(c) /\ http[c] = Quiet
  /\ Settled(IdOf(c))
  /\ Return(c, submission[IdOf(c)].state)
  /\ UNCHANGED <<submission, signed, presented, verdict, transfers>>

(* submit: an earlier submission is unresolved.  reconcile: no submission.  *)
RecallNothing(c) ==
  /\ InAdapter(c) /\ http[c] = Quiet
  /\ ~Settled(IdOf(c))
  /\ Stored(IdOf(c)) <=> call[c].at = "waiting"
  /\ Raise(c)
  /\ UNCHANGED <<submission, signed, presented, verdict, transfers>>

(* submit: no submission yet, ask for the price. *)
AskPrice(c) ==
  /\ call[c].at = "waiting" /\ http[c] = Quiet
  /\ ~Stored(IdOf(c))
  /\ Goes(c, [at |-> "pricing"])
  /\ UNCHANGED <<submission, signed, presented, verdict, transfers>>

(* The payment that reconcile presents. *)
PaymentOfSigningAgain(id) == [id |-> id, nonce |-> signed[id] + 1]   \* mutant form
PaymentOf(id) == submission[id].payment

(* reconcile: present the stored payment again. *)
Represent(c) ==
  /\ call[c].at = "asking" /\ http[c] = Quiet
  /\ Stored(IdOf(c)) /\ ~Settled(IdOf(c))
  /\ Goes(c, [at |-> "sending", payment |-> PaymentOf(IdOf(c))])
  /\ UNCHANGED <<submission, signed, presented, verdict, transfers>>

(* The resource is free, or has no acceptable requirement, or is down. *)
NotPriced(c) ==
  /\ InAdapter(c) /\ http[c].at = "pricing"
  /\ Return(c, "FAILED_CONFIRMED") \/ Raise(c)
  /\ UNCHANGED <<submission, signed, presented, verdict, transfers>>

(* Sign, then INSERT the payload under the request id before anything is    *)
(* sent; a second INSERT violates the primary key.                          *)
PersistAfterwards(id, payment) == UNCHANGED submission               \* mutant form
Persist(id, payment) ==
  submission' = [submission EXCEPT ![id] = [payment |-> payment, state |-> "SUBMITTED"]]

SignAndPersist(c) ==
  /\ InAdapter(c) /\ http[c].at = "pricing"
  /\ LET id == IdOf(c)
         payment == [id |-> id, nonce |-> signed[id] + 1]
     IN  /\ signed' = [signed EXCEPT ![id] = @ + 1]
         /\ \/ /\ ~Stored(id)
               /\ Persist(id, payment)
               /\ Goes(c, [at |-> "sending", payment |-> payment])
            \/ /\ Stored(id)
               /\ Raise(c)
               /\ UNCHANGED submission
  /\ UNCHANGED <<presented, verdict, transfers>>

(* _send: the paid request leaves the process. *)
Present(c) ==
  /\ InAdapter(c) /\ http[c].at = "sending"
  /\ presented' = presented \cup {http[c].payment}
  /\ Goes(c, [at |-> "awaiting", payment |-> http[c].payment,
               repeated |-> http[c].payment \in presented])
  /\ UNCHANGED <<submission, signed, verdict, transfers>>

(* A reply arrives: what the server can say at that moment. *)
Says(id, repeated, reply) ==
  \/ reply = "unexpected"
  \/ reply = verdict[id]
  \/ reply = "refused" /\ id \notin Idempotent /\ repeated /\ verdict[id] # "none"

Receive(c, reply) ==
  /\ InAdapter(c) /\ http[c].at = "awaiting"
  /\ Says(IdOf(c), http[c].repeated, reply)
  /\ Goes(c, [at |-> "replied", payment |-> http[c].payment, reply |-> reply])
  /\ UNCHANGED <<submission, signed, presented, verdict, transfers>>

(* _set updates the stored submission whatever state it is in.              *)
Set(id, state) ==
  submission' = IF Stored(id) THEN [submission EXCEPT ![id].state = state] ELSE submission

(* No reply. *)
TimeOut(c) ==
  /\ InAdapter(c) /\ http[c].at = "awaiting"
  /\ Set(IdOf(c), "OUTCOME_UNKNOWN")
  /\ Raise(c)
  /\ UNCHANGED <<signed, presented, verdict, transfers>>

(* _classify: the state each reply is recorded as. *)
ClassifyVerbatim(reply) == reply                                     \* mutant form
ClassifyPendingAsPaid(reply) ==                                      \* mutant form
  IF reply \in {"settled", "pending"} THEN "CONFIRMED"
  ELSE IF reply = "refused" THEN "FAILED_CONFIRMED" ELSE "OUTCOME_UNKNOWN"
ClassifyPendingAsRefused(reply) ==                                   \* mutant form
  IF reply = "settled" THEN "CONFIRMED"
  ELSE IF reply \in {"refused", "pending"} THEN "FAILED_CONFIRMED" ELSE "OUTCOME_UNKNOWN"
Classify(reply) ==
  CASE reply = "settled" -> "CONFIRMED"
    [] reply = "refused" -> "FAILED_CONFIRMED"
    [] OTHER             -> "OUTCOME_UNKNOWN"

Conclude(c) ==
  /\ InAdapter(c) /\ http[c].at = "replied"
  /\ LET state == Classify(http[c].reply)
     IN  /\ Set(IdOf(c), state)
         /\ \/ state \in Terminal /\ Return(c, state)
            \/ state \notin Terminal /\ Raise(c)
  /\ UNCHANGED <<signed, presented, verdict, transfers>>

BuyerStep(c) ==
  \/ RecallStored(c) \/ RecallNothing(c) \/ AskPrice(c) \/ Represent(c) \/ NotPriced(c)
  \/ SignAndPersist(c) \/ Present(c) \/ TimeOut(c) \/ Conclude(c)
  \/ \E reply \in Replies : Receive(c, reply)

-----------------------------------------------------------------------------
(* External: the server decides, the chain moves funds once per nonce.      *)
Decide(p, decision) ==
  /\ p \in presented
  /\ verdict[p.id] = "none" \/ (verdict[p.id] = "pending" /\ decision = "refused")
  /\ decision \in {"refused", "pending"}
  /\ verdict' = [verdict EXCEPT ![p.id] = decision]
  /\ UNCHANGED <<vars, submission, http, signed, presented, transfers>>

Settle(p) ==
  /\ p \in presented \ transfers
  /\ verdict[p.id] \in {"none", "pending"} \/ (verdict[p.id] = "settled" /\ p.id \notin Idempotent)
  /\ verdict' = [verdict EXCEPT ![p.id] = "settled"]
  /\ transfers' = transfers \cup {p}
  /\ UNCHANGED <<vars, submission, http, signed, presented>>

Environment == \E p \in presented : Settle(p) \/ \E d \in {"refused", "pending"} : Decide(p, d)

(* The journal's own steps; a caller that leaves the adapter because its    *)
(* process died drops its exchange.                                         *)
JournalMoves ==
  /\ JournalStep
  /\ http' = [c \in Callers |-> IF call'[c].at \in {"waiting", "asking"} THEN http[c] ELSE Quiet]
  /\ UNCHANGED <<submission, signed, presented, verdict, transfers>>

BNext == JournalMoves \/ (\E c \in Callers : BuyerStep(c)) \/ Environment

BSpec == BInit /\ [][BNext]_bvars

-----------------------------------------------------------------------------
(* Types of buyer.sqlite, the exchanges and the external record. *)
BuyerTypeOK ==
  /\ submission \in [Ids -> Submissions \cup {NoSubmission}]
  /\ http \in [Callers -> Exchanges]
  /\ signed \in [Ids -> Nat]
  /\ presented \subseteq Payments
  /\ verdict \in [Ids -> {"none", "refused", "pending", "settled"}]
  /\ transfers \subseteq presented

(* "never sign twice for one request" (buyer.py:168): over all dispatches,  *)
(* retries, crashes and reconciliations one authorization is signed.        *)
SignedAtMostOnce == \A id \in Ids : signed[id] <= 1

(* "re-presentation cannot create a second transfer" (buyer.py:18-19), even *)
(* when the server forgets its verdicts.                                    *)
OneTransferPerRequest ==
  \A p, q \in transfers : p.id = q.id => p = q

(* "persisted BEFORE the paid request is sent": whatever reached the wire   *)
(* is the stored submission, so a later process can present it again.       *)
PresentedIsStored ==
  \A p \in presented : Stored(p.id) /\ submission[p.id].payment = p

(* A confirmation in the journal is backed by a transfer on the chain for   *)
(* the same request.                                                        *)
ConfirmedMeansSettled ==
  \A id \in Ids : HasRow(id) /\ row[id].state = "CONFIRMED" => \E p \in transfers : p.id = id

(* FAILED_CONFIRMED is "conclusively no effect" (execution_state.py:13).    *)
NothingMoved(id) ==
  HasRow(id) /\ row[id].state = "FAILED_CONFIRMED" => \A p \in transfers : p.id # id
FailedMeansNothingMoved == \A id \in Ids : NothingMoved(id)

(* So it is, through lost replies, crashes and re-presentations, where the  *)
(* server recalls its verdict by payment identifier.                        *)
RecalledRefusalIsConclusive == \A id \in Idempotent : NothingMoved(id)

(* What actually left the payer's account fits the cap, but for payments     *)
(* the journal wrote off on the word of a server that forgets its verdicts. *)
WrittenOff(id) == row[id].state = "FAILED_CONFIRMED" /\ id \notin Idempotent
TransfersWithinCap ==
  Total({row[p.id].job : p \in {t \in transfers : HasRow(t.id) /\ ~WrittenOff(t.id)}}) <= Cap

(* Why the wire sees one payment: one caller waits for a request, and only   *)
(* once; it signs only while nothing is stored; what is sent is stored.      *)
OneWaits ==
  \A c \in Callers : call[c].at = "waiting" =>
    /\ submits[IdOf(c)] # 0
    /\ \A d \in Callers : call[d].at = "waiting" /\ IdOf(d) = IdOf(c) => d = c

Entered == \A c \in Callers : http[c] # Quiet => InAdapter(c)

Priced ==
  \A c \in Callers : http[c].at = "pricing" => call[c].at = "waiting" /\ ~Stored(IdOf(c))

SignedIsStored ==
  \A id \in Ids :
    /\ signed[id] = IF Stored(id) THEN 1 ELSE 0
    /\ Stored(id) => submits[id] # 0 /\ submission[id].payment.id = id

Sends(c) == http[c].at \in {"sending", "awaiting", "replied"}
SentIsStored ==
  \A c \in Callers : Sends(c) =>
    Stored(IdOf(c)) /\ http[c].payment = submission[IdOf(c)].payment

WireInv ==
  /\ BuyerTypeOK
  /\ OneWaits
  /\ Entered
  /\ Priced
  /\ SignedIsStored
  /\ SentIsStored
  /\ PresentedIsStored

(* Why an outcome is right: whoever carries a confirmation or, where the    *)
(* server recalls its verdicts, a failure - a reply, the stored submission, *)
(* an answer on its way to the journal, the row - does so on the server's   *)
(* final verdict, or for a request that never will be sent.                 *)
Untouched(id) ==
  /\ ~Stored(id)
  /\ HasRow(id) /\ row[id].state # "RESERVED"
  /\ \A c \in Callers : call[c].at \in {"submit", "waiting"} => IdOf(c) # id

Backed(id, state) ==
  /\ state = "CONFIRMED" => verdict[id] = "settled"
  /\ state = "FAILED_CONFIRMED" /\ id \in Idempotent => verdict[id] = "refused" \/ Untouched(id)

SettledIsMoved ==
  /\ \A p \in transfers : verdict[p.id] = "settled"
  /\ \A id \in Ids : verdict[id] = "settled" => \E p \in transfers : p.id = id

VerdictInv ==
  /\ SettledIsMoved
  /\ \A c \in Callers : http[c].at = "replied" => Backed(IdOf(c), Classify(http[c].reply))
  /\ \A id \in Ids : Stored(id) => Backed(id, submission[id].state)
  /\ \A c \in Callers : call[c].at = "record" => Backed(IdOf(c), call[c].answer.state)
  /\ \A id \in Ids : HasRow(id) => Backed(id, row[id].state)
=============================================================================
