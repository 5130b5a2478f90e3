--------------------------- MODULE ActionJournal ----------------------------
(***************************************************************************)
(* experiments/work_contracts/execution_state.py: the owner-local payment  *)
(* journal.  Every method body inside "with self._tx()" is one SQLite      *)
(* transaction (BEGIN IMMEDIATE .. commit) and is one action here; between *)
(* two transactions of one call other processes interleave and a process   *)
(* may die.  The adapter is called outside every transaction; this module  *)
(* lets it return ANY answer, including malformed ones and none at all, so *)
(* what holds here holds whatever the rail does.                           *)
(*                                                                         *)
(* Refused calls change nothing and are not steps.                         *)
(***************************************************************************)
EXTENDS BudgetUnits

CONSTANTS
  Ids,            \* request identifiers a caller may choose
  Roots,          \* evidence roots an audit may commit to
  Completed,      \* jobs whose recomputed outcome the contract accepts
  Callers,        \* processes that hold the journal file open
  Cap,            \* the campaign cap (limit)
  Grants,         \* unit counts an adapter answer may carry
  References,     \* settlement references an adapter may quote
  NoRoot, NoRow, NoAnswer

ASSUME CapAssumption   == Cap \in Nat \ {0}
ASSUME IdsAssumption   == IsFiniteSet(Ids)
ASSUME GrantsAssumption == Grants \subseteq Nat /\ 0 \in Grants

VARIABLES
  job,            \* table jobs: registered, root, accepted
  expired,        \* jobs whose expires_at has passed on every caller's clock
  row,            \* table actions, by request id
  call,           \* what each caller is in the middle of
  submits         \* history: adapter.submit calls ever made per request id

vars == <<job, expired, row, call, submits>>

Terminal == {"CONFIRMED", "FAILED_CONFIRMED"}
Open     == {"RESERVED", "SUBMISSION_PENDING", "OUTCOME_UNKNOWN"}

Requests == [id : Ids, job : Jobs, root : Roots]

(* An adapter answer: about which request id it is, what it claims, the    *)
(* units it grants and the reference it quotes.                            *)
Answers == [about : Ids, state : Terminal, units : Grants, reference : References]

(* The conclusion the journal writes itself, without any adapter. *)
Expiry == "local-expired-before-dispatch"
ExpiryResult(id) ==
  [about |-> id, state |-> "FAILED_CONFIRMED", units |-> 0, reference |-> Expiry]

Results == Answers \cup {ExpiryResult(id) : id \in Ids}

Rows == [job : Jobs, root : Roots, state : Terminal \cup Open,
         result : Results \cup {NoAnswer}]

ASSUME NullAssumption ==
  /\ NoRoot \notin Roots
  /\ NoRow \notin Rows
  /\ NoAnswer \notin Results

Idle == [at |-> "idle"]

(* A caller passes the time once and it is used in every transaction of the *)
(* call ("pinned"), or leaves it out and each transaction reads the clock   *)
(* ("live").  A pinned call that began in time never sees the expiry.       *)
Clocks == {"live", "pinned"}
SeesExpiry(j, clock) == j \in expired /\ clock = "live"

Calls ==
  {Idle}
    \cup [at : {"audit"}, job : Jobs, root : Roots, clock : Clocks]
    \cup [at : {"claim"}, request : Requests, clock : Clocks]
    \cup [at : {"submit", "waiting", "lost"}, request : Requests]
    \cup [at : {"mark", "asking"}, request : Requests]
    \cup [at : {"record"}, request : Requests, answer : Answers,
          dispatching : BOOLEAN]

(* Journal._exposure: the amounts of all rows that are not FAILED_CONFIRMED *)
ExposedJobs ==
  {row[i].job : i \in {k \in Ids : row[k] # NoRow /\ row[k].state # "FAILED_CONFIRMED"}}
Exposure == Total(ExposedJobs)

HasRow(id) == row[id] # NoRow

(* The two ways a transaction updates a row. *)
Moved(id, state)   == [row EXCEPT ![id].state = state]
Concluded(id, a)   == [row EXCEPT ![id].state = a.state, ![id].result = a]

Used(j)    == \E id \in Ids : HasRow(id) /\ row[id].job = j
BindingOf(id) == [id |-> id, job |-> row[id].job, root |-> row[id].root]

-----------------------------------------------------------------------------
Init ==
  /\ job = [j \in Jobs |-> [registered |-> FALSE, root |-> NoRoot, accepted |-> FALSE]]
  /\ expired = {}
  /\ row = [id \in Ids |-> NoRow]
  /\ call = [c \in Callers |-> Idle]
  /\ submits = [id \in Ids |-> 0]

(* The clock passes a contract's expires_at. *)
Expire(j) ==
  /\ j \notin expired
  /\ expired' = expired \cup {j}
  /\ UNCHANGED <<job, row, call, submits>>

(* register: an identical re-registration returns without a change. *)
Register(j) ==
  /\ ~job[j].registered
  /\ j \notin expired
  /\ job' = [job EXCEPT ![j].registered = TRUE]
  /\ UNCHANGED <<expired, row, call, submits>>

(* audit, phases 1 and 2: snapshot the registration, recompute outside     *)
(* every lock.  The committed root depends on the evidence presented.      *)
StartAudit(c, j, root, clock) ==
  /\ call[c] = Idle
  /\ job[j].registered
  /\ j \notin expired
  /\ call' = [call EXCEPT ![c] =
       [at |-> "audit", job |-> j, root |-> root, clock |-> clock]]
  /\ UNCHANGED <<job, expired, row, submits>>

(* The evidence root of a job is set once. *)
AnyRoot(j, root)  == TRUE                                        \* mutant form
RootOpen(j, root) == job[j].root \in {NoRoot, root}

(* audit, phase 3: recheck expiry and root immutability, then record. *)
FinishAudit(c) ==
  /\ call[c].at = "audit"
  /\ LET j == call[c].job
         root == call[c].root
     IN  job' = IF ~SeesExpiry(j, call[c].clock) /\ RootOpen(j, root)
                THEN [job EXCEPT ![j].root = root, ![j].accepted = (j \in Completed)]
                ELSE job
  /\ call' = [call EXCEPT ![c] = Idle]
  /\ UNCHANGED <<expired, row, submits>>

-----------------------------------------------------------------------------
(* dispatch, transaction 1 (_reserve).                                     *)

(* Mutant form: a reservation that was not handed to the adapter yet is not *)
(* counted against the cap.                                                 *)
MayReserveUncounted(q) ==
  /\ ~HasRow(q.id)
  /\ job[q.job].accepted
  /\ q.job \notin expired
  /\ q.root = job[q.job].root
  /\ ~Used(q.job)
  /\ LET handed == {i \in Ids : HasRow(i) /\ row[i].state \notin {"RESERVED", "FAILED_CONFIRMED"}}
     IN  Total({row[i].job : i \in handed}) + Amount[q.job] <= Cap

(* Mutant form: a job's entitlement may be used under a second request id. *)
MayReserveReused(q) ==
  /\ ~HasRow(q.id)
  /\ job[q.job].accepted
  /\ q.job \notin expired
  /\ q.root = job[q.job].root
  /\ Exposure + Amount[q.job] <= Cap

(* Every condition of a new authorization. *)
MayReserve(q) ==
  /\ ~HasRow(q.id)
  /\ job[q.job].accepted
  /\ q.job \notin expired
  /\ q.root = job[q.job].root
  /\ ~Used(q.job)
  /\ Exposure + Amount[q.job] <= Cap

ReserveNew(c, q, clock) ==
  /\ call[c] = Idle
  /\ MayReserve(q)
  /\ row' = [row EXCEPT ![q.id] = [job |-> q.job, root |-> q.root,
                                   state |-> "RESERVED", result |-> NoAnswer]]
  /\ call' = [call EXCEPT ![c] = [at |-> "claim", request |-> q, clock |-> clock]]
  /\ UNCHANGED <<job, expired, submits>>

(* An identical retry creates no right and goes on to _claim. *)
MayResume(q) == HasRow(q.id) /\ BindingOf(q.id) = q

ReserveAgain(c, q, clock) ==
  /\ call[c] = Idle
  /\ job[q.job].registered
  /\ MayResume(q)
  /\ clock = "pinned" => q.job \notin expired
  /\ call' = [call EXCEPT ![c] = [at |-> "claim", request |-> q, clock |-> clock]]
  /\ UNCHANGED <<job, expired, row, submits>>

(* _expire_reserved: a reservation never claimed before expires_at ends    *)
(* without effect.                                                         *)
Expirable(id, clock) ==
  row[id].state = "RESERVED" /\ SeesExpiry(row[id].job, clock)

ExpireRowSilently(id) ==                                         \* mutant form
  row' = [row EXCEPT ![id].state = "FAILED_CONFIRMED"]

ExpireRow(id) == row' = Concluded(id, ExpiryResult(id))

(* Mutant form: the claim is not a compare-and-set on RESERVED. *)
ClaimableTwice(id, clock) ==
  row[id].state \in {"RESERVED", "SUBMISSION_PENDING"} /\ ~SeesExpiry(row[id].job, clock)

(* dispatch, transaction 2 (_claim). *)
Claimable(id, clock) ==
  row[id].state = "RESERVED" /\ ~SeesExpiry(row[id].job, clock)

ClaimExpired(c) ==
  /\ call[c].at = "claim"
  /\ Expirable(call[c].request.id, call[c].clock)
  /\ ExpireRow(call[c].request.id)
  /\ call' = [call EXCEPT ![c] = Idle]
  /\ UNCHANGED <<job, expired, submits>>

ClaimReserved(c) ==
  /\ call[c].at = "claim"
  /\ Claimable(call[c].request.id, call[c].clock)
  /\ row' = Moved(call[c].request.id, "SUBMISSION_PENDING")
  /\ call' = [call EXCEPT ![c] = [at |-> "submit", request |-> call[c].request]]
  /\ UNCHANGED <<job, expired, submits>>

ClaimNothing(c) ==
  /\ call[c].at = "claim"
  /\ ~Expirable(call[c].request.id, call[c].clock)
  /\ ~Claimable(call[c].request.id, call[c].clock)
  /\ call' = [call EXCEPT ![c] = Idle]
  /\ UNCHANGED <<job, expired, row, submits>>

Claim(c) == ClaimExpired(c) \/ ClaimReserved(c) \/ ClaimNothing(c)

(* dispatch calls adapter.submit(request). *)
Submit(c) ==
  /\ call[c].at = "submit"
  /\ LET q == call[c].request
     IN  /\ submits' = [submits EXCEPT ![q.id] = @ + 1]
         /\ call' = [call EXCEPT ![c] = [at |-> "waiting", request |-> q]]
  /\ UNCHANGED <<job, expired, row>>

(* The adapter returns to the caller: an answer, an exception (submit), or *)
(* nothing authoritative (reconcile: None or an exception).                *)
Answered(c, answer) ==
  /\ call[c].at \in {"waiting", "asking"}
  /\ call' = [call EXCEPT ![c] =
       [at |-> "record", request |-> call[c].request, answer |-> answer,
        dispatching |-> call[c].at = "waiting"]]
  /\ UNCHANGED <<job, expired, row, submits>>

Unanswered(c) ==
  /\ call[c].at \in {"waiting", "asking"}
  /\ call' = [call EXCEPT ![c] = IF call[c].at = "waiting"
                                 THEN [at |-> "lost", request |-> call[c].request]
                                 ELSE Idle]
  /\ UNCHANGED <<job, expired, row, submits>>

(* _finish: the answer must be about the stored request, grant the units   *)
(* its claim implies, and never replace a terminal state by another.       *)
UnitsDue(id, state) == IF state = "CONFIRMED" THEN Amount[row[id].job] ELSE 0

(* Mutant forms: a later answer replaces a terminal one; an answer about    *)
(* another request is taken for this one.                                   *)
RecordableAgain(id, a) ==
  /\ a.about = id
  /\ a.units = UnitsDue(id, a.state)
  /\ row[id].state # "RESERVED"
RecordableUnbound(id, a) ==
  /\ a.units = UnitsDue(id, a.state)
  /\ row[id].state \in {"SUBMISSION_PENDING", "OUTCOME_UNKNOWN"}

Recordable(id, a) ==
  /\ a.about = id
  /\ a.units = UnitsDue(id, a.state)
  /\ row[id].state \in {"SUBMISSION_PENDING", "OUTCOME_UNKNOWN"}

Record(c) ==
  /\ call[c].at = "record"
  /\ Recordable(call[c].request.id, call[c].answer)
  /\ row' = Concluded(call[c].request.id, call[c].answer)
  /\ call' = [call EXCEPT ![c] = Idle]
  /\ UNCHANGED <<job, expired, submits>>

(* Otherwise nothing is written: the identical conclusion is already there  *)
(* (return) or the answer is refused (raise), which dispatch handles as a   *)
(* lost answer and reconcile ignores.                                       *)
AlreadyRecorded(id, a) == row[id].state \in Terminal /\ row[id].result = a

Refuse(c) ==
  /\ call[c].at = "record"
  /\ ~Recordable(call[c].request.id, call[c].answer)
  /\ call' = [call EXCEPT ![c] =
       IF call[c].dispatching /\ ~AlreadyRecorded(call[c].request.id, call[c].answer)
       THEN [at |-> "lost", request |-> call[c].request] ELSE Idle]
  /\ UNCHANGED <<job, expired, row, submits>>

Finish(c) == Record(c) \/ Refuse(c)

(* _unknown, from dispatch's exception handler. *)
Unresolved(id) ==
  row' = IF row[id].state = "SUBMISSION_PENDING"
         THEN Moved(id, "OUTCOME_UNKNOWN") ELSE row

MarkLost(c) ==
  /\ call[c].at = "lost"
  /\ Unresolved(call[c].request.id)
  /\ call' = [call EXCEPT ![c] = Idle]
  /\ UNCHANGED <<job, expired, submits>>

-----------------------------------------------------------------------------
(* reconcile, transaction 1: release an expired reservation, or go on to   *)
(* ask the adapter about a pending or unknown action.                      *)
ReleaseExpired(c, id) ==
  /\ call[c] = Idle
  /\ HasRow(id)
  /\ Expirable(id, "live")
  /\ ExpireRow(id)
  /\ UNCHANGED <<job, expired, call, submits>>

StartReconcile(c, id) ==
  /\ call[c] = Idle
  /\ HasRow(id)
  /\ row[id].state \in {"SUBMISSION_PENDING", "OUTCOME_UNKNOWN"}
  /\ call' = [call EXCEPT ![c] = [at |-> "mark", request |-> BindingOf(id)]]
  /\ UNCHANGED <<job, expired, row, submits>>

(* reconcile, transaction 2 (_unknown), then adapter.reconcile. *)
MarkUnknown(c) ==
  /\ call[c].at = "mark"
  /\ Unresolved(call[c].request.id)
  /\ call' = [call EXCEPT ![c] = [at |-> "asking", request |-> call[c].request]]
  /\ UNCHANGED <<job, expired, submits>>

(* The process dies; the journal file stays. *)
Crash(c) ==
  /\ call[c] # Idle
  /\ call' = [call EXCEPT ![c] = Idle]
  /\ UNCHANGED <<job, expired, row, submits>>

-----------------------------------------------------------------------------
(* One step of the journal, apart from what the adapter decides. *)
JournalStep ==
  \/ \E j \in Jobs : Expire(j) \/ Register(j)
  \/ \E c \in Callers :
       \/ \E j \in Jobs, root \in Roots, k \in Clocks : StartAudit(c, j, root, k)
       \/ FinishAudit(c)
       \/ \E q \in Requests, k \in Clocks : ReserveNew(c, q, k) \/ ReserveAgain(c, q, k)
       \/ Claim(c)
       \/ Submit(c)
       \/ Finish(c)
       \/ MarkLost(c)
       \/ \E id \in Ids : ReleaseExpired(c, id) \/ StartReconcile(c, id)
       \/ MarkUnknown(c)
       \/ Crash(c)

Next ==
  \/ JournalStep
  \/ \E c \in Callers :
       \/ \E a \in Answers : Answered(c, a)
       \/ Unanswered(c)

Spec == Init /\ [][Next]_vars

-----------------------------------------------------------------------------
(* Types of the tables and of the calls in progress; a row carries a result *)
(* exactly when its state is terminal (execution_state.py:7-19).            *)
TypeOK ==
  /\ job \in [Jobs -> [registered : BOOLEAN, root : Roots \cup {NoRoot}, accepted : BOOLEAN]]
  /\ expired \subseteq Jobs
  /\ row \in [Ids -> Rows \cup {NoRow}]
  /\ call \in [Callers -> Calls]
  /\ submits \in [Ids -> Nat]
  /\ \A id \in Ids : HasRow(id) =>
       (row[id].state \in Terminal <=> row[id].result # NoAnswer)

(* "confirmed + reserved + pending + unknown <= cap": whatever mixture of   *)
(* concurrent dispatches, crashes, lost answers and reconciliations led     *)
(* here, the exposure never exceeds the campaign cap.                       *)
ExposureWithinCap == Exposure <= Cap

(* adapter.submit is called at most once for a request id, by all processes *)
(* together and over all retries, and never for a reservation that was not  *)
(* claimed: _claim is the only door to the adapter.                         *)
SubmittedAtMostOnce ==
  \A id \in Ids :
    /\ submits[id] <= 1
    /\ (~HasRow(id) \/ row[id].state = "RESERVED") => submits[id] = 0

(* One accepted job buys one action, whichever request ids are tried.       *)
OneActionPerJob ==
  \A a, b \in Ids : HasRow(a) /\ HasRow(b) /\ row[a].job = row[b].job => a = b

(* An action stays bound to evidence that the job's audit accepted: the     *)
(* root of the row is the root recorded for its job, for ever, although     *)
(* audits with other evidence may still be running.                         *)
ActionBoundToAcceptedEvidence ==
  \A id \in Ids : HasRow(id) =>
    /\ job[row[id].job].accepted
    /\ row[id].root = job[row[id].job].root

(* The recorded conclusion is about the row's own request and grants what   *)
(* the claimed state is worth: the amount when confirmed, nothing otherwise.*)
ResultIsBound ==
  \A id \in Ids : HasRow(id) /\ row[id].state \in Terminal =>
    /\ row[id].result.about = id
    /\ row[id].result.state = row[id].state
    /\ row[id].result.units = UnitsDue(id, row[id].state)

(* "A terminal state is never replaced by a conflicting one": no step of    *)
(* any process changes a row that has concluded.                            *)
ConcludedStaysConcluded ==
  [][\A id \in Ids : HasRow(id) /\ row[id].state \in Terminal
        => row'[id] = row[id]]_vars

(* Why these hold: an audit accepts only what it recomputed under the root  *)
(* it recorded; a call in progress is about a row; the right to submit is   *)
(* held by at most one caller and only before any submission.               *)
AcceptedUnderRoot ==
  \A j \in Jobs : job[j].accepted =>
    /\ job[j].root \in Roots
    /\ j \in Completed

CallsHaveRows ==
  \A c \in Callers : call[c].at \notin {"idle", "audit"} => HasRow(call[c].request.id)

HoldsRight(c, id) == call[c].at = "submit" /\ call[c].request.id = id

RightToSubmit ==
  \A c \in Callers, id \in Ids : HoldsRight(c, id) =>
    /\ submits[id] = 0
    /\ row[id].state # "RESERVED"
    /\ \A d \in Callers : HoldsRight(d, id) => d = c

IInv ==
  /\ TypeOK
  /\ AcceptedUnderRoot
  /\ CallsHaveRows
  /\ RightToSubmit
  /\ SubmittedAtMostOnce
  /\ OneActionPerJob
  /\ ActionBoundToAcceptedEvidence
  /\ ResultIsBound
  /\ ExposureWithinCap

-----------------------------------------------------------------------------
(* The journal implements the abstract promise: a job is open until it has  *)
(* a row, exposed while the row is open, and spent or released as the row   *)
(* concludes.                                                               *)
InState(j, states) == \E id \in Ids : HasRow(id) /\ row[id].job = j /\ row[id].state \in states

PhaseOf(j) ==
  IF InState(j, {"CONFIRMED"}) THEN "spent"
  ELSE IF InState(j, Open) THEN "exposed"
  ELSE IF InState(j, {"FAILED_CONFIRMED"}) THEN "released"
  ELSE "open"

Promise == INSTANCE BoundedSpend WITH phase <- [j \in Jobs |-> PhaseOf(j)]

(* Every step of the journal is a step of BoundedSpend or changes nothing   *)
(* that BoundedSpend sees.                                                  *)
ImplementsBoundedSpend == Promise!Spec
=============================================================================
