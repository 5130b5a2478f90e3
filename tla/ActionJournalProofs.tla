------------------------ MODULE ActionJournalProofs -------------------------
(***************************************************************************)
(* Theorems about the payment journal, for every number of jobs, request   *)
(* ids, processes and for any adapter.  The inductive invariant is IInv of *)
(* ActionJournal; its parts are shown step by step below.                  *)
(***************************************************************************)
EXTENDS ActionJournal, BudgetUnitsProofs

(* Initially every table is empty and nobody is calling. *)
LEMMA InitIInv == Init => IInv
<1>. SUFFICES ASSUME Init PROVE IInv
  OBVIOUS
<1>1. TypeOK
  BY DEF Init, TypeOK, HasRow, Calls, Idle
<1>2. ExposureWithinCap
  <2>1. ExposedJobs = {}
    BY DEF Init, ExposedJobs
  <2>2. UnitsOf({}) = {}
    BY DEF UnitsOf
  <2>. QED
    BY <2>1, <2>2, FS_EmptySet, CapAssumption DEF ExposureWithinCap, Exposure, Total
<1>. QED
  BY <1>1, <1>2 DEF Init, IInv, AcceptedUnderRoot, CallsHaveRows, RightToSubmit, HoldsRight,
     SubmittedAtMostOnce, OneActionPerJob, ActionBoundToAcceptedEvidence, ResultIsBound,
     HasRow, Idle

-----------------------------------------------------------------------------
(* What a transaction may write into the tables.                           *)

RowsOK ==
  /\ row \in [Ids -> Rows \cup {NoRow}]
  /\ \A id \in Ids : HasRow(id) =>
       (row[id].state \in Terminal <=> row[id].result # NoAnswer)

(* A row that moves between non-terminal states keeps its type. *)
LEMMA MovedType ==
  ASSUME TypeOK, NEW id \in Ids, HasRow(id), row[id].state \in Open,
         NEW s \in Open, row' = Moved(id, s)
  PROVE  RowsOK'
BY NullAssumption DEF TypeOK, RowsOK, Moved, HasRow, Rows, Open, Terminal

(* A row that concludes with a well-formed answer keeps its type. *)
LEMMA ConcludedType ==
  ASSUME TypeOK, NEW id \in Ids, HasRow(id),
         NEW a \in Results, row' = Concluded(id, a)
  PROVE  RowsOK'
<1>1. a.state \in Terminal
  BY DEF Results, Answers, ExpiryResult, Terminal
<1> DEFINE r == [row[id] EXCEPT !.state = a.state, !.result = a]
<1>2. row \in [Ids -> Rows \cup {NoRow}] /\ row[id] \in Rows
  BY DEF TypeOK, RowsOK, HasRow
<1>3. r \in Rows /\ r.state = a.state /\ r.result = a
  BY <1>1, <1>2 DEF Rows
<1>4. row' = [row EXCEPT ![id] = r]
  BY <1>2 DEF Concluded
<1>. HIDE DEF r
<1>5. /\ row'[id] = r /\ row' \in [Ids -> Rows \cup {NoRow}]
      /\ \A other \in Ids \ {id} : row'[other] = row[other]
  BY <1>2, <1>3, <1>4
<1>. QED
  BY <1>1, <1>3, <1>5, NullAssumption DEF TypeOK, RowsOK, HasRow

-----------------------------------------------------------------------------
(* What a step does to each table, whoever takes it.                       *)
NewRow(q) == [job |-> q.job, root |-> q.root, state |-> "RESERVED", result |-> NoAnswer]

RowMoves(id) ==
  \/ row[id].state = "RESERVED" /\ row' = Moved(id, "SUBMISSION_PENDING")
  \/ row[id].state = "SUBMISSION_PENDING" /\ row' = Moved(id, "OUTCOME_UNKNOWN")
  \/ row[id].state = "RESERVED" /\ row' = Concluded(id, ExpiryResult(id))
  \/ \E a \in Answers : Recordable(id, a) /\ row' = Concluded(id, a)

RowStep ==
  \/ row' = row
  \/ \E q \in Requests : MayReserve(q) /\ row' = [row EXCEPT ![q.id] = NewRow(q)]
  \/ \E id \in Ids : HasRow(id) /\ RowMoves(id)

JobStep ==
  \/ job' = job
  \/ \E j \in Jobs : row' = row /\ job' = [job EXCEPT ![j].registered = TRUE]
  \/ \E j \in Jobs, root \in Roots :
       /\ RootOpen(j, root)
       /\ row' = row
       /\ job' = [job EXCEPT ![j].root = root, ![j].accepted = (j \in Completed)]

(* Every step changes the row table in one of the ways above: a new        *)
(* reservation under every condition of _reserve, the claim, the unknown   *)
(* mark, an expiry before any claim, or a bound answer.                    *)
LEMMA RowEffect ==
  ASSUME TypeOK, CallsHaveRows, Next
  PROVE  RowStep
<1>0. \A c \in Callers : call[c].at \notin {"idle", "audit"} =>
        /\ HasRow(call[c].request.id)
        /\ call[c].request.id \in Ids
  BY DEF TypeOK, CallsHaveRows, Calls, Requests, Idle
<1>1. ASSUME NEW j \in Jobs, Expire(j) \/ Register(j) PROVE RowStep
  BY <1>1 DEF Expire, Register, RowStep
<1>2. ASSUME NEW c \in Callers, NEW j \in Jobs, NEW root \in Roots, NEW k \in Clocks,
             StartAudit(c, j, root, k)
      PROVE  RowStep
  BY <1>2 DEF StartAudit, RowStep
<1>3. ASSUME NEW c \in Callers,
             FinishAudit(c) \/ Submit(c) \/ ClaimNothing(c) \/ Refuse(c) \/ Crash(c) \/ Unanswered(c)
      PROVE  RowStep
  BY <1>3 DEF FinishAudit, Submit, ClaimNothing, Refuse, Crash, Unanswered, RowStep
<1>4. ASSUME NEW c \in Callers, NEW q \in Requests, NEW k \in Clocks,
             ReserveNew(c, q, k) \/ ReserveAgain(c, q, k)
      PROVE  RowStep
  BY <1>4 DEF ReserveNew, ReserveAgain, RowStep, NewRow
<1>5. ASSUME NEW c \in Callers, ClaimExpired(c) \/ ClaimReserved(c) PROVE RowStep
  BY <1>5, <1>0 DEF ClaimExpired, ClaimReserved, Expirable, Claimable, ExpireRow, RowStep, RowMoves
<1>6. ASSUME NEW c \in Callers, MarkLost(c) \/ MarkUnknown(c) PROVE RowStep
  BY <1>6, <1>0 DEF MarkLost, MarkUnknown, Unresolved, RowStep, RowMoves
<1>7. ASSUME NEW c \in Callers, Record(c) PROVE RowStep
  <2>1. call[c].answer \in Answers
    BY <1>7 DEF TypeOK, Record, Calls, Idle
  <2>. QED
    BY <1>7, <1>0, <2>1 DEF Record, RowStep, RowMoves
<1>8. ASSUME NEW c \in Callers, NEW id \in Ids, ReleaseExpired(c, id) \/ StartReconcile(c, id)
      PROVE  RowStep
  BY <1>8 DEF ReleaseExpired, StartReconcile, Expirable, ExpireRow, RowStep, RowMoves
<1>9. ASSUME NEW c \in Callers, NEW a \in Answers, Answered(c, a) PROVE RowStep
  BY <1>9 DEF Answered, RowStep
<1>. QED
  BY <1>1, <1>2, <1>3, <1>4, <1>5, <1>6, <1>7, <1>8, <1>9 DEF Next, JournalStep, Claim, Finish

(* Every step leaves the jobs table alone, registers a job, or records an  *)
(* audit under a root that was free or the same.                           *)
LEMMA JobEffect ==
  ASSUME TypeOK, Next
  PROVE  JobStep
<1>1. ASSUME NEW j \in Jobs, Expire(j) \/ Register(j) PROVE JobStep
  BY <1>1 DEF Expire, Register, JobStep
<1>2. ASSUME NEW c \in Callers, FinishAudit(c) PROVE JobStep
  <2>1. call[c].job \in Jobs /\ call[c].root \in Roots
    BY <1>2 DEF FinishAudit, TypeOK, Calls, Idle
  <2>. QED
    BY <1>2, <2>1 DEF FinishAudit, JobStep
<1>3. ASSUME NEW c \in Callers, UNCHANGED job PROVE JobStep
  BY <1>3 DEF JobStep
<1>. QED
  BY <1>1, <1>2, <1>3 DEF Next, JournalStep, Claim, Finish, StartAudit, ReserveNew, ReserveAgain,
     ClaimExpired, ClaimReserved, ClaimNothing, Submit, Answered, Unanswered, Record, Refuse,
     MarkLost, ReleaseExpired, StartReconcile, MarkUnknown, Crash

-----------------------------------------------------------------------------
(* All actions that leave a table alone, in one place. *)
LEMMA Frame ==
  ASSUME Next
  PROVE  /\ expired' = expired \/ \E j \in Jobs : Expire(j)
         /\ submits' = submits \/ \E c \in Callers : Submit(c)
         /\ call' = call \/ row' = row \/ \E c \in Callers :
              \/ \E q \in Requests, k \in Clocks : ReserveNew(c, q, k)
              \/ ClaimExpired(c) \/ ClaimReserved(c) \/ Record(c)
              \/ MarkLost(c) \/ MarkUnknown(c)
<1>1. expired' = expired \/ \E j \in Jobs : Expire(j)
  <2>1. ASSUME NEW c \in Callers,
               \/ \E j \in Jobs, root \in Roots, k \in Clocks : StartAudit(c, j, root, k)
               \/ FinishAudit(c)
               \/ \E q \in Requests, k \in Clocks : ReserveNew(c, q, k) \/ ReserveAgain(c, q, k)
               \/ \E id \in Ids : ReleaseExpired(c, id) \/ StartReconcile(c, id)
        PROVE  expired' = expired
    BY <2>1 DEF StartAudit, FinishAudit, ReserveNew, ReserveAgain, ReleaseExpired, StartReconcile
  <2>2. ASSUME NEW c \in Callers,
               Claim(c) \/ Submit(c) \/ Finish(c) \/ MarkLost(c) \/ MarkUnknown(c) \/ Crash(c)
        PROVE  expired' = expired
    BY <2>2 DEF Claim, ClaimExpired, ClaimReserved, ClaimNothing, Submit, Finish, Record, Refuse,
       MarkLost, MarkUnknown, Crash
  <2>3. ASSUME NEW c \in Callers, Unanswered(c) \/ \E a \in Answers : Answered(c, a)
        PROVE  expired' = expired
    BY <2>3 DEF Unanswered, Answered
  <2>4. ASSUME NEW j \in Jobs, Register(j) PROVE expired' = expired
    BY <2>4 DEF Register
  <2>. QED
    BY <2>1, <2>2, <2>3, <2>4 DEF Next, JournalStep
<1>2. submits' = submits \/ \E c \in Callers : Submit(c)
  BY DEF Next, JournalStep, Claim, Finish, Expire, Register, StartAudit, FinishAudit, ReserveNew,
     ReserveAgain, ClaimExpired, ClaimReserved, ClaimNothing, Answered, Unanswered, Record,
     Refuse, MarkLost, ReleaseExpired, StartReconcile, MarkUnknown, Crash
<1>3. call' = call \/ row' = row \/ \E c \in Callers :
         \/ \E q \in Requests, k \in Clocks : ReserveNew(c, q, k)
         \/ ClaimExpired(c) \/ ClaimReserved(c) \/ Record(c)
         \/ MarkLost(c) \/ MarkUnknown(c)
  BY DEF Next, JournalStep, Claim, Finish, Expire, Register, StartAudit, FinishAudit,
     ReserveAgain, ClaimNothing, Submit, Answered, Unanswered,
     Refuse, ReleaseExpired, StartReconcile, Crash
<1>. QED
  BY <1>1, <1>2, <1>3

(* A caller's next position is a well-formed one. *)
LEMMA CallType ==
  ASSUME TypeOK, CallsHaveRows, Next
  PROVE  call' \in [Callers -> Calls]
<1>. USE DEF TypeOK, Calls
<1>1. ASSUME NEW j \in Jobs, Expire(j) \/ Register(j) PROVE call' = call
  BY <1>1 DEF Expire, Register
<1>2. ASSUME NEW c \in Callers, NEW j \in Jobs, NEW root \in Roots, NEW k \in Clocks,
             StartAudit(c, j, root, k)
      PROVE  call' \in [Callers -> Calls]
  BY <1>2 DEF StartAudit
<1>3. ASSUME NEW c \in Callers, FinishAudit(c) \/ Crash(c) \/ ClaimNothing(c) \/ ClaimExpired(c)
                                \/ Record(c) \/ MarkLost(c)
      PROVE  call' \in [Callers -> Calls]
  BY <1>3 DEF FinishAudit, Crash, ClaimNothing, ClaimExpired, Record, MarkLost
<1>4. ASSUME NEW c \in Callers, NEW q \in Requests, NEW k \in Clocks,
             ReserveNew(c, q, k) \/ ReserveAgain(c, q, k)
      PROVE  call' \in [Callers -> Calls]
  BY <1>4 DEF ReserveNew, ReserveAgain
<1>5. ASSUME NEW c \in Callers, call[c].at \notin {"idle", "audit"}
      PROVE  call[c].request \in Requests
  BY <1>5 DEF Idle
<1>6. ASSUME NEW c \in Callers, ClaimReserved(c) \/ Submit(c) \/ Unanswered(c) \/ Refuse(c)
                                \/ MarkUnknown(c)
      PROVE  call' \in [Callers -> Calls]
  BY <1>5, <1>6 DEF ClaimReserved, Submit, Unanswered, Refuse, MarkUnknown
<1>7. ASSUME NEW c \in Callers, NEW a \in Answers, Answered(c, a)
      PROVE  call' \in [Callers -> Calls]
  BY <1>5, <1>7 DEF Answered
<1>8. ASSUME NEW c \in Callers, NEW id \in Ids, ReleaseExpired(c, id) \/ StartReconcile(c, id)
      PROVE  call' \in [Callers -> Calls]
  BY <1>8 DEF ReleaseExpired, StartReconcile, BindingOf, HasRow, Rows, Requests
<1>. QED
  BY <1>1, <1>2, <1>3, <1>4, <1>6, <1>7, <1>8 DEF Next, JournalStep, Claim, Finish

(* Type correctness is preserved by every step. *)
LEMMA TypeStep ==
  ASSUME TypeOK, CallsHaveRows, Next
  PROVE  TypeOK'
<1>1. RowStep /\ JobStep
  BY RowEffect, JobEffect
<1>2. job' \in [Jobs -> [registered : BOOLEAN, root : Roots \cup {NoRoot}, accepted : BOOLEAN]]
  <2>1. ASSUME NEW j \in Jobs, job' = [job EXCEPT ![j].registered = TRUE]
        PROVE  job' \in [Jobs -> [registered : BOOLEAN, root : Roots \cup {NoRoot}, accepted : BOOLEAN]]
    BY <2>1 DEF TypeOK
  <2>2. ASSUME NEW j \in Jobs, NEW root \in Roots,
               job' = [job EXCEPT ![j].root = root, ![j].accepted = (j \in Completed)]
        PROVE  job' \in [Jobs -> [registered : BOOLEAN, root : Roots \cup {NoRoot}, accepted : BOOLEAN]]
    <3> DEFINE ok == j \in Completed
               new == [job[j] EXCEPT !.root = root, !.accepted = ok]
    <3>1. ok \in BOOLEAN
      OBVIOUS
    <3>2. job' = [job EXCEPT ![j] = new]
      BY <2>2 DEF TypeOK
    <3>. HIDE DEF ok
    <3>3. new \in [registered : BOOLEAN, root : Roots \cup {NoRoot}, accepted : BOOLEAN]
      BY <3>1 DEF TypeOK
    <3>. HIDE DEF new
    <3>. QED
      BY <3>2, <3>3 DEF TypeOK
  <2>. QED
    BY <1>1, <2>1, <2>2 DEF JobStep, TypeOK
<1>3. expired' \subseteq Jobs /\ submits' \in [Ids -> Nat]
  <2>1. ASSUME NEW c \in Callers, Submit(c) PROVE submits' \in [Ids -> Nat]
    BY <2>1 DEF Submit, TypeOK, Calls, Requests, Idle
  <2>2. ASSUME NEW j \in Jobs, Expire(j) PROVE expired' \subseteq Jobs
    BY <2>2 DEF Expire, TypeOK
  <2>. QED
    BY Frame, <2>1, <2>2 DEF TypeOK
<1>4. call' \in [Callers -> Calls]
  BY CallType
<1>5. RowsOK'
  <2>1. CASE row' = row
    BY <2>1 DEF TypeOK, RowsOK, HasRow
  <2>2. ASSUME NEW q \in Requests, row' = [row EXCEPT ![q.id] = NewRow(q)]
        PROVE  RowsOK'
    BY <2>2, NullAssumption DEF TypeOK, RowsOK, HasRow, NewRow, Rows, Requests, Open, Terminal
  <2>. QED
    BY <1>1, <2>1, <2>2, MovedType, ConcludedType DEF RowStep, RowMoves, Open, Results
<1>. QED
  BY <1>2, <1>3, <1>4, <1>5 DEF TypeOK, RowsOK

-----------------------------------------------------------------------------
(* How a step changes one row: it appears, it moves on, or it stays.       *)

(* The row of one request id before and after a step.                      *)
LEMMA RowAfter ==
  ASSUME TypeOK, RowStep, NEW id \in Ids
  PROVE  \/ row'[id] = row[id]
         \/ /\ ~HasRow(id)
            /\ \E q \in Requests : q.id = id /\ MayReserve(q) /\ row'[id] = NewRow(q)
         \/ /\ HasRow(id)
            /\ row[id].state \in Open
            /\ \/ \E s \in {"SUBMISSION_PENDING", "OUTCOME_UNKNOWN"} :
                     row'[id] = [row[id] EXCEPT !.state = s]
               \/ \E a \in Results :
                     /\ a.about = id
                     /\ a.state \in Terminal
                     /\ a.units = UnitsDue(id, a.state)
                     /\ row'[id] = [row[id] EXCEPT !.state = a.state, !.result = a]
<1>1. ASSUME NEW q \in Requests, MayReserve(q), row' = [row EXCEPT ![q.id] = NewRow(q)],
             q.id = id
      PROVE  ~HasRow(id) /\ row'[id] = NewRow(q)
  BY <1>1 DEF MayReserve, TypeOK
<1>2. ASSUME HasRow(id), row[id].state = "RESERVED", row' = Concluded(id, ExpiryResult(id))
      PROVE  \E a \in Results :
                     /\ a.about = id
                     /\ a.state \in Terminal
                     /\ a.units = UnitsDue(id, a.state)
                     /\ row'[id] = [row[id] EXCEPT !.state = a.state, !.result = a]
  <2> DEFINE a == ExpiryResult(id)
  <2>1. a \in Results
    BY DEF Results
  <2>2. a.about = id /\ a.state \in Terminal /\ a.units = UnitsDue(id, a.state)
    BY DEF ExpiryResult, UnitsDue, Terminal
  <2>3. row'[id] = [row[id] EXCEPT !.state = a.state, !.result = a]
    BY <1>2 DEF Concluded, TypeOK
  <2>. HIDE DEF a
  <2>. QED
    BY <2>1, <2>2, <2>3
<1>3. ASSUME NEW a \in Answers, Recordable(id, a), row' = Concluded(id, a)
      PROVE  /\ row[id].state \in Open
             /\ a \in Results
             /\ a.about = id
             /\ a.state \in Terminal
             /\ a.units = UnitsDue(id, a.state)
             /\ row'[id] = [row[id] EXCEPT !.state = a.state, !.result = a]
  BY <1>3 DEF Recordable, Concluded, Results, Answers, Open, TypeOK
<1>4. CASE \E k \in Ids \ {id} : \A i \in Ids \ {k} : row'[i] = row[i]
  BY <1>4
<1>5. CASE \E q \in Requests : MayReserve(q) /\ row' = [row EXCEPT ![q.id] = NewRow(q)]
  <2>1. PICK q \in Requests : MayReserve(q) /\ row' = [row EXCEPT ![q.id] = NewRow(q)]
    BY <1>5
  <2>2. q.id \in Ids
    BY DEF Requests
  <2>3. CASE q.id = id
    BY <1>1, <2>1, <2>3
  <2>4. CASE q.id # id
    BY <1>4, <2>1, <2>2, <2>4 DEF TypeOK
  <2>. QED
    BY <2>3, <2>4
<1>6. ASSUME NEW k \in Ids, HasRow(k),
             \/ row[k].state = "RESERVED" /\ row' = Moved(k, "SUBMISSION_PENDING")
             \/ row[k].state = "SUBMISSION_PENDING" /\ row' = Moved(k, "OUTCOME_UNKNOWN")
             \/ row[k].state = "RESERVED" /\ row' = Concluded(k, ExpiryResult(k))
             \/ \E a \in Answers : Recordable(k, a) /\ row' = Concluded(k, a),
             k # id
      PROVE  row'[id] = row[id]
  BY <1>6 DEF Moved, Concluded, TypeOK
<1>7. ASSUME NEW s \in Open, row' = Moved(id, s)
      PROVE  row'[id] = [row[id] EXCEPT !.state = s]
  BY <1>7 DEF Moved, TypeOK
<1>8. CASE HasRow(id) /\ row[id].state = "RESERVED" /\ row' = Moved(id, "SUBMISSION_PENDING")
  BY <1>7, <1>8 DEF Open
<1>9. CASE HasRow(id) /\ row[id].state = "SUBMISSION_PENDING" /\ row' = Moved(id, "OUTCOME_UNKNOWN")
  BY <1>7, <1>9 DEF Open
<1>10. CASE HasRow(id) /\ row[id].state = "RESERVED" /\ row' = Concluded(id, ExpiryResult(id))
  BY <1>2, <1>10 DEF Open
<1>11. CASE HasRow(id) /\ \E a \in Answers : Recordable(id, a) /\ row' = Concluded(id, a)
  BY <1>3, <1>11
<1>12. CASE \E k \in Ids : HasRow(k) /\ RowMoves(k)
  <2>1. PICK k \in Ids : HasRow(k) /\ RowMoves(k)
    BY <1>12
  <2>2. CASE k # id
    BY <1>6, <2>1, <2>2 DEF RowMoves
  <2>3. CASE k = id
    BY <1>8, <1>9, <1>10, <1>11, <2>1, <2>3 DEF RowMoves
  <2>. QED
    BY <2>2, <2>3
<1>. QED
  BY <1>5, <1>12 DEF RowStep

(* No request id ever loses its row. *)
LEMMA RowsStay ==
  ASSUME TypeOK, RowStep, NEW id \in Ids, HasRow(id)
  PROVE  /\ HasRow(id)'
         /\ row'[id].job = row[id].job
         /\ row'[id].root = row[id].root
<1>1. row[id] \in Rows
  BY DEF TypeOK, HasRow
<1>2. ASSUME NEW s \in {"SUBMISSION_PENDING", "OUTCOME_UNKNOWN"},
             row'[id] = [row[id] EXCEPT !.state = s]
      PROVE  row'[id] \in Rows /\ row'[id].job = row[id].job /\ row'[id].root = row[id].root
  BY <1>1, <1>2 DEF Rows, Open
<1>3. ASSUME NEW a \in Results, a.state \in Terminal,
             row'[id] = [row[id] EXCEPT !.state = a.state, !.result = a]
      PROVE  row'[id] \in Rows /\ row'[id].job = row[id].job /\ row'[id].root = row[id].root
  BY <1>1, <1>3 DEF Rows
<1>4. row'[id] \in Rows /\ row'[id].job = row[id].job /\ row'[id].root = row[id].root
  <2>1. CASE row'[id] = row[id]
    BY <1>1, <2>1
  <2>2. CASE \E s \in {"SUBMISSION_PENDING", "OUTCOME_UNKNOWN"} :
               row'[id] = [row[id] EXCEPT !.state = s]
    BY <1>2, <2>2
  <2>3. CASE \E a \in Results : a.state \in Terminal
               /\ row'[id] = [row[id] EXCEPT !.state = a.state, !.result = a]
    BY <1>3, <2>3
  <2>. QED
    BY <2>1, <2>2, <2>3, RowAfter
<1>. QED
  BY <1>4, NullAssumption DEF HasRow

(* A step reserves for at most one request id. *)
LEMMA OneNewRow ==
  ASSUME TypeOK, RowStep, NEW a \in Ids, NEW b \in Ids,
         ~HasRow(a), ~HasRow(b), HasRow(a)', HasRow(b)'
  PROVE  a = b
<1>1. CASE row' = row
  BY <1>1 DEF HasRow
<1>2. ASSUME NEW q \in Requests, row' = [row EXCEPT ![q.id] = NewRow(q)] PROVE a = b
  BY <1>2 DEF TypeOK, HasRow, Requests
<1>3. ASSUME NEW id \in Ids, HasRow(id), RowMoves(id) PROVE a = b
  <2>1. a # id
    BY <1>3
  <2>2. row'[a] = row[a]
    BY <1>3, <2>1 DEF RowMoves, Moved, Concluded, TypeOK
  <2>. QED
    BY <2>2 DEF HasRow
<1>. QED
  BY <1>1, <1>2, <1>3 DEF RowStep

(* A concluded row is final, and nothing returns to RESERVED. *)
LEMMA StateAfter ==
  ASSUME TypeOK, RowStep, NEW id \in Ids, HasRow(id)
  PROVE  /\ row[id].state \in Terminal => row'[id] = row[id]
         /\ row'[id].state = "RESERVED" => row[id].state = "RESERVED"
         /\ row'[id] # row[id] => row[id].state \in Open
<1>1. row[id] \in Rows
  BY DEF TypeOK, HasRow
<1>2. ASSUME NEW s \in {"SUBMISSION_PENDING", "OUTCOME_UNKNOWN"},
             row'[id] = [row[id] EXCEPT !.state = s]
      PROVE  row'[id].state # "RESERVED"
  BY <1>1, <1>2 DEF Rows
<1>3. ASSUME NEW a \in Results, a.state \in Terminal,
             row'[id] = [row[id] EXCEPT !.state = a.state, !.result = a]
      PROVE  row'[id].state # "RESERVED"
  BY <1>1, <1>3 DEF Rows, Terminal
<1>. QED
  BY <1>2, <1>3, RowAfter DEF Open, Terminal

(* How a step changes one caller's position. *)
LEMMA CallAfter ==
  ASSUME TypeOK, CallsHaveRows, Next, NEW c \in Callers
  PROVE  \/ call'[c] = call[c]
         \/ call'[c].at \in {"idle", "audit"}
         \/ call'[c].at \in {"claim", "mark"} /\ row'[call'[c].request.id] # NoRow
         \/ /\ call[c].at \notin {"idle", "audit"}
            /\ call'[c].at # "submit"
            /\ call'[c].request = call[c].request
         \/ ClaimReserved(c)
<1> DEFINE Goal(d) ==
         \/ call'[d] = call[d]
         \/ call'[d].at \in {"idle", "audit"}
         \/ call'[d].at \in {"claim", "mark"} /\ row'[call'[d].request.id] # NoRow
         \/ /\ call[d].at \notin {"idle", "audit"}
            /\ call'[d].at # "submit"
            /\ call'[d].request = call[d].request
         \/ ClaimReserved(d)
<1>0. call \in [Callers -> Calls]
  BY DEF TypeOK
<1>1. ASSUME NEW j \in Jobs, Expire(j) \/ Register(j) PROVE Goal(c)
  BY <1>1 DEF Expire, Register
<1>2. ASSUME NEW d \in Callers, NEW j \in Jobs, NEW root \in Roots, NEW k \in Clocks,
             StartAudit(d, j, root, k)
      PROVE  Goal(c)
  BY <1>0, <1>2 DEF StartAudit
<1>3. ASSUME NEW d \in Callers, FinishAudit(d) \/ Crash(d) \/ ClaimNothing(d) \/ ClaimExpired(d)
                                \/ Record(d) \/ MarkLost(d)
      PROVE  Goal(c)
  BY <1>0, <1>3 DEF FinishAudit, Crash, ClaimNothing, ClaimExpired, Record, MarkLost, Idle
<1>4. ASSUME NEW d \in Callers, NEW q \in Requests, NEW k \in Clocks, ReserveNew(d, q, k)
      PROVE  Goal(c)
  <2>1. HasRow(q.id)'
    <3>1. NewRow(q) \in Rows /\ q.id \in Ids
      BY DEF NewRow, Rows, Requests, Open
    <3>2. row'[q.id] = NewRow(q)
      BY <1>4, <3>1 DEF ReserveNew, NewRow, TypeOK
    <3>. QED
      BY <3>1, <3>2, NullAssumption DEF HasRow
  <2>2. call' = [call EXCEPT ![d] = [at |-> "claim", request |-> q, clock |-> k]]
    BY <1>4 DEF ReserveNew
  <2>. QED
    BY <1>0, <2>1, <2>2 DEF HasRow
<1>5. ASSUME NEW d \in Callers, NEW q \in Requests, NEW k \in Clocks, ReserveAgain(d, q, k)
      PROVE  Goal(c)
  BY <1>0, <1>5 DEF ReserveAgain, MayResume, HasRow
<1>6. ASSUME NEW d \in Callers, ClaimReserved(d) PROVE Goal(c)
  BY <1>0, <1>6 DEF ClaimReserved
<1>7. ASSUME NEW d \in Callers, Submit(d) \/ Unanswered(d) \/ Refuse(d) \/ MarkUnknown(d)
      PROVE  Goal(c)
  BY <1>0, <1>7 DEF Submit, Unanswered, Refuse, MarkUnknown, Idle
<1>8. ASSUME NEW d \in Callers, NEW a \in Answers, Answered(d, a) PROVE Goal(c)
  BY <1>0, <1>8 DEF Answered
<1>9. ASSUME NEW d \in Callers, NEW id \in Ids, ReleaseExpired(d, id) \/ StartReconcile(d, id)
      PROVE  Goal(c)
  BY <1>0, <1>9 DEF ReleaseExpired, StartReconcile, BindingOf, HasRow
<1>. HIDE DEF Goal
<1>10. Goal(c)
  BY <1>1, <1>2, <1>3, <1>4, <1>5, <1>6, <1>7, <1>8, <1>9 DEF Next, JournalStep, Claim, Finish
<1>. QED
  BY <1>10 DEF Goal

-----------------------------------------------------------------------------
(* Each part of IInv after a step.                                         *)

LEMMA AcceptedStep ==
  ASSUME TypeOK, AcceptedUnderRoot, JobStep
  PROVE  /\ AcceptedUnderRoot'
         /\ \A j \in Jobs : job[j].accepted => job'[j].accepted /\ job'[j].root = job[j].root
<1>1. CASE job' = job
  BY <1>1 DEF AcceptedUnderRoot
<1>2. ASSUME NEW k \in Jobs, job' = [job EXCEPT ![k].registered = TRUE], NEW j \in Jobs
      PROVE  job'[j].accepted = job[j].accepted /\ job'[j].root = job[j].root
  BY <1>2 DEF TypeOK
<1>3. ASSUME NEW k \in Jobs, NEW root \in Roots, RootOpen(k, root), NEW j \in Jobs,
             job' = [job EXCEPT ![k].root = root, ![k].accepted = (k \in Completed)]
      PROVE  /\ job'[j].accepted => job'[j].root \in Roots /\ j \in Completed
             /\ job[j].accepted => job'[j].accepted /\ job'[j].root = job[j].root
  <2>1. CASE j # k
    <3>1. job'[j] = job[j]
      BY <1>3, <2>1 DEF TypeOK
    <3>. QED
      BY <3>1 DEF AcceptedUnderRoot
  <2>2. CASE j = k
    <3>1. job'[j].root = root /\ job'[j].accepted = (j \in Completed)
      BY <1>3, <2>2 DEF TypeOK
    <3>. QED
      BY <1>3, <2>2, <3>1, NullAssumption DEF AcceptedUnderRoot, RootOpen
  <2>. QED
    BY <2>1, <2>2
<1>4. CASE \E k \in Jobs : job' = [job EXCEPT ![k].registered = TRUE]
  BY <1>2, <1>4 DEF AcceptedUnderRoot
<1>5. CASE \E k \in Jobs, root \in Roots :
             /\ RootOpen(k, root)
             /\ job' = [job EXCEPT ![k].root = root, ![k].accepted = (k \in Completed)]
  <2>1. PICK k \in Jobs, root \in Roots :
           /\ RootOpen(k, root)
           /\ job' = [job EXCEPT ![k].root = root, ![k].accepted = (k \in Completed)]
    BY <1>5
  <2>. QED
    BY <1>3, <2>1 DEF AcceptedUnderRoot
<1>. QED
  BY <1>1, <1>4, <1>5 DEF JobStep

LEMMA CallsStep ==
  ASSUME TypeOK, CallsHaveRows, Next
  PROVE  CallsHaveRows'
<1>1. RowStep
  BY RowEffect
<1>2. \A c \in Callers : call[c].at \notin {"idle", "audit"} => call[c].request.id \in Ids
  BY DEF TypeOK, Calls, Requests, Idle
<1>3. SUFFICES ASSUME NEW c \in Callers, call'[c].at \notin {"idle", "audit"}
               PROVE  row'[call'[c].request.id] # NoRow
  BY DEF CallsHaveRows, HasRow
<1>4. CASE ClaimReserved(c)
  <2>1. call[c].at = "claim" /\ call'[c].request = call[c].request
    BY <1>4 DEF ClaimReserved, TypeOK
  <2>. QED
    BY <1>1, <1>2, <2>1, RowsStay DEF CallsHaveRows, HasRow
<1>. QED
  BY <1>1, <1>2, <1>3, <1>4, CallAfter, RowsStay DEF CallsHaveRows, HasRow

LEMMA RightStep ==
  ASSUME TypeOK, CallsHaveRows, RightToSubmit, SubmittedAtMostOnce, Next
  PROVE  RightToSubmit'
<1>1. RowStep
  BY RowEffect
<1>2. ASSUME NEW c \in Callers, NEW id \in Ids, HoldsRight(c, id)'
      PROVE  \/ HoldsRight(c, id) /\ call'[c] = call[c]
             \/ ClaimReserved(c) /\ call[c].request.id = id
  BY <1>2, CallAfter DEF HoldsRight, ClaimReserved, TypeOK
<1>3. ASSUME NEW c \in Callers, NEW id \in Ids, ClaimReserved(c), call[c].request.id = id
      PROVE  /\ submits'[id] = 0
             /\ row'[id].state # "RESERVED"
             /\ \A d \in Callers : HoldsRight(d, id)' => d = c
  <2>1. row[id].state = "RESERVED" /\ submits'[id] = 0
    BY <1>3 DEF ClaimReserved, Claimable, SubmittedAtMostOnce
  <2>2. row'[id].state = "SUBMISSION_PENDING"
    BY <1>3, <2>1 DEF ClaimReserved, Moved, TypeOK, CallsHaveRows, HasRow, Rows
  <2>3. ASSUME NEW d \in Callers, HoldsRight(d, id)', d # c PROVE FALSE
    BY <1>3, <2>1, <2>3 DEF ClaimReserved, HoldsRight, RightToSubmit, TypeOK
  <2>. QED
    BY <2>1, <2>2, <2>3
<1>4. ASSUME NEW c \in Callers, NEW id \in Ids, HoldsRight(c, id), call'[c] = call[c]
      PROVE  /\ submits'[id] = 0
             /\ row'[id].state # "RESERVED"
  <2>1. HasRow(id) /\ row[id].state # "RESERVED" /\ submits[id] = 0
    BY <1>4 DEF HoldsRight, RightToSubmit, CallsHaveRows
  <2>2. ASSUME NEW d \in Callers, Submit(d) PROVE submits'[id] = 0
    <3>1. d # c
      BY <1>4, <2>2 DEF Submit, HoldsRight, TypeOK
    <3>2. call[d].request.id # id
      BY <1>4, <2>2, <3>1 DEF Submit, HoldsRight, RightToSubmit
    <3>. QED
      BY <2>1, <2>2, <3>2 DEF Submit, TypeOK
  <2>. QED
    BY <1>1, <2>1, <2>2, Frame, StateAfter
<1>5. ASSUME NEW c \in Callers, NEW d \in Callers, NEW id \in Ids,
             HoldsRight(c, id)', HoldsRight(d, id)'
      PROVE  c = d
  BY <1>2, <1>3, <1>5 DEF RightToSubmit
<1>. QED
  BY <1>2, <1>3, <1>4, <1>5 DEF RightToSubmit

LEMMA SubmittedStep ==
  ASSUME TypeOK, CallsHaveRows, RightToSubmit, SubmittedAtMostOnce, Next
  PROVE  SubmittedAtMostOnce'
<1>1. RowStep
  BY RowEffect
<1>2. SUFFICES ASSUME NEW id \in Ids
               PROVE  /\ submits'[id] <= 1
                      /\ (~HasRow(id)' \/ row'[id].state = "RESERVED") => submits'[id] = 0
  BY DEF SubmittedAtMostOnce
<1>3. ASSUME NEW c \in Callers, Submit(c), call[c].request.id = id
      PROVE  /\ submits'[id] = 1
             /\ HasRow(id)'
             /\ row'[id].state # "RESERVED"
  BY <1>3 DEF Submit, TypeOK, HoldsRight, RightToSubmit, CallsHaveRows, HasRow
<1>4. CASE submits'[id] = submits[id]
  BY <1>1, <1>4, RowsStay, StateAfter DEF SubmittedAtMostOnce
<1>5. ASSUME NEW c \in Callers, Submit(c), call[c].request.id # id
      PROVE  submits'[id] = submits[id]
  BY <1>5 DEF Submit, TypeOK
<1>. QED
  BY <1>3, <1>4, <1>5, Frame

LEMMA OneActionStep ==
  ASSUME TypeOK, OneActionPerJob, RowStep
  PROVE  OneActionPerJob'
<1>1. SUFFICES ASSUME NEW a \in Ids, NEW b \in Ids, HasRow(a)', HasRow(b)',
                      row'[a].job = row'[b].job
               PROVE  a = b
  BY DEF OneActionPerJob
<1>2. ASSUME NEW x \in Ids, NEW y \in Ids, HasRow(x)', HasRow(y)', row'[x].job = row'[y].job,
             HasRow(x), ~HasRow(y)
      PROVE  FALSE
  <2>1. PICK q \in Requests : MayReserve(q) /\ row'[y] = NewRow(q)
    BY <1>2, RowAfter DEF HasRow
  <2>2. row[x].job = q.job
    BY <1>2, <2>1, RowsStay DEF NewRow
  <2>. QED
    BY <1>2, <2>1, <2>2 DEF MayReserve, Used
<1>. QED
  BY <1>1, <1>2, OneNewRow, RowsStay DEF OneActionPerJob

LEMMA BoundStep ==
  ASSUME TypeOK, AcceptedUnderRoot, ActionBoundToAcceptedEvidence, RowStep, JobStep
  PROVE  ActionBoundToAcceptedEvidence'
<1>1. SUFFICES ASSUME NEW id \in Ids, HasRow(id)'
               PROVE  /\ job'[row'[id].job].accepted
                      /\ row'[id].root = job'[row'[id].job].root
  BY DEF ActionBoundToAcceptedEvidence
<1>2. CASE ~HasRow(id)
  <2>1. PICK q \in Requests : MayReserve(q) /\ row'[id] = NewRow(q)
    BY <1>1, <1>2, RowAfter DEF HasRow
  <2>2. job' = job
    BY <1>1, <1>2 DEF JobStep, HasRow
  <2>. QED
    BY <2>1, <2>2 DEF MayReserve, NewRow
<1>3. CASE HasRow(id)
  <2>1. row'[id].job = row[id].job /\ row'[id].root = row[id].root /\ row[id].job \in Jobs
    BY <1>3, RowsStay DEF TypeOK, HasRow, Rows
  <2>2. \A j \in Jobs : job[j].accepted => job'[j].accepted /\ job'[j].root = job[j].root
    BY AcceptedStep
  <2>. QED
    BY <1>3, <2>1, <2>2 DEF ActionBoundToAcceptedEvidence
<1>. QED
  BY <1>2, <1>3

LEMMA ResultStep ==
  ASSUME TypeOK, ResultIsBound, RowStep
  PROVE  ResultIsBound'
<1>1. SUFFICES ASSUME NEW id \in Ids, HasRow(id)', row'[id].state \in Terminal
               PROVE  /\ row'[id].result.about = id
                      /\ row'[id].result.state = row'[id].state
                      /\ row'[id].result.units = UnitsDue(id, row[id].state)'
  BY DEF ResultIsBound, UnitsDue
<1>2. CASE row'[id] = row[id]
  BY <1>1, <1>2 DEF ResultIsBound, UnitsDue, HasRow
<1>3. ASSUME NEW q \in Requests, row'[id] = NewRow(q) PROVE FALSE
  BY <1>1, <1>3 DEF NewRow, Terminal
<1>4. ASSUME HasRow(id), NEW s \in {"SUBMISSION_PENDING", "OUTCOME_UNKNOWN"},
             row'[id] = [row[id] EXCEPT !.state = s]
      PROVE  FALSE
  BY <1>1, <1>4 DEF TypeOK, HasRow, Rows, Terminal
<1>5. ASSUME HasRow(id), NEW a \in Results, a.about = id, a.units = UnitsDue(id, a.state),
             row'[id] = [row[id] EXCEPT !.state = a.state, !.result = a]
      PROVE  /\ row'[id].result.about = id
             /\ row'[id].result.state = row'[id].state
             /\ row'[id].result.units = UnitsDue(id, row[id].state)'
  BY <1>5 DEF TypeOK, HasRow, Rows, UnitsDue
<1>. QED
  BY <1>2, <1>3, <1>4, <1>5, RowAfter

(* The exposure grows only by a reservation that the cap admits. *)
LEMMA ExposureStep ==
  ASSUME TypeOK, OneActionPerJob, ExposureWithinCap, RowStep
  PROVE  ExposureWithinCap'
<1>1. ExposedJobs \in SUBSET Jobs
  BY DEF ExposedJobs, TypeOK, HasRow, Rows
<1>2. ASSUME NEW id \in Ids, HasRow(id), row'[id].state # "FAILED_CONFIRMED"
      PROVE  row'[id].job \in ExposedJobs
  BY <1>2, RowsStay, StateAfter DEF ExposedJobs, HasRow, Terminal
<1>3. CASE \A id \in Ids : HasRow(id)' => HasRow(id)
  <2>1. ExposedJobs' \subseteq ExposedJobs
    BY <1>2, <1>3 DEF ExposedJobs, HasRow
  <2>. QED
    BY <1>1, <2>1, TotalMonotone, TotalType, CapAssumption DEF ExposureWithinCap, Exposure
<1>4. ASSUME NEW id \in Ids, HasRow(id)', ~HasRow(id) PROVE ExposureWithinCap'
  <2>1. PICK q \in Requests : q.id = id /\ MayReserve(q) /\ row'[id] = NewRow(q)
    BY <1>4, RowAfter DEF HasRow
  <2>2. q.job \in Jobs /\ q.job \notin ExposedJobs
    BY <2>1 DEF Requests, MayReserve, Used, ExposedJobs, HasRow
  <2>3. ExposedJobs' \subseteq ExposedJobs \cup {q.job}
    BY <1>2, <1>4, <2>1, OneNewRow DEF ExposedJobs, NewRow, HasRow
  <2>4. Total(ExposedJobs \cup {q.job}) <= Cap
    BY <1>1, <2>1, <2>2, TotalAdd DEF MayReserve, Exposure
  <2>5. (ExposedJobs \cup {q.job}) \in SUBSET Jobs
    BY <1>1, <2>2
  <2>. QED
    BY <2>3, <2>4, <2>5, TotalMonotone, TotalType, CapAssumption DEF ExposureWithinCap, Exposure
<1>. QED
  BY <1>3, <1>4

-----------------------------------------------------------------------------
(* Every step of the journal, whatever the adapter answers, preserves the  *)
(* inductive invariant.                                                    *)
LEMMA StepIInv == IInv /\ [Next]_vars => IInv'
<1>. SUFFICES ASSUME IInv, [Next]_vars PROVE IInv'
  OBVIOUS
<1>1. CASE Next
  <2>1. RowStep /\ JobStep
    BY <1>1, RowEffect, JobEffect DEF IInv
  <2>. QED
    BY <1>1, <2>1, TypeStep, AcceptedStep, CallsStep, RightStep, SubmittedStep, OneActionStep,
       BoundStep, ResultStep, ExposureStep DEF IInv
<1>2. CASE UNCHANGED vars
  BY <1>2 DEF vars, IInv, TypeOK, AcceptedUnderRoot, CallsHaveRows, RightToSubmit, HoldsRight,
     SubmittedAtMostOnce, OneActionPerJob, ActionBoundToAcceptedEvidence, ResultIsBound,
     ExposureWithinCap, Exposure, ExposedJobs, HasRow, UnitsDue
<1>. QED
  BY <1>1, <1>2

(* The inductive invariant holds in every reachable state. *)
THEOREM InductiveInvariant == Spec => []IInv
  BY InitIInv, StepIInv, PTL DEF Spec

(* The tables and the calls in progress stay well formed, and a row has a  *)
(* result exactly when its state is terminal.                              *)
THEOREM TypeCorrect == Spec => []TypeOK
<1>1. IInv => TypeOK
  BY DEF IInv
<1>. QED
  BY <1>1, InductiveInvariant, PTL

(* confirmed + reserved + pending + unknown never exceeds the campaign cap. *)
THEOREM ExposureBounded == Spec => []ExposureWithinCap
<1>1. IInv => ExposureWithinCap
  BY DEF IInv
<1>. QED
  BY <1>1, InductiveInvariant, PTL

(* However many processes dispatch, retry, reconcile and die, a request id  *)
(* reaches adapter.submit at most once.                                     *)
THEOREM SubmissionUnique == Spec => []SubmittedAtMostOnce
<1>1. IInv => SubmittedAtMostOnce
  BY DEF IInv
<1>. QED
  BY <1>1, InductiveInvariant, PTL

(* A job never has two actions, whichever request ids compete for it. *)
THEOREM JobSpentOnce == Spec => []OneActionPerJob
<1>1. IInv => OneActionPerJob
  BY DEF IInv
<1>. QED
  BY <1>1, InductiveInvariant, PTL

(* Every action stays bound to the evidence root its job was accepted under. *)
THEOREM EvidenceBinding == Spec => []ActionBoundToAcceptedEvidence
<1>1. IInv => ActionBoundToAcceptedEvidence
  BY DEF IInv
<1>. QED
  BY <1>1, InductiveInvariant, PTL

(* A recorded conclusion is about its own request and grants what the       *)
(* claimed state is worth.                                                  *)
THEOREM ConclusionBound == Spec => []ResultIsBound
<1>1. IInv => ResultIsBound
  BY DEF IInv
<1>. QED
  BY <1>1, InductiveInvariant, PTL

(* No step of any process changes a concluded row: a terminal state is      *)
(* never replaced.                                                          *)
THEOREM ConclusionFinal == Spec => ConcludedStaysConcluded
<1>1. IInv /\ [Next]_vars =>
        [\A id \in Ids : HasRow(id) /\ row[id].state \in Terminal => row'[id] = row[id]]_vars
  BY RowEffect, StateAfter DEF IInv
<1>. QED
  BY <1>1, InductiveInvariant, PTL DEF Spec, ConcludedStaysConcluded

-----------------------------------------------------------------------------
(* The journal implements the promise of BoundedSpend.                     *)

(* A job that has no row is open; otherwise its only row gives its phase. *)
LEMMA PhaseOfRow ==
  ASSUME OneActionPerJob, TypeOK
  PROVE  /\ \A j \in Jobs : ~Used(j) => PhaseOf(j) = "open"
         /\ \A id \in Ids : HasRow(id) =>
              /\ row[id].state = "CONFIRMED" => PhaseOf(row[id].job) = "spent"
              /\ row[id].state \in Open => PhaseOf(row[id].job) = "exposed"
              /\ row[id].state = "FAILED_CONFIRMED" => PhaseOf(row[id].job) = "released"
BY DEF PhaseOf, InState, Used, OneActionPerJob, Open

(* The same in the state after a step. *)
LEMMA PhaseOfRowNext ==
  ASSUME OneActionPerJob', TypeOK'
  PROVE  \A id \in Ids : HasRow(id)' =>
              /\ row'[id].state = "CONFIRMED" => PhaseOf(row[id].job)' = "spent"
              /\ row'[id].state \in Open => PhaseOf(row[id].job)' = "exposed"
              /\ row'[id].state = "FAILED_CONFIRMED" => PhaseOf(row[id].job)' = "released"
BY DEF PhaseOf, InState, OneActionPerJob, Open

(* The jobs that the abstract promise counts are the exposed ones. *)
LEMMA CommittedIsExposed ==
  ASSUME OneActionPerJob, TypeOK
  PROVE  {j \in Jobs : PhaseOf(j) \in {"exposed", "spent"}} = ExposedJobs
<1>1. ASSUME NEW j \in Jobs, PhaseOf(j) \in {"exposed", "spent"} PROVE j \in ExposedJobs
  BY <1>1 DEF PhaseOf, InState, ExposedJobs, HasRow, Open
<1>2. ASSUME NEW id \in Ids, HasRow(id), row[id].state # "FAILED_CONFIRMED"
      PROVE  row[id].job \in Jobs /\ PhaseOf(row[id].job) \in {"exposed", "spent"}
  <2>1. row[id] \in Rows
    BY <1>2 DEF TypeOK, HasRow
  <2>. QED
    BY <1>2, <2>1, PhaseOfRow DEF Rows, Terminal
<1>. QED
  BY <1>1, <1>2 DEF ExposedJobs, HasRow

(* A job's phase changes only when one of its rows does. *)
LEMMA PhaseSame ==
  ASSUME NEW j \in Jobs,
         \A id \in Ids : \/ row'[id] = row[id]
                        \/ /\ HasRow(id) => row[id].job # j
                           /\ HasRow(id)' => row'[id].job # j
  PROVE  PhaseOf(j)' = PhaseOf(j)
<1>1. ASSUME NEW S PROVE InState(j, S)' <=> InState(j, S)
  BY DEF InState, HasRow
<1>. QED
  BY <1>1 DEF PhaseOf, Open

(* A step touches the row of one request id only. *)
LEMMA OneRowChanges ==
  ASSUME TypeOK, RowStep
  PROVE  \A a, b \in Ids : row'[a] # row[a] /\ row'[b] # row[b] => a = b
<1>1. ASSUME NEW q \in Requests, row' = [row EXCEPT ![q.id] = NewRow(q)],
             NEW a \in Ids, a # q.id
      PROVE  row'[a] = row[a]
  BY <1>1 DEF TypeOK, Requests
<1>2. ASSUME NEW id \in Ids, RowMoves(id), NEW a \in Ids, a # id PROVE row'[a] = row[a]
  BY <1>2 DEF RowMoves, Moved, Concluded, TypeOK
<1>. QED
  BY <1>1, <1>2 DEF RowStep

(* A change to the row of id changes the phase of its job only.            *)
LEMMA PhasesAfter ==
  ASSUME TypeOK, OneActionPerJob', RowStep,
         NEW id \in Ids, row'[id] # row[id], HasRow(id)',
         NEW p, PhaseOf(row[id].job)' = p
  PROVE  [j \in Jobs |-> PhaseOf(j)]' = [[j \in Jobs |-> PhaseOf(j)] EXCEPT ![row'[id].job] = p]
<1>1. ASSUME NEW j \in Jobs, j # row'[id].job PROVE PhaseOf(j)' = PhaseOf(j)
  BY <1>1, PhaseSame, OneRowChanges, RowsStay
<1>. QED
  BY <1>1

(* Every step of the journal is a step of BoundedSpend or leaves the phases *)
(* as they are: a new reservation commits, a recorded confirmation spends,  *)
(* a recorded or written failure releases.                                  *)
LEMMA PromiseStep ==
  ASSUME IInv, IInv', RowStep
  PROVE  [Promise!Next]_([j \in Jobs |-> PhaseOf(j)])
<1> DEFINE ph == [j \in Jobs |-> PhaseOf(j)]
<1>0. TypeOK /\ OneActionPerJob /\ TypeOK' /\ OneActionPerJob'
  BY DEF IInv
<1>1. CASE \A id \in Ids : row'[id] = row[id]
  BY <1>1, PhaseSame
<1>2. ASSUME NEW id \in Ids, row'[id] # row[id], ~HasRow(id) PROVE Promise!Next
  <2>1. PICK q \in Requests : q.id = id /\ MayReserve(q) /\ row'[id] = NewRow(q)
    BY <1>0, <1>2, RowAfter
  <2>2. q.job \in Jobs /\ row'[id].job = q.job /\ HasRow(id)'
    BY <1>2, <2>1 DEF Requests, NewRow, HasRow
  <2>3. PhaseOf(row[id].job)' = "exposed"
    BY <1>0, <2>1, <2>2, PhaseOfRowNext DEF NewRow, Open
  <2>4. ph' = [ph EXCEPT ![q.job] = "exposed"]
    BY <1>0, <1>2, <2>2, <2>3, PhasesAfter
  <2>5. ph[q.job] = "open"
    BY <1>0, <2>1, <2>2, PhaseOfRow DEF MayReserve
  <2>6. Promise!Committed = ExposedJobs
    BY <1>0, CommittedIsExposed DEF Promise!Committed
  <2>7. Total(ExposedJobs \cup {q.job}) <= Cap
    <3>1. ExposedJobs \in SUBSET Jobs /\ q.job \notin ExposedJobs
      BY <1>0, <2>1 DEF ExposedJobs, TypeOK, HasRow, Rows, MayReserve, Used
    <3>. QED
      BY <2>1, <2>2, <3>1, TotalAdd DEF MayReserve, Exposure
  <2>. QED
    BY <2>2, <2>4, <2>5, <2>6, <2>7 DEF Promise!Next, Promise!Commit
<1>3. ASSUME NEW id \in Ids, row'[id] # row[id], HasRow(id) PROVE [Promise!Next]_ph
  <2>1. row[id].state \in Open
    BY <1>0, <1>3, StateAfter
  <2>2. row[id] \in Rows /\ HasRow(id)' /\ row'[id].job = row[id].job
    BY <1>0, <1>3, RowsStay DEF TypeOK, HasRow
  <2> DEFINE j == row[id].job
  <2>3. j \in Jobs /\ ph[j] = "exposed"
    BY <1>0, <1>3, <2>1, <2>2, PhaseOfRow DEF Rows
  <2>4. row'[id] \in Rows
    BY <1>0, <2>2 DEF TypeOK, HasRow
  <2>5. \A p : PhaseOf(row[id].job)' = p => ph' = [ph EXCEPT ![j] = p]
    BY <1>0, <1>3, <2>2, PhasesAfter
  <2>6. CASE row'[id].state \in Open
    <3>1. PhaseOf(row[id].job)' = "exposed"
      BY <1>0, <2>2, <2>6, PhaseOfRowNext
    <3>. QED
      BY <2>3, <2>5, <3>1
  <2>7. CASE row'[id].state = "CONFIRMED"
    <3>1. PhaseOf(row[id].job)' = "spent"
      BY <1>0, <2>2, <2>7, PhaseOfRowNext
    <3>. QED
      BY <2>3, <2>5, <3>1 DEF Promise!Next, Promise!Spend
  <2>8. CASE row'[id].state = "FAILED_CONFIRMED"
    <3>1. PhaseOf(row[id].job)' = "released"
      BY <1>0, <2>2, <2>8, PhaseOfRowNext
    <3>. QED
      BY <2>3, <2>5, <3>1 DEF Promise!Next, Promise!Release
  <2>. QED
    BY <2>4, <2>6, <2>7, <2>8 DEF Rows, Terminal
<1>. QED
  BY <1>1, <1>2, <1>3

(* The journal implements its promise to the owner of the campaign: every   *)
(* job is committed at most once, only under the cap, and what concluded    *)
(* never changes, for all interleavings, crashes and adapter answers.       *)
THEOREM JournalKeepsPromise == Spec => ImplementsBoundedSpend
<1>1. Init => Promise!Init
  BY DEF Init, Promise!Init, PhaseOf, InState, HasRow
<1>2. IInv /\ IInv' /\ [Next]_vars => [Promise!Next]_([j \in Jobs |-> PhaseOf(j)])
  <2>1. CASE Next
    BY <2>1, RowEffect, PromiseStep DEF IInv
  <2>2. CASE UNCHANGED vars
    BY <2>2, PhaseSame DEF vars
  <2>. QED
    BY <2>1, <2>2
<1>. QED
  BY <1>1, <1>2, InductiveInvariant, PTL DEF Spec, ImplementsBoundedSpend, Promise!Spec
=============================================================================
