--------------------------- MODULE JobQueueProofs ---------------------------
(***************************************************************************)
(* Theorems about the job queue, for any number of jobs, workers, retries, *)
(* crashes and lease expiries.                                             *)
(***************************************************************************)
EXTENDS JobQueue, FiniteSetTheorems, TLAPS

(* A worker that executes an attempt works on a job that exists. *)
WorkersHaveJobs == \A w \in Workers : doing[w] # Idle => Exists(doing[w].job)

IInv == TypeOK /\ WorkersHaveJobs /\ PublishedOnce

(* A row is well formed on its own: it has an owner exactly while it runs. *)
RowOK(r) == r \in JobRows /\ (r.owner # Nobody <=> r.state = "running")

(* What a step makes of one job's row. *)
Unpublished(j) ==
  \/ ~Exists(j) /\ \E k \in Contracts : job'[j] = NewJob(k)
  \/ /\ Exists(j) /\ job[j].state \in Live
     /\ \/ job'[j] = Cancelled(job[j])
        \/ /\ job[j].cancel => job[j].state = "running"
           /\ \E w \in Workers : job'[j] = Leased(job[j], w)
  \/ /\ Exists(j) /\ job[j].state = "running"
     /\ \/ job'[j] = [job[j] EXCEPT !.expired = TRUE]
        \/ \E result \in Errors : job'[j] = Outcome(job[j], result)

(* A successful publication by worker w. *)
Published(j, w) ==
  /\ doing[w] \in Doings /\ doing[w].job = j
  /\ Exists(j) /\ job[j].state = "running" /\ job[j].owner = w
  /\ job[j].generation = doing[w].generation
  /\ job'[j] = Outcome(job[j], "ok")
  /\ evidence' = [evidence EXCEPT ![j] = @ \cup {<<doing[w].generation, w>>}]

(* Every outcome of an execution is a well-formed row of the same           *)
(* generation; it succeeds only for a result, and releases the lease.       *)
LEMMA OutcomeRow ==
  ASSUME NEW r \in JobRows, NEW result \in Errors \cup {"ok"}
  PROVE  /\ RowOK(Outcome(r, result))
         /\ Outcome(r, result).generation = r.generation
         /\ Outcome(r, result).state = "succeeded" <=> result = "ok"
<1>1. ASSUME NEW s \in Ended
      PROVE  RowOK(EndedAs(r, s)) /\ EndedAs(r, s).generation = r.generation /\ EndedAs(r, s).state = s
  BY <1>1 DEF RowOK, EndedAs, JobRows, Live, Ended
<1>2. ASSUME r.retries > 0
      PROVE  RowOK(Retried(r)) /\ Retried(r).generation = r.generation /\ Retried(r).state # "succeeded"
  <2>1. r.retries - 1 \in Nat
    BY <1>2 DEF JobRows
  <2>2. \A n \in Nat : LET q == [r EXCEPT !.state = "queued", !.owner = Nobody, !.expired = FALSE,
                                         !.retries = n]
                       IN  RowOK(q) /\ q.generation = r.generation /\ q.state # "succeeded"
    BY DEF RowOK, JobRows, Live, Ended
  <2>. QED
    BY <2>1, <2>2 DEF Retried
<1>3. CASE result = "ok"
  BY <1>1, <1>3 DEF Outcome, Ended
<1>4. CASE result # "ok" /\ result \in Retryable /\ r.retries > 0
  BY <1>2, <1>4 DEF Outcome
<1>5. CASE result # "ok" /\ ~(result \in Retryable /\ r.retries > 0)
  <2>1. PICK s \in {"cancelled", "failed"} : Outcome(r, result) = EndedAs(r, s)
    BY <1>5 DEF Outcome
  <2>. QED
    BY <1>1, <1>5, <2>1 DEF Ended
<1>. QED
  BY <1>3, <1>4, <1>5

(* A row that a step leaves unpublished is well formed, not succeeded, and  *)
(* came from a job that had no result.                                      *)
LEMMA UnpublishedRow ==
  ASSUME NEW j \in Jobs, Exists(j) => RowOK(job[j]), Unpublished(j)
  PROVE  /\ RowOK(job'[j])
         /\ job'[j].state # "succeeded"
         /\ ~(Exists(j) /\ job[j].state \in Ended)
<1>1. ASSUME NEW k \in Contracts PROVE RowOK(NewJob(k)) /\ NewJob(k).state # "succeeded"
  BY RetriesAssumption DEF RowOK, NewJob, JobRows, Live
<1>2. ASSUME Exists(j), job[j].state \in Live
      PROVE  RowOK(Cancelled(job[j])) /\ Cancelled(job[j]).state # "succeeded"
  BY <1>2 DEF RowOK, Cancelled, JobRows, Live, Ended
<1>3. ASSUME Exists(j), job[j].state \in Live, NEW w \in Workers
      PROVE  RowOK(Leased(job[j], w)) /\ Leased(job[j], w).state # "succeeded"
  <2>1. job[j] \in JobRows /\ job[j].generation + 1 \in Nat
    BY <1>3 DEF RowOK, JobRows
  <2>2. \A n \in Nat : LET q == [job[j] EXCEPT !.state = "running", !.owner = w, !.expired = FALSE,
                                              !.generation = n]
                       IN  RowOK(q) /\ q.state # "succeeded"
    BY <2>1, NobodyAssumption DEF RowOK, JobRows, Live, Ended
  <2>. QED
    BY <2>1, <2>2 DEF Leased
<1>4. ASSUME Exists(j), job[j].state = "running"
      PROVE  RowOK([job[j] EXCEPT !.expired = TRUE])
             /\ [job[j] EXCEPT !.expired = TRUE].state # "succeeded"
  BY <1>4 DEF RowOK, JobRows
<1>5. ASSUME Exists(j), NEW result \in Errors
      PROVE  RowOK(Outcome(job[j], result)) /\ Outcome(job[j], result).state # "succeeded"
  BY <1>5, OutcomeRow DEF RowOK, Errors, Retryable
<1>. QED
  BY <1>1, <1>2, <1>3, <1>4, <1>5 DEF Unpublished, Live, Ended

(* A job that a worker may claim is queued or running, and running if its   *)
(* cancellation was requested.                                              *)
LEMMA CandidateLive ==
  ASSUME NEW j \in Candidates
  PROVE  /\ j \in Jobs /\ Exists(j) /\ job[j].state \in Live
         /\ job[j].cancel => job[j].state = "running"
BY DEF Candidates, Fairest, Claimable, Abandoned, InState, Live

(* Every step leaves a job's row and evidence alone, changes the row        *)
(* without publishing, or publishes from the current lease.                 *)
LEMMA JobEffect ==
  ASSUME TypeOK, WorkersHaveJobs, Next, NEW j \in Jobs
  PROVE  \/ job'[j] = job[j] /\ evidence'[j] = evidence[j]
         \/ Unpublished(j) /\ evidence'[j] = evidence[j]
         \/ \E w \in Workers : Published(j, w)
<1> DEFINE Goal == \/ job'[j] = job[j] /\ evidence'[j] = evidence[j]
                   \/ Unpublished(j) /\ evidence'[j] = evidence[j]
                   \/ \E w \in Workers : Published(j, w)
<1>1. ASSUME NEW i \in Jobs, NEW k \in Contracts, Submit(i, k) PROVE Goal
  BY <1>1 DEF Submit, Unpublished, TypeOK
<1>2. ASSUME NEW s, NEW item, SubmitBatch(s, item), \A i \in DOMAIN item : item[i] \in Contracts
      PROVE  Goal
  BY <1>2 DEF SubmitBatch, Unpublished
<1>3. ASSUME NEW i \in Jobs, Cancel(i) PROVE Goal
  BY <1>3 DEF Cancel, Cancellable, Unpublished, TypeOK
<1>4. ASSUME NEW w \in Workers, NEW i \in Jobs, Claim(w, i) PROVE Goal
  BY <1>4, CandidateLive DEF Claim, Unpublished, TypeOK
<1>5. ASSUME NEW w \in Workers, Publish(w) PROVE Goal
  <2>1. doing[w] \in Doings /\ doing[w].result \in Errors \cup {"ok"} /\ doing[w].job \in Jobs
        /\ Exists(doing[w].job)
    BY <1>5 DEF Publish, TypeOK, Doings, Idle, WorkersHaveJobs
  <2>2. CASE j # doing[w].job
    BY <1>5, <2>1, <2>2 DEF Publish, TypeOK
  <2>3. CASE j = doing[w].job /\ doing[w].result = "ok"
    BY <1>5, <2>1, <2>3 DEF Publish, Fence, Published, TypeOK
  <2>4. CASE j = doing[w].job /\ doing[w].result # "ok"
    BY <1>5, <2>1, <2>4 DEF Publish, Fence, Unpublished, TypeOK
  <2>. QED
    BY <2>2, <2>3, <2>4
<1>6. ASSUME NEW i \in Jobs, Expire(i) PROVE Goal
  BY <1>6 DEF Expire, Unpublished, TypeOK
<1>7. ASSUME UNCHANGED <<job, evidence>> PROVE Goal
  BY <1>7
<1>8. ASSUME NEW w \in Workers,
             SetDraining(w) \/ SetActive(w) \/ Execute(w) \/ FencedOut(w) \/ Crash(w)
      PROVE  UNCHANGED <<job, evidence>>
  BY <1>8 DEF SetDraining, SetActive, Execute, ExecuteStopped, ExecuteAnswered, Ends, FencedOut, Crash
<1>. HIDE DEF Goal
<1>9. ASSUME Operators PROVE Goal
  <2>1. CASE \E i \in Jobs, k \in Contracts : Submit(i, k)
    BY <1>1, <2>1
  <2>2. CASE \E a, b \in Jobs, k, l \in Contracts :
               a # b /\ SubmitBatch(SubmitterOf[k], [i \in {a, b} |-> IF i = a THEN k ELSE l])
    <3>1. PICK a \in Jobs, b \in Jobs, k \in Contracts, l \in Contracts :
                 a # b /\ SubmitBatch(SubmitterOf[k], [i \in {a, b} |-> IF i = a THEN k ELSE l])
      BY <2>2
    <3> DEFINE item == [i \in {a, b} |-> IF i = a THEN k ELSE l]
    <3>2. \A i \in DOMAIN item : item[i] \in Contracts
      OBVIOUS
    <3>3. SubmitBatch(SubmitterOf[k], item)
      BY <3>1
    <3>. HIDE DEF item
    <3>. QED
      BY <1>2, <3>2, <3>3
  <2>3. CASE \E i \in Jobs : Cancel(i)
    BY <1>3, <2>3
  <2>4. CASE \E w \in Workers : SetDraining(w) \/ SetActive(w)
    BY <1>7, <1>8, <2>4
  <2>. QED
    BY <1>9, <2>1, <2>2, <2>3, <2>4 DEF Operators
<1>10. ASSUME \E w \in Workers : \/ \E i \in Jobs : Claim(w, i)
                                \/ Execute(w) \/ Finish(w) \/ Crash(w)
       PROVE  Goal
  BY <1>4, <1>5, <1>7, <1>8, <1>10 DEF Finish
<1>11. ASSUME \E i \in Jobs : Expire(i) PROVE Goal
  BY <1>6, <1>11
<1>12. Goal
  BY <1>9, <1>10, <1>11 DEF Next
<1>. QED
  BY <1>12 DEF Goal

-----------------------------------------------------------------------------
(* The actions of one worker, and what the other actions do to the tables   *)
(* besides jobs: attempts, draining, doing and crashes.                     *)
WorkerStep(w) ==
  \/ SetDraining(w) \/ SetActive(w) \/ Execute(w) \/ Publish(w) \/ FencedOut(w) \/ Crash(w)
  \/ \E i \in Jobs : Claim(w, i)

OtherStep ==
  /\ UNCHANGED <<attempts, evidence, draining, doing, crashes>>
  /\ \/ \E i \in Jobs : job' = [job EXCEPT ![i] = job'[i]]
     \/ \E item : job' = [i \in Jobs |-> IF i \in DOMAIN item THEN NewJob(item[i]) ELSE job[i]]

(* Next falls into these two kinds of step. *)
LEMMA StepKinds ==
  ASSUME TypeOK, Next
  PROVE  OtherStep \/ \E w \in Workers : WorkerStep(w)
<1>1. ASSUME NEW i \in Jobs, NEW k \in Contracts, Submit(i, k) PROVE OtherStep
  BY <1>1 DEF Submit, OtherStep, TypeOK
<1>2. ASSUME NEW s, NEW item, SubmitBatch(s, item) PROVE OtherStep
  BY <1>2 DEF SubmitBatch, OtherStep
<1>3. ASSUME NEW i \in Jobs, Cancel(i) PROVE OtherStep
  BY <1>3 DEF Cancel, OtherStep, TypeOK
<1>4. ASSUME NEW i \in Jobs, Expire(i) PROVE OtherStep
  BY <1>4 DEF Expire, OtherStep, TypeOK
<1>5. ASSUME Operators PROVE OtherStep \/ \E w \in Workers : WorkerStep(w)
  <2>1. CASE \E i \in Jobs, k \in Contracts : Submit(i, k)
    BY <1>1, <2>1
  <2>2. CASE \E a, b \in Jobs, k, l \in Contracts :
               a # b /\ SubmitBatch(SubmitterOf[k], [i \in {a, b} |-> IF i = a THEN k ELSE l])
    <3>1. PICK s, item : SubmitBatch(s, item)
      BY <2>2
    <3>. QED
      BY <1>2, <3>1
  <2>3. CASE \E i \in Jobs : Cancel(i)
    BY <1>3, <2>3
  <2>4. CASE \E w \in Workers : SetDraining(w) \/ SetActive(w)
    BY <2>4 DEF WorkerStep
  <2>. QED
    BY <1>5, <2>1, <2>2, <2>3, <2>4 DEF Operators
<1>6. ASSUME NEW w \in Workers, (\E i \in Jobs : Claim(w, i)) \/ Execute(w) \/ Finish(w) \/ Crash(w)
      PROVE  WorkerStep(w)
  BY <1>6 DEF WorkerStep, Finish
<1>. QED
  BY <1>4, <1>5, <1>6 DEF Next

(* The attempt rows stay well formed when one records its outcome. *)
LEMMA RecordedType ==
  ASSUME TypeOK, NEW j, NEW g, NEW result \in Errors \cup {"ok"}
  PROVE  Recorded(j, g, result) \subseteq
           [job : Jobs, generation : Nat, worker : Workers, outcome : Errors \cup {"ok", "none"}]
<1> DEFINE Attempts == [job : Jobs, generation : Nat, worker : Workers,
                        outcome : Errors \cup {"ok", "none"}]
<1>1. ASSUME NEW a \in attempts PROVE a \in Attempts /\ [a EXCEPT !.outcome = result] \in Attempts
  BY <1>1 DEF TypeOK
<1>. QED
  BY <1>1 DEF Recorded

(* The rest of the state keeps its type over a worker's step, and a worker  *)
(* that executes works on a job that exists.                                *)
LEMMA WorkerTypes ==
  ASSUME TypeOK, WorkersHaveJobs, NEW w \in Workers, WorkerStep(w)
  PROVE  /\ attempts' \subseteq [job : Jobs, generation : Nat, worker : Workers,
                                  outcome : Errors \cup {"ok", "none"}]
         /\ evidence' \in [Jobs -> SUBSET (Nat \X Workers)]
         /\ draining' \subseteq Workers
         /\ doing' \in [Workers -> Doings]
         /\ crashes' \in Nat
         /\ DOMAIN job' = Jobs /\ job' = [i \in Jobs |-> job'[i]]
         /\ \A v \in Workers : doing'[v] # Idle => doing'[v].job \in Jobs /\ Exists(doing'[v].job)
<1>1. ASSUME NEW v \in Workers, doing[v] # Idle
      PROVE  doing[v].job \in Jobs /\ doing[v].generation \in Nat /\ Exists(doing[v].job)
  BY <1>1 DEF TypeOK, Doings, WorkersHaveJobs
<1>2. CASE SetDraining(w) \/ SetActive(w)
  BY <1>1, <1>2 DEF SetDraining, SetActive, TypeOK
<1>3. CASE Execute(w)
  <2>1. PICK e \in Errors \cup {"ok"} : Ends(w, e)
    BY <1>3 DEF Execute, ExecuteStopped, ExecuteAnswered, Errors, Retryable
  <2>2. doing[w] # Idle
    BY <1>3 DEF Execute, ExecuteStopped, ExecuteAnswered, Idle
  <2>3. [at |-> "finishing", job |-> doing[w].job, generation |-> doing[w].generation,
         result |-> e] \in Doings
    BY <1>1, <2>2 DEF Doings
  <2>. QED
    BY <1>1, <2>1, <2>2, <2>3 DEF Ends, TypeOK
<1>4. CASE Publish(w)
  <2>1. doing[w] # Idle /\ doing[w].result \in Errors \cup {"ok"}
    BY <1>4 DEF Publish, TypeOK, Doings, Idle
  <2>2. attempts' \subseteq [job : Jobs, generation : Nat, worker : Workers,
                             outcome : Errors \cup {"ok", "none"}]
    BY <1>4, <2>1, RecordedType DEF Publish
  <2>3. evidence' \in [Jobs -> SUBSET (Nat \X Workers)]
    BY <1>1, <1>4, <2>1 DEF Publish, TypeOK
  <2>4. doing' \in [Workers -> Doings] /\ draining' \subseteq Workers /\ crashes' \in Nat
    BY <1>4 DEF Publish, TypeOK, Doings
  <2>5. DOMAIN job' = Jobs /\ job' = [i \in Jobs |-> job'[i]]
    BY <1>4 DEF Publish, TypeOK
  <2>6. \A v \in Workers : doing'[v] # Idle => doing'[v] = doing[v]
    BY <1>4 DEF Publish, TypeOK
  <2>. QED
    BY <1>1, <2>2, <2>3, <2>4, <2>5, <2>6
<1>5. CASE FencedOut(w)
  BY <1>1, <1>5 DEF FencedOut, TypeOK, Doings
<1>6. CASE Crash(w)
  BY <1>1, <1>6 DEF Crash, TypeOK, Doings
<1>7. CASE \E i \in Jobs : Claim(w, i)
  <2>1. PICK i \in Jobs : Claim(w, i)
    BY <1>7
  <2>2. i \in Jobs /\ Exists(i) /\ job[i] \in JobRows
    BY <2>1, CandidateLive DEF Claim, TypeOK, Exists
  <2>3. job'[i].generation \in Nat
    <3>1. job'[i] = Leased(job[i], w)
      BY <2>1 DEF Claim, TypeOK
    <3>2. job[i].generation + 1 \in Nat /\ Leased(job[i], w).generation = job[i].generation + 1
      BY <2>2 DEF Leased, JobRows
    <3>. QED
      BY <3>1, <3>2
  <2>4. [at |-> "executing", job |-> i, generation |-> job'[i].generation] \in Doings
    BY <2>3 DEF Doings
  <2>5. doing' \in [Workers -> Doings]
    BY <2>1, <2>4 DEF Claim, TypeOK
  <2>6. attempts' \subseteq [job : Jobs, generation : Nat, worker : Workers,
                             outcome : Errors \cup {"ok", "none"}]
    BY <2>1, <2>3 DEF Claim, TypeOK
  <2>7. \A v \in Workers : doing'[v] # Idle => doing'[v].job \in Jobs /\ Exists(doing'[v].job)
    BY <1>1, <2>1, <2>2 DEF Claim, TypeOK
  <2>. QED
    BY <2>1, <2>5, <2>6, <2>7 DEF Claim, TypeOK
<1>. QED
  BY <1>2, <1>3, <1>4, <1>5, <1>6, <1>7 DEF WorkerStep

-----------------------------------------------------------------------------
(* What every step does to one job, and to the other tables, put together:  *)
(* the types are kept and a worker's job goes on existing.                  *)
LEMMA TypesKept ==
  ASSUME TypeOK, WorkersHaveJobs, Next
  PROVE  TypeOK' /\ WorkersHaveJobs'
<1>1. /\ attempts' \subseteq [job : Jobs, generation : Nat, worker : Workers,
                              outcome : Errors \cup {"ok", "none"}]
      /\ evidence' \in [Jobs -> SUBSET (Nat \X Workers)]
      /\ draining' \subseteq Workers
      /\ doing' \in [Workers -> Doings]
      /\ crashes' \in Nat
      /\ job' = [i \in Jobs |-> job'[i]]
      /\ \A v \in Workers : doing'[v] # Idle => doing'[v].job \in Jobs /\ Exists(doing'[v].job)
  <2>1. CASE OtherStep
    BY <2>1 DEF OtherStep, TypeOK, WorkersHaveJobs, Doings
  <2>2. CASE \E w \in Workers : WorkerStep(w)
    BY <2>2, WorkerTypes
  <2>. QED
    BY <2>1, <2>2, StepKinds
<1>2. ASSUME NEW j \in Jobs
      PROVE  /\ job'[j] \in JobRows \cup {Absent}
             /\ job'[j] # Absent => RowOK(job'[j])
             /\ Exists(j) => job'[j] # Absent
  <2>1. Exists(j) => RowOK(job[j])
    BY DEF TypeOK, RowOK, Exists
  <2>2. CASE job'[j] = job[j]
    BY <2>1, <2>2 DEF TypeOK, Exists
  <2>3. CASE Unpublished(j)
    BY <2>1, <2>3, UnpublishedRow, AbsentAssumption DEF RowOK
  <2>4. CASE \E w \in Workers : Published(j, w)
    BY <2>1, <2>4, OutcomeRow, AbsentAssumption DEF Published, RowOK
  <2>. QED
    BY <2>2, <2>3, <2>4, JobEffect
<1>3. TypeOK'
  BY <1>1, <1>2 DEF TypeOK, RowOK, Exists
<1>4. WorkersHaveJobs'
  BY <1>1, <1>2 DEF WorkersHaveJobs, Exists
<1>. QED
  BY <1>3, <1>4

(* Only the attempt of the last claim publishes, and only once. *)
LEMMA PublicationsKept ==
  ASSUME TypeOK, WorkersHaveJobs, PublishedOnce, Next
  PROVE  PublishedOnce'
<1>. SUFFICES ASSUME NEW j \in Jobs
              PROVE  /\ evidence'[j] # {} <=> (job'[j] # Absent /\ job'[j].state = "succeeded")
                     /\ \A p \in evidence'[j] : p[1] = job'[j].generation
                     /\ \A p, q \in evidence'[j] : p = q
  BY DEF PublishedOnce, Exists
<1>1. Exists(j) => RowOK(job[j])
  BY DEF TypeOK, RowOK, Exists
<1>2. /\ evidence[j] # {} <=> (Exists(j) /\ job[j].state = "succeeded")
      /\ \A p \in evidence[j] : p[1] = job[j].generation
      /\ \A p, q \in evidence[j] : p = q
  BY DEF PublishedOnce
<1>3. CASE job'[j] = job[j] /\ evidence'[j] = evidence[j]
  BY <1>2, <1>3 DEF Exists
<1>4. CASE Unpublished(j) /\ evidence'[j] = evidence[j]
  <2>1. evidence[j] = {}
    BY <1>1, <1>2, <1>4, UnpublishedRow DEF Ended
  <2>. QED
    BY <1>1, <1>4, <2>1, UnpublishedRow
<1>5. CASE \E w \in Workers : Published(j, w)
  <2>1. PICK w \in Workers : Published(j, w)
    BY <1>5
  <2>2. evidence[j] = {} /\ evidence'[j] = {<<doing[w].generation, w>>}
    BY <1>2, <2>1 DEF Published, TypeOK
  <2>3. /\ job'[j] # Absent /\ job'[j].state = "succeeded"
        /\ job'[j].generation = doing[w].generation
    BY <1>1, <2>1, OutcomeRow, AbsentAssumption DEF Published, RowOK
  <2>. QED
    BY <2>2, <2>3
<1>. QED
  BY <1>3, <1>4, <1>5, JobEffect

(* The inductive invariant: the types, that a worker's job exists, and what *)
(* the evidence table says of the jobs table.                               *)
THEOREM QueueInvariant == Spec => []IInv
<1>1. Init => IInv
  BY DEF Init, IInv, TypeOK, WorkersHaveJobs, PublishedOnce, Exists, Doings, Idle
<1>2. IInv /\ [Next]_vars => IInv'
  <2>. SUFFICES ASSUME IInv, [Next]_vars PROVE IInv'
    OBVIOUS
  <2>1. CASE Next
    BY <2>1, TypesKept, PublicationsKept DEF IInv
  <2>2. CASE UNCHANGED vars
    BY <2>2 DEF vars, IInv, TypeOK, WorkersHaveJobs, PublishedOnce, Exists, Doings, Idle
  <2>. QED
    BY <2>1, <2>2
<1>. QED
  BY <1>1, <1>2, PTL DEF Spec

(* Whatever the interleaving of claims, cancellations, crashes and expired  *)
(* leases, the tables stay well formed: a job has an owner exactly while it *)
(* runs.                                                                    *)
THEOREM QueueTypeCorrect == Spec => []TypeOK
BY QueueInvariant, PTL DEF IInv

(* The fence of _finish_in suffices: of all the attempts that execute a job,*)
(* one publishes evidence, that of the last claim, and exactly when the job *)
(* succeeds.                                                                *)
THEOREM StaleWorkerCannotPublish == Spec => []PublishedOnce
BY QueueInvariant, PTL DEF IInv

(* No claim, cancellation, publication or expiry ever changes a job that    *)
(* succeeded, failed or was cancelled.                                      *)
THEOREM EndedIsFinal == Spec => EndedStaysEnded
<1>1. IInv /\ [Next]_vars =>
        [\A j \in Jobs : Exists(j) /\ job[j].state \in Ended => job'[j] = job[j]]_vars
  <2>. SUFFICES ASSUME IInv, Next, NEW j \in Jobs, Exists(j), job[j].state \in Ended
                PROVE  job'[j] = job[j]
    BY DEF vars
  <2>1. RowOK(job[j])
    BY DEF IInv, TypeOK, RowOK, Exists
  <2>2. ~Unpublished(j)
    BY <2>1, UnpublishedRow
  <2>3. \A w \in Workers : ~Published(j, w)
    BY DEF Published, Ended
  <2>. QED
    BY <2>2, <2>3, JobEffect DEF IInv
<1>. QED
  BY <1>1, QueueInvariant, PTL DEF Spec, EndedStaysEnded
-----------------------------------------------------------------------------
(* Admission: the bounds of the queue and the exclusion of two live jobs of *)
(* one contract.  Only submissions add live jobs, and they look for room    *)
(* and for live jobs first; a retry only queues again what was live.        *)
AdmissionInv == TypeOK /\ WorkersHaveJobs /\ QueueBounded /\ OneLiveJobPerContract

(* No outcome of an execution moves a job to another contract. *)
LEMMA OutcomeContract ==
  ASSUME NEW r \in JobRows, NEW result
  PROVE  Outcome(r, result).contract = r.contract
<1>1. \A s : EndedAs(r, s).contract = r.contract
  BY DEF EndedAs, JobRows
<1>2. Retried(r).contract = r.contract
  BY DEF Retried, JobRows
<1>. QED
  BY <1>1, <1>2 DEF Outcome

(* A job that lives on lived before, for the same contract. *)
LEMMA LivesOn ==
  ASSUME TypeOK, WorkersHaveJobs, Next, NEW j \in Jobs, Exists(j), job'[j].state \in Live
  PROVE  job[j].state \in Live /\ job'[j].contract = job[j].contract
<1>0. job[j] \in JobRows
  BY DEF TypeOK, Exists
<1>1. CASE job'[j] = job[j]
  BY <1>1
<1>2. CASE Unpublished(j)
  <2>1. CASE job[j].state \in Live /\ job'[j] = Cancelled(job[j])
    BY <1>0, <2>1 DEF Cancelled, JobRows
  <2>2. CASE job[j].state \in Live /\ \E w \in Workers : job'[j] = Leased(job[j], w)
    BY <1>0, <2>2 DEF Leased, JobRows
  <2>3. CASE job[j].state = "running" /\ job'[j] = [job[j] EXCEPT !.expired = TRUE]
    BY <1>0, <2>3 DEF JobRows, Live
  <2>4. CASE job[j].state = "running" /\ \E result \in Errors : job'[j] = Outcome(job[j], result)
    BY <1>0, <2>4, OutcomeContract DEF Live
  <2>. QED
    BY <1>2, <2>1, <2>2, <2>3, <2>4 DEF Unpublished
<1>3. CASE \E w \in Workers : Published(j, w)
  BY <1>0, <1>3, OutcomeContract DEF Published, Live
<1>. QED
  BY <1>1, <1>2, <1>3, JobEffect

(* A submission of jobs N of one principal: there is room for all of them,  *)
(* and none is for a contract with a live job or for that of another in N.  *)
Admits(s, N) ==
  /\ N \subseteq Jobs /\ IsFiniteSet(N)
  /\ RoomFor(s, Cardinality(N))
  /\ \A j \in N : /\ ~Exists(j)
                  /\ \E k \in Contracts : /\ job'[j] = NewJob(k)
                                          /\ SubmitterOf[k] = s /\ ~ContractBusy(k)
  /\ \A i, j \in N : job'[i].contract = job'[j].contract => i = j
  /\ \A j \in Jobs \ N : ~Exists(j) => job'[j] = job[j]

NoneAdmitted == \A j \in Jobs : ~Exists(j) => job'[j] = job[j]

(* jobs.submit and jobs.submit_batch are submissions in this sense. *)
LEMMA SubmitAdmits ==
  ASSUME TypeOK, NEW j \in Jobs, NEW k \in Contracts, Submit(j, k)
  PROVE  Admits(SubmitterOf[k], {j})
<1>1. IsFiniteSet({j}) /\ Cardinality({j}) = 1
  BY FS_Singleton
<1>2. job'[j] = NewJob(k) /\ \A i \in Jobs \ {j} : job'[i] = job[i]
  BY DEF Submit, TypeOK
<1>. QED
  BY <1>1, <1>2 DEF Submit, Admits

LEMMA BatchAdmits ==
  ASSUME TypeOK, NEW s, NEW item, SubmitBatch(s, item), IsFiniteSet(DOMAIN item),
         DOMAIN item \subseteq Jobs, \A j \in DOMAIN item : item[j] \in Contracts
  PROVE  Admits(s, DOMAIN item)
<1>1. \A j \in DOMAIN item : job'[j] = NewJob(item[j]) /\ job'[j].contract = item[j]
  BY DEF SubmitBatch, NewJob
<1>2. \A j \in Jobs \ DOMAIN item : job'[j] = job[j]
  BY DEF SubmitBatch
<1>3. \A j \in DOMAIN item : ~Exists(j) /\ SubmitterOf[item[j]] = s /\ ~ContractBusy(item[j])
  BY DEF SubmitBatch, ContractBusy
<1>4. \A i, j \in DOMAIN item : job'[i].contract = job'[j].contract => i = j
  BY <1>1 DEF SubmitBatch
<1>5. RoomFor(s, Cardinality(DOMAIN item))
  BY DEF SubmitBatch
<1>. QED
  BY <1>1, <1>2, <1>3, <1>4, <1>5 DEF Admits

(* Every step that adds jobs is such a submission. *)
LEMMA Newcomers ==
  ASSUME TypeOK, WorkersHaveJobs, Next
  PROVE  NoneAdmitted \/ \E s, N : Admits(s, N)
<1>1. ASSUME NEW i \in Jobs, Cancel(i) \/ Expire(i) PROVE NoneAdmitted
  BY <1>1 DEF Cancel, Expire, TypeOK, NoneAdmitted
<1>2. ASSUME NEW w \in Workers, WorkerStep(w) PROVE NoneAdmitted
  <2>1. ASSUME NEW i \in Jobs, Claim(w, i) PROVE NoneAdmitted
    BY <2>1, CandidateLive DEF Claim, TypeOK, NoneAdmitted
  <2>2. ASSUME Publish(w) PROVE NoneAdmitted
    <3>1. Exists(doing[w].job)
      BY <2>2 DEF Publish, Idle, WorkersHaveJobs
    <3>2. \A j \in Jobs : j # doing[w].job => job'[j] = job[j]
      BY <2>2 DEF Publish, TypeOK
    <3>. QED
      BY <3>1, <3>2 DEF NoneAdmitted
  <2>3. ASSUME UNCHANGED job PROVE NoneAdmitted
    BY <2>3 DEF NoneAdmitted
  <2>. QED
    BY <1>2, <2>1, <2>2, <2>3 DEF WorkerStep, SetDraining, SetActive, Execute, ExecuteStopped,
       ExecuteAnswered, Ends, FencedOut, Crash
<1>3. ASSUME NEW a \in Jobs, NEW b \in Jobs, NEW k \in Contracts, NEW l \in Contracts,
             SubmitBatch(SubmitterOf[k], [i \in {a, b} |-> IF i = a THEN k ELSE l])
      PROVE  \E s, N : Admits(s, N)
  <2> DEFINE item == [i \in {a, b} |-> IF i = a THEN k ELSE l]
  <2>1. IsFiniteSet({a} \cup {b})
    BY FS_Singleton, FS_Union
  <2>2. {a, b} = {a} \cup {b}
    OBVIOUS
  <2>3. IsFiniteSet({a, b})
    BY <2>1, <2>2
  <2>4. DOMAIN item = {a, b} /\ \A i \in DOMAIN item : item[i] \in Contracts
    OBVIOUS
  <2>5. SubmitBatch(SubmitterOf[k], item)
    BY <1>3
  <2>. HIDE DEF item
  <2>6. IsFiniteSet(DOMAIN item) /\ DOMAIN item \subseteq Jobs
    BY <2>3, <2>4
  <2>7. Admits(SubmitterOf[k], DOMAIN item)
    BY <2>4, <2>5, <2>6, BatchAdmits
  <2>. QED
    BY <2>7
<1>4. ASSUME Operators PROVE NoneAdmitted \/ \E s, N : Admits(s, N)
  <2>1. CASE \E i \in Jobs, k \in Contracts : Submit(i, k)
    BY <2>1, SubmitAdmits
  <2>2. CASE \E a, b \in Jobs, k, l \in Contracts :
               a # b /\ SubmitBatch(SubmitterOf[k], [i \in {a, b} |-> IF i = a THEN k ELSE l])
    BY <1>3, <2>2
  <2>3. CASE \E i \in Jobs : Cancel(i)
    BY <1>1, <2>3
  <2>4. CASE \E w \in Workers : SetDraining(w) \/ SetActive(w)
    BY <1>2, <2>4 DEF WorkerStep
  <2>. QED
    BY <1>4, <2>1, <2>2, <2>3, <2>4 DEF Operators
<1>5. ASSUME NEW w \in Workers, (\E i \in Jobs : Claim(w, i)) \/ Execute(w) \/ Finish(w) \/ Crash(w)
      PROVE  WorkerStep(w)
  BY <1>5 DEF WorkerStep, Finish
<1>. QED
  BY <1>1, <1>2, <1>4, <1>5 DEF Next

(* A set covered by two finite ones has no more elements than both have. *)
LEMMA CoveredCardinality ==
  ASSUME NEW S, NEW N, NEW T, IsFiniteSet(S), IsFiniteSet(N), T \subseteq S \cup N
  PROVE  IsFiniteSet(T) /\ Cardinality(T) <= Cardinality(S) + Cardinality(N)
<1>1. /\ IsFiniteSet(S \cup N)
      /\ Cardinality(S \cup N) = Cardinality(S) + Cardinality(N) - Cardinality(S \cap N)
  BY FS_Union
<1>2. IsFiniteSet(S \cap N)
  BY FS_Intersection
<1>3. IsFiniteSet(T) /\ Cardinality(T) <= Cardinality(S \cup N)
  BY <1>1, FS_Subset
<1>4. /\ Cardinality(S) \in Nat /\ Cardinality(N) \in Nat /\ Cardinality(T) \in Nat
      /\ Cardinality(S \cap N) \in Nat
  BY <1>2, <1>3, FS_CardinalityType
<1>. QED
  BY <1>1, <1>3, <1>4

(* The live jobs after a step that admits none, and after a submission. *)
LEMMA LiveAfter ==
  ASSUME TypeOK, WorkersHaveJobs, Next, NEW j \in InState(Live)'
  PROVE  \/ j \in InState(Live) /\ job'[j].contract = job[j].contract
         \/ j \in Jobs /\ ~Exists(j) /\ job'[j] # job[j]
<1>1. j \in Jobs /\ job'[j] # Absent /\ job'[j].state \in Live
  BY DEF InState, Exists
<1>2. CASE Exists(j)
  BY <1>1, <1>2, LivesOn DEF InState
<1>3. CASE ~Exists(j)
  BY <1>1, <1>3 DEF Exists
<1>. QED
  BY <1>2, <1>3

(* A submission adds its jobs to the live ones of the submitter and of no   *)
(* one else.                                                                *)
LEMMA LiveCovered ==
  ASSUME TypeOK, WorkersHaveJobs, Next, NEW s, NEW N, Admits(s, N)
  PROVE  /\ InState(Live)' \subseteq InState(Live) \cup N
         /\ LiveOf(s)' \subseteq LiveOf(s) \cup N
         /\ \A t : t # s => LiveOf(t)' \subseteq LiveOf(t)
<1>1. ASSUME NEW j \in N PROVE ~Exists(j) /\ SubmitterOf[job'[j].contract] = s
  <2>1. ~Exists(j) /\ \E k \in Contracts : job'[j] = NewJob(k) /\ SubmitterOf[k] = s
    BY <1>1 DEF Admits
  <2>2. \A k : NewJob(k).contract = k
    BY DEF NewJob
  <2>. QED
    BY <2>1, <2>2
<1>2. ASSUME NEW j \in InState(Live)'
      PROVE  (j \in InState(Live) /\ job'[j].contract = job[j].contract) \/ j \in N
  BY <1>2, LiveAfter DEF Admits
<1>. QED
  BY <1>1, <1>2 DEF LiveOf

(* Claims, outcomes, cancellations and expiries add no live job. *)
LEMMA LiveKept ==
  ASSUME TypeOK, WorkersHaveJobs, Next, NoneAdmitted
  PROVE  /\ InState(Live)' \subseteq InState(Live)
         /\ \A t : LiveOf(t)' \subseteq LiveOf(t)
<1>1. ASSUME NEW j \in InState(Live)'
      PROVE  j \in InState(Live) /\ job'[j].contract = job[j].contract
  BY <1>1, LiveAfter DEF NoneAdmitted
<1>. QED
  BY <1>1 DEF LiveOf

(* The bounds of the workspace and of every submitter are kept. *)
LEMMA BoundsKept ==
  ASSUME TypeOK, WorkersHaveJobs, QueueBounded, Next
  PROVE  QueueBounded'
<1>1. IsFiniteSet(InState(Live)) /\ \A t : IsFiniteSet(LiveOf(t))
  BY QueueAssumption, FS_Subset DEF InState, LiveOf
<1>2. CASE NoneAdmitted
  <2>1. Cardinality(InState(Live)') <= Cardinality(InState(Live))
    BY <1>1, <1>2, LiveKept, FS_Subset
  <2>2. \A t : Cardinality(LiveOf(t)') <= Cardinality(LiveOf(t))
    BY <1>1, <1>2, LiveKept, FS_Subset
  <2>3. Cardinality(InState(Live)) \in Nat /\ Cardinality(InState(Live)') \in Nat
        /\ \A t : Cardinality(LiveOf(t)) \in Nat /\ Cardinality(LiveOf(t)') \in Nat
    BY <1>1, <1>2, LiveKept, FS_Subset, FS_CardinalityType
  <2>. QED
    BY <2>1, <2>2, <2>3, QueueAssumption DEF QueueBounded
<1>3. ASSUME NEW s, NEW N, Admits(s, N) PROVE QueueBounded'
  <2>1. IsFiniteSet(N) /\ RoomFor(s, Cardinality(N))
    BY <1>3 DEF Admits
  <2>2. Cardinality(InState(Live)') <= Cardinality(InState(Live)) + Cardinality(N)
        /\ Cardinality(InState(Live)') \in Nat
    BY <1>1, <1>3, <2>1, LiveCovered, CoveredCardinality, FS_CardinalityType
  <2>3. Cardinality(LiveOf(s)') <= Cardinality(LiveOf(s)) + Cardinality(N)
        /\ Cardinality(LiveOf(s)') \in Nat
    BY <1>1, <1>3, <2>1, LiveCovered, CoveredCardinality, FS_CardinalityType
  <2>4. Cardinality(InState(Live)) \in Nat /\ Cardinality(LiveOf(s)) \in Nat
        /\ Cardinality(N) \in Nat
    BY <1>1, <2>1, FS_CardinalityType
  <2>5. Cardinality(InState(Live)') <= MaxQueued /\ Cardinality(LiveOf(s)') <= Quota
    BY <2>1, <2>2, <2>3, <2>4, QueueAssumption DEF RoomFor
  <2>6. ASSUME NEW k \in Contracts, SubmitterOf[k] # s
        PROVE  Cardinality(LiveOf(SubmitterOf[k])') <= Quota
    <3>1. Cardinality(LiveOf(SubmitterOf[k])') <= Cardinality(LiveOf(SubmitterOf[k]))
          /\ IsFiniteSet(LiveOf(SubmitterOf[k])')
      BY <1>1, <1>3, <2>6, LiveCovered, FS_Subset
    <3>2. Cardinality(LiveOf(SubmitterOf[k])) \in Nat /\ Cardinality(LiveOf(SubmitterOf[k])') \in Nat
      BY <1>1, <3>1, FS_CardinalityType
    <3>. QED
      BY <3>1, <3>2, QueueAssumption DEF QueueBounded
  <2>. QED
    BY <2>5, <2>6 DEF QueueBounded
<1>. QED
  BY <1>2, <1>3, Newcomers

(* Two live jobs of one contract: neither could be new without the other    *)
(* having been live before it.                                              *)
LEMMA ExclusionKept ==
  ASSUME TypeOK, WorkersHaveJobs, OneLiveJobPerContract, Next
  PROVE  OneLiveJobPerContract'
<1>1. SUFFICES ASSUME NEW i \in InState(Live)', NEW j \in InState(Live)',
                      job'[i].contract = job'[j].contract
               PROVE  i = j
  BY DEF OneLiveJobPerContract
<1> DEFINE Old(m) == m \in InState(Live) /\ job'[m].contract = job[m].contract
<1>2. CASE NoneAdmitted
  <2>1. Old(i) /\ Old(j)
    BY <1>2, LiveAfter DEF NoneAdmitted
  <2>. QED
    BY <1>1, <2>1 DEF OneLiveJobPerContract
<1>3. ASSUME NEW s, NEW N, Admits(s, N) PROVE i = j
  <2>1. \A m \in {i, j} : Old(m) \/ m \in N
    BY <1>3, LiveAfter DEF Admits
  <2>2. ASSUME NEW m \in N, NEW n, Old(n), job'[m].contract = job'[n].contract PROVE FALSE
    <3>1. PICK k \in Contracts : job'[m] = NewJob(k) /\ ~ContractBusy(k)
      BY <1>3, <2>2 DEF Admits
    <3>2. job[n].contract = k /\ n \in Jobs /\ Exists(n) /\ job[n].state \in Live
      BY <2>2, <3>1 DEF NewJob, InState
    <3>. QED
      BY <3>1, <3>2 DEF ContractBusy, JobsOf
  <2>3. CASE Old(i) /\ Old(j)
    BY <1>1, <2>3 DEF OneLiveJobPerContract
  <2>4. CASE i \in N /\ j \in N
    BY <1>1, <1>3, <2>4 DEF Admits
  <2>. QED
    BY <1>1, <2>1, <2>2, <2>3, <2>4
<1>. QED
  BY <1>2, <1>3, Newcomers

(* The bounds and the exclusion hold together with the types in every       *)
(* reachable state: no step of the queue leaves them.                       *)
THEOREM AdmissionInvariant == Spec => []AdmissionInv
<1>1. Init => AdmissionInv
  <2>1. ASSUME Init PROVE InState(Live) = {} /\ \A t : LiveOf(t) = {}
    BY <2>1 DEF Init, InState, LiveOf, Exists
  <2>2. ASSUME Init PROVE QueueBounded /\ OneLiveJobPerContract
    BY <2>1, <2>2, QueueAssumption, FS_EmptySet DEF QueueBounded, OneLiveJobPerContract
  <2>3. ASSUME Init PROVE TypeOK /\ WorkersHaveJobs
    BY <2>3 DEF Init, TypeOK, WorkersHaveJobs, Exists, Doings, Idle
  <2>. QED
    BY <2>2, <2>3 DEF AdmissionInv
<1>2. AdmissionInv /\ [Next]_vars => AdmissionInv'
  <2>. SUFFICES ASSUME AdmissionInv, [Next]_vars PROVE AdmissionInv'
    OBVIOUS
  <2>1. CASE Next
    BY <2>1, TypesKept, BoundsKept, ExclusionKept DEF AdmissionInv
  <2>2. CASE UNCHANGED vars
    <3>1. InState(Live)' = InState(Live) /\ \A t : LiveOf(t)' = LiveOf(t)
      BY <2>2 DEF vars, InState, LiveOf, Exists
    <3>2. QueueBounded' /\ OneLiveJobPerContract'
      BY <2>2, <3>1 DEF vars, AdmissionInv, QueueBounded, OneLiveJobPerContract
    <3>3. TypeOK' /\ WorkersHaveJobs'
      BY <2>2 DEF vars, AdmissionInv, TypeOK, WorkersHaveJobs, Exists, Doings, Idle
    <3>. QED
      BY <3>2, <3>3 DEF AdmissionInv
  <2>. QED
    BY <2>1, <2>2
<1>. QED
  BY <1>1, <1>2, PTL DEF Spec

(* The bounds of the workspace and of a submitter hold over single          *)
(* submissions, batches, takeovers and retries, whatever the workers do.    *)
THEOREM AdmissionBounded == Spec => []QueueBounded
BY AdmissionInvariant, PTL DEF AdmissionInv

(* A contract version never has two live jobs: a retry or a takeover brings *)
(* back the job that was live, and a submission finds it.                   *)
THEOREM ContractExclusive == Spec => []OneLiveJobPerContract
BY AdmissionInvariant, PTL DEF AdmissionInv
-----------------------------------------------------------------------------
(* The queue implements the promise of FencedLease.                        *)

(* What the promise sees of a job after a step. *)
Sees(j, generation, owner, cancel, standing) ==
  LET r == Seen(j)'
  IN  /\ r.generation = generation /\ r.owner = owner /\ r.cancel = cancel
      /\ Standing(r.state) = standing

SeesSame(j) ==
  /\ Sees(j, Seen(j).generation, Seen(j).owner, Seen(j).cancel, Standing(Seen(j).state))
  /\ evidence'[j] = evidence[j]

(* A job nobody submitted is seen as one that nobody claimed.               *)
LEMMA NewlySeen ==
  ASSUME NEW j \in Jobs, ~Exists(j), NEW k \in Contracts, job'[j] = NewJob(k),
         evidence'[j] = evidence[j]
  PROVE  SeesSame(j)
BY DEF SeesSame, Sees, Seen, Exists, NewJob, Standing, Ended

LEMMA SameSeen ==
  ASSUME NEW j \in Jobs, job'[j] = job[j], evidence'[j] = evidence[j]
  PROVE  SeesSame(j)
BY DEF SeesSame, Sees, Seen, Exists, Standing, Ended

(* One step concerns one job, besides those it submits.                     *)
LEMMA OneJob ==
  ASSUME TypeOK, WorkersHaveJobs, Next
  PROVE  \E i : \A j \in Jobs : j # i => SeesSame(j)
<1> DEFINE Goal == \E i : \A j \in Jobs : j # i => SeesSame(j)
<1>1. ASSUME NEW i, \A j \in Jobs : j # i => job'[j] = job[j] /\ evidence'[j] = evidence[j]
      PROVE  Goal
  BY <1>1, SameSeen
<1>. HIDE DEF Goal
<1>2. ASSUME NEW i \in Jobs, job' = [job EXCEPT ![i] = job'[i]], UNCHANGED evidence
      PROVE  Goal
  BY <1>1, <1>2 DEF TypeOK
<1>3. ASSUME NEW s, NEW item, SubmitBatch(s, item), \A j \in DOMAIN item : item[j] \in Contracts
      PROVE  Goal
  <2>1. ASSUME NEW j \in Jobs PROVE SeesSame(j)
    BY <1>3, NewlySeen, SameSeen DEF SubmitBatch
  <2>. QED
    BY <2>1 DEF Goal
<1>4. ASSUME NEW w \in Workers, Publish(w) PROVE Goal
  <2>1. \A j \in Jobs : j # doing[w].job => job'[j] = job[j] /\ evidence'[j] = evidence[j]
    BY <1>4 DEF Publish, TypeOK
  <2>. QED
    BY <1>1, <2>1
<1>5. ASSUME NEW i \in Jobs, Cancel(i) \/ Expire(i) \/ \E k \in Contracts : Submit(i, k) PROVE Goal
  BY <1>2, <1>5 DEF Cancel, Expire, Submit, TypeOK
<1>6. ASSUME NEW w \in Workers, NEW i \in Jobs, Claim(w, i) PROVE Goal
  BY <1>2, <1>6 DEF Claim, TypeOK
<1>7. ASSUME NEW w \in Workers,
             SetDraining(w) \/ SetActive(w) \/ Execute(w) \/ FencedOut(w) \/ Crash(w)
      PROVE  Goal
  <2>1. UNCHANGED <<job, evidence>>
    BY <1>7 DEF SetDraining, SetActive, Execute, ExecuteStopped, ExecuteAnswered, Ends, FencedOut, Crash
  <2>. QED
    BY <1>1, <2>1
<1>8. ASSUME NEW a \in Jobs, NEW b \in Jobs, NEW k \in Contracts, NEW l \in Contracts,
             SubmitBatch(SubmitterOf[k], [j \in {a, b} |-> IF j = a THEN k ELSE l])
      PROVE  Goal
  <2> DEFINE item == [j \in {a, b} |-> IF j = a THEN k ELSE l]
  <2>1. \A j \in DOMAIN item : item[j] \in Contracts
    OBVIOUS
  <2>2. SubmitBatch(SubmitterOf[k], item)
    BY <1>8
  <2>. HIDE DEF item
  <2>. QED
    BY <1>3, <2>1, <2>2
<1>9. ASSUME Operators PROVE Goal
  <2>1. CASE \E i \in Jobs, k \in Contracts : Submit(i, k)
    BY <1>5, <2>1
  <2>2. CASE \E a, b \in Jobs, k, l \in Contracts :
               a # b /\ SubmitBatch(SubmitterOf[k], [j \in {a, b} |-> IF j = a THEN k ELSE l])
    BY <1>8, <2>2
  <2>3. CASE \E i \in Jobs : Cancel(i)
    BY <1>5, <2>3
  <2>4. CASE \E w \in Workers : SetDraining(w) \/ SetActive(w)
    BY <1>7, <2>4
  <2>. QED
    BY <1>9, <2>1, <2>2, <2>3, <2>4 DEF Operators
<1>10. Goal
  BY <1>4, <1>5, <1>6, <1>7, <1>9 DEF Next, Finish
<1>. QED
  BY <1>10 DEF Goal

(* A worker's outcome closes the job or puts it back; only "ok" delivers.   *)
LEMMA OutcomeSeen ==
  ASSUME NEW r \in JobRows, NEW result \in Errors \cup {"ok"}
  PROVE  LET q == Outcome(r, result)
         IN  /\ q.generation = r.generation /\ q.owner = Nobody /\ q.cancel = r.cancel
             /\ Standing(q.state) \in (IF result = "ok" THEN {"delivered"} ELSE {"open", "closed"})
<1>1. ASSUME NEW s \in Ended
      PROVE  LET q == EndedAs(r, s)
             IN  q.generation = r.generation /\ q.owner = Nobody /\ q.cancel = r.cancel /\ q.state = s
  BY <1>1 DEF EndedAs, JobRows
<1>2. LET q == Retried(r)
      IN  /\ q.generation = r.generation /\ q.owner = Nobody /\ q.cancel = r.cancel
          /\ q.state = "queued"
  BY DEF Retried, JobRows
<1>. QED
  BY <1>1, <1>2 DEF Outcome, Standing, Ended, Errors, Retryable

(* The five things the promise lets happen to a job, or none of them.       *)
LEMMA JobMoves ==
  ASSUME TypeOK, WorkersHaveJobs, PublishedOnce, Next, NEW j \in Jobs
  PROVE  LET r == Seen(j)
             open == Standing(r.state) = "open"
             held == open /\ r.owner # Nobody
         IN  \/ SeesSame(j)
             \/ /\ evidence'[j] = evidence[j]
                /\ \/ /\ open /\ (r.cancel => held)
                      /\ \E w \in Workers : Sees(j, r.generation + 1, w, r.cancel, "open")
                   \/ held /\ Sees(j, r.generation, Nobody, r.cancel, "open")
                   \/ open /\ Sees(j, r.generation, r.owner, TRUE, IF held THEN "open" ELSE "closed")
                   \/ held /\ Sees(j, r.generation, Nobody, r.cancel, "closed")
             \/ /\ held /\ Sees(j, r.generation, Nobody, r.cancel, "delivered")
                /\ evidence'[j] = {Stamp(r.generation, r.owner)}
<1> DEFINE r == job[j]
<1>1. Exists(j) => r \in JobRows /\ Seen(j) = r /\ (r.owner # Nobody <=> r.state = "running")
  BY DEF TypeOK, Exists, Seen
<1>2. Exists(j) /\ job'[j] \in JobRows => Seen(j)' = job'[j]
  BY AbsentAssumption DEF Seen, Exists
<1>3. Standing("queued") = "open" /\ Standing("running") = "open" /\ Standing("cancelled") = "closed"
      /\ Standing("succeeded") = "delivered"
  BY DEF Standing, Ended
<1>4. CASE ~Exists(j) /\ \E k \in Contracts : job'[j] = NewJob(k) /\ evidence'[j] = evidence[j]
  BY <1>4, NewlySeen
<1>5. ASSUME Exists(j), r.state \in Live, job'[j] = Cancelled(r)
      PROVE  Sees(j, r.generation, r.owner, TRUE, IF r.owner # Nobody THEN "open" ELSE "closed")
  <2>1. LET q == Cancelled(r)
        IN  /\ q \in JobRows /\ q.generation = r.generation /\ q.owner = r.owner /\ q.cancel = TRUE
            /\ q.state = IF r.state = "queued" THEN "cancelled" ELSE r.state
    BY <1>1, <1>5 DEF Cancelled, JobRows, Live, Ended
  <2>2. r.state \in {"queued", "running"} /\ (r.owner # Nobody <=> r.state = "running")
    BY <1>1, <1>5 DEF Live
  <2>. HIDE DEF r
  <2>. QED
    BY <1>2, <1>3, <1>5, <2>1, <2>2 DEF Sees
<1>6. ASSUME Exists(j), r.state \in Live, NEW w \in Workers, job'[j] = Leased(r, w)
      PROVE  Sees(j, r.generation + 1, w, r.cancel, "open")
  <2>1. r.generation + 1 \in Nat
    BY <1>1, <1>6 DEF JobRows
  <2>2. \A n \in Nat : LET q == [r EXCEPT !.state = "running", !.owner = w, !.expired = FALSE,
                                          !.generation = n]
                       IN  /\ q \in JobRows /\ q.state = "running" /\ q.owner = w
                           /\ q.generation = n /\ q.cancel = r.cancel
    BY <1>1, <1>6 DEF JobRows, Live, Ended
  <2>3. LET q == Leased(r, w)
        IN  /\ q \in JobRows /\ q.state = "running" /\ q.owner = w
            /\ q.generation = r.generation + 1 /\ q.cancel = r.cancel
    BY <2>1, <2>2 DEF Leased
  <2>. QED
    BY <1>2, <1>3, <1>6, <2>3 DEF Sees
<1>7. ASSUME Exists(j), job'[j] = [r EXCEPT !.expired = TRUE], evidence'[j] = evidence[j]
      PROVE  SeesSame(j)
  <2>1. LET q == [r EXCEPT !.expired = TRUE]
        IN  /\ q \in JobRows /\ q.generation = r.generation /\ q.owner = r.owner
            /\ q.cancel = r.cancel /\ q.state = r.state
    BY <1>1, <1>7 DEF JobRows
  <2>. HIDE DEF r
  <2>. QED
    BY <1>1, <1>2, <1>7, <2>1 DEF SeesSame, Sees
<1>8. ASSUME Exists(j), NEW result \in Errors \cup {"ok"}, job'[j] = Outcome(r, result)
      PROVE  \E s \in (IF result = "ok" THEN {"delivered"} ELSE {"open", "closed"}) :
               Sees(j, r.generation, Nobody, r.cancel, s)
  BY <1>1, <1>2, <1>8, OutcomeRow, OutcomeSeen DEF Sees, RowOK
<1>9. CASE Exists(j) /\ Unpublished(j) /\ evidence'[j] = evidence[j]
  BY <1>1, <1>3, <1>5, <1>6, <1>7, <1>8, <1>9 DEF Unpublished, Live, Errors, Retryable
<1>10. CASE \E w \in Workers : Published(j, w)
  <2>1. PICK w \in Workers : Published(j, w)
    BY <1>10
  <2>2. evidence'[j] = {Stamp(r.generation, r.owner)}
    BY <1>1, <2>1 DEF Published, PublishedOnce, TypeOK, Stamp
  <2>. QED
    BY <1>1, <1>3, <1>8, <2>1, <2>2 DEF Published, Errors
<1>11. CASE job'[j] = job[j] /\ evidence'[j] = evidence[j]
  BY <1>11, SameSeen
<1>. QED
  BY <1>4, <1>9, <1>10, <1>11, JobEffect DEF Unpublished

(* What the promise sees of all jobs, and that a step that concerns one job *)
(* changes its entries only.                                                *)
Turns     == [j \in Jobs |-> Seen(j).generation]
Holds     == [j \in Jobs |-> Seen(j).owner]
Recalls   == [j \in Jobs |-> Seen(j).cancel]
Standings == [j \in Jobs |-> Standing(Seen(j).state)]

LEMMA EntriesMove ==
  ASSUME DOMAIN evidence = Jobs, evidence = [j \in Jobs |-> evidence[j]],
         evidence' = [j \in Jobs |-> evidence'[j]],
         NEW i \in Jobs, \A j \in Jobs : j # i => SeesSame(j),
         NEW g, NEW o, NEW c, NEW s, Sees(i, g, o, c, s)
  PROVE  /\ Turns' = [Turns EXCEPT ![i] = g] /\ Holds' = [Holds EXCEPT ![i] = o]
         /\ Recalls' = [Recalls EXCEPT ![i] = c] /\ Standings' = [Standings EXCEPT ![i] = s]
         /\ evidence' = [evidence EXCEPT ![i] = evidence'[i]]
BY DEF SeesSame, Sees, Turns, Holds, Recalls, Standings

LEMMA FencedLeaseStep ==
  ASSUME IInv, IInv', Next
  PROVE  [Promise!Next]_<<Turns, Holds, Recalls, Standings, evidence>>
<1>1. PICK i : \A j \in Jobs : j # i => SeesSame(j)
  BY OneJob DEF IInv
<1>2. /\ DOMAIN evidence = Jobs /\ evidence = [j \in Jobs |-> evidence[j]]
      /\ evidence' = [j \in Jobs |-> evidence'[j]]
  BY DEF IInv, TypeOK
<1>3. CASE i \notin Jobs \/ SeesSame(i)
  BY <1>1, <1>2, <1>3 DEF SeesSame, Sees, Turns, Holds, Recalls, Standings
<1>4. CASE i \in Jobs /\ ~SeesSame(i)
  <2> DEFINE r == Seen(i)
             held == Standing(r.state) = "open" /\ r.owner # Nobody
  <2>0. Promise!Held(i) <=> held
    BY <1>4 DEF Promise!Held
  <2>1. Turns[i] = r.generation /\ Holds[i] = r.owner /\ Recalls[i] = r.cancel /\ Standings[i] = Standing(r.state)
    BY <1>4 DEF Turns, Holds, Recalls, Standings
  <2>2. ASSUME NEW g, NEW o, NEW c, NEW s, Sees(i, g, o, c, s)
        PROVE  /\ Turns' = [Turns EXCEPT ![i] = g] /\ Holds' = [Holds EXCEPT ![i] = o]
               /\ Recalls' = [Recalls EXCEPT ![i] = c] /\ Standings' = [Standings EXCEPT ![i] = s]
               /\ evidence' = [evidence EXCEPT ![i] = evidence'[i]]
    BY <1>1, <1>2, <1>4, <2>2, EntriesMove
  <2>3. Turns = [Turns EXCEPT ![i] = Turns[i]] /\ Holds = [Holds EXCEPT ![i] = Holds[i]]
        /\ Recalls = [Recalls EXCEPT ![i] = Recalls[i]]
        /\ Standings = [Standings EXCEPT ![i] = Standings[i]]
        /\ evidence = [evidence EXCEPT ![i] = evidence[i]]
    BY <1>2, <1>4 DEF Turns, Holds, Recalls, Standings
  <2>4. ASSUME NEW w \in Workers, Standing(r.state) = "open", r.cancel => held,
               Sees(i, r.generation + 1, w, r.cancel, "open"), evidence'[i] = evidence[i]
        PROVE  Promise!Lend(i, w)
    <3>1. /\ Turns' = [Turns EXCEPT ![i] = Turns[i] + 1] /\ Holds' = [Holds EXCEPT ![i] = w]
          /\ Recalls' = Recalls /\ Standings' = Standings
          /\ evidence' = evidence
      BY <2>1, <2>2, <2>3, <2>4
    <3>. QED
      BY <2>0, <2>1, <2>4, <3>1 DEF Promise!Lend, Turns, Holds, Recalls, Standings
  <2>5. ASSUME held, Sees(i, r.generation, Nobody, r.cancel, "open"), evidence'[i] = evidence[i]
        PROVE  Promise!Return(i)
    <3>1. /\ Turns' = Turns /\ Holds' = [Holds EXCEPT ![i] = Nobody]
          /\ Recalls' = Recalls /\ Standings' = Standings
          /\ evidence' = evidence
      BY <2>1, <2>2, <2>3, <2>5
    <3>. QED
      BY <2>0, <2>1, <2>5, <3>1 DEF Promise!Return, Turns, Holds, Recalls, Standings
  <2>6. ASSUME Standing(r.state) = "open", evidence'[i] = evidence[i],
               Sees(i, r.generation, r.owner, TRUE, IF held THEN "open" ELSE "closed")
        PROVE  Promise!Recall(i)
    <3>0. PICK yes : yes = TRUE
      OBVIOUS
    <3>1. CASE held
      <4>1. /\ Turns' = Turns /\ Holds' = Holds
            /\ Recalls' = [Recalls EXCEPT ![i] = yes] /\ Standings' = Standings
            /\ evidence' = evidence
        <5>1. Sees(i, r.generation, r.owner, yes, "open")
          BY <2>6, <3>0, <3>1
        <5>. QED
          BY <2>1, <2>2, <2>3, <2>6, <5>1
      <4>. QED
        BY <2>0, <2>1, <2>6, <3>0, <3>1, <4>1 DEF Promise!Recall, Turns, Holds, Recalls, Standings
    <3>2. CASE ~held
      <4>1. /\ Turns' = Turns /\ Holds' = Holds
            /\ Recalls' = [Recalls EXCEPT ![i] = yes] /\ Standings' = [Standings EXCEPT ![i] = "closed"]
            /\ evidence' = evidence
        <5>1. Sees(i, r.generation, r.owner, yes, "closed")
          BY <2>6, <3>0, <3>2
        <5>. QED
          BY <2>1, <2>2, <2>3, <2>6, <5>1
      <4>. QED
        BY <2>0, <2>1, <2>6, <3>0, <3>2, <4>1 DEF Promise!Recall, Turns, Holds, Recalls, Standings
    <3>. QED
      BY <3>1, <3>2
  <2>7. ASSUME held, Sees(i, r.generation, Nobody, r.cancel, "closed"), evidence'[i] = evidence[i]
        PROVE  Promise!GiveUp(i)
    <3>1. /\ Turns' = Turns /\ Holds' = [Holds EXCEPT ![i] = Nobody]
          /\ Recalls' = Recalls /\ Standings' = [Standings EXCEPT ![i] = "closed"]
          /\ evidence' = evidence
      BY <2>1, <2>2, <2>3, <2>7
    <3>. QED
      BY <2>0, <2>1, <2>7, <3>1 DEF Promise!GiveUp, Turns, Holds, Recalls, Standings
  <2>8. ASSUME held, Sees(i, r.generation, Nobody, r.cancel, "delivered"),
               evidence'[i] = {Stamp(r.generation, r.owner)}
        PROVE  Promise!Deliver(i)
    <3>1. /\ Turns' = Turns /\ Holds' = [Holds EXCEPT ![i] = Nobody]
          /\ Recalls' = Recalls /\ Standings' = [Standings EXCEPT ![i] = "delivered"]
          /\ evidence' = [evidence EXCEPT ![i] = {Stamp(r.generation, r.owner)}]
      BY <2>1, <2>2, <2>3, <2>8
    <3>. QED
      BY <2>0, <2>1, <2>8, <3>1 DEF Promise!Deliver, Turns, Holds, Recalls, Standings
  <2>9. Promise!Next
    BY <1>4, <2>4, <2>5, <2>6, <2>7, <2>8, JobMoves DEF IInv, Promise!Next
  <2>. QED
    BY <2>9
<1>. QED
  BY <1>3, <1>4

(* The queue implements the promise of FencedLease, for any number of jobs, *)
(* workers, claims, crashes and expired leases: whoever executes a job, the *)
(* fence of _finish_in lets only the worker of its last claim publish, with *)
(* that claim's generation, and an ended job is left alone.                 *)
THEOREM QueueKeepsPromise == Spec => ImplementsFencedLease
<1>1. Init => Promise!Init
  BY DEF Init, Promise!Init, Seen, Exists, Standing, Ended
<1>2. IInv /\ IInv' /\ [Next]_vars => [Promise!Next]_<<Turns, Holds, Recalls, Standings, evidence>>
  <2>1. CASE UNCHANGED vars
    BY <2>1 DEF vars, Turns, Holds, Recalls, Standings, Seen, Exists
  <2>. QED
    BY <2>1, FencedLeaseStep
<1>. QED
  BY <1>1, <1>2, QueueInvariant, PTL
     DEF Spec, ImplementsFencedLease, Promise!Spec, Turns, Holds, Recalls, Standings
=============================================================================
