------------------------------ MODULE JobQueue ------------------------------
(***************************************************************************)
(* The durable job queue of metacoin_service: jobs.py (submit, batch,      *)
(* cancel), scheduling.py (fair order, draining) and worker.py (claim with *)
(* a lease, one bounded execution, fenced publication).  All of them share *)
(* the jobs and attempts tables; each "with self.db.tx()" is one SQLite    *)
(* transaction and one action.  Between its claim and its publication a    *)
(* worker runs a child process outside every transaction: the job may be   *)
(* cancelled, its lease may run out and another worker may take it over.   *)
(*                                                                         *)
(* Jobs of the kinds that keep checkpoints or devices (hold, reservations) *)
(* and jobs claimed by federated nodes are not part of this module; nor    *)
(* are the refusals that depend on the clock alone (an expired contract,   *)
(* the per-minute quota).  Refused calls change nothing and are not steps. *)
(***************************************************************************)
EXTENDS Integers, FiniteSets

CONSTANTS
  Jobs,           \* identifiers of the jobs ever submitted
  Contracts,      \* frozen contract versions
  SubmitterOf,    \* the principal who submits jobs of a contract
  Workers,
  MaxRetries,     \* limits['job_max_retries']
  MaxQueued,      \* limits['max_queued_per_workspace']
  Quota,          \* a principal's persisted quota of live jobs (max_queued)
  MaxGeneration,  \* bound: claims of each job
  MaxCrashes,     \* bound: worker crashes
  LeaseOutlastsRun, \* a lease (60 s) never runs out under a worker that is still executing (30 s)
  Absent, Nobody

ASSUME RetriesAssumption == MaxRetries \in Nat
ASSUME QueueAssumption   == MaxQueued \in Nat /\ Quota \in Nat /\ IsFiniteSet(Jobs)
ASSUME LeaseAssumption   == LeaseOutlastsRun \in BOOLEAN
ASSUME SubmitterAssumption == DOMAIN SubmitterOf = Contracts
ASSUME NobodyAssumption  == Nobody \notin Workers

VARIABLES
  job,            \* table jobs
  attempts,       \* table attempts: [job, generation, worker, outcome]
  evidence,       \* evidence artifacts published per job, by the generation that did
  draining,       \* workers whose registry state is "draining"
  doing,          \* what each worker process is doing
  crashes         \* bound: crashes so far

vars == <<job, attempts, evidence, draining, doing, crashes>>

Ended == {"succeeded", "failed", "cancelled"}
Live  == {"queued", "running"}
Retryable == {"COMPUTATION_ERROR", "TIMEOUT"}
Errors == Retryable \cup {"INPUT_INVALID", "CANCELLED"}

JobRows == [contract : Contracts, state : Live \cup Ended, owner : Workers \cup {Nobody},
            expired : BOOLEAN, generation : Nat, retries : Nat, cancel : BOOLEAN]

ASSUME AbsentAssumption == Absent \notin JobRows

Idle == [at |-> "idle"]
Doings == {Idle}
            \cup [at : {"executing"}, job : Jobs, generation : Nat]
            \cup [at : {"finishing"}, job : Jobs, generation : Nat, result : Errors \cup {"ok"}]

Exists(j)  == job[j] # Absent
InState(S) == {j \in Jobs : Exists(j) /\ job[j].state \in S}
JobsOf(k)  == {j \in Jobs : Exists(j) /\ job[j].contract = k}
LiveOf(s)  == {j \in InState(Live) : SubmitterOf[job[j].contract] = s}

-----------------------------------------------------------------------------
Init ==
  /\ job = [j \in Jobs |-> Absent]
  /\ attempts = {}
  /\ evidence = [j \in Jobs |-> {}]
  /\ draining = {}
  /\ doing = [w \in Workers |-> Idle]
  /\ crashes = 0

NewJob(k) == [contract |-> k, state |-> "queued", owner |-> Nobody, expired |-> FALSE,
              generation |-> 0, retries |-> MaxRetries, cancel |-> FALSE]

(* Mutant forms: room is checked for the first job of a batch only; a new   *)
(* job for a contract does not look for one that is still live.             *)
RoomForFirst(s, n) ==
  Cardinality(InState(Live)) < MaxQueued /\ Cardinality(LiveOf(s)) < Quota
ContractTaken(k) == FALSE

(* _check_submittable and check_admission: the bounds of the workspace and  *)
(* of the submitter count running jobs too, and the items of the batch that *)
(* come before.                                                             *)
RoomFor(s, n) ==
  /\ Cardinality(InState(Live)) + n <= MaxQueued
  /\ Cardinality(LiveOf(s)) + n <= Quota

(* A contract version has one job, or a new one once all others ended.      *)
ContractBusy(k) == \E j \in JobsOf(k) : job[j].state \in Live

(* jobs.submit, with supersede when the contract has earlier jobs. *)
Submit(j, k) ==
  /\ ~Exists(j)
  /\ ~ContractBusy(k)
  /\ RoomFor(SubmitterOf[k], 1)
  /\ job' = [job EXCEPT ![j] = NewJob(k)]
  /\ UNCHANGED <<attempts, evidence, draining, doing, crashes>>

(* jobs.submit_batch: one principal submits all items or none. *)
SubmitBatch(s, item) ==
  /\ \A j \in DOMAIN item : SubmitterOf[item[j]] = s
  /\ \A j \in DOMAIN item : ~Exists(j) /\ JobsOf(item[j]) = {}
  /\ \A i, j \in DOMAIN item : item[i] = item[j] => i = j
  /\ RoomFor(s, Cardinality(DOMAIN item))
  /\ job' = [j \in Jobs |-> IF j \in DOMAIN item THEN NewJob(item[j]) ELSE job[j]]
  /\ UNCHANGED <<attempts, evidence, draining, doing, crashes>>

CancellableAlways(j) == TRUE                                     \* mutant form
Cancellable(j) == job[j].state \in Live

(* jobs.cancel: a queued job ends; a running one is asked to.               *)
Cancelled(r) ==
  IF r.state = "queued" THEN [r EXCEPT !.state = "cancelled", !.cancel = TRUE]
                        ELSE [r EXCEPT !.cancel = TRUE]

Cancel(j) ==
  /\ Exists(j)
  /\ Cancellable(j)
  /\ job' = [job EXCEPT ![j] = Cancelled(@)]
  /\ UNCHANGED <<attempts, evidence, draining, doing, crashes>>

-----------------------------------------------------------------------------
(* worker.claim                                                            *)

(* scheduling.fair_order: queued, no cancel requested, whose submitter has  *)
(* the fewest running jobs.                                                 *)
Claimable == {j \in InState({"queued"}) : ~job[j].cancel}
RunningOf(s) == {j \in InState({"running"}) : SubmitterOf[job[j].contract] = s}
Load(j) == Cardinality(RunningOf(SubmitterOf[job[j].contract]))
Fairest == {j \in Claimable : \A i \in Claimable : Load(j) <= Load(i)}

(* Running jobs whose lease has run out. *)
Abandoned == {j \in InState({"running"}) : job[j].expired}

OnlyQueued == Fairest                                            \* mutant form

(* A worker takes a fair queued job; failing that, it recovers an abandoned *)
(* one, whether or not a cancel was requested meanwhile.                    *)
Candidates == IF Claimable # {} THEN Fairest ELSE Abandoned

Leased(r, w) ==
  [r EXCEPT !.state = "running", !.owner = w, !.expired = FALSE, !.generation = @ + 1]

Claim(w, j) ==
  /\ doing[w] = Idle
  /\ w \notin draining
  /\ j \in Candidates
  /\ job[j].generation < MaxGeneration[j]
  /\ job' = [job EXCEPT ![j] = Leased(@, w)]
  /\ attempts' = attempts \cup
       {[job |-> j, generation |-> job'[j].generation, worker |-> w, outcome |-> "none"]}
  /\ doing' = [doing EXCEPT ![w] =
       [at |-> "executing", job |-> j, generation |-> job'[j].generation]]
  /\ UNCHANGED <<evidence, draining, crashes>>

-----------------------------------------------------------------------------
(* worker.execute                                                          *)
Ends(w, result) ==
  /\ doing' = [doing EXCEPT ![w] = [at |-> "finishing", job |-> doing[w].job,
                                    generation |-> doing[w].generation, result |-> result]]
  /\ UNCHANGED <<job, attempts, evidence, draining, crashes>>

(* The input is gone, or the child ran out of time: no look at the cancel   *)
(* request.                                                                 *)
ExecuteStopped(w) ==
  /\ doing[w].at = "executing"
  /\ \E e \in {"INPUT_INVALID", "TIMEOUT"} : Ends(w, e)

(* The child answered; the cancel request is read now, outside the          *)
(* transaction that publishes.                                              *)
ExecuteAnswered(w) ==
  /\ doing[w].at = "executing"
  /\ IF job[doing[w].job].cancel
     THEN Ends(w, "CANCELLED")
     ELSE \E r \in {"ok", "COMPUTATION_ERROR", "INPUT_INVALID"} : Ends(w, r)

(* Mutant form: the fence looks at the state only. *)
FenceOnState(w)  == job[doing[w].job].state = "running"

(* _finish_in: the lease is still ours. *)
Fence(w) ==
  LET r == job[doing[w].job]
  IN  r.state = "running" /\ r.owner = w /\ r.generation = doing[w].generation

Retried(r) ==
  [r EXCEPT !.state = "queued", !.owner = Nobody, !.expired = FALSE, !.retries = @ - 1]

KeepsOwner(r, state) == [r EXCEPT !.state = state]               \* mutant form
EndedAs(r, state) == [r EXCEPT !.state = state, !.owner = Nobody, !.expired = FALSE]

Outcome(r, result) ==
  IF result = "ok" THEN EndedAs(r, "succeeded")
  ELSE IF result \in Retryable /\ r.retries > 0 THEN Retried(r)
  ELSE EndedAs(r, IF result = "CANCELLED" THEN "cancelled" ELSE "failed")

Recorded(j, g, result) ==
  {IF a.job = j /\ a.generation = g THEN [a EXCEPT !.outcome = result] ELSE a : a \in attempts}

Publish(w) ==
  /\ doing[w].at = "finishing"
  /\ Fence(w)
  /\ LET j == doing[w].job
         result == doing[w].result
         g == doing[w].generation
     IN  /\ job' = [job EXCEPT ![j] = Outcome(@, result)]
         /\ attempts' = Recorded(j, g, result)
         /\ evidence' = IF result = "ok" THEN [evidence EXCEPT ![j] = @ \cup {<<g, w>>}]
                        ELSE evidence
  /\ doing' = [doing EXCEPT ![w] = Idle]
  /\ UNCHANGED <<draining, crashes>>

FencedOut(w) ==
  /\ doing[w].at = "finishing"
  /\ ~Fence(w)
  /\ doing' = [doing EXCEPT ![w] = Idle]
  /\ UNCHANGED <<job, attempts, evidence, draining, crashes>>

-----------------------------------------------------------------------------
(* Time passes: a lease runs out.                                          *)
StillRuns(j) == \E w \in Workers : doing[w] # Idle /\ doing[w].job = j
                                   /\ doing[w].generation = job[j].generation

Expire(j) ==
  /\ Exists(j)
  /\ job[j].state = "running" /\ ~job[j].expired
  /\ LeaseOutlastsRun => ~StillRuns(j)
  /\ job' = [job EXCEPT ![j].expired = TRUE]
  /\ UNCHANGED <<attempts, evidence, draining, doing, crashes>>

(* The worker process dies; it comes back under the same worker id.         *)
Crash(w) ==
  /\ doing[w] # Idle
  /\ crashes < MaxCrashes
  /\ doing' = [doing EXCEPT ![w] = Idle]
  /\ crashes' = crashes + 1
  /\ UNCHANGED <<job, attempts, evidence, draining>>

(* scheduling.set_worker_state.  Registering again after a crash keeps      *)
(* "draining"; after a clean stop (go_offline) it does not, which has the   *)
(* effect of SetActive.                                                     *)
SetDraining(w) ==
  /\ w \notin draining
  /\ draining' = draining \cup {w}
  /\ UNCHANGED <<job, attempts, evidence, doing, crashes>>

SetActive(w) ==
  /\ w \in draining
  /\ draining' = draining \ {w}
  /\ UNCHANGED <<job, attempts, evidence, doing, crashes>>

Operators ==
  \/ \E j \in Jobs, k \in Contracts : Submit(j, k)
  \/ \E a, b \in Jobs, k, l \in Contracts :
       a # b /\ SubmitBatch(SubmitterOf[k], [j \in {a, b} |-> IF j = a THEN k ELSE l])
  \/ \E j \in Jobs : Cancel(j)
  \/ \E w \in Workers : SetDraining(w) \/ SetActive(w)

Execute(w) == ExecuteStopped(w) \/ ExecuteAnswered(w)
Finish(w)  == Publish(w) \/ FencedOut(w)

Next ==
  \/ Operators
  \/ \E w \in Workers :
       \/ \E j \in Jobs : Claim(w, j)
       \/ Execute(w) \/ Finish(w) \/ Crash(w)
  \/ \E j \in Jobs : Expire(j)

Spec == Init /\ [][Next]_vars

(* run_forever polls, the child is bounded by a timeout, time passes.       *)
Fairness ==
  /\ \A w \in Workers : /\ WF_vars(\E j \in Jobs : Claim(w, j))
                        /\ WF_vars(Execute(w))
                        /\ WF_vars(Finish(w))
  /\ \A j \in Jobs : WF_vars(Expire(j))

FairSpec == Spec /\ Fairness

-----------------------------------------------------------------------------
(* The promise                                                             *)

Standing(state) ==
  IF state = "succeeded" THEN "delivered" ELSE IF state \in Ended THEN "closed" ELSE "open"

(* What the promise sees of a job: one not submitted yet looks like one     *)
(* that nobody claimed.                                                     *)
Seen(j) ==
  IF Exists(j) THEN job[j]
  ELSE [generation |-> 0, owner |-> Nobody, cancel |-> FALSE, state |-> "queued"]

Stamp(g, w) == <<g, w>>

Promise ==
  INSTANCE FencedLease WITH
    Holders <- Workers,
    turn <- [j \in Jobs |-> Seen(j).generation],
    holder <- [j \in Jobs |-> Seen(j).owner],
    recalled <- [j \in Jobs |-> Seen(j).cancel],
    standing <- [j \in Jobs |-> Standing(Seen(j).state)],
    shown <- evidence

-----------------------------------------------------------------------------
(* Types of the tables; a job has an owner exactly while it runs. *)
TypeOK ==
  /\ job \in [Jobs -> JobRows \cup {Absent}]
  /\ attempts \subseteq [job : Jobs, generation : Nat, worker : Workers,
                         outcome : Errors \cup {"ok", "none"}]
  /\ evidence \in [Jobs -> SUBSET (Nat \X Workers)]
  /\ draining \subseteq Workers
  /\ doing \in [Workers -> Doings]
  /\ crashes \in Nat
  /\ \A j \in Jobs : Exists(j) => (job[j].owner # Nobody <=> job[j].state = "running")

(* "stale worker cannot overwrite" (test_02): however many workers executed *)
(* a job over expired leases and crashes, it has evidence exactly when it   *)
(* succeeded, and that of one attempt, the one of the last claim.           *)
PublishedOnce ==
  \A j \in Jobs :
    /\ evidence[j] # {} <=> (Exists(j) /\ job[j].state = "succeeded")
    /\ \A p \in evidence[j] : p[1] = job[j].generation
    /\ \A p, q \in evidence[j] : p = q

(* The bounds of the workspace and of each submitter hold over single       *)
(* submissions, batches and retries, which queue a job without looking.     *)
QueueBounded ==
  /\ Cardinality(InState(Live)) <= MaxQueued
  /\ \A k \in Contracts : Cardinality(LiveOf(SubmitterOf[k])) <= Quota

(* Two jobs never work on the same contract version at the same time.       *)
OneLiveJobPerContract ==
  \A i, j \in InState(Live) : job[i].contract = job[j].contract => i = j

(* A job that succeeded, failed or was cancelled stays as it is. *)
EndedStaysEnded ==
  [][\A j \in Jobs : Exists(j) /\ job[j].state \in Ended => job'[j] = job[j]]_vars

(* Every step of the queue is a step of FencedLease or changes nothing that *)
(* FencedLease sees: whoever executes a job over expired leases, retries    *)
(* and crashes, only the worker it was last claimed by publishes evidence,  *)
(* under that claim's generation, and a job that ended is neither claimed,  *)
(* cancelled nor published again.                                           *)
ImplementsFencedLease == Promise!Spec

(* Some worker is, from some time on, never drained. *)
Staffed == \E w \in Workers : <>[](w \notin draining)

(* A submitted job is claimed, taken over when its worker dies and retried, *)
(* until it ends, unless its cancellation was requested while it ran.       *)
UncancelledJobsEnd ==
  Staffed => \A j \in Jobs :
    (Exists(j) /\ job[j].state \in Live)
      ~> (Exists(j) /\ (job[j].state \in Ended \/ job[j].cancel))

(* "queued -> running -> succeeded | failed | cancelled": every job ends;   *)
(* the owner of a queued one is told to "wait for the worker".              *)
JobsEnd ==
  Staffed => \A j \in Jobs :
    (Exists(j) /\ job[j].state \in Live) ~> (Exists(j) /\ job[j].state \in Ended)
=============================================================================
