----------------------------- MODULE ComputeJobs -----------------------------
(***************************************************************************)
(* Checkpointed numerical jobs: compute/engine.py (device slots, supervised *)
(* child, checkpoints, verification, publication), compute/service.py       *)
(* (pause, resume, cancel), the claim of worker.py for these kinds, and the *)
(* same work done by an enrolled node through federation/service.py and     *)
(* federation/node_worker.py.  A job has Units of work; a child computes    *)
(* them one by one and writes checkpoints, each published under the lease   *)
(* of its attempt; the next attempt resumes from the newest one.            *)
(*                                                                         *)
(* Each transaction is one action.  A lease may run out under an attempt    *)
(* that still lives: a long verification or a stalled process renews        *)
(* nothing.  Submission and fair order are JobQueue's: here every job is    *)
(* queued at first and a claim takes any candidate.  One device (cpu); the  *)
(* chunks of an upload, the standing of a node (drained, disabled, revoked) *)
(* and the retention of old checkpoints, which never takes the newest, are  *)
(* left out.                                                                *)
(***************************************************************************)
EXTENDS Integers, FiniteSets, FiniteSetsExt

CONSTANTS
  Jobs,
  Workers,      \* local workers
  Nodes,        \* enrolled nodes
  Local, Remote,\* jobs whose location policy admits local workers, nodes
  Units,        \* work_total of each job
  Slots,        \* limits['compute_cpu_slots']
  MaxRetries,   \* limits['job_max_retries']
  MuchLarger,   \* <<small, large>>: the large job may be preempted for the small one
  MaxClaims,    \* bound: claims of each job
  Pausable,     \* bound: jobs whose owner pauses and resumes them
  Cancellable,  \* bound: jobs whose owner cancels them
  Free          \* no reservation; no job

Agents == Workers \cup Nodes

ASSUME ComputeAssumption ==
  /\ Units \in [Jobs -> Nat \ {0}] /\ MaxClaims \in [Jobs -> Nat]
  /\ Slots \in Nat /\ MaxRetries \in Nat
  /\ IsFiniteSet(Jobs) /\ Local \cup Remote \cup Pausable \cup Cancellable \subseteq Jobs
  /\ Workers \cap Nodes = {}
  /\ Free \notin Jobs \cup Agents

(* Restriction: no job is preempted for one that may itself be preempted.   *)
ASSUME PreemptionAssumption ==
  /\ MuchLarger \subseteq Jobs \X Jobs
  /\ \A p, q \in MuchLarger : p[2] # q[1]

VARIABLES
  job,          \* table jobs
  run,          \* table compute_runs
  checkpoints,  \* table compute_checkpoints, per job
  units,        \* table compute_work_units, per job
  reserved,     \* table compute_reservations
  doing,        \* what each worker and node is doing
  lost          \* running jobs whose reservation went while their lease went on

vars == <<job, run, checkpoints, units, reserved, doing, lost>>

(* FINAL stands for every failure that is not retried: an invalid input or  *)
(* checkpoint, a missing device, a verification that failed.                *)
Errors == {"COMPUTATION_ERROR", "FINAL", "CANCELLED"}
Controls == {"none", "pause", "cancel"}
Ended == {"succeeded", "failed", "cancelled"}

Idle == [at |-> "idle"]

Init ==
  /\ job = [j \in Jobs |-> [state |-> "queued", owner |-> Free,
                            generation |-> 0, retries |-> MaxRetries, cancel |-> FALSE,
                            hold |-> FALSE, evidence |-> 0]]
  /\ run = [j \in Jobs |-> [control |-> "none", preempted_for |-> Free, output |-> 0]]
  /\ checkpoints = [j \in Jobs |-> {}]
  /\ units = [j \in Jobs |-> {}]
  /\ reserved = [j \in Jobs |-> Free]
  /\ doing = [w \in Agents |-> Idle]
  /\ lost = {}

-----------------------------------------------------------------------------
(* Reservations and preemption, inside the claim of a local worker.  X are  *)
(* the jobs whose lease and reservation, taken and renewed together, have   *)
(* run out by now.                                                          *)

Holding(X) == {j \in Jobs \ X : reserved[j] # Free}

RoomAlways(J, X) == TRUE                                         \* mutant form
(* try_reserve: a slot is free once the rows that ran out, and those of J,  *)
(* are deleted.                                                             *)
Room(J, X) == Cardinality(Holding(X) \ J) < Slots

Waiting(j) == job[j].state = "queued" /\ ~job[j].hold

(* resume_preempted: its slot is free and the job it made way for had its   *)
(* turn.                                                                    *)
Resumable(X) ==
  {j \in Jobs : /\ run[j].preempted_for # Free
                /\ job[j].state = "queued" /\ job[j].hold
                /\ ~Waiting(run[j].preempted_for)
                /\ Room({}, X)}
Unheld(X) ==
  [j \in Jobs |-> IF j \in Resumable(X) THEN [job[j] EXCEPT !.hold = FALSE] ELSE job[j]]
Resumed(X) ==
  [j \in Jobs |-> IF j \in Resumable(X) THEN [run[j] EXCEPT !.preempted_for = Free] ELSE run[j]]

(* Mutant form: a job that is held is a candidate too.                      *)
ClaimableHeld(X) == {j \in Local : job[j].state = "queued" /\ ~job[j].cancel}
Claimable(X) ==
  {j \in Local : Unheld(X)[j].state = "queued" /\ ~job[j].cancel /\ ~Unheld(X)[j].hold}

(* preempt_if_fair: a candidate without a slot asks one much larger holder, *)
(* already checkpointed and not asked before, to pause.                     *)
Preemptible(X) ==
  {h \in Holding(X) : /\ job[h].state = "running"
                      /\ run[h].control = "none" /\ run[h].preempted_for = Free
                      /\ checkpoints[h] # {}}
Asks(X) ==
  {A \in SUBSET (MuchLarger \cap (Claimable(X) \X Preemptible(X))) :
     \A p, q \in A : p[1] = q[1] <=> p[2] = q[2]}
Asked(A, X) ==
  [h \in Jobs |-> IF \E p \in A : p[2] = h
                  THEN [run[h] EXCEPT !.control = "pause",
                                      !.preempted_for = (CHOOSE p \in A : p[2] = h)[1]]
                  ELSE Resumed(X)[h]]

-----------------------------------------------------------------------------
(* Claims                                                                   *)

Leased(r, w) == [r EXCEPT !.state = "running", !.owner = w, !.generation = @ + 1]

Attempt(j, g) == [at |-> "claimed", job |-> j, generation |-> g, ckpt |-> 0, done |-> 0,
                  told |-> "none"]

Takes(w, j, J) ==
  /\ J[j].generation < MaxClaims[j]
  /\ job' = [J EXCEPT ![j] = Leased(@, w)]
  /\ doing' = [doing EXCEPT ![w] = Attempt(j, J[j].generation + 1)]
  /\ UNCHANGED <<checkpoints, units>>

Abandoned(X) == {j \in X : job[j].state = "running"}

Reserve(w, j, X) ==
  [i \in Jobs |-> IF i = j THEN w ELSE IF i \in Holding(X) THEN reserved[i] ELSE Free]

Reserves(w, j, X) ==
  /\ reserved' = Reserve(w, j, X)
  /\ lost' = (lost \cup Abandoned(X)) \ {j}

(* worker.claim: a candidate, if a slot is free ... *)
ClaimQueued(w, X) ==
  /\ Room({}, X)
  /\ \E j \in Claimable(X) : Takes(w, j, Unheld(X)) /\ Reserves(w, j, X)
  /\ run' = Resumed(X)

NothingQueued(X) == Claimable(X) = {} \/ ~Room({}, X)
Recoverable(X) == {j \in Local \cap Abandoned(X) : Room({j}, X)}

(* ... else a job whose lease ran out, with the slot it may still hold ...  *)
ClaimAbandoned(w, X) ==
  /\ NothingQueued(X)
  /\ \E j \in Recoverable(X) : Takes(w, j, Unheld(X)) /\ Reserves(w, j, X)
  /\ \E A \in Asks(X) : run' = Asked(A, X)

(* ... else none; what it resumed, asked for and swept stays so.            *)
ClaimNothing(X) ==
  /\ NothingQueued(X) /\ Recoverable(X) = {}
  /\ job' = Unheld(X)
  /\ \E A \in Asks(X) : run' = Asked(A, X)
  /\ IF Claimable(X) # {} \/ Local \cap Abandoned(X) # {}
     THEN /\ reserved' = [j \in Jobs |-> IF j \in X THEN Free ELSE reserved[j]]
          /\ lost' = lost \cup Abandoned(X)
     ELSE UNCHANGED <<reserved, lost>>
  /\ UNCHANGED <<checkpoints, units, doing>>

(* federation claim: a queued job or, when there is none, an abandoned one, *)
(* whose reservation it deletes; a node needs no slot of the coordinator.   *)
NodeClaim(n, X) ==
  LET queued == {j \in Remote : Waiting(j) /\ ~job[j].cancel}
      abandoned == Remote \cap Abandoned(X)
  IN  /\ \E j \in (IF queued # {} THEN queued ELSE abandoned) :
           /\ Takes(n, j, job)
           /\ reserved' = IF j \in queued THEN reserved ELSE [reserved EXCEPT ![j] = Free]
           /\ lost' = lost \ {j}
      /\ UNCHANGED run

-----------------------------------------------------------------------------
(* One attempt: the supervisor and its child                                *)

Of(w) == doing[w].job

FenceOnState(w) == job[Of(w)].state = "running"                   \* mutant form
Fence(w) ==
  LET r == job[Of(w)]
  IN  r.state = "running" /\ r.owner = w /\ r.generation = doing[w].generation

NoCheckpoint == [generation |-> 0, committed |-> 0]
Latest(j) ==
  IF checkpoints[j] = {} THEN NoCheckpoint
  ELSE CHOOSE c \in checkpoints[j] : \A d \in checkpoints[j] : d.generation <= c.generation

Starts(w, c) ==
  /\ doing' = [doing EXCEPT ![w].at = "computing", ![w].ckpt = c.generation,
                            ![w].done = c.committed]
  /\ UNCHANGED <<job, run, checkpoints, units, reserved, lost>>

(* A node that could not fetch the checkpoint computes from the beginning.  *)
Start(w) ==
  /\ doing[w].at = "claimed"
  /\ \/ (w \in Workers \/ Fence(w)) /\ Starts(w, Latest(Of(w)))
     \/ w \in Nodes /\ Starts(w, NoCheckpoint)

Ends(w, result) ==
  [at |-> "finishing", job |-> Of(w), generation |-> doing[w].generation, result |-> result]

(* Local: back to run's "finally"; a node forgets the job.                  *)
Leave(w) == IF w \in Workers THEN [at |-> "releasing", job |-> Of(w)] ELSE Idle

(* _renew_lease, and the answer to a node: the lease is gone.  A renewal    *)
(* that succeeds only postpones what X stands for.                          *)
RenewRefused(w) ==
  /\ doing[w].at = "computing"
  /\ ~Fence(w)
  /\ doing' = [doing EXCEPT ![w] = Leave(w)]
  /\ UNCHANGED <<job, run, checkpoints, units, reserved, lost>>

Heard(j) == IF job[j].cancel THEN "cancel" ELSE run[j].control

(* The child computes on and writes a checkpoint, at an interval or because *)
(* it was told to stop: the supervisor reads the request, a node hears of   *)
(* it when it renews its lease.                                             *)
Checkpoint(w) ==
  /\ doing[w].at = "computing"
  /\ \E told \in {"none"} \cup (IF w \in Workers \/ Fence(w) THEN {Heard(Of(w))} ELSE {}),
        done \in doing[w].done .. Units[Of(w)] - 1 :
       /\ told # "none" \/ done > doing[w].done
       /\ doing' = [doing EXCEPT ![w].at = "checkpointing", ![w].done = done, ![w].told = told]
  /\ UNCHANGED <<job, run, checkpoints, units, reserved, lost>>

Committed(j) == Max({0} \cup {c.committed : c \in checkpoints[j]})

(* Mutant form: the work since the attempt began, whatever was counted.     *)
WithUnitsFromStart(j, done, attempt) ==
  IF \A u \in units[j] : u.to # done
  THEN [units EXCEPT ![j] = @ \cup {[from |-> 0, to |-> done, attempt |-> attempt]}]
  ELSE units

(* INSERT OR IGNORE of the work between the last checkpoint and "done",     *)
(* keyed by the unit it starts at.                                          *)
WithUnits(j, done, attempt) ==
  LET prev == Committed(j)
  IN  IF done > prev /\ \A u \in units[j] : u.from # prev
      THEN [units EXCEPT ![j] = @ \cup {[from |-> prev, to |-> done, attempt |-> attempt]}]
      ELSE units

(* The child, given the answer to its checkpoint, goes on or ends.          *)
Answered(w, ack) ==
  IF ack = "none" THEN [doing[w] EXCEPT !.at = "computing", !.ckpt = @ + 1]
  ELSE Ends(w, IF ack = "pause" THEN "paused" ELSE "CANCELLED")

Ack(w) ==
  IF w \in Nodes /\ Heard(Of(w)) # "none" THEN Heard(Of(w)) ELSE doing[w].told

(* Mutant form: a checkpoint takes the place of one of its generation.      *)
NumberedAnyhow(w) == TRUE
(* UNIQUE (job_id, generation) *)
Numbered(w) == \A c \in checkpoints[Of(w)] : c.generation # doing[w].ckpt + 1

(* publish_checkpoint_files: checkpoint, work units and fence in one        *)
(* transaction.                                                             *)
PublishCheckpoint(w) ==
  /\ doing[w].at = "checkpointing"
  /\ Fence(w) /\ Numbered(w)
  /\ LET d == doing[w]
     IN  /\ checkpoints' = [checkpoints EXCEPT ![d.job] = @ \cup
              {[generation |-> d.ckpt + 1, committed |-> d.done, attempt |-> d.generation]}]
         /\ units' = WithUnits(d.job, d.done, d.generation)
  /\ doing' = [doing EXCEPT ![w] = Answered(w, Ack(w))]
  /\ UNCHANGED <<job, run, reserved, lost>>

(* Fenced out, not bound to this job, or it could not be stored.  The child  *)
(* of a local worker is told to cancel unless it was told to pause.  A node *)
(* whose publication is refused gives the job up without a word; one whose  *)
(* upload is refused tells its child to cancel, which may have been told to *)
(* pause.                                                                   *)
CheckpointRejected(w) ==
  /\ doing[w].at = "checkpointing"
  /\ \/ w \in Nodes /\ doing' = [doing EXCEPT ![w] = Idle]
     \/ \E ack \in {"cancel", doing[w].told} \ {"none"} :
          /\ w \in Workers => ack = doing[w].told \/ doing[w].told = "none"
          /\ doing' = [doing EXCEPT ![w] = Answered(w, ack)]
  /\ UNCHANGED <<job, run, checkpoints, units, reserved, lost>>

Fail(w) ==
  /\ doing[w].at \in {"claimed", "computing"}
  /\ \E e \in {"COMPUTATION_ERROR", "FINAL"} :
       doing' = [doing EXCEPT ![w] = Ends(w, e)]
  /\ UNCHANGED <<job, run, checkpoints, units, reserved, lost>>

(* The child computes to the end.  complete_files, up to its first          *)
(* transaction: the output, its work units and the verdict of the           *)
(* verification are stored.                                                 *)
Verify(w) ==
  /\ doing[w].at = "computing"
  /\ IF Fence(w)
     THEN /\ \E verdict \in {"ok", "FINAL"} :
               doing' = [doing EXCEPT ![w] = Ends(w, verdict)]
          /\ units' = WithUnits(Of(w), Units[Of(w)], doing[w].generation)
          /\ run' = [run EXCEPT ![Of(w)].output = doing[w].generation]
     ELSE /\ doing' = [doing EXCEPT ![w] = Leave(w)]
          /\ UNCHANGED <<units, run>>
  /\ UNCHANGED <<job, checkpoints, reserved, lost>>

(* _finish_in, and _pause. *)
Finished(r, g, result) ==
  LET free == [r EXCEPT !.owner = Free]
  IN  CASE result = "paused" -> [free EXCEPT !.state = "queued", !.hold = TRUE]
        [] result = "ok" -> [free EXCEPT !.state = "succeeded", !.evidence = g]
        [] result = "COMPUTATION_ERROR" /\ r.retries > 0 ->
             [free EXCEPT !.state = "queued", !.retries = @ - 1]
        [] OTHER -> [free EXCEPT !.state = IF result = "CANCELLED" THEN "cancelled" ELSE "failed"]

Finish(w) ==
  LET j == Of(w)
      result == doing[w].result
      paused == Fence(w) /\ result = "paused"
  IN  /\ doing[w].at = "finishing"
      /\ job' = IF Fence(w)
                THEN [job EXCEPT ![j] = Finished(@, doing[w].generation, result)] ELSE job
      /\ run' = IF paused THEN [run EXCEPT ![j].control = "none"] ELSE run
      /\ reserved' = IF paused THEN [reserved EXCEPT ![j] = Free] ELSE reserved
      /\ doing' = [doing EXCEPT ![w] = Leave(w)]
      /\ lost' = IF Fence(w) THEN lost \ {j} ELSE lost
      /\ UNCHANGED <<checkpoints, units>>

(* The "finally" of run: the reservation of the job goes, whoever made it.  *)
Release(w) ==
  LET j == Of(w)
  IN  /\ doing[w].at = "releasing"
      /\ reserved' = [reserved EXCEPT ![j] = Free]
      /\ lost' = IF job[j].state = "running" THEN lost \cup {j} ELSE lost
      /\ doing' = [doing EXCEPT ![w] = Idle]
      /\ UNCHANGED <<job, run, checkpoints, units>>

-----------------------------------------------------------------------------
(* control of compute/service.py *)
Pause(j) ==
  /\ job[j].state = "running"
  /\ run' = [run EXCEPT ![j].control = "pause"]
  /\ UNCHANGED <<job, checkpoints, units, reserved, doing, lost>>

Resume(j) ==
  /\ job[j].state = "queued" /\ job[j].hold
  /\ job' = [job EXCEPT ![j].hold = FALSE]
  /\ run' = [run EXCEPT ![j].control = "none"]
  /\ UNCHANGED <<checkpoints, units, reserved, doing, lost>>

Cancel(j) ==
  /\ job[j].state \notin Ended
  /\ IF job[j].state = "queued"
     THEN /\ job' = [job EXCEPT ![j].cancel = TRUE, ![j].state = "cancelled"]
          /\ UNCHANGED run
     ELSE /\ job' = [job EXCEPT ![j].cancel = TRUE]
          /\ run' = [run EXCEPT ![j].control = "cancel"]
  /\ UNCHANGED <<checkpoints, units, reserved, doing, lost>>

(* A worker or a node dies; it comes back under the same name.              *)
Crash(w) ==
  /\ doing[w] # Idle
  /\ doing' = [doing EXCEPT ![w] = Idle]
  /\ UNCHANGED <<job, run, checkpoints, units, reserved, lost>>

(* worker.offline: a clean stop drops what an earlier life left reserved.   *)
Offline(w) ==
  /\ doing[w] = Idle
  /\ LET left == {j \in Jobs : reserved[j] = w}
     IN  /\ reserved' = [j \in Jobs |-> IF j \in left THEN Free ELSE reserved[j]]
         /\ lost' = lost \cup {j \in left : job[j].state = "running"}
  /\ UNCHANGED <<job, run, checkpoints, units, doing>>

Claim(w) ==
  /\ doing[w] = Idle
  /\ \E X \in SUBSET Jobs :
       \/ w \in Workers /\ (ClaimQueued(w, X) \/ ClaimAbandoned(w, X) \/ ClaimNothing(X))
       \/ w \in Nodes /\ NodeClaim(w, X)

Work(w) ==
  \/ Start(w) \/ RenewRefused(w)
  \/ Checkpoint(w) \/ PublishCheckpoint(w) \/ CheckpointRejected(w)
  \/ Fail(w) \/ Verify(w) \/ Finish(w) \/ Release(w)

Next ==
  \/ \E w \in Agents : Claim(w) \/ Work(w) \/ Crash(w)
  \/ \E w \in Workers : Offline(w)
  \/ \E j \in Pausable : Pause(j) \/ Resume(j)
  \/ \E j \in Cancellable : Cancel(j)

Spec == Init /\ [][Next]_vars

-----------------------------------------------------------------------------
(* What the promise sees of a job and of its results: output and evidence.  *)
Standing(state) ==
  IF state = "succeeded" THEN "delivered" ELSE IF state \in Ended THEN "closed" ELSE "open"

ShownOf(j) ==
  IF job[j].evidence = 0 THEN {} ELSE {<<job[j].evidence, run[j].output>>}

Stamp(g, w) == <<g, g>>

Promise ==
  INSTANCE FencedLease WITH
    Holders <- Agents, Nobody <- Free,
    turn <- [j \in Jobs |-> job[j].generation],
    holder <- [j \in Jobs |-> job[j].owner],
    recalled <- [j \in Jobs |-> job[j].cancel],
    standing <- [j \in Jobs |-> Standing(job[j].state)],
    shown <- [j \in Jobs |-> ShownOf(j)]

-----------------------------------------------------------------------------
Doings ==
  {Idle}
  \cup [at : {"claimed", "computing", "checkpointing"}, job : Jobs, generation : Nat,
        ckpt : Nat, done : Nat, told : Controls]
  \cup [at : {"finishing"}, job : Jobs, generation : Nat, result : Errors \cup {"ok", "paused"}]
  \cup [at : {"releasing"}, job : Jobs]

(* Types of the tables and of the agents' states; a job has an owner        *)
(* exactly while it runs, and one that is held is queued or was cancelled.  *)
ComputeTypeOK ==
  /\ job \in [Jobs -> [state : {"queued", "running"} \cup Ended, owner : Agents \cup {Free},
                       generation : Nat, retries : 0..MaxRetries,
                       cancel : BOOLEAN, hold : BOOLEAN, evidence : Nat]]
  /\ run \in [Jobs -> [control : Controls, preempted_for : Jobs \cup {Free},
                       output : Nat]]
  /\ \A j \in Jobs :
       /\ checkpoints[j] \subseteq
            [generation : Nat \ {0}, committed : 0..Units[j] - 1, attempt : 1..MaxClaims[j]]
       /\ units[j] \subseteq [from : 0..Units[j] - 1, to : 1..Units[j], attempt : 1..MaxClaims[j]]
  /\ reserved \in [Jobs -> {Free} \cup Workers]
  /\ doing \in [Agents -> Doings]
  /\ lost \subseteq Jobs
  /\ \A j \in Jobs : job[j].owner # Free <=> job[j].state = "running"
  /\ \A j \in Jobs : job[j].hold => job[j].state \in {"queued", "cancelled"}

(* However many attempts, local or remote, were cut short, resumed or       *)
(* started afresh, a later checkpoint holds no less work than an earlier    *)
(* one and comes from no earlier claim; no two have the same number.        *)
CheckpointsAdvance ==
  \A j \in Jobs : \A c, d \in checkpoints[j] :
    /\ c.generation < d.generation => c.committed <= d.committed /\ c.attempt <= d.attempt
    /\ c.generation = d.generation => c = d

(* What a succeeded job shows comes from one attempt, the one of its last   *)
(* claim: the output stored before the verdict and the evidence stored      *)
(* after, in two transactions.                                              *)
PublishedByLastClaim ==
  \A j \in Jobs :
    job[j].state = "succeeded" =>
      job[j].evidence = job[j].generation /\ run[j].output = job[j].generation

(* Every step is a step of FencedLease or changes nothing FencedLease sees: *)
(* over pauses, preemptions, retries, recoveries and crashes, on workers    *)
(* and nodes, only the attempt of the last claim delivers, output and       *)
(* evidence are both its own, and a job that ended is neither claimed nor   *)
(* cancelled nor are its results replaced.                                  *)
ImplementsFencedLease == Promise!Spec

(* An attempt stored its output and did not live to finish the job.         *)
CutShort(j) == \E u \in units[j] : u.to = Units[j] /\ u.attempt # job[j].generation

(* "committed work units are contiguous and never overlap": over pauses,    *)
(* retries and recoveries the ranges of a job start at 0, follow one        *)
(* another and, when the job succeeded, end at its total; unless an attempt *)
(* was cut short between its last two transactions.                         *)
UnitsContiguous ==
  \A j \in Jobs :
    ~CutShort(j) =>
      /\ \A u \in units[j] : u.from = 0 \/ \E v \in units[j] : v.to = u.from
      /\ \A u, v \in units[j] : u.to <= v.from \/ v.to <= u.from \/ u = v
      /\ job[j].state = "succeeded" => \E u \in units[j] : u.to = Units[j]

(* The same without the exception, as the tests state it.                   *)
UnitsCountedOnce ==
  \A j \in Jobs : \A u, v \in units[j] : u.to <= v.from \/ v.to <= u.from \/ u = v

(* The reservations never exceed the slots, and every job that runs under   *)
(* a local lease holds one of its owner, unless a release by an attempt of  *)
(* an earlier claim, or the sweep of a row that ran out, took it away.      *)
ReservationBacksRun ==
  /\ Cardinality({j \in Jobs : reserved[j] # Free}) <= Slots
  /\ \A j \in Jobs :
       (job[j].state = "running" /\ job[j].owner \in Workers /\ j \notin lost) =>
         reserved[j] = job[j].owner
=============================================================================
