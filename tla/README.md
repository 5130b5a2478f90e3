# MetaCoin: verification project

TLA+ models, model-checking runs and machine-checked proofs for the parts of
this repository in which money, work and evidence change hands: the payment
journal, the buyer adapter that spends under it, the durable job queue that
produces the evidence, the checkpointed computations on the queue, the workflows
that submit jobs under a budget, and the payment of accepted work. Paths below
are relative to the repository (`src/`).

Contents: [the system](#1-the-system), [plan](#2-plan),
[modules](#3-modules-and-the-code-they-model), [runs](#4-runs),
[proofs](#5-proofs), [disagreements](#6-where-the-code-and-its-documentation-disagree),
[limits](#7-what-is-not-modelled-and-what-is-only-model-checked).

## 1. The system

A workspace submits *contracts* for computations; *workers* execute them and
publish evidence; a reviewer audits the evidence; an accepted job entitles its
actor to one bounded *action* (buying the next compute), paid over an x402 rail.
Around this core the service adds a work board (requests, offers, awards,
milestones, payments), budgets, workflows, federation and sales.

| component | state | operations | meets | hard because | correct when |
|---|---|---|---|---|---|
| action journal (`experiments/work_contracts/execution_state.py`) | tables `jobs`, `actions` in `journal.sqlite` | register, audit, dispatch, reconcile, preview | the adapter, called outside every transaction; other processes through the file | crash between transactions, concurrent dispatch, lost and contradictory answers, expiry | exposure within the cap, one submission, one action per job, conclusions final |
| buyer (`metacoin_service/buyer.py`) | table `submissions` in `buyer.sqlite` | submit, reconcile | is the journal's adapter; HTTP resource; chain | lost answer after the money moved, re-presentation, two transactions around one send | one signature and one transfer per request; "failed" means nothing moved |
| job queue and worker (`jobs.py`, `worker.py`, `scheduling.py`) | tables `jobs`, `attempts`, `workers` | submit, batch, supersede, cancel, claim, execute, finish, drain | contracts, reviews, workflows, compute | lease expiry under a live worker, crash, cancel during execution, batch admission | evidence from the last claim only, bounded queue and retries, every job ends |
| payment actions (`actions.py`) | table `payment_actions` | create, reconcile, budget | wraps the journal in a service transaction | two databases, one of which may roll back | the row and the journal agree |
| work payments (`economy/money.py`, `economy/journal.py`) | `payment_intents`, `work_entitlements`, journal postings | prepare, authorize, submit, reconcile, refund, credit, close | board, evidence, rail | commits in the middle of a handler, lost answers, expiry and renewal | an entitlement is paid at most once; the journal agrees with the live view |
| evidence and disputes (`economy/evidence.py`) | decisions, entitlements, disputes, receipts | decide, dispute, correct, reassign | payments | dispute against a payment in flight | held obligations are not paid |
| board and treasury (`economy/board.py`, `economy/treasury.py`) | requests, offers, awards, milestones, allocations | offer, award, assign, deliver, release | budgets, jobs, payments | atomic award against an aggregate | commitments within confirmed revenue |
| budgets (`budgets.py`) | `budget_nodes`, `budget_reservations` | create level, check, reserve, settle, release_partial, set ceiling | workflows, awards | idempotency per reference, counters repeated at every ancestor | use within the ceiling at every level, counters equal to the reservations below |
| workflows, campaigns, schedules (`workflows.py`) | `workflow_runs`, `workflow_nodes` | start, tick, cancel; gates, exports | job queue, budgets, reviews, datasets | a walk over many rows that reads what other components changed between ticks; a refusal after a reservation | reservations follow the nodes, dependencies met, ends kept, a cancelled run ends |
| federation (`federation/service.py`, `node_worker.py`) | nodes, transfers | claim, renew, upload, publish, fail, drain, revoke | job queue, compute | remote leases, a node that computes on after its lease | fenced publication |
| compute (`compute/engine.py`, `service.py`, `exec.py`) | `compute_runs`, `compute_checkpoints`, `compute_work_units`, `compute_reservations` | reserve, checkpoint, pause, preempt, resume, verify, publish | job queue, federation | preemption, two transactions to publish, an unfenced release | work never goes back, units counted once, result of the last claim |
| sales (`x402_http.py`, `catalog.py`, `metering.py`) | quotes, sales, usage | quote, sell, settle, reconcile | facilitator | commit before an external call | one settlement per sale |
| verification, reviews, approvals | audits, decisions, proposals | audit, decide, approve | job queue | stale approvals | a decision binds what it saw |
| protocol (`protocol/*.py`) | append-only ledger files | append, verify, rotate keys | command line | one writer | hash chain, one use per key |
| demo economy (`demo/*.py`) | simulated ledgers | emit, spend | none | deterministic | conservation |

All service components share one SQLite database. `Database.tx()` (`db.py`)
runs a handler between `BEGIN IMMEDIATE` and `COMMIT`, so a handler that does not
commit in between is one atomic step; that is the granularity of every module
here. The journal and the buyer have databases of their own and commit several
times in one call, so one call is several steps there.

## 2. Plan

Order of work, most important behaviour first; later items build on earlier ones.

1. `ActionJournal` with `BudgetUnits` and the abstract `BoundedSpend`: done, checked and proved.
2. `BuyerSettlement`, composed with the journal by EXTENDS: done, checked,
   safety proved; the composition is proved to refine the journal.
3. `JobQueue` with the abstract `FencedLease`: done, checked; safety and the
   refinement proved.
4. `WorkPayments`: intents, the entitlement, the accounting journal, the rail with
   its nonces, decisions and disputes, the commit in the middle of `submit`: done,
   checked, safety proved. Left of it: `refund` (which commits in the middle as
   `submit` does), fees, and an abstract specification of an obligation that is
   discharged once and refunded at most once.
5. `BudgetTree` and `WorkflowEngine` over it, with the awards that share the tree:
   done, checked, safety proved. Left of it: reuse of earlier results, campaigns and
   schedules as further starters of runs, treasury allocations.
6. `ComputeJobs`: checkpoints, device slots, preemption, and nodes as further
   claimants: done, checked, safety proved, and the refinement of the same
   `FencedLease`. Left of it: several devices, chunked uploads, the standing of a node.
7. Sales and quotes (`x402_http.py`) as the counterpart of the buyer.
8. `actions.py`: the service database and the journal as two stores, one of which
   rolls back.

Every safety property of a passing run is a theorem now. Theorems planned next:
that `WorkPayments` implements an abstract obligation, discharged once; that the
jobs of `WorkflowEngine` implement `FencedLease` without its numbers, so that the
three modules agree on what a job is; and that the buyer implements a purse that
spends a nonce once.

## 3. Modules and the code they model

`BudgetUnits` gives the amounts of jobs and their sum over a set (the `SUM` of
`Journal._exposure`) as the `Cardinality` of the set of their units, one pair of a
job and a number for each unit of its amount.

`BoundedSpend` is the abstract promise of the journal: the action of a job is
committed at most once, within the cap, and then spent or released for ever.

`FencedLease` is the abstract promise of the tables of jobs to whoever submitted
one: loans of a job carry rising numbers, one holder has it at a time, another
may take it over, a result appears only when the holder of the last loan
delivers it, stamped with that loan, a job recalled while nobody has it closes,
and what has ended is never lent, recalled or delivered again. The stamp is an
operator CONSTANT, because the two implementations show different things of a
loan. Both `JobQueue` and `ComputeJobs` implement it (`Promise`,
`ImplementsFencedLease`): the number is `generation`, the holder `owner`, the recall
`cancel_requested`; the queue shows its evidence with the generation and the worker of
the claim, the compute jobs the generations under which their evidence and their
output were stored, which are two transactions and must be the same one.

`ActionJournal` models `execution_state.py`. Variables: `job` (table jobs),
`row` (table actions), `expired` (contracts whose `expires_at` has passed),
`call` (where each process is between two transactions), `submits` (how often
the adapter was called, a history variable). Each `with self._tx()` block is one
action: `_reserve` is `ReserveNew`/`ReserveAgain`, `_claim` is
`ClaimExpired`/`ClaimReserved`/`ClaimNothing`, `_finish` is `Record`/`Refuse`,
`_unknown` is `MarkLost` and `MarkUnknown`, the first transaction of `reconcile`
is `ReleaseExpired`/`StartReconcile`. `Crash` can happen between any two. A
caller passes `now` once (`"pinned"`: every transaction of the call sees the same
time) or leaves it out (`"live"`). The adapter may return any answer at all, about
any request, with any units. A call that raises without writing changes nothing
and is not a step.

`BuyerSettlement` EXTENDS the journal and replaces "any answer" by the actual
adapter: `RecallStored`/`RecallNothing`/`AskPrice` are the head of `submit` and
`reconcile`, `SignAndPersist` signs and inserts the submission, `Present` is the
paid request, `Conclude` is `_classify` with `_set`, `TimeOut` the exception
branch. The resource server and the chain are the environment: they settle,
refuse or keep a payment pending at any later time, and a nonce moves funds at
most once. `Idempotent` are the requests whose server recognises a repeated payment.

`JobQueue` models `jobs.py`, `worker.py` and `scheduling.py`. `Submit` and
`SubmitBatch` are admission (`RoomFor`: the workspace bound and the principal's
quota), `Cancel` is `jobs.cancel`, `Claim` is `worker.claim` (a fair queued job,
else an expired lease), `ExecuteStopped`/`ExecuteAnswered` the child process with
the unlocked read of the cancel flag, `Publish`/`FencedOut` are `_finish_in`,
`Expire` is time passing, `Crash` the death of a worker process.

`WorkPayments` models `economy/money.py`, the decisions and disputes of
`economy/evidence.py` and the exposure account of `economy/journal.py` for one
milestone of an award. Variables: `milestone` (its row, with the verdict of its
current decision), `dispute` (the one that is not closed), `ent` (row of
work_entitlements), `award`, `intent` (table payment_intents), `late` (intents
whose `valid_until` has passed), `entries` (journal_entries by event key, so a
second post of a key changes nothing), `submitting` (what a handler carries
across a commit), `used` (the Permit2 nonces the chain has seen) and `overtaken`
(a history variable). A handler is one action (`Decide`, `OpenDispute`,
`DecideDispute`, `CloseDispute`, `Prepare`, `Authorize`, `CloseAward`, and one
action per outcome of `reconcile`: `ReconcileExercised`, `ReconcileExpired`,
`ReconcileRetryable`), except `submit`, which commits in the middle (`money.py:289`): `Submit` ends
at the COMMIT, `CallRail` is the rest. `SubmitLate` is the refusal that commits
an expiry. A decided dispute that is appealed or rechecked is `Reopen`; states
`responded` and `recheck` before the first outcome are "open", because nothing
reads them apart. The rail executes an unused, unexpired nonce within the call
or not at all; the answer may be right, lost, about another amount, or the
request may die after the rail executed.

Left out of `WorkPayments`: refunds and fees, metered amounts (all amounts are
one unit), treasury funding, the application-journal rail (it settles without
an outside call), a private chain that was restarted (nothing can be observed
then, and nothing changes), stale terms and substituted recipients (they refuse
the request), payments for diagnostics of a rejected milestone, and the postings
to accounts other than `exposure:pending`.

`BudgetTree` gives the functions of `budgets.py` as operators from a tree to the
tree they leave: `CreateChild`, `Reserve`, `Commit`, `Release`, `ReleasePartial`,
`SetCeiling`, and the refusal of `check` with its nearest level
(`FirstRefusal`), which decides whether waiting can help (`Retryable`). It has
no variables: the tables are one value that the callers change inside
transactions of their own.

`WorkflowEngine` EXTENDS it and models `workflows.py`. Variables: `tree`, `run`
(workflow_runs), `node` (workflow_nodes), `job` (the job of a node, as far as the
engine reads it), `deleted` (datasets) and `revoked` (principals). `Tick` is one call of `advance`, in
one transaction: `Walk` is the sequence of tables after each `Visit` of the
topological order, and `Derived` the state of the run after the last, read from the
walk's own table of nodes, which does not have the nodes started in this walk
(`InMemory`). `Visit`
has the branches of the code in their order: an ended node, a cancellation,
`Follow` for a job under way, a gate that waits, and a node that may start
(`StartService`, `OpenGate`, a dataset, an export) or not (`Meets`, `Hopeless`,
read at the first dependency that is not met). What may be refused inside a
visit, and is caught there (a contract, a review request, an export), is a
nondeterministic set `refused` of nodes that may start in this tick. `Advance`
is the worker's tick, `Cancel` sets the flag and ticks in the same transaction.
Both need `Walkable`: the owner of the run was not revoked, else `_principal`
raises and the transaction is rolled back. The worker's tick is one transaction
for all runs; a tick that is taken is the same as one `Advance` after the other,
and that one run can prevent the ticks of all is `Halted` (see the fairness in section 4).
Between the ticks, `JobClaim`, `JobEnds`, `JobCancel`, `RequestReview`,
`DecideReview`, `DeleteDataset`, `AwardReserves`, `AwardCloses`,
`SetWorkspaceCeiling` and `Revoke` are everyone else. The job is an abstraction of the one in
`JobQueue`: queued, running or ended, with the flag to cancel and the retries,
so that a flagged job may return to the queue here too.

`ComputeJobs` models `compute/engine.py`, `compute/service.py`, the claim of
`worker.py` for compute kinds, and the same work done by a node through
`federation/service.py` and `federation/node_worker.py`. Variables: `job`, `run`
(compute_runs), `checkpoints`, `units` (compute_work_units), `reserved`
(compute_reservations), `doing` (where each worker and node is between two
transactions) and `lost` (a history variable: running jobs whose reservation was
taken away while their lease went on). Time is a choice: each claim names the
set `X` of jobs whose lease and reservation have run out by then. A claim is one
transaction with everything it does on the way: `resume_preempted` (`Unheld`,
`Resumed`), the sweep and the slot of `try_reserve` (`Reserve`, `Room`),
`preempt_if_fair` for each candidate that finds no slot (`Asks`, `Asked`), and
the three ends `ClaimQueued`, `ClaimAbandoned`, `ClaimNothing`. An attempt is
`Start`, `Checkpoint`, `PublishCheckpoint` or `CheckpointRejected`, `Verify`
(the first transaction of `complete_files`), `Finish` (the second, or
`_pause`), `Release` (the `finally` of `run`), with `RenewRefused`, `Fail` and
`Crash` in between.

Left out of `ComputeJobs`: telemetry, logs, plans and views, memory figures and
more than one device, the retention of old checkpoints (which never removes the
newest), the chunks of an upload (taken whole or not at all), the standing of a
node. A job that ends before its child is started because its manifest changed or
its device is gone (`engine.py:181`, `184`) fails without the `finally`, so its
reservation stays until it runs out; the model has that end as a `Fail` that goes
through `Release`, and a reservation that is left to the sweep after a `Crash`.
Lease and reservation are renewed in two transactions (`engine.py:237-241`), one
step here, so that the lease runs out exactly when the reservation does. A job is never both preempted and a reason to preempt
(`PreemptionAssumption`), a restriction of the model.

The modules whose names start with MC give values to constants and symmetry sets and nothing else.
Definitions commented "mutant form" are plausible mistakes; the project keeps
them next to the definition they would replace to show that each property
notices one.

## 4. Runs

`CHECK_DEADLOCK FALSE` is set everywhere because every component may come to
rest: all rows concluded, all jobs ended, the environment silent.

| cfg (module) | bounds | what it shows |
|---|---|---|
| `MCActionJournal.cfg` | 2 jobs of 1 and 2 units under a cap of 2, 2 request ids, 2 roots, 2 callers | the two jobs cannot both be exposed; both ids can be tried on either job; two processes race in every transaction; 579,832 states |
| `MCBuyerSettlement.cfg` | 2 jobs, 2 ids, 2 callers; one server recognises repeats, the other may refuse them | one signature and one transfer per request; what was conclusively refused did not move; transfers fit the cap, those written off on the word of a server that forgets its verdicts aside; 958,532 states |
| `MCBuyerRefused.cfg` | 1 job, 1 id, 2 callers, server that refuses repeats | violated, see section 6 |
| `MCJobQueue.cfg` | 3 jobs, 3 contracts of 2 submitters, 2 workers, bound 2, quota 2, 1 retry; 3, 0 and 0 claims | admission at the limits, single and in batches; stale workers, retries, cancels, supersession; every step is one of the abstract lease; 421,478 states |
| `MCJobQueueFair.cfg` | 1 job, 2 workers, 1 retry, 1 crash, 3 claims | uncancelled jobs end; 3,900 states |
| `MCJobQueueCancel.cfg` | the same | violated, see section 6 |
| `MCWorkPayments.cfg` | 1 handler, 2 intents, 2 submissions each, 3 decisions | loss, expiry, retry and renewal of a payment under decisions and disputes; 653,318 states |
| `MCWorkPaymentsOvertaken.cfg` | 2 handlers, 1 decision | violated, see section 6 |
| `MCWorkflowEngine.cfg` | run of 4 nodes (dataset, service, gate, export), run of 1 node under ceilings of its own, 1 award; ceilings 1 and 2, 1 retry, 2 live jobs, 2 outcomes | each run has an owner who may be revoked; budget exact and within its ceilings; dependencies, ends and cancellation of runs; 274,324 states |
| `MCWorkflowHeld.cfg` | the same with room for 1 live job | violated, see section 6 |
| `MCComputeJobs.cfg` | a job of 2 units with 2 claims that a node may take, a job of 1 unit with 1 claim that preempts it, 2 workers, 1 node, 1 slot, 1 retry; the first may be paused and cancelled | checkpoints advance, units contiguous, slots; one publisher, as every step is one of the abstract lease; 594,653 states |
| `MCComputeUnits.cfg` | the same, only the small job is cancelled | violated, see section 6 |

Why the bounds are enough. Every hazard listed for a component needs at most two
actors on one object plus one bystander: two callers for one row, two workers
for one job, a second object only where something is shared between objects (the
cap, the admission bound, the budget, the slot). `MaxGeneration` is
`1 + MaxRetries + MaxCrashes` in the fair runs, so the cap on claims never stops
a job that could go on; in the safety run it differs per job: one changes hands
twice (three claims, so that two stale claims can be pending), the others only
take room in the queue; two jobs executed side by side, for `PublishedOnce`, are
left to the proof. The cap only cuts off repetitions of the same race. One handler is enough in `MCWorkPayments.cfg`: a second one can be
inside `submit` for the same entitlement only after somebody reconciled the
intent of the first, which sets `overtaken`; the properties that claim
nothing then are the three with that proviso, the other invariants are proved for every
number of handlers. In the workflow run the chain of four nodes has every type
of node and every kind of dependency (`succeeded`, `accepted_review`,
`outcome_in`), and the second run makes the budget three levels deep and
contended. In the compute run two claims of the big job are a first attempt and
one that resumes it, locally or remotely, and two units give a checkpoint in the
middle. Two intents are a payment and its renewal, two submissions a
loss and its retry, three decisions a reversal that is reversed. The proofs of
section 5 remove the bounds for the properties they cover.

Fairness (`JobQueue!FairSpec`): `run_forever` polls `claim` (weak fairness of a
claim per worker), the child process is killed at `job_timeout_seconds` (weak
fairness of `Execute`), `_finish` is straight-line code, and time passes (weak
fairness of `Expire`). `LeaseOutlastsRun` is TRUE there because the default job
timeout (30 s) is below the lease (60 s). Nothing is assumed about submissions,
cancellations, drains or crashes, except that crashes are finitely many and some
worker is from some time on not drained (`Staffed`, part of the property).

Fairness (`WorkflowEngine!FairSpec`): the worker loop calls `tick_workflows`
after every job (`worker.py:273-306`), which advances all active runs in one
transaction and swallows what that raises. So a tick of a run is taken in the end
only while nothing in that transaction raises. Within the engine that is a run
whose owner was revoked (`Halted`), and then no run at all is ticked by a worker.
The fairness therefore speaks of active runs that were asked to stop, while no
active run has a revoked owner (`Stopping`); it is weak fairness of their
`Advance`, with the condition under which it changes something written out
(`TickMoves`, which TLC evaluates faster than ENABLED of a walk). It assumes of the
code outside the model that the other parts of that transaction (campaigns,
schedules, packages, verification, economy) do not raise for ever, and that the
workspace has a reviewer, without which starting a service node raises
(`workflows.py:410-411`). Workers serve the queue (weak fairness of `JobMoves` for
service nodes: a claimable job is claimed, a running one ends). Nothing is assumed
of reviewers, owners or awards, so only a run that was asked to stop is claimed to
end, with two exceptions: a job stuck in the queue, which the run
`MCJobQueueCancel.cfg` shows, and halted ticks. The second is needed as it stands:
with the proviso about the owner of the run itself alone, TLC finds the
counterexample of section 6.

## 5. Proofs

All proofs are checked by TLAPS from the named assumptions on the constants, for
every number of jobs, ids, callers, workers, and every cap and bound.

* `BudgetUnitsProofs`: the sum of a finite set of jobs is a natural number, grows by the
  amount of a job added, and is monotone. The sum is the number of units the jobs
  hold, a cardinality, so the proofs are about disjoint finite sets.
* `ActionJournalProofs`: `IInv` is inductive. It adds to the checked invariants
  that an accepted job has a recorded root (`AcceptedUnderRoot`), that a call in
  progress has a row (`CallsHaveRows`), and that the right to call the adapter is
  held by at most one caller and only before the first submission
  (`RightToSubmit`); without the last, `SubmittedAtMostOnce` is not inductive. `ExposureWithinCap`
  follows by comparing the set of exposed jobs before and after each step: it
  grows only in `ReserveNew`, whose guard adds the new amount. From `IInv` come
  the finality of conclusions (`ConclusionFinal`) and the refinement of
  `BoundedSpend` (`JournalKeepsPromise`).
* `BuyerSettlementProofs`: every step of the composition is a step of the
  journal or leaves it alone (`BuyerIsAdapter`), so the journal's theorems hold
  under the HTTP buyer (`BuyerExposureBounded`). Two more invariants say what the
  buyer adds. `WireInv`: one caller at a time waits for a request, it is priced and
  signed only while nothing is stored, and whatever is sent is what is stored; from
  it `OneSignature`, `SentAfterStored` and `MovedOnce`. `VerdictInv`: every place
  that carries an outcome (a reply, a stored submission, an answer on its way to
  the journal, a row) does so on the final verdict of the server, or on that of a
  request that never will be sent (`Untouched`); from it `ConfirmationBacked`,
  `RefusalConclusive` and, with the bounded exposure of the journal,
  `SpendingBounded`. None of these properties is inductive alone: the row
  says nothing of what is on its way to it.
* `JobQueueProofs`: the inductive invariant relates what a worker remembers of
  its claim to the row: a claim is never ahead of the row's generation, evidence
  exists only for ended jobs and carries the last generation. From it,
  `StaleWorkerCannotPublish`, `QueueTypeCorrect`, `EndedIsFinal`, and the
  refinement of `FencedLease` (`QueueKeepsPromise`): every step but an admission
  changes one job (`OneJob`), an admission brings jobs that look like ones nobody
  has claimed yet (`NewlySeen`), and each handler maps to one abstract action or to a
  stutter. `EndedStaysEnded` is no longer checked by a run of its own, since
  `FencedLease` already demands it; the theorem stays. Admission has an
  invariant of its own (`AdmissionInv`): every step either admits no job, and then
  the live jobs only shrink and keep their contracts, or is a submission of a
  finite set of jobs for which room was found; counting gives `AdmissionBounded`,
  and that a new job's contract had no live one gives `ContractExclusive`.
* `WorkflowEngineProofs`, with `BudgetTreeProofs` for the lemmas of the tree: each
  operator of the tree keeps `WithinCeiling`, `CountersAgree` and the shape of
  the tree (`Reserve` adds its units to the sums of its chain, `Close` moves them
  from one sum to the other), for any finite set of references. A tick is a walk
  of arbitrary length, and induction over it is not available here, so the
  argument is by a least counterexample: if some table of the walk broke the
  invariant, take the first; it is not the one the tick began with, and one
  visit keeps the invariant. The one-visit lemma splits along the branches of
  `Visit`. From the invariant come `TypesHold`, `CeilingsHold`, `CountersHold`
  and `ReservationsFollow`. A second invariant, `OrderInv`, is about order.
  Every visit, and every step, is `Unrevised`: it keeps the end of a node, the
  outcome of a job that succeeded and the acceptance of its review; so a
  dependency that is met stays met, and `Orderly` (only services have jobs,
  ended nodes have no live one, what is started has its dependencies met) is
  kept. `RunsSettle` says that a run at rest has ended nodes only and is what they
  derive to, which a later tick therefore derives again; the walk's own table tells
  the same of such a run as the rows do (`InMemoryEnds`). From it come
  `DependenciesHold`, `CancelledIsIdle` and `EndsHold`. They assume of a
  definition what `validate_definition` checks (`workflows.py:65-161`): in
  particular that its outputs are nodes of it (`OutputsAssumption`); the
  topological order itself is not needed.
* `ComputeJobsProofs`: the invariant is the types, the facts of the tables
  (checkpoints numbered uniquely and advancing in work and in claim, output and
  evidence of the last claim, slots and owners) and, per agent, `Carries`: what
  an agent knows is never ahead of the row; and while it holds the lease, every
  checkpoint lies behind what it has computed, or the number it would publish is
  taken. The second alternative is for a node that could not fetch the
  checkpoint and started afresh: the UNIQUE key refuses its checkpoint.
  `ResumedWorkAdvances`, `LastClaimPublishes` and `SlotsHold` follow for any
  number of jobs, workers, nodes, units and claims. `UnitsFollowOn` needs a
  second invariant, `UInv`, as `UnitsContiguous` says nothing of the attempt that is
  about to add a range: unless an attempt was cut short, every stored range ends at the total or no
  further than some checkpoint, and every checkpoint lies at the end of a range
  (`Follow`), so the next range starts where the last one ends; and an attempt
  that still computes under its lease has not counted the last unit, while one
  that verified its output has it counted (`Covers`). Each claim has a
  generation of its own, so a range tells which claim stored it. `ComputeKeepsPromise`
  is the refinement of `FencedLease`: whatever resumption, the sweep and preemption
  do inside a claim, it gives one job to one agent under the next number, or none
  (`Given`, `Stays`, `TakesGives`), and a result becomes visible only in `Finish`
  (`ShownWhenDelivered`), with an output of the same claim. `PublishedByLastClaim` is a theorem
  only, as the promise demands it of every step.
* `WorkPaymentsProofs`: two inductive invariants. `TInv` adds `Linked` to the
  types: intents exist only for an entitlement, a handler inside `submit` carries
  an intent that exists, and an open dispute has its milestone disputed. From that
  `DisputePausesPayment` has that no submission starts while the dispute is open,
  although the code's guard reads only the milestone and the entitlement. `SInv` is conditional on `overtaken = {}` and says why one nonce is
  used at most: at most one intent is neither failed nor expired
  (`OneUnresolved`), a handler is inside `submit` only for an intent in state
  submitted whose nonce is unused, and alone (`SubmittingIsSubmitted`), and a used nonce keeps its intent in
  flight or settled (`UsedIsKept`). `OneTransferUnlessOvertaken` is not inductive by itself:
  nothing in it stops a used intent from being renewed. `PaidIsMoved` and
  `DisputePausesPayment` need no proviso. `JournalHoldsExposure` has an invariant
  of its own, `LInv`: the journal is a set of entries under event keys, so a posting
  counts only if its key is new. Therefore every entry names an existing intent
  and a submission that took place, the last submission of an intent in flight has
  not been released, only a settled intent has a settlement
  (`EntriesAreDated`), and a handler inside `submit` carries the number of the last
  submission (`CarriedIsLast`).

## 6. Where the code and its documentation disagree

* **A refusal of a re-presented payment.** The doc of `buyer.py` says that when a
  re-presented payment is refused "the outcome stays unknown"; `_classify` records
  every 402 refusal as `FAILED_CONFIRMED`, and the journal then releases the
  exposure of a payment that may have been settled. Run `MCBuyerRefused.cfg`.
  With a resource that deduplicates by payment identifier the property holds
  (`MCBuyerSettlement.cfg`).
* **A cancelled job that never ends.** A cancellation requested while a job runs
  is a flag; if the attempt then times out, the retry branch queues the job again
  with the flag set, and no claim takes a flagged job. Run `MCJobQueueCancel.cfg`.
* **A submission overtaken by a reconcile.** `submit` promises "never a second
  spend". Between its COMMIT and its call of the rail, another request may
  reconcile the intent (nonce unused: back to authorized) and submit it again. One
  of the two calls settles; the other is refused for the used nonce and writes
  `failed` and `payable` over the settled payment, which can then be prepared and
  paid again. Run `MCWorkPaymentsOvertaken.cfg`. Without such an overtaking the
  property holds (`MCWorkPayments.cfg`) and is proved (`PaidByOneTransfer`).
* **Units held for work that does not exist.** A node reserves its units and then
  submits its job; if the queue refuses the submission, the node is blocked and
  the reservation stays for ever, although reservations are "made when a node's
  job is created" and released when it ends. Run `MCWorkflowHeld.cfg`. The same
  happens to a node whose job is still live when the run is complete because
  its outputs are: no later tick settles it.
* **Work units counted twice.** The last work units of a job are stored in one
  transaction and the job is finished in another; an attempt that dies in between
  is recovered from an earlier checkpoint, and the next ranges overlap the
  stored one, which the tests and the README exclude. Run `MCComputeUnits.cfg`.
  Without such an attempt the ranges are contiguous (`MCComputeJobs.cfg`). The
  amount charged comes from `work_committed` and is not affected.

What the code does beside that, without a property of its own:

* An award closes after a rejection although the dispute window is open; a
  superseding acceptance is then paid from the closed award, whose reservation
  was released (`money.py:428-446`, `evidence.py:473-478`).
* A dispute decided as unresolved is later closed "last decision stands", which
  does not touch the milestone; it stays disputed without a dispute, and no
  handler takes it out of that state (`evidence.py:494`).
* A dispute "pauses ... release of the reserved obligation" (`evidence.py:355`) by
  the state of its milestone alone. Once an outcome has restored the acceptance
  (`uphold`, `supersede_acceptance`), an appeal or a recheck of the dispute
  (`evidence.py:421`, `430`) leaves the milestone accepted, and the payment goes on
  while the dispute is decided again. `NothingSubmittedBeforeOutcome` says what
  holds.
* One run whose owner was revoked stops the ticks of all: `advance` raises
  FORBIDDEN for it (`workflows.py:304-308`, `431`), `tick_workflows` walks every
  run, campaign and schedule in one transaction under `except Exception: return
  None` (`worker.py:273-286`), and the run stays active, since cancelling it ends in
  the same exception. The docstring says "errors in one run do not stop the
  worker" (`worker.py:274`), and the doc of the engine says "each tick is one
  transaction per node transition" (`workflows.py:22-23`). A run somebody else
  asked to stop then ends only if a request advances it. `CancelledRunEnds` names this in its
  last alternative; without it, TLC shows run `r1` cancelled with its job under way,
  `r2` active, the owner of `r2` revoked, and `r1` never ended.
* The `finally` of a compute attempt deletes the reservation of its job by job id
  (`engine.py:212-214`): a stale attempt frees the slot of the one that
  recovered the job. `ReservationBacksRun` names the exception through `lost`.
* The update for the event "resumed" is not fenced (`engine.py:274-275`) and can
  lower `work_committed` of a job that another attempt runs.
* The control `resume` clears the request to pause but not `preempted_for`
  (`compute/service.py:80-84`), so a job its owner resumed is not asked to make
  way again.
* A child whose checkpoint could not be stored (`engine.py:283`), or at a node could
  not be uploaded (`node_worker.py:208-213`), is told to cancel, and the job ends
  cancelled although nobody asked for it.

## 7. What is not modelled, and what is only model-checked

Liveness under fairness, and everything that needs ENABLED, is checked by TLC
only; so is what a recursive definition computes for every input (the proofs use
one-step facts). Of the checked properties, those without a theorem in section 5
rest on their runs: the liveness properties `UncancelledJobsEnd` and `CancelledRunEnds`
(that liveness is also not carried by the refinements: the abstract
specifications state safety only).

Pure data (Merkle receipts, contract validation, canonical JSON, digests) is
abstracted to identity of values: a request is its binding, an audit yields a
root and an outcome. HTTP routing, authentication, templates, the numerical
kernels, model runtimes and document extraction are outside: they keep no shared
state of their own or borrow the queue's. The command-line protocol tools write
append-only files from a single process. The components listed in section 1 that
are not in section 3 are planned (section 2) or left out for these reasons. Between
the modules, a job is abstracted to what the module reads of it: `WorkflowEngine`
and `ComputeJobs` take submission limits, fair order and supersession from
`JobQueue` as given.
