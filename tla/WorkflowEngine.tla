--------------------------- MODULE WorkflowEngine ---------------------------
(***************************************************************************)
(* The workflow engine (workflows.py) over the budget tree (budgets.py):   *)
(* runs of immutable definitions whose nodes become jobs, wait for signed  *)
(* reviews and publish exports.  advance() walks the nodes of a run in     *)
(* topological order inside one transaction and derives the run's state;   *)
(* everything else - the workers, the reviewer, people, awards that share  *)
(* the tree - moves between two ticks.                                     *)
(*                                                                         *)
(* Jobs are abstracted to what the engine reads of them; JobQueue is the   *)
(* module that models the queue itself.                                    *)
(***************************************************************************)
EXTENDS BudgetTree, Sequences

CONSTANTS
  Runs,           \* requests to run a definition
  Principals,     \* owners of the workspace
  StartedBy,      \* [Runs -> Principals]
  Nodes,          \* the nodes of all of them: (run, node id)
  Awards,         \* awards of the work board, which reserve from the same tree
  Order,          \* [Runs -> Seq(Nodes)]: the topological order stored with the definition
  Type,           \* [Nodes -> NodeTypes]
  Needs,          \* [Nodes -> Seq([node, require, outcomes])]: depends_on
  Input,          \* [Nodes -> Nodes]: the service node a gate waits for
  Outputs,        \* [Runs -> SUBSET Nodes]
  RunCeiling,     \* [Runs -> Nat or NoCeiling]: budget_ceiling of the request
  NodeCeiling,    \* [Nodes -> Nat or NoCeiling]: budget of the definition
  Amount,         \* [Refs -> Nat]: policy amount of a node, ceiling of an award
  RootCeiling,    \* the workspace's first ceiling
  Ceilings,       \* the ceilings an administrator sets
  Outcomes,       \* scientific outcomes
  MaxRetries,     \* limits.job_max_retries
  MaxLive,        \* limits.max_queued_per_workspace, less the jobs no run started
  MaxActive,      \* limits.max_active_workflows
  NoCeiling, NoJob

NodeTypes == {"dataset", "service", "review_gate", "export"}

ASSUME WorkflowAssumption ==
  /\ Runs \cap Nodes = {} /\ Runs \cap Awards = {} /\ Nodes \cap Awards = {}
  /\ Root \notin Runs \cup Nodes \cup Awards
  /\ Levels = {Root} \cup Runs \cup Nodes \cup Awards
  /\ Refs = Nodes \cup Awards
  /\ StartedBy \in [Runs -> Principals]
  /\ Order \in [Runs -> Seq(Nodes)]
  /\ Type \in [Nodes -> NodeTypes]
  /\ \A n \in Nodes : \A i \in DOMAIN Needs[n] : Needs[n][i].node \in Nodes
  /\ Amount \in [Refs -> Nat]
  /\ RootCeiling \in Nat /\ Ceilings \subseteq Nat
  /\ RunCeiling \in [Runs -> Nat \cup {NoCeiling}]
  /\ NodeCeiling \in [Nodes -> Nat \cup {NoCeiling}]
  /\ NoCeiling \notin Nat
  /\ MaxRetries \in Nat

(* validate_definition: a gate depends on the service node it waits for.     *)
ASSUME GateAssumption ==
  \A n \in Nodes : Type[n] = "review_gate" =>
    /\ Input[n] \in Nodes /\ Type[Input[n]] = "service"
    /\ \E i \in DOMAIN Needs[n] : Needs[n][i].node = Input[n]

VARIABLES
  tree,           \* budget_nodes and budget_reservations
  run,            \* workflow_runs: [state, cancel]
  node,           \* workflow_nodes: their state
  job,            \* the job of a node: NoJob or [state, cancel, retries, review, outcome]
  deleted,        \* dataset nodes whose payload was deleted
  revoked         \* principals that were revoked
vars == <<tree, run, node, job, deleted, revoked>>

NodesOf(r) == {Order[r][i] : i \in DOMAIN Order[r]}
RunOf(n)   == CHOOSE r \in Runs : n \in NodesOf(r)

(* validate_definition: the outputs are nodes of the definition. *)
ASSUME OutputsAssumption == \A r \in Runs : Outputs[r] \subseteq NodesOf(r)

Services  == {n \in Nodes : Type[n] = "service"}
Ended     == {"succeeded", "failed", "cancelled", "blocked"}
Waiting   == {"pending", "waiting_dependency", "waiting_review"}
InFlight  == {"queued", "running"}
Active    == {"running", "waiting_review"}
Final     == {"completed", "cancelled", "failed"}
RunStates == {"none", "blocked", "partially_failed"} \cup Active \cup Final

JobStates == {"queued", "running", "succeeded", "failed", "cancelled"}
Job == [state : JobStates, cancel : BOOLEAN, retries : 0..MaxRetries,
        review : {"none", "requested", "accepted", "rejected"}, outcome : Outcomes \cup {"none"}]
NewJob == [state |-> "queued", cancel |-> FALSE, retries |-> MaxRetries, review |-> "none", outcome |-> "none"]
ASSUME NoJobAssumption == NoJob \notin Job
LiveJob(j) == j # NoJob /\ j.state \in InFlight

WorkflowTypeOK ==
  /\ tree \in Trees
  /\ run \in [Runs -> [state : RunStates, cancel : BOOLEAN]]
  /\ node \in [Nodes -> Ended \cup Waiting \cup InFlight]
  /\ job \in [Nodes -> Job \cup {NoJob}]
  /\ deleted \subseteq Nodes
  /\ revoked \subseteq Principals

Init ==
  /\ tree = EmptyTree(RootCeiling)
  /\ run = [r \in Runs |-> [state |-> "none", cancel |-> FALSE]]
  /\ node = [n \in Nodes |-> "pending"]
  /\ job = [n \in Nodes |-> NoJob]
  /\ deleted = {}
  /\ revoked = {}

-----------------------------------------------------------------------------
(* start_run: under the quota of active runs, every level the definition    *)
(* and the request name is created, or the request is refused.             *)
LevelOfRun(r) == IF RunCeiling[r] = NoCeiling THEN Root ELSE r
WithRunLevel(t, r) ==
  IF RunCeiling[r] = NoCeiling THEN t ELSE CreateChild(t, r, Root, RunCeiling[r])
Budgeted(r) == {n \in NodesOf(r) : NodeCeiling[n] # NoCeiling}
WithNodeLevels(t, r) ==
  LET new == Budgeted(r) \ t.made IN
  [t EXCEPT !.made    = @ \cup new,
            !.parent  = [l \in Levels |-> IF l \in new THEN LevelOfRun(r) ELSE @[l]],
            !.ceiling = [l \in Levels |-> IF l \in new THEN NodeCeiling[l] ELSE @[l]]]

StartRun(r) ==
  LET t == WithRunLevel(tree, r) IN
  /\ run[r].state = "none" /\ StartedBy[r] \notin revoked
  /\ Cardinality({q \in Runs : run[q].state \in Active}) < MaxActive
  /\ RunCeiling[r] # NoCeiling => Admissible(tree, Root, RunCeiling[r])
  /\ \A n \in Budgeted(r) : Admissible(t, LevelOfRun(r), NodeCeiling[n])
  /\ run' = [run EXCEPT ![r].state = "running"]
  /\ tree' = WithNodeLevels(t, r)
  /\ UNCHANGED <<node, job, deleted, revoked>>

-----------------------------------------------------------------------------
(* One visit of advance() takes the tables of the transaction, a record     *)
(* [tree, node, job], to the tables it leaves.                             *)
To(x, n, state) == [x EXCEPT !.node[n] = state]

(* Mutant form: the outcome of the job is not looked at. *)
MeetsAnyOutcome(x, d) ==
  /\ x.node[d.node] = "succeeded"
  /\ d.require = "accepted_review" => x.job[d.node] # NoJob /\ x.job[d.node].review = "accepted"
(* _deps_satisfied: the first dependency that is not met decides whether    *)
(* the node waits or is blocked.                                           *)
Meets(x, d) ==
  /\ x.node[d.node] = "succeeded"
  /\ d.require # "succeeded" => x.job[d.node] # NoJob
  /\ d.require = "accepted_review" => x.job[d.node].review = "accepted"
  /\ d.require = "outcome_in" => x.job[d.node].outcome \in d.outcomes
Hopeless(x, d) ==
  \/ x.node[d.node] \in {"failed", "cancelled", "blocked"}
  \/ x.node[d.node] = "succeeded" /\ (d.require = "outcome_in" \/ x.job[d.node] = NoJob)
  \/ x.node[d.node] = "succeeded" /\ x.job[d.node].review = "rejected"
Unmet(x, n) == {i \in DOMAIN Needs[n] : ~ Meets(x, Needs[n][i])}
FirstUnmet(x, n) == Needs[n][CHOOSE i \in Unmet(x, n) : \A k \in Unmet(x, n) : i <= k]

(* jobs.cancel: a queued job ends at once, a running one is asked to stop.  *)
CancelJob(j) ==
  IF j.state = "queued" THEN [j EXCEPT !.state = "cancelled", !.cancel = TRUE] ELSE [j EXCEPT !.cancel = TRUE]

(* Mutant form: a failure is noticed but its reservation is left. *)
FollowWithoutRelease(x, n, cancel) ==
  LET j == x.job[n] IN
  CASE j.state = "succeeded" -> To([x EXCEPT !.tree = Commit(@, n)], n, "succeeded")
    [] j.state = "queued" -> x
    [] OTHER -> To(x, n, j.state)
(* A node whose job is under way takes the state its job had when the visit *)
(* read it, and settles its reservation accordingly.                       *)
Follow(x, n, cancel) ==
  LET j == x.job[n]
      y == IF cancel /\ j.state \in InFlight /\ ~ j.cancel
             THEN [x EXCEPT !.job[n] = CancelJob(j)] ELSE x
  IN CASE j.state = "succeeded" -> To([y EXCEPT !.tree = Commit(@, n)], n, "succeeded")
       [] j.state \in {"failed", "cancelled"} -> To([y EXCEPT !.tree = Release(@, n)], n, j.state)
       [] j.state = "running" -> To(y, n, "running")
       [] OTHER -> y

(* _start_service_node: the contract is frozen (or refused), then the units *)
(* are reserved at the nearest level that exists, then the job is           *)
(* submitted; a refusal of the queue comes after the reservation, which it  *)
(* does not undo.                                                          *)
LevelFor(t, n) == IF n \in t.made THEN n ELSE IF RunOf(n) \in t.made THEN RunOf(n) ELSE Root
LiveJobs(x)    == Cardinality({n \in Nodes : LiveJob(x.job[n])})
StartService(x, n, refused) ==
  LET level == LevelFor(x.tree, n)
      y     == [x EXCEPT !.tree = Reserve(@, level, Amount[n], n)]
      fits  == x.tree.claim[n].state # "none" \/ Fits(x.tree, level, Amount[n])
  IN CASE n \in refused -> To(x, n, "blocked")
       [] n \notin refused /\ ~ fits ->
            To(x, n, IF Retryable(x.tree, level, Amount[n]) THEN "waiting_dependency" ELSE "blocked")
       [] n \notin refused /\ fits /\ LiveJobs(x) >= MaxLive -> To(y, n, "blocked")
       [] OTHER -> To([y EXCEPT !.job[n] = NewJob], n, "queued")

(* A gate whose job awaits no review yet asks for one, which the audits a   *)
(* contract demands may refuse.                                            *)
OpenGate(x, n) ==
  To([x EXCEPT !.job[Input[n]].review = IF @ = "none" THEN "requested" ELSE @], n, "waiting_review")

Start(x, n, refused) ==
  CASE Type[n] = "service"     -> StartService(x, n, refused)
    [] Type[n] = "dataset"     -> To(x, n, IF n \in deleted THEN "blocked" ELSE "succeeded")
    [] Type[n] = "review_gate" ->
         IF n \in refused /\ x.job[Input[n]].review = "none" THEN To(x, n, "blocked") ELSE OpenGate(x, n)
    [] Type[n] = "export"      -> To(x, n, IF n \in refused THEN "blocked" ELSE "succeeded")

(* Mutant form: a blocked node is looked at again. *)
VisitAgain(x, n, cancel, refused) ==
  IF x.node[n] \in Ended \ {"blocked"} THEN x
  ELSE IF x.node[n] \in InFlight THEN Follow(x, n, cancel)
  ELSE IF Unmet(x, n) = {} THEN Start(x, n, refused)
  ELSE To(x, n, "waiting_dependency")
Visit(x, n, cancel, refused) ==
  LET state == x.node[n] IN
  CASE state \in Ended -> x
    [] cancel /\ state \in Waiting -> To(x, n, "cancelled")
    [] state \in InFlight -> Follow(x, n, cancel)
    [] ~ cancel /\ state = "waiting_review" ->
         (CASE x.job[Input[n]].review = "accepted" -> To(x, n, "succeeded")
            [] x.job[Input[n]].review = "rejected" -> To(x, n, "blocked")
            [] OTHER -> x)
    [] OTHER ->
         IF Unmet(x, n) = {} THEN Start(x, n, refused)
         ELSE To(x, n, IF Hopeless(x, FirstUnmet(x, n)) THEN "blocked" ELSE "waiting_dependency")

(* Mutant forms: a cancelled run does not wait for its jobs, or waits for    *)
(* its blocked nodes.                                                      *)
DerivedAtOnce(r, nodes, cancel) ==
  IF cancel THEN "cancelled"
  ELSE IF {nodes[n] : n \in NodesOf(r)} \subseteq Ended THEN "completed" ELSE "running"
DerivedWithoutBlocked(r, nodes, cancel) ==
  LET states == {nodes[n] : n \in NodesOf(r)} IN
  IF \A o \in Outputs[r] : nodes[o] = "succeeded" THEN "completed"
  ELSE IF cancel /\ states \subseteq Ended \ {"blocked"} THEN "cancelled"
  ELSE IF states \subseteq Ended THEN "blocked" ELSE "running"
(* The state of the run after the walk.                                     *)
Derived(r, nodes, cancel) ==
  LET states == {nodes[n] : n \in NodesOf(r)} IN
  IF \A o \in Outputs[r] : nodes[o] = "succeeded" THEN "completed"
  ELSE IF cancel /\ states \subseteq Ended THEN "cancelled"
  ELSE IF "waiting_review" \in states /\ states \cap InFlight = {} THEN "waiting_review"
  ELSE IF ~ (states \subseteq Ended) THEN "running"
  ELSE IF "failed" \in states THEN IF "succeeded" \in states THEN "partially_failed" ELSE "failed"
  ELSE IF "blocked" \in states THEN "blocked" ELSE "partially_failed"

(* advance: the walk is Walk[0], Walk[1], ..., one visit after the other.    *)
Walk(r, cancel, refused) ==
  LET W[i \in 0..Len(Order[r])] ==
        IF i = 0 THEN [tree |-> tree, node |-> node, job |-> job]
        ELSE Visit(W[i - 1], Order[r][i], cancel, refused)
  IN  W

(* What may be refused: the contract of a node that may start in this tick,  *)
(* the request of its review, or its export.  What waits for a service or a *)
(* gate that has not started yet does not start in this tick.              *)
NotStarted == {"pending", "waiting_dependency"}
Startable(r) ==
  {n \in NodesOf(r) :
    /\ Type[n] # "dataset" /\ node[n] \in NotStarted
    /\ \A i \in DOMAIN Needs[n] :
         LET d == Needs[n][i].node IN
         Type[d] \in {"service", "review_gate"} => node[d] \notin NotStarted \cup {"failed", "cancelled", "blocked"}}

(* _start_service_node writes its row but not the table of nodes the walk    *)
(* holds in memory, from which the state of the run is derived.             *)
InMemory(nodes) ==
  [n \in Nodes |-> IF node[n] \in NotStarted /\ nodes[n] = "queued" THEN node[n] ELSE nodes[n]]

(* The tick, with the cancellation a request may have set in the same       *)
(* transaction.  The last conjunct is the definition of Walk again: it is   *)
(* true of every walk, and a proof may use it.                             *)
Tick(r, cancel, refused) ==
  LET W   == Walk(r, cancel, refused)
      n   == Len(Order[r])
      end == W[n]
  IN /\ tree' = end.tree
     /\ node' = end.node
     /\ job' = end.job
     /\ run' = [run EXCEPT ![r] = [state |-> Derived(r, InMemory(end.node), cancel), cancel |-> cancel]]
     /\ UNCHANGED <<deleted, revoked>>
     /\ W = [i \in 0..n |-> IF i = 0 THEN [tree |-> tree, node |-> node, job |-> job]
                             ELSE Visit(W[i - 1], Order[r][i], cancel, refused)]

(* _principal: the walk of a run whose owner was revoked raises, and with it *)
(* whatever else its transaction did, the request to cancel included.       *)
Walkable(r) == run[r].state \notin Final \cup {"none"} /\ StartedBy[r] \notin revoked

Advance(r) ==
  /\ Walkable(r)
  /\ \E refused \in SUBSET Startable(r) : Tick(r, run[r].cancel, refused)

Cancel(r) ==
  /\ Walkable(r)
  /\ \E refused \in SUBSET Startable(r) : Tick(r, TRUE, refused)

-----------------------------------------------------------------------------
(* What happens between the ticks.  A worker claims a queued job that       *)
(* nobody asked to cancel, and publishes an end for it: a retry keeps the  *)
(* request to cancel, a result may overtake it.                            *)
SetJob(n, j) ==
  /\ job' = [job EXCEPT ![n] = j]
  /\ UNCHANGED <<tree, run, node, deleted, revoked>>

JobClaim(n) ==
  /\ job[n] # NoJob /\ job[n].state = "queued" /\ ~ job[n].cancel
  /\ SetJob(n, [job[n] EXCEPT !.state = "running"])

(* Mutant form: the retries are not counted out. *)
JobEndsAgain(n) ==
  /\ job[n] # NoJob /\ job[n].state = "running"
  /\ SetJob(n, [job[n] EXCEPT !.state = "queued", !.retries = @ - 1])
JobEnds(n) ==
  /\ job[n] # NoJob /\ job[n].state = "running"
  /\ \/ \E o \in Outcomes : SetJob(n, [job[n] EXCEPT !.state = "succeeded", !.outcome = o])
     \/ SetJob(n, [job[n] EXCEPT !.state = "failed"])
     \/ job[n].cancel /\ SetJob(n, [job[n] EXCEPT !.state = "cancelled"])
     \/ job[n].retries > 0 /\ SetJob(n, [job[n] EXCEPT !.state = "queued", !.retries = @ - 1])

(* Somebody cancels the job itself.                                         *)
JobCancel(n) == LiveJob(job[n]) /\ SetJob(n, CancelJob(job[n]))

(* reviews.request and reviews.decide, of the jobs whose review a           *)
(* definition asks for: the engine reads no other.                         *)
Reviewed == {Input[n] : n \in {m \in Nodes : Type[m] = "review_gate"}}
              \cup {d.node : d \in {e \in UNION {{Needs[n][i] : i \in DOMAIN Needs[n]} : n \in Nodes} :
                                      e.require = "accepted_review"}}
RequestReview(n) ==
  /\ n \in Reviewed
  /\ job[n] # NoJob /\ job[n].state = "succeeded" /\ job[n].review = "none"
  /\ SetJob(n, [job[n] EXCEPT !.review = "requested"])
DecideReview(n) ==
  /\ job[n] # NoJob /\ job[n].review = "requested"
  /\ \E d \in {"accepted", "rejected"} : SetJob(n, [job[n] EXCEPT !.review = d])

(* A dataset's payload is deleted: of consequence only before its node is   *)
(* visited.                                                                *)
DeleteDataset(n) ==
  /\ Type[n] = "dataset" /\ node[n] \notin Ended
  /\ deleted' = deleted \cup {n}
  /\ UNCHANGED <<tree, run, node, job, revoked>>

(* The work board: an award reserves its ceiling on a level of its own, and *)
(* when it closes keeps what was paid and gives back the rest.             *)
SetTree(t) ==
  /\ tree' = t
  /\ UNCHANGED <<run, node, job, deleted, revoked>>
AwardReserves(a) ==
  LET c == IF Amount[a] < tree.ceiling[Root] THEN Amount[a] ELSE tree.ceiling[Root]
      t == CreateChild(tree, a, Root, c)
  IN /\ tree.claim[a].state = "none"
     /\ Fits(t, a, Amount[a])
     /\ SetTree(Reserve(t, a, Amount[a], a))
AwardCloses(a) ==
  /\ tree.claim[a].state = "reserved"
  /\ \/ \E paid \in 0..Amount[a] : SetTree(ReleasePartial(tree, a, paid))
     \/ SetTree(Release(tree, a))

(* set_workspace_ceiling.                                                   *)
SetWorkspaceCeiling ==
  \E c \in Ceilings : Lowerable(tree, c) /\ SetTree(SetCeiling(tree, c))

(* revoke_principal, which nothing takes back: of consequence only while a  *)
(* run of theirs is under way, since one not started then never is.         *)
Revoke(p) ==
  /\ p \notin revoked
  /\ \E r \in Runs : StartedBy[r] = p /\ run[r].state \notin Final \cup {"none"}
  /\ revoked' = revoked \cup {p}
  /\ UNCHANGED <<tree, run, node, job, deleted>>

JobMoves(n) == JobClaim(n) \/ JobEnds(n)

Next ==
  \/ \E r \in Runs : StartRun(r) \/ Advance(r) \/ Cancel(r)
  \/ \E n \in Nodes : \/ JobMoves(n) \/ JobCancel(n)
                      \/ RequestReview(n) \/ DecideReview(n) \/ DeleteDataset(n)
  \/ \E a \in Awards : AwardReserves(a) \/ AwardCloses(a)
  \/ \E p \in Principals : Revoke(p)
  \/ SetWorkspaceCeiling

Spec == Init /\ [][Next]_vars

(* tick_workflows walks all active runs in one transaction and swallows what *)
(* it raises: while an active run has a revoked owner, every tick of the     *)
(* worker is rolled back, and only requests advance the other runs.         *)
Halted == \E r \in Runs : run[r].state \in Active /\ StartedBy[r] \in revoked

(* Unless it is halted, the worker loop ticks every active run, and it      *)
(* serves its queue.  Of the ticks only those of a run that was asked to    *)
(* stop are assumed: the first conjunct is their weak fairness, with the    *)
(* condition under which one changes something written out.                *)
Stopping(r) == run[r].cancel /\ run[r].state \in Active /\ ~ Halted
TickMoves(r) ==
  /\ Stopping(r)
  /\ \E refused \in SUBSET Startable(r) :
       LET end == Walk(r, TRUE, refused)[Len(Order[r])] IN
       \/ end # [tree |-> tree, node |-> node, job |-> job]
       \/ Derived(r, InMemory(end.node), TRUE) # run[r].state
Fairness ==
  /\ \A r \in Runs : []<> ~ TickMoves(r) \/ []<><<Stopping(r) /\ Advance(r)>>_vars
  /\ \A n \in Services : WF_vars(JobMoves(n))
FairSpec == Spec /\ Fairness

-----------------------------------------------------------------------------
(* budgets.py:3-5: concurrent work never takes more than a level has,       *)
(* whichever of runs, nodes and awards takes it.                           *)
UseWithinCeiling == WithinCeiling(tree)

(* budgets.py:110-134: the counters of every level are exactly the          *)
(* reservations made below it, through partial releases too.               *)
ReservedIsHeld == CountersAgree(tree)

(* workflows.py:414, 451, 454: a node with work under way holds its         *)
(* reservation, a success has committed it, a failure has given it back,   *)
(* and a node that never started holds nothing.                            *)
ReservationFollowsNode ==
  \A n \in Services :
    LET held == tree.claim[n].state IN
    /\ node[n] \in InFlight => held = "reserved" /\ job[n] # NoJob
    /\ node[n] = "succeeded" => held = "committed" /\ job[n].state = "succeeded"
    /\ node[n] = "failed" => held = "released"
    /\ node[n] = "cancelled" => held \in {"none", "released"}
    /\ node[n] \in Waiting => held = "none" /\ job[n] = NoJob

(* workflows.py:362-382: whatever was started, or has succeeded, has its    *)
(* dependencies met, and they stay met whatever people and workers do.     *)
StartedAfterDependencies ==
  \A n \in Nodes :
    (job[n] # NoJob \/ node[n] \in {"waiting_review", "succeeded"}) =>
      \A i \in DOMAIN Needs[n] :
        LET d == Needs[n][i] IN
        /\ node[d.node] = "succeeded"
        /\ d.require = "accepted_review" => job[d.node].review = "accepted"
        /\ d.require = "outcome_in" => job[d.node].outcome \in d.outcomes

(* workflows.py:444-449, 503: a cancelled run has no work left in the       *)
(* queue or at a worker.                                                   *)
CancelledRunIsIdle ==
  \A r \in Runs : run[r].state = "cancelled" => \A n \in NodesOf(r) : ~ LiveJob(job[n])

(* workflows.py:442-443: what a node ended with is never revised by a later *)
(* tick, and a run only leaves an end by being cancelled.                  *)
EndsAreKept ==
  [][/\ \A n \in Nodes : node[n] \in Ended => node'[n] = node[n]
     /\ \A r \in Runs : run[r].state \in Final => run'[r] = run[r]
     /\ \A r \in Runs : run[r].state \in {"blocked", "partially_failed"} /\ run'[r] # run[r]
                          => run'[r].cancel]_vars

(* A run that was asked to stop ends, unless the queue keeps one of its     *)
(* jobs, which was retried with the request to cancel still set and is      *)
(* never claimed, or the worker's ticks are halted by a run, this one or    *)
(* another, whose owner was revoked.                                        *)
Stuck(n) == job[n] # NoJob /\ job[n].state = "queued" /\ job[n].cancel
CancelledRunEnds ==
  \A r \in Runs : run[r].cancel ~>
    run[r].state \in Final \/ (\E n \in NodesOf(r) : Stuck(n)) \/ Halted

(* budgets.py:8-9: "committed when the job succeeds (its entitlement        *)
(* persists), and released when it fails or is cancelled" - so a unit is   *)
(* reserved only while a job may still succeed or its end is to be noticed *)
(* by a tick.                                                              *)
HeldOnlyForLiveWork ==
  \A n \in Services :
    tree.claim[n].state = "reserved" => LiveJob(job[n]) \/ run[RunOf(n)].state \in Active
=============================================================================
