------------------------ MODULE WorkflowEngineProofs ------------------------
(***************************************************************************)
(* What holds of the workflow engine for every set of runs, definition,    *)
(* amount and ceiling: the budget tree stays sound through every tick,     *)
(* and a node's reservation follows the node.  A tick is a walk of visits; *)
(* the least visit that broke the invariant would break it by itself.      *)
(***************************************************************************)
EXTENDS WorkflowEngine, BudgetTreeProofs, WellFoundedInduction

(* The tables of a transaction, and what every visit keeps of them.          *)
NodeStates == Ended \cup Waiting \cup InFlight
Tables == [tree : Trees, node : [Nodes -> NodeStates], job : [Nodes -> Job \cup {NoJob}]]

ServiceFollows(x, n) ==
  LET held == x.tree.claim[n].state IN
  /\ x.node[n] \in InFlight => held = "reserved" /\ x.job[n] # NoJob
  /\ x.node[n] = "succeeded" => held = "committed" /\ x.job[n] # NoJob /\ x.job[n].state = "succeeded"
  /\ x.node[n] = "failed" => held = "released"
  /\ x.node[n] = "cancelled" => held \in {"none", "released"}
  /\ x.node[n] \in Waiting => held = "none" /\ x.job[n] = NoJob
  /\ x.node[n] # "waiting_review"
OtherFollows(x, n) ==
  /\ x.node[n] \notin InFlight
  /\ Type[n] = "review_gate" /\ x.node[n] = "waiting_review" => x.job[Input[n]] # NoJob
Follows(x) == \A n \in Nodes : IF Type[n] = "service" THEN ServiceFollows(x, n) ELSE OtherFollows(x, n)

RunsBelowRoot(t) == \A r \in Runs \cap t.made : t.parent[r] = Root
TablesInv(x) == x \in Tables /\ Sound(x.tree) /\ RunsBelowRoot(x.tree) /\ Follows(x)

Now == [tree |-> tree, node |-> node, job |-> job]
Inv == /\ TablesInv(Now)
       /\ run \in [Runs -> [state : RunStates, cancel : BOOLEAN]]
       /\ deleted \subseteq Nodes
       /\ revoked \subseteq Principals

-----------------------------------------------------------------------------
(* A nonempty set of naturals has a least element.                          *)
LEMMA LeastNat ==
  ASSUME NEW T \in SUBSET Nat, T # {}
  PROVE  \E x \in T : \A y \in T : x <= y
<1> DEFINE R == {p \in Nat \X Nat : p[1] < p[2]}
<1>1. IsWellFoundedOn(OpToRel(<, Nat), Nat)
  BY NatLessThanWellFounded
<1>2. OpToRel(<, Nat) = R
  BY DEF OpToRel
<1>3. IsWellFoundedOn(R, Nat)
  BY <1>1, <1>2
<1>4. \E x \in T : \A y \in T : ~ (<<y, x>> \in R)
  <2>. HIDE DEF R
  <2>. QED
    BY <1>3, WFMin
<1>5. \A x, y \in Nat : <<y, x>> \notin R => x <= y
  OBVIOUS
<1>. HIDE DEF R
<1>. QED
  BY <1>4, <1>5

(* What the functions of the tree leave alone, and what becomes of the      *)
(* reservation itself.                                                     *)
LEMMA CloseFrame ==
  ASSUME NEW t \in Trees, NEW r \in Refs, NEW kept, NEW amount, NEW state
  PROVE  LET u == Close(t, r, kept, amount, state) IN
         /\ u.made = t.made /\ u.parent = t.parent
         /\ \A q \in Refs \ {r} : u.claim[q] = t.claim[q]
         /\ t.claim[r].state = "reserved" => u.claim[r].state = state
<1>1. t.claim \in [Refs -> Claim] /\ t.claim[r] \in Claim
  BY DEF Trees
<1> DEFINE u == Close(t, r, kept, amount, state)
<1>2. u.made = t.made /\ u.parent = t.parent
  BY DEF Close, Trees
<1>3. \A q \in Refs \ {r} : u.claim[q] = t.claim[q]
  BY <1>1 DEF Close, Trees
<1>4. t.claim[r].state = "reserved" => u.claim[r].state = state
  BY <1>1 DEF Close, Trees, Claim
<1>. QED
  BY <1>2, <1>3, <1>4

LEMMA SettleFrame ==
  ASSUME NEW t \in Trees, NEW r \in Refs
  PROVE  /\ \A u \in {t, Commit(t, r), Release(t, r)} :
              /\ u.made = t.made /\ u.parent = t.parent
              /\ \A q \in Refs \ {r} : u.claim[q] = t.claim[q]
         /\ t.claim[r].state = "reserved" =>
              Commit(t, r).claim[r].state = "committed" /\ Release(t, r).claim[r].state = "released"
<1>1. /\ Commit(t, r).made = t.made /\ Commit(t, r).parent = t.parent
      /\ \A q \in Refs \ {r} : Commit(t, r).claim[q] = t.claim[q]
      /\ t.claim[r].state = "reserved" => Commit(t, r).claim[r].state = "committed"
  BY CloseFrame DEF Commit
<1>2. /\ Release(t, r).made = t.made /\ Release(t, r).parent = t.parent
      /\ \A q \in Refs \ {r} : Release(t, r).claim[q] = t.claim[q]
      /\ t.claim[r].state = "reserved" => Release(t, r).claim[r].state = "released"
  BY CloseFrame DEF Release
<1>. QED
  BY <1>1, <1>2

LEMMA ReserveFrame ==
  ASSUME NEW t \in Trees, NEW r \in Refs, NEW l, NEW a
  PROVE  LET u == Reserve(t, l, a, r) IN
         /\ u.made = t.made /\ u.parent = t.parent
         /\ \A q \in Refs \ {r} : u.claim[q] = t.claim[q]
         /\ t.claim[r].state = "none" => u.claim[r].state = "reserved"
<1>1. t.claim \in [Refs -> Claim]
  BY DEF Trees
<1>. QED
  BY <1>1 DEF Reserve, Trees

(* A visit touches one node, its reservation and its job; of other jobs at   *)
(* most the review.                                                        *)
LEMMA TouchOne ==
  ASSUME NEW x, TablesInv(x), NEW n \in Nodes, NEW y \in Tables, Sound(y.tree),
         y.tree.made = x.tree.made, y.tree.parent = x.tree.parent,
         \A m \in Nodes \ {n} : /\ y.node[m] = x.node[m]
                                /\ y.tree.claim[m] = x.tree.claim[m],
         \A m \in Nodes : x.job[m] # NoJob => y.job[m] # NoJob,
         \A m \in Nodes \ {n} : /\ x.job[m] = NoJob => y.job[m] = NoJob
                                /\ x.job[m] # NoJob => y.job[m].state = x.job[m].state,
         IF Type[n] = "service" THEN ServiceFollows(y, n) ELSE OtherFollows(y, n)
  PROVE  TablesInv(y)
<1>1. RunsBelowRoot(y.tree)
  BY DEF TablesInv, RunsBelowRoot
<1>2. ASSUME NEW m \in Nodes \ {n}
      PROVE  IF Type[m] = "service" THEN ServiceFollows(y, m) ELSE OtherFollows(y, m)
  <2>1. IF Type[m] = "service" THEN ServiceFollows(x, m) ELSE OtherFollows(x, m)
    BY DEF TablesInv, Follows
  <2>2. CASE Type[m] = "service"
    BY <2>1, <2>2 DEF ServiceFollows
  <2>3. CASE Type[m] # "service"
    <3>1. Type[m] = "review_gate" => Input[m] \in Nodes
      BY GateAssumption
    <3>. QED
      BY <2>1, <2>3, <3>1 DEF OtherFollows
  <2>. QED
    BY <2>2, <2>3
<1>. QED
  BY <1>1, <1>2 DEF TablesInv, Follows

(* The same for a visit that only gives the node a state.                   *)
LEMMA TouchState ==
  ASSUME NEW x, TablesInv(x), NEW n \in Nodes, NEW s \in NodeStates,
         IF Type[n] = "service" THEN ServiceFollows(To(x, n, s), n) ELSE OtherFollows(To(x, n, s), n)
  PROVE  TablesInv(To(x, n, s))
<1> DEFINE y == To(x, n, s)
<1>1. x \in Tables
  BY DEF TablesInv
<1>2. y \in Tables /\ y.tree = x.tree /\ y.job = x.job /\ y.node = [x.node EXCEPT ![n] = s]
  BY <1>1 DEF To, Tables
<1>3. Sound(y.tree)
  BY <1>2 DEF TablesInv
<1>4. \A m \in Nodes \ {n} : y.node[m] = x.node[m]
  BY <1>1, <1>2 DEF Tables
<1>. HIDE DEF y
<1>5. IF Type[n] = "service" THEN ServiceFollows(y, n) ELSE OtherFollows(y, n)
  BY DEF y
<1>6. /\ y.tree.made = x.tree.made /\ y.tree.parent = x.tree.parent
      /\ \A m \in Nodes \ {n} : y.node[m] = x.node[m] /\ y.tree.claim[m] = x.tree.claim[m]
      /\ \A m \in Nodes : x.job[m] # NoJob => y.job[m] # NoJob
      /\ \A m \in Nodes \ {n} : /\ x.job[m] = NoJob => y.job[m] = NoJob
                                /\ x.job[m] # NoJob => y.job[m].state = x.job[m].state
  BY <1>2, <1>4
<1>7. y \in Tables
  BY <1>2
<1>8. TablesInv(y)
  BY <1>3, <1>5, <1>6, <1>7, TouchOne
<1>. QED
  BY <1>8 DEF y

(* A node takes its units under its own name.                              *)
LEMMA NodeIsRef == Nodes \subseteq Refs /\ Nodes \subseteq Levels /\ \A n \in Nodes : Amount[n] \in Nat
BY WorkflowAssumption

(* jobs.submit: the job a visit submits is a job of the table.             *)
LEMMA NewJobType == NewJob \in Job
<1>1. MaxRetries \in 0..MaxRetries
  BY WorkflowAssumption
<1>. QED
  BY <1>1 DEF NewJob, Job, JobStates

(* What the engine, a worker or a reviewer does to a job leaves it a job.  *)
LEMMA JobTypes ==
  ASSUME NEW j \in Job
  PROVE  /\ CancelJob(j) \in Job
         /\ \A v \in {"none", "requested", "accepted", "rejected"} : [j EXCEPT !.review = v] \in Job
         /\ \A v \in JobStates : [j EXCEPT !.state = v] \in Job
BY DEF CancelJob, Job, JobStates

(* A node whose job is under way.                                           *)
LEMMA FollowKeeps ==
  ASSUME NEW x, TablesInv(x), NEW n \in Nodes, NEW cancel, x.node[n] \in InFlight
  PROVE  TablesInv(Follow(x, n, cancel))
<1>1. x \in Tables /\ Sound(x.tree) /\ x.tree \in Trees
  BY DEF TablesInv, Sound
<1>2. Type[n] = "service" /\ ServiceFollows(x, n)
  BY DEF TablesInv, Follows, OtherFollows
<1>3. x.tree.claim[n].state = "reserved" /\ x.job[n] \in Job /\ n \in Refs /\ n \in Levels
  BY <1>1, <1>2, NodeIsRef DEF ServiceFollows, Tables
<1> DEFINE j == x.job[n]
           y == IF cancel /\ j.state \in InFlight /\ ~ j.cancel
                  THEN [x EXCEPT !.job[n] = CancelJob(j)] ELSE x
<1>4. /\ y \in Tables /\ y.tree = x.tree /\ y.node = x.node /\ y.job[n] \in Job
      /\ \A m \in Nodes \ {n} : y.job[m] = x.job[m]
      /\ j.state \notin InFlight => y = x
  BY <1>1, <1>3, JobTypes DEF Tables
<1> DEFINE T(u, s) == To([y EXCEPT !.tree = u], n, s)
<1>6. ASSUME NEW u \in {x.tree, Commit(x.tree, n), Release(x.tree, n)}, NEW s \in NodeStates
      PROVE  /\ T(u, s) \in Tables /\ T(u, s).tree = u /\ T(u, s).job = y.job /\ Sound(u)
             /\ T(u, s).node = [x.node EXCEPT ![n] = s]
             /\ u.made = x.tree.made /\ u.parent = x.tree.parent
             /\ \A m \in Nodes \ {n} : u.claim[m] = x.tree.claim[m]
  <2>1. Sound(u)
    BY <1>1, <1>3, SettleSound
  <2>2. u \in Trees
    BY <2>1 DEF Sound
  <2>3. T(u, s) \in Tables /\ T(u, s).tree = u /\ T(u, s).job = y.job /\ T(u, s).node = [x.node EXCEPT ![n] = s]
    BY <1>1, <1>4, <2>2 DEF To, Tables
  <2>5. \A m \in Nodes \ {n} : u.claim[m] = x.tree.claim[m]
    BY <1>1, <1>3, SettleFrame, NodeIsRef
  <2>6. u.made = x.tree.made /\ u.parent = x.tree.parent
    BY <1>1, <1>3, SettleFrame
  <2>. QED
    BY <2>1, <2>3, <2>5, <2>6
<1>7. /\ \A m \in Nodes : x.job[m] # NoJob => y.job[m] # NoJob
      /\ \A m \in Nodes \ {n} : /\ x.job[m] = NoJob => y.job[m] = NoJob
                                /\ x.job[m] # NoJob => y.job[m].state = x.job[m].state
  BY <1>4, NoJobAssumption
<1>8. CASE j.state = "succeeded"
  <2> DEFINE z == T(Commit(x.tree, n), "succeeded")
  <2>1. Follow(x, n, cancel) = z
    BY <1>4, <1>8 DEF Follow, Commit
  <2>2. z \in Tables /\ Sound(z.tree) /\ z.job = x.job /\ z.tree = Commit(x.tree, n)
        /\ z.node = [x.node EXCEPT ![n] = "succeeded"]
    <3>1. y = x
      BY <1>4, <1>8 DEF InFlight
    <3>2. "succeeded" \in NodeStates
      BY <1>8 DEF NodeStates, Ended
    <3>. HIDE DEF T, y, j
    <3>. QED
      BY <1>6, <3>1, <3>2
  <2>3. z.tree.claim[n].state = "committed"
    BY <1>1, <1>3, <2>2, SettleFrame
  <2>4. ServiceFollows(z, n)
    BY <1>1, <1>3, <1>8, <2>2, <2>3, NoJobAssumption DEF ServiceFollows, Tables, InFlight, Waiting
  <2>5. \A m \in Nodes \ {n} : z.node[m] = x.node[m] /\ z.tree.claim[m] = x.tree.claim[m]
    <3>1. \A m \in Nodes \ {n} : z.node[m] = x.node[m]
      BY <1>1, <2>2 DEF Tables
    <3>2. \A m \in Refs \ {n} : Commit(x.tree, n).claim[m] = x.tree.claim[m]
      BY <1>1, <1>3, SettleFrame
    <3>. HIDE DEF z
    <3>. QED
      BY <2>2, <3>1, <3>2, NodeIsRef
  <2>6. z.tree.made = x.tree.made /\ z.tree.parent = x.tree.parent
    BY <1>1, <1>3, <2>2, SettleFrame
  <2>. HIDE DEF z
  <2>7. /\ \A m \in Nodes : x.job[m] # NoJob => z.job[m] # NoJob
        /\ \A m \in Nodes \ {n} : /\ x.job[m] = NoJob => z.job[m] = NoJob
                                  /\ x.job[m] # NoJob => z.job[m].state = x.job[m].state
    BY <2>2
  <2>8. z \in Tables /\ Sound(z.tree)
        /\ IF Type[n] = "service" THEN ServiceFollows(z, n) ELSE OtherFollows(z, n)
    BY <1>2, <2>2, <2>4
  <2>9. TablesInv(z)
    BY <2>5, <2>6, <2>7, <2>8, TouchOne
  <2>. QED
    BY <2>1, <2>9
<1>9. CASE j.state \in {"failed", "cancelled"}
  <2> DEFINE z == T(Release(x.tree, n), j.state)
  <2>1. Follow(x, n, cancel) = z
    BY <1>4, <1>9 DEF Follow, Release
  <2>2. z \in Tables /\ Sound(z.tree) /\ z.job = x.job /\ z.tree = Release(x.tree, n)
        /\ z.node = [x.node EXCEPT ![n] = j.state]
    <3>1. y = x
      BY <1>4, <1>9 DEF InFlight
    <3>2. j.state \in NodeStates
      BY <1>9 DEF NodeStates, Ended
    <3>. HIDE DEF T, y, j
    <3>. QED
      BY <1>6, <3>1, <3>2
  <2>3. z.tree.claim[n].state = "released"
    <3>1. Release(x.tree, n).claim[n].state = "released"
      BY <1>1, <1>3, SettleFrame
    <3>. HIDE DEF z
    <3>. QED
      BY <2>2, <3>1
  <2>4. ServiceFollows(z, n)
    BY <1>1, <1>3, <1>9, <2>2, <2>3 DEF ServiceFollows, Tables, InFlight, Waiting
  <2>5. \A m \in Nodes \ {n} : z.node[m] = x.node[m] /\ z.tree.claim[m] = x.tree.claim[m]
    <3>1. \A m \in Nodes \ {n} : z.node[m] = x.node[m]
      BY <1>1, <2>2 DEF Tables
    <3>2. \A m \in Refs \ {n} : Release(x.tree, n).claim[m] = x.tree.claim[m]
      BY <1>1, <1>3, SettleFrame
    <3>. HIDE DEF z
    <3>. QED
      BY <2>2, <3>1, <3>2, NodeIsRef
  <2>6. z.tree.made = x.tree.made /\ z.tree.parent = x.tree.parent
    BY <1>1, <1>3, <2>2, SettleFrame
  <2>. HIDE DEF z
  <2>7. /\ \A m \in Nodes : x.job[m] # NoJob => z.job[m] # NoJob
        /\ \A m \in Nodes \ {n} : /\ x.job[m] = NoJob => z.job[m] = NoJob
                                  /\ x.job[m] # NoJob => z.job[m].state = x.job[m].state
    BY <2>2
  <2>8. z \in Tables /\ Sound(z.tree)
        /\ IF Type[n] = "service" THEN ServiceFollows(z, n) ELSE OtherFollows(z, n)
    BY <1>2, <2>2, <2>4
  <2>9. TablesInv(z)
    BY <2>5, <2>6, <2>7, <2>8, TouchOne
  <2>. QED
    BY <2>1, <2>9
<1>10. CASE j.state \notin {"succeeded", "failed", "cancelled"}
  <2>1. ASSUME NEW s \in InFlight, NEW z, z = To(y, n, s)
        PROVE  TablesInv(z)
    <3>1. z \in Tables /\ z.tree = x.tree /\ z.job = y.job /\ z.node = [x.node EXCEPT ![n] = s]
      BY <1>4, <2>1 DEF To, Tables, NodeStates
    <3>. HIDE DEF y, j
    <3>2. ServiceFollows(z, n)
      <4>1. z.node[n] = s /\ z.tree.claim[n].state = "reserved" /\ z.job[n] # NoJob
        BY <1>1, <1>3, <1>4, <3>1, NoJobAssumption DEF Tables
      <4>. QED
        BY <4>1 DEF ServiceFollows, InFlight, Waiting
    <3>3. \A m \in Nodes \ {n} : z.node[m] = x.node[m]
      BY <1>1, <3>1 DEF Tables
    <3>4. \A m \in Nodes \ {n} : z.node[m] = x.node[m] /\ z.tree.claim[m] = x.tree.claim[m]
      BY <3>1, <3>3
    <3>5. /\ \A m \in Nodes : x.job[m] # NoJob => z.job[m] # NoJob
          /\ \A m \in Nodes \ {n} : /\ x.job[m] = NoJob => z.job[m] = NoJob
                                    /\ x.job[m] # NoJob => z.job[m].state = x.job[m].state
      BY <1>7, <3>1
    <3>6. Sound(z.tree) /\ z.tree.made = x.tree.made /\ z.tree.parent = x.tree.parent
      BY <1>1, <3>1
    <3>7. IF Type[n] = "service" THEN ServiceFollows(z, n) ELSE OtherFollows(z, n)
      BY <1>2, <3>2
    <3>8. z \in Tables
      BY <3>1
    <3>. HIDE <3>1
    <3>. QED
      BY <3>4, <3>5, <3>6, <3>7, <3>8, TouchOne
  <2>2. CASE j.state = "running"
    <3>1. Follow(x, n, cancel) = To(y, n, "running")
      BY <2>2 DEF Follow
    <3>. QED
      BY <2>1, <3>1 DEF InFlight
  <2>3. CASE j.state # "running"
    <3>1. Follow(x, n, cancel) = y
      BY <1>10, <2>3 DEF Follow
    <3>2. y = To(y, n, y.node[n])
      BY <1>4 DEF To, Tables
    <3>. HIDE DEF y
    <3>. QED
      BY <1>4, <2>1, <3>1, <3>2
  <2>. QED
    BY <2>2, <2>3
<1>. QED
  BY <1>8, <1>9, <1>10

(* A node that starts: whatever the budget and the queue answer.             *)
LEMMA StartServiceKeeps ==
  ASSUME NEW x, TablesInv(x), NEW n \in Nodes, Type[n] = "service", NEW refused,
         x.node[n] \in {"pending", "waiting_dependency"}
  PROVE  TablesInv(StartService(x, n, refused))
<1>1. x \in Tables /\ Sound(x.tree) /\ x.tree \in Trees
  BY DEF TablesInv, Sound
<1>2. ServiceFollows(x, n)
  BY DEF TablesInv, Follows
<1>3. x.tree.claim[n].state = "none" /\ x.job[n] = NoJob
  BY <1>2 DEF ServiceFollows, Waiting
<1>4. n \in Refs /\ Amount[n] \in Nat
  BY NodeIsRef
<1> DEFINE level == LevelFor(x.tree, n)
           u     == Reserve(x.tree, level, Amount[n], n)
           y     == [x EXCEPT !.tree = u]
           fits  == x.tree.claim[n].state # "none" \/ Fits(x.tree, level, Amount[n])
<1>5. level \in x.tree.made
  BY <1>1 DEF LevelFor, Sound, Shaped
<1>6. ASSUME NEW s \in {"blocked", "waiting_dependency"} PROVE TablesInv(To(x, n, s))
  <2>1. To(x, n, s).node[n] = s /\ To(x, n, s).tree = x.tree /\ To(x, n, s).job = x.job
    BY <1>1 DEF To, Tables
  <2>2. ServiceFollows(To(x, n, s), n)
    BY <1>3, <2>1 DEF ServiceFollows, InFlight, Waiting
  <2>. QED
    BY <2>2, TouchState DEF NodeStates, Ended, Waiting
<1>7. ASSUME fits, NEW s, NEW j \in Job \cup {NoJob},
             s = "blocked" \/ (s = "queued" /\ j # NoJob),
             NEW z \in Tables, z.tree = u, z.node = [x.node EXCEPT ![n] = s], z.job = [x.job EXCEPT ![n] = j]
      PROVE  TablesInv(z)
  <2>1. Sound(z.tree)
    BY <1>1, <1>4, <1>5, <1>7, ReserveSound
  <2>2. z.tree.made = x.tree.made /\ z.tree.parent = x.tree.parent /\ z.tree.claim[n].state = "reserved"
        /\ \A m \in Refs \ {n} : z.tree.claim[m] = x.tree.claim[m]
    <3>. HIDE DEF level
    <3>. QED
      BY <1>1, <1>3, <1>4, <1>7, ReserveFrame
  <2>. HIDE DEF u, fits, y
  <2>3. z.node[n] = s /\ z.job[n] = j
    BY <1>1, <1>7 DEF Tables
  <2>4. \A m \in Nodes \ {n} : z.node[m] = x.node[m]
    BY <1>1, <1>7 DEF Tables
  <2>5. \A m \in Nodes \ {n} : z.job[m] = x.job[m]
    BY <1>1, <1>7 DEF Tables
  <2>6. \A m \in Nodes \ {n} : z.node[m] = x.node[m] /\ z.tree.claim[m] = x.tree.claim[m]
    BY <2>2, <2>4, NodeIsRef
  <2>7. ServiceFollows(z, n)
    BY <1>7, <2>2, <2>3 DEF ServiceFollows, InFlight, Waiting
  <2>8. IF Type[n] = "service" THEN ServiceFollows(z, n) ELSE OtherFollows(z, n)
    BY <2>7
  <2>9. /\ \A m \in Nodes : x.job[m] # NoJob => z.job[m] # NoJob
        /\ \A m \in Nodes \ {n} : /\ x.job[m] = NoJob => z.job[m] = NoJob
                                  /\ x.job[m] # NoJob => z.job[m].state = x.job[m].state
    BY <1>3, <2>5
  <2>10. z.tree.made = x.tree.made /\ z.tree.parent = x.tree.parent
    BY <2>2
  <2>. QED
    BY <2>1, <2>6, <2>8, <2>9, <2>10, TouchOne
<1>8. ASSUME fits PROVE u \in Trees
  <2>1. Sound(u)
    BY <1>1, <1>4, <1>5, <1>8, ReserveSound
  <2>. QED
    BY <2>1 DEF Sound
<1>9. CASE n \in refused
  BY <1>6, <1>9 DEF StartService
<1>10. CASE n \notin refused /\ ~ fits
  BY <1>6, <1>10 DEF StartService
<1>11. CASE n \notin refused /\ fits /\ LiveJobs(x) >= MaxLive
  <2> DEFINE z == To(y, n, "blocked")
  <2>1. StartService(x, n, refused) = z
    BY <1>11 DEF StartService
  <2>. HIDE DEF u
  <2>2. z \in Tables /\ z.tree = u /\ z.node = [x.node EXCEPT ![n] = "blocked"] /\ z.job = x.job
    BY <1>1, <1>8, <1>11 DEF To, Tables, NodeStates, Ended
  <2>3. z.job = [x.job EXCEPT ![n] = NoJob]
    BY <1>1, <1>3, <2>2 DEF Tables
  <2>. HIDE DEF z
  <2>4. TablesInv(z)
    BY <1>7, <1>11, <2>2, <2>3
  <2>. QED
    BY <2>1, <2>4
<1>12. CASE n \notin refused /\ fits /\ ~ (LiveJobs(x) >= MaxLive)
  <2> DEFINE z == To([y EXCEPT !.job[n] = NewJob], n, "queued")
  <2>1. StartService(x, n, refused) = z
    BY <1>12 DEF StartService
  <2>. HIDE DEF u
  <2>2. z \in Tables /\ z.tree = u /\ z.node = [x.node EXCEPT ![n] = "queued"]
        /\ z.job = [x.job EXCEPT ![n] = NewJob]
    BY <1>1, <1>8, <1>12, NewJobType DEF To, Tables, NodeStates, InFlight
  <2>3. NewJob \in Job \cup {NoJob} /\ NewJob # NoJob
    BY NewJobType, NoJobAssumption
  <2>. HIDE DEF z
  <2>4. TablesInv(z)
    BY <1>7, <1>12, <2>2, <2>3
  <2>. QED
    BY <2>1, <2>4
<1>. QED
  BY <1>9, <1>10, <1>11, <1>12

(* A gate whose service node has succeeded.                                 *)
LEMMA OpenGateKeeps ==
  ASSUME NEW x, TablesInv(x), NEW n \in Nodes, Type[n] = "review_gate", Unmet(x, n) = {}
  PROVE  TablesInv(OpenGate(x, n))
<1>1. x \in Tables /\ Sound(x.tree)
  BY DEF TablesInv
<1> DEFINE i == Input[n]
           z == OpenGate(x, n)
<1>2. i \in Nodes /\ Type[i] = "service" /\ i # n
  BY GateAssumption
<1>3. x.node[i] = "succeeded"
  <2>1. PICK k \in DOMAIN Needs[n] : Needs[n][k].node = i
    BY GateAssumption
  <2>2. Meets(x, Needs[n][k])
    BY DEF Unmet
  <2>. QED
    BY <2>1, <2>2 DEF Meets
<1>4. ServiceFollows(x, i)
  BY <1>2 DEF TablesInv, Follows
<1>5. x.job[i] # NoJob /\ x.job[i] \in Job
  BY <1>1, <1>2, <1>3, <1>4 DEF ServiceFollows, Tables
<1>6. PICK j \in Job : j = [x.job[i] EXCEPT !.review = IF @ = "none" THEN "requested" ELSE @]
  <2>1. x.job[i].review \in {"none", "requested", "accepted", "rejected"}
    BY <1>5 DEF Job
  <2>. QED
    BY <1>5, <2>1, JobTypes
<1>7. j.state = x.job[i].state
  BY <1>5, <1>6 DEF Job
<1>8. z \in Tables /\ z.tree = x.tree /\ z.node = [x.node EXCEPT ![n] = "waiting_review"]
      /\ z.job = [x.job EXCEPT ![i] = j]
  BY <1>1, <1>2, <1>6 DEF OpenGate, To, Tables, NodeStates, Waiting
<1>. HIDE DEF z, i
<1>9. /\ \A m \in Nodes : x.job[m] # NoJob => z.job[m] # NoJob
      /\ \A m \in Nodes \ {n} : /\ x.job[m] = NoJob => z.job[m] = NoJob
                                /\ x.job[m] # NoJob => z.job[m].state = x.job[m].state
  BY <1>1, <1>5, <1>7, <1>8, NoJobAssumption DEF Tables
<1>10. \A m \in Nodes \ {n} : z.node[m] = x.node[m] /\ z.tree.claim[m] = x.tree.claim[m]
  BY <1>1, <1>8 DEF Tables
<1>11. OtherFollows(z, n)
  BY <1>1, <1>2, <1>5, <1>8, <1>9 DEF OtherFollows, Tables, InFlight, i
<1>12. IF Type[n] = "service" THEN ServiceFollows(z, n) ELSE OtherFollows(z, n)
  BY <1>11
<1>13. Sound(z.tree) /\ z.tree.made = x.tree.made /\ z.tree.parent = x.tree.parent
  BY <1>1, <1>8
<1>14. z \in Tables
  BY <1>8
<1>15. TablesInv(z)
  BY <1>9, <1>10, <1>12, <1>13, <1>14, TouchOne
<1>. QED
  BY <1>15 DEF z

(* Every visit.                                                             *)
LEMMA VisitKeeps ==
  ASSUME NEW x, TablesInv(x), NEW n \in Nodes, NEW cancel \in BOOLEAN, NEW refused
  PROVE  TablesInv(Visit(x, n, cancel, refused))
<1>1. x \in Tables /\ x.node[n] \in NodeStates
  BY DEF TablesInv, Tables
<1>2. IF Type[n] = "service" THEN ServiceFollows(x, n) ELSE OtherFollows(x, n)
  BY DEF TablesInv, Follows
<1>3. ASSUME NEW s \in {"cancelled", "blocked", "waiting_dependency", "succeeded"},
             x.node[n] \in Waiting, s = "succeeded" => Type[n] # "service"
      PROVE  TablesInv(To(x, n, s))
  <2>1. To(x, n, s).node[n] = s /\ To(x, n, s).tree = x.tree /\ To(x, n, s).job = x.job
    BY <1>1 DEF To, Tables
  <2>2. IF Type[n] = "service" THEN ServiceFollows(To(x, n, s), n) ELSE OtherFollows(To(x, n, s), n)
    BY <1>2, <1>3, <2>1 DEF ServiceFollows, OtherFollows, InFlight, Waiting
  <2>. QED
    BY <2>2, TouchState DEF NodeStates, Ended, Waiting
<1>4. CASE x.node[n] \in Ended
  BY <1>4 DEF Visit, Ended, InFlight, Waiting
<1>5. CASE x.node[n] \in InFlight
  <2>1. Visit(x, n, cancel, refused) = Follow(x, n, cancel)
    BY <1>5 DEF Visit, Ended, InFlight, Waiting
  <2>. QED
    BY <1>5, <2>1, FollowKeeps
<1>6. CASE x.node[n] \in Waiting /\ cancel
  <2>1. Visit(x, n, cancel, refused) = To(x, n, "cancelled")
    BY <1>6 DEF Visit, Ended, InFlight, Waiting
  <2>. QED
    BY <1>3, <1>6, <2>1
<1>7. CASE x.node[n] = "waiting_review" /\ ~ cancel
  <2>1. Visit(x, n, cancel, refused) \in {x, To(x, n, "succeeded"), To(x, n, "blocked")}
    BY <1>7 DEF Visit, Ended, InFlight, Waiting
  <2>2. Type[n] # "service" => TablesInv(To(x, n, "succeeded")) /\ TablesInv(To(x, n, "blocked"))
    BY <1>3, <1>7 DEF Waiting
  <2>3. CASE Type[n] # "service"
    BY <2>1, <2>2, <2>3
  <2>4. Type[n] # "service"
    BY <1>2, <1>7 DEF ServiceFollows
  <2>. QED
    BY <2>3, <2>4
<1>8. CASE x.node[n] \in {"pending", "waiting_dependency"} /\ ~ cancel
  <2>1. CASE Unmet(x, n) # {}
    <3>1. Visit(x, n, cancel, refused) \in {To(x, n, "blocked"), To(x, n, "waiting_dependency")}
      BY <1>8, <2>1 DEF Visit, Ended, InFlight, Waiting
    <3>. QED
      BY <1>3, <1>8, <3>1 DEF Waiting
  <2>2. CASE Unmet(x, n) = {}
    <3>1. Visit(x, n, cancel, refused) = Start(x, n, refused)
      BY <1>8, <2>2 DEF Visit, Ended, InFlight, Waiting
    <3>2. CASE Type[n] = "service"
      <4>1. Start(x, n, refused) = StartService(x, n, refused)
        BY <3>2 DEF Start
      <4>. QED
        BY <1>8, <3>1, <3>2, <4>1, StartServiceKeeps
    <3>3. CASE Type[n] = "review_gate"
      <4>1. Start(x, n, refused) \in {To(x, n, "blocked"), OpenGate(x, n)}
        BY <3>3 DEF Start
      <4>2. TablesInv(OpenGate(x, n))
        BY <2>2, <3>3, OpenGateKeeps
      <4>3. Type[n] # "service"
        BY <3>3
      <4>. QED
        BY <1>3, <1>8, <3>1, <4>1, <4>2, <4>3 DEF Waiting
    <3>4. CASE Type[n] \in {"dataset", "export"}
      <4>1. Start(x, n, refused) \in {To(x, n, "succeeded"), To(x, n, "blocked")}
        BY <3>4 DEF Start
      <4>. QED
        BY <1>3, <1>8, <3>1, <3>4, <4>1 DEF Waiting
    <3>. QED
      BY <3>2, <3>3, <3>4, WorkflowAssumption DEF NodeTypes
  <2>. QED
    BY <2>1, <2>2
<1>. QED
  BY <1>1, <1>4, <1>5, <1>6, <1>7, <1>8 DEF NodeStates, Waiting

(* The walk of a tick: the least position that broke the tables would have  *)
(* broken them in one visit.                                               *)
LEMMA WalkKeeps ==
  ASSUME NEW W, NEW k \in Nat, NEW order \in [1..k -> Nodes],
         NEW cancel \in BOOLEAN, NEW refused, TablesInv(W[0]),
         \A i \in 1..k : W[i] = Visit(W[i - 1], order[i], cancel, refused)
  PROVE  TablesInv(W[k])
<1> DEFINE Broken == {i \in 0..k : ~ TablesInv(W[i])}
<1>1. SUFFICES ASSUME Broken # {} PROVE FALSE
  <2>1. k \in 0..k
    OBVIOUS
  <2>. QED
    BY <1>1, <2>1
<1>2. PICK i \in Broken : \A j \in Broken : i <= j
  <2>1. Broken \in SUBSET Nat
    OBVIOUS
  <2>. HIDE DEF Broken
  <2>. QED
    BY <1>1, <2>1, LeastNat
<1>3. i \in 1..k /\ i - 1 \in 0..k /\ ~ (i <= i - 1)
  OBVIOUS
<1>4. TablesInv(W[i - 1])
  BY <1>2, <1>3
<1>5. W[i] = Visit(W[i - 1], order[i], cancel, refused) /\ order[i] \in Nodes
  BY <1>3
<1>6. TablesInv(W[i])
  BY <1>4, <1>5, VisitKeeps
<1>. QED
  BY <1>2, <1>6

-----------------------------------------------------------------------------
(* Steps that change the tree only, or one job only.                        *)
LEMMA TreeStep ==
  ASSUME NEW x, TablesInv(x), NEW u, Sound(u), RunsBelowRoot(u),
         \A n \in Nodes : u.claim[n] = x.tree.claim[n]
  PROVE  TablesInv([tree |-> u, node |-> x.node, job |-> x.job])
<1> DEFINE z == [tree |-> u, node |-> x.node, job |-> x.job]
<1>1. z \in Tables /\ z.tree = u /\ z.node = x.node /\ z.job = x.job
  BY DEF TablesInv, Tables, Sound
<1>. HIDE DEF z
<1>2. ASSUME NEW n \in Nodes
      PROVE  IF Type[n] = "service" THEN ServiceFollows(z, n) ELSE OtherFollows(z, n)
  <2>1. IF Type[n] = "service" THEN ServiceFollows(x, n) ELSE OtherFollows(x, n)
    BY DEF TablesInv, Follows
  <2>2. u.claim[n] = x.tree.claim[n]
    OBVIOUS
  <2>. QED
    BY <1>1, <2>1, <2>2 DEF ServiceFollows, OtherFollows
<1>3. TablesInv(z)
  BY <1>1, <1>2 DEF TablesInv, Follows
<1>. QED
  BY <1>3 DEF z

LEMMA JobStep ==
  ASSUME NEW x, TablesInv(x), NEW n \in Nodes, x.job[n] # NoJob, NEW j \in Job,
         x.job[n].state = "succeeded" => j.state = "succeeded"
  PROVE  TablesInv([tree |-> x.tree, node |-> x.node, job |-> [x.job EXCEPT ![n] = j]])
<1> DEFINE z == [tree |-> x.tree, node |-> x.node, job |-> [x.job EXCEPT ![n] = j]]
<1>1. x \in Tables
  BY DEF TablesInv
<1>2. z \in Tables /\ z.tree = x.tree /\ z.node = x.node /\ z.job = [x.job EXCEPT ![n] = j]
  BY <1>1 DEF Tables
<1>. HIDE DEF z
<1>3. /\ \A m \in Nodes \ {n} : z.job[m] = x.job[m]
      /\ z.job[n] = j /\ j # NoJob
  BY <1>1, <1>2, NoJobAssumption DEF Tables
<1>4. ASSUME NEW m \in Nodes
      PROVE  IF Type[m] = "service" THEN ServiceFollows(z, m) ELSE OtherFollows(z, m)
  <2>1. IF Type[m] = "service" THEN ServiceFollows(x, m) ELSE OtherFollows(x, m)
    BY DEF TablesInv, Follows
  <2>2. CASE Type[m] = "service"
    BY <1>2, <1>3, <2>1, <2>2 DEF ServiceFollows
  <2>3. CASE Type[m] # "service"
    <3>1. Type[m] = "review_gate" => Input[m] \in Nodes
      BY GateAssumption
    <3>. QED
      BY <1>2, <1>3, <2>1, <2>3, <3>1 DEF OtherFollows
  <2>. QED
    BY <2>2, <2>3
<1>5. Sound(z.tree) /\ RunsBelowRoot(z.tree)
  BY <1>2 DEF TablesInv
<1>6. TablesInv(z)
  BY <1>2, <1>4, <1>5 DEF TablesInv, Follows
<1>. QED
  BY <1>6 DEF z

(* The three tables of a state, and of the next.                           *)
LEMMA NowParts ==
  /\ Now.tree = tree /\ Now.node = node /\ Now.job = job
  /\ Now' = [tree |-> tree', node |-> node', job |-> job']
BY DEF Now

-----------------------------------------------------------------------------
(* One step per action.                                                     *)
LEMMA InitInv == Init => Inv
<1>. SUFFICES ASSUME Init PROVE Inv
  OBVIOUS
<1>1. Sound(tree) /\ tree \in Trees
  BY EmptySound, WorkflowAssumption DEF Init, Sound
<1>2. RunsBelowRoot(tree)
  BY WorkflowAssumption DEF Init, EmptyTree, RunsBelowRoot
<1>3. Now \in Tables
  BY <1>1 DEF Init, Now, Tables, NodeStates, Waiting
<1>4. \A n \in Nodes : tree.claim[n].state = "none" /\ node[n] = "pending" /\ job[n] = NoJob
  BY NodeIsRef DEF Init, EmptyTree
<1>5. Follows(Now)
  BY <1>4, NowParts DEF Follows, ServiceFollows, OtherFollows, InFlight, Waiting
<1>6. TablesInv(Now)
  BY <1>1, <1>2, <1>3, <1>5, NowParts DEF TablesInv
<1>. QED
  BY <1>6 DEF Init, Inv, RunStates

(* create_run and the levels of its nodes.                                 *)
LEMMA StartRunKeeps ==
  ASSUME Inv, NEW r \in Runs, StartRun(r)
  PROVE  Inv'
<1>1. Sound(tree) /\ tree \in Trees /\ RunsBelowRoot(tree) /\ TablesInv(Now)
  BY NowParts DEF Inv, TablesInv, Sound
<1> DEFINE t   == WithRunLevel(tree, r)
           new == Budgeted(r) \ t.made
           p   == LevelOfRun(r)
           u   == WithNodeLevels(t, r)
<1>2. Root \in tree.made /\ tree.parent[Root] = Root /\ r \in Levels
  BY <1>1, WorkflowAssumption DEF Sound, Shaped
<1>3. Sound(t) /\ p \in t.made /\ t.parent[p] = Root /\ RunsBelowRoot(t) /\ t.claim = tree.claim
  <2>1. CASE RunCeiling[r] = NoCeiling
    BY <1>1, <1>2, <2>1 DEF WithRunLevel, LevelOfRun
  <2>2. CASE RunCeiling[r] # NoCeiling
    <3>1. RunCeiling[r] \in Nat
      BY <2>2, WorkflowAssumption
    <3>2. t = CreateChild(tree, r, Root, RunCeiling[r]) /\ p = r
      BY <2>2 DEF WithRunLevel, LevelOfRun
    <3>3. Sound(t)
      BY <1>1, <1>2, <3>1, <3>2, CreateChildSound
    <3>4. r \in t.made /\ t.parent[r] = Root /\ RunsBelowRoot(t) /\ t.claim = tree.claim
      BY <1>1, <1>2, <3>2 DEF CreateChild, RunsBelowRoot, Trees
    <3>. QED
      BY <3>2, <3>3, <3>4
  <2>. QED
    BY <2>1, <2>2
<1>4. t \in Trees /\ new \in SUBSET (Levels \ t.made) /\ new \cap Runs = {}
  <2>1. NodesOf(r) \subseteq Nodes
    BY WorkflowAssumption DEF NodesOf
  <2>. QED
    BY <1>3, <2>1, WorkflowAssumption DEF Budgeted, Sound
<1>. HIDE DEF t
<1>5. /\ u.made = t.made \cup new
      /\ u.parent = [l \in Levels |-> IF l \in new THEN p ELSE t.parent[l]]
      /\ u.ceiling = [l \in Levels |-> IF l \in new THEN NodeCeiling[l] ELSE t.ceiling[l]]
      /\ u.reserved = t.reserved /\ u.committed = t.committed /\ u.claim = t.claim
  BY <1>4 DEF WithNodeLevels, Trees
<1>6. \A l \in new : NodeCeiling[l] \in Nat
  <2>1. \A l \in Budgeted(r) : l \in Nodes /\ NodeCeiling[l] # NoCeiling
    BY WorkflowAssumption DEF Budgeted, NodesOf
  <2>. QED
    BY <2>1, WorkflowAssumption
<1>7. u \in Trees
  <2>1. p \in Levels /\ new \subseteq Levels
    BY <1>3, <1>4 DEF Trees
  <2>2. u = [t EXCEPT !.made = u.made, !.parent = u.parent, !.ceiling = u.ceiling]
    BY <1>4, <1>5 DEF WithNodeLevels, Trees
  <2>3. u.made \in SUBSET Levels /\ u.parent \in [Levels -> Levels]
    BY <1>4, <1>5, <2>1 DEF Trees
  <2>4. u.ceiling \in [Levels -> Nat]
    BY <1>4, <1>5, <1>6 DEF Trees
  <2>. HIDE DEF u
  <2>. QED
    BY <1>4, <2>2, <2>3, <2>4 DEF Trees
<1>. HIDE DEF u, new, p
<1>8. Sound(u)
  <2>1. \A l \in Levels \ new : u.ceiling[l] = t.ceiling[l]
    BY <1>5
  <2>. QED
    BY <1>3, <1>4, <1>5, <1>7, <2>1, GrowSound
<1>9. RunsBelowRoot(u)
  BY <1>3, <1>4, <1>5, WorkflowAssumption DEF RunsBelowRoot
<1>10. tree' = u /\ node' = node /\ job' = job /\ deleted' = deleted /\ revoked' = revoked
  BY DEF StartRun, u, t
<1>11. TablesInv([tree |-> u, node |-> Now.node, job |-> Now.job])
  BY <1>1, <1>3, <1>5, <1>8, <1>9, NowParts, TreeStep
<1>12. TablesInv(Now')
  BY <1>10, <1>11, NowParts
<1>13. run' \in [Runs -> [state : RunStates, cancel : BOOLEAN]]
  BY DEF Inv, StartRun, RunStates, Active
<1>. QED
  BY <1>10, <1>12, <1>13, NowParts DEF Inv

(* The state a tick derives for a run is one of the table.                 *)
LEMMA DerivedType ==
  ASSUME NEW r, NEW nodes, NEW cancel
  PROVE  Derived(r, nodes, cancel) \in RunStates
BY DEF Derived, RunStates, Active, Final

(* The tables after a tick are the last of its walk.                        *)
LEMMA TickIsWalk ==
  ASSUME NEW r \in Runs, NEW cancel, NEW refused, Tick(r, cancel, refused)
  PROVE  LET W == Walk(r, cancel, refused)
             k == Len(Order[r])
         IN  /\ k \in Nat /\ Order[r] \in [1..k -> Nodes]
             /\ W[0] = Now /\ \A i \in 1..k : W[i] = Visit(W[i - 1], Order[r][i], cancel, refused)
             /\ tree' = W[k].tree /\ node' = W[k].node /\ job' = W[k].job
<1> DEFINE W == Walk(r, cancel, refused)
           k == Len(Order[r])
<1>1. k \in Nat /\ Order[r] \in [1..k -> Nodes]
  BY WorkflowAssumption
<1>2. W = [i \in 0..k |-> IF i = 0 THEN [tree |-> tree, node |-> node, job |-> job]
                         ELSE Visit(W[i - 1], Order[r][i], cancel, refused)]
  BY DEF Tick
<1>3. tree' = W[k].tree /\ node' = W[k].node /\ job' = W[k].job
  BY DEF Tick
<1>. HIDE DEF W, k
<1>4. W[0] = Now
  BY <1>1, <1>2 DEF Now
<1>5. ASSUME NEW i \in 1..k  PROVE W[i] = Visit(W[i - 1], Order[r][i], cancel, refused)
  <2>1. i \in 0..k /\ i # 0
    BY <1>1
  <2>. QED
    BY <1>2, <2>1
<1>. QED
  BY <1>1, <1>3, <1>4, <1>5 DEF W, k

(* advance: the whole walk, by the lemma on walks.                         *)
LEMMA TickKeeps ==
  ASSUME Inv, NEW r \in Runs, NEW cancel \in BOOLEAN, NEW refused, Tick(r, cancel, refused)
  PROVE  Inv'
<1> DEFINE W == Walk(r, cancel, refused)
           k == Len(Order[r])
<1>1. /\ k \in Nat /\ Order[r] \in [1..k -> Nodes]
      /\ W[0] = Now /\ \A i \in 1..k : W[i] = Visit(W[i - 1], Order[r][i], cancel, refused)
      /\ tree' = W[k].tree /\ node' = W[k].node /\ job' = W[k].job
  BY TickIsWalk
<1>2. /\ deleted' = deleted /\ revoked' = revoked
      /\ run' = [run EXCEPT ![r] = [state |-> Derived(r, InMemory(node'), cancel), cancel |-> cancel]]
  BY DEF Tick
<1>. HIDE DEF W, k
<1>3. TablesInv(W[k])
  BY <1>1, WalkKeeps DEF Inv
<1>4. W[k] = [tree |-> tree', node |-> node', job |-> job']
  BY <1>1, <1>3 DEF TablesInv, Tables
<1>5. TablesInv(Now')
  BY <1>3, <1>4, NowParts
<1>6. run' \in [Runs -> [state : RunStates, cancel : BOOLEAN]]
  BY <1>2, DerivedType DEF Inv
<1>. QED
  BY <1>2, <1>5, <1>6 DEF Inv

(* A step that changes one job, and does not revise a success.             *)
LEMMA SetJobKeeps ==
  ASSUME Inv, NEW n \in Nodes, job[n] # NoJob, NEW j \in Job, SetJob(n, j),
         job[n].state = "succeeded" => j.state = "succeeded"
  PROVE  Inv'
<1>1. TablesInv([tree |-> tree, node |-> node, job |-> [job EXCEPT ![n] = j]])
  BY JobStep, NowParts DEF Inv
<1>2. TablesInv(Now')
  BY <1>1, NowParts DEF SetJob
<1>. QED
  BY <1>2 DEF Inv, SetJob

(* A step that changes the tree, and no reservation of a node.             *)
LEMMA SetTreeKeeps ==
  ASSUME Inv, NEW t, SetTree(t), Sound(t), RunsBelowRoot(t),
         \A n \in Nodes : t.claim[n] = tree.claim[n]
  PROVE  Inv'
<1>1. TablesInv([tree |-> t, node |-> node, job |-> job])
  BY TreeStep, NowParts DEF Inv
<1>2. TablesInv(Now')
  BY <1>1, NowParts DEF SetTree
<1>. QED
  BY <1>2 DEF Inv, SetTree

(* Workers, requests to cancel, and reviews.                               *)
LEMMA JobMovesKeep ==
  ASSUME Inv, NEW n \in Nodes,
         JobMoves(n) \/ JobCancel(n) \/ RequestReview(n) \/ DecideReview(n)
  PROVE  Inv'
<1> DEFINE j == job[n]
<1>1. j # NoJob /\ j \in Job
  BY NowParts DEF Inv, TablesInv, Tables, JobMoves, JobClaim, JobEnds, JobCancel, LiveJob,
     RequestReview, DecideReview
<1>2. CASE JobClaim(n)
  BY <1>1, <1>2, SetJobKeeps DEF JobClaim, Job, JobStates
<1>3. CASE JobEnds(n)
  <2>1. \A o \in Outcomes : [j EXCEPT !.state = "succeeded", !.outcome = o] \in Job
    BY <1>1 DEF Job, JobStates
  <2>2. [j EXCEPT !.state = "failed"] \in Job /\ [j EXCEPT !.state = "cancelled"] \in Job
    BY <1>1 DEF Job, JobStates
  <2>3. j.retries > 0 => [j EXCEPT !.state = "queued", !.retries = @ - 1] \in Job
    <3>1. j.retries \in 0..MaxRetries /\ MaxRetries \in Nat
      BY <1>1, WorkflowAssumption DEF Job
    <3>2. j.retries > 0 => j.retries - 1 \in 0..MaxRetries
      BY <3>1
    <3>. QED
      BY <1>1, <3>2 DEF Job, JobStates
  <2>4. j.state = "running"
    BY <1>3 DEF JobEnds
  <2>. QED
    BY <1>1, <1>3, <2>1, <2>2, <2>3, <2>4, SetJobKeeps DEF JobEnds
<1>4. CASE JobCancel(n)
  <2>1. CancelJob(j) \in Job /\ j.state # "succeeded"
    BY <1>1, <1>4, JobTypes DEF JobCancel, LiveJob, InFlight
  <2>. QED
    BY <1>1, <1>4, <2>1, SetJobKeeps DEF JobCancel
<1>5. CASE RequestReview(n)
  <2>1. [j EXCEPT !.review = "requested"] \in Job /\ [j EXCEPT !.review = "requested"].state = j.state
    BY <1>1 DEF Job
  <2>. QED
    BY <1>1, <1>5, <2>1, SetJobKeeps DEF RequestReview
<1>6. CASE DecideReview(n)
  <2>1. \A d \in {"accepted", "rejected"} :
          [j EXCEPT !.review = d] \in Job /\ [j EXCEPT !.review = d].state = j.state
    BY <1>1 DEF Job
  <2>. QED
    BY <1>1, <1>6, <2>1, SetJobKeeps DEF DecideReview
<1>. QED
  BY <1>2, <1>3, <1>4, <1>5, <1>6 DEF JobMoves

(* The work board takes and gives back on the same tree.                   *)
LEMMA AwardsKeep ==
  ASSUME Inv, NEW a \in Awards, AwardReserves(a) \/ AwardCloses(a)
  PROVE  Inv'
<1>1. Sound(tree) /\ tree \in Trees /\ RunsBelowRoot(tree)
  BY NowParts DEF Inv, TablesInv, Sound
<1>2. a \in Refs /\ a \in Levels /\ a \notin Runs /\ Amount[a] \in Nat /\ \A n \in Nodes : n \in Refs \ {a}
  BY WorkflowAssumption
<1>3. Root \in tree.made /\ tree.parent[Root] = Root /\ tree.ceiling[Root] \in Nat
  BY <1>1, RootAssumption DEF Sound, Shaped, Trees
<1>4. CASE AwardReserves(a)
  <2> DEFINE c == IF Amount[a] < tree.ceiling[Root] THEN Amount[a] ELSE tree.ceiling[Root]
             t == CreateChild(tree, a, Root, c)
             u == Reserve(t, a, Amount[a], a)
  <2>1. Fits(t, a, Amount[a]) /\ SetTree(u)
    BY <1>4 DEF AwardReserves
  <2>2. c \in Nat
    BY <1>2, <1>3
  <2>3. Sound(t)
    BY <1>1, <1>2, <1>3, <2>2, CreateChildSound
  <2>4. a \in t.made /\ t.claim = tree.claim /\ RunsBelowRoot(t)
    BY <1>1, <1>2 DEF CreateChild, RunsBelowRoot, Trees
  <2>. HIDE DEF t, c
  <2>5. t \in Trees
    BY <2>3 DEF Sound
  <2>6. Sound(u)
    BY <1>2, <2>1, <2>3, <2>4, ReserveSound
  <2>7. u.made = t.made /\ u.parent = t.parent /\ \A q \in Refs \ {a} : u.claim[q] = t.claim[q]
    BY <1>2, <2>5, ReserveFrame
  <2>. HIDE DEF u
  <2>8. RunsBelowRoot(u)
    BY <2>4, <2>7 DEF RunsBelowRoot
  <2>9. \A n \in Nodes : u.claim[n] = tree.claim[n]
    BY <1>2, <2>4, <2>7
  <2>. QED
    BY <2>1, <2>6, <2>8, <2>9, SetTreeKeeps
<1>5. CASE AwardCloses(a)
  <2>1. ASSUME NEW u, SetTree(u), Sound(u), u.made = tree.made, u.parent = tree.parent,
               \A q \in Refs \ {a} : u.claim[q] = tree.claim[q]
        PROVE  Inv'
    <3>1. RunsBelowRoot(u)
      BY <1>1, <2>1 DEF RunsBelowRoot
    <3>. QED
      BY <1>2, <2>1, <3>1, SetTreeKeeps
  <2>2. CASE SetTree(Release(tree, a))
    <3>1. Sound(Release(tree, a))
      BY <1>1, <1>2, SettleSound
    <3>2. LET u == Release(tree, a) IN
          u.made = tree.made /\ u.parent = tree.parent /\ \A q \in Refs \ {a} : u.claim[q] = tree.claim[q]
      BY <1>1, <1>2, CloseFrame DEF Release
    <3>. QED
      BY <2>1, <2>2, <3>1, <3>2
  <2>3. ASSUME NEW paid \in 0..Amount[a], SetTree(ReleasePartial(tree, a, paid)) PROVE Inv'
    <3>1. paid \in Nat
      BY <1>2
    <3>2. Sound(ReleasePartial(tree, a, paid))
      BY <1>1, <1>2, <3>1, SettleSound
    <3>3. LET u == ReleasePartial(tree, a, paid) IN
          u.made = tree.made /\ u.parent = tree.parent /\ \A q \in Refs \ {a} : u.claim[q] = tree.claim[q]
      BY <1>1, <1>2, CloseFrame DEF ReleasePartial
    <3>. QED
      BY <2>1, <2>3, <3>2, <3>3
  <2>. QED
    BY <1>5, <2>2, <2>3 DEF AwardCloses
<1>. QED
  BY <1>4, <1>5

(* The ceiling of the workspace is set again.                              *)
LEMMA SetWorkspaceCeilingKeeps ==
  ASSUME Inv, SetWorkspaceCeiling
  PROVE  Inv'
<1>1. Sound(tree) /\ RunsBelowRoot(tree)
  BY NowParts DEF Inv, TablesInv
<1>2. PICK c \in Ceilings : Lowerable(tree, c) /\ SetTree(SetCeiling(tree, c))
  BY DEF SetWorkspaceCeiling
<1>3. Sound(SetCeiling(tree, c))
  BY <1>1, <1>2, SetCeilingSound, WorkflowAssumption
<1>4. RunsBelowRoot(SetCeiling(tree, c)) /\ SetCeiling(tree, c).claim = tree.claim
  BY <1>1 DEF SetCeiling, RunsBelowRoot, Sound, Trees
<1>. QED
  BY <1>2, <1>3, <1>4, SetTreeKeeps

(* The invariant is inductive.                                              *)
LEMMA NextKeeps == Inv /\ [Next]_vars => Inv'
<1>. SUFFICES ASSUME Inv, [Next]_vars PROVE Inv'
  OBVIOUS
<1>1. ASSUME NEW r \in Runs, Advance(r) \/ Cancel(r) PROVE Inv'
  <2>1. run[r].cancel \in BOOLEAN
    BY DEF Inv
  <2>. QED
    BY <1>1, <2>1, TickKeeps DEF Advance, Cancel
<1>4. ASSUME NEW p \in Principals, Revoke(p) PROVE Inv'
  <2>1. TablesInv(Now') /\ run' = run /\ deleted' = deleted /\ revoked' = revoked \cup {p}
    BY <1>4 DEF Revoke, Inv, Now
  <2>. QED
    BY <2>1 DEF Inv
<1>2. ASSUME NEW n \in Nodes, DeleteDataset(n) PROVE Inv'
  <2>1. TablesInv(Now') /\ run' = run
    BY <1>2 DEF DeleteDataset, Inv, Now
  <2>. QED
    BY <1>2, <2>1 DEF DeleteDataset, Inv
<1>3. CASE UNCHANGED vars
  <2>1. TablesInv(Now') /\ run' = run /\ deleted' = deleted /\ revoked' = revoked
    BY <1>3 DEF vars, Inv, Now
  <2>. QED
    BY <2>1 DEF Inv
<1>. QED
  BY <1>1, <1>2, <1>3, <1>4, StartRunKeeps, JobMovesKeep, AwardsKeep, SetWorkspaceCeilingKeeps DEF Next

(* The invariant of the engine holds in every state.                       *)
THEOREM Invariance == Spec => []Inv
<1>. QED
  BY InitInv, NextKeeps, PTL DEF Spec

-----------------------------------------------------------------------------
(* The variables keep their types: a walk never leaves a node or a run in a *)
(* state the tables do not know.                                           *)
THEOREM TypesHold == Spec => []WorkflowTypeOK
<1>1. Inv => WorkflowTypeOK
  BY NowParts DEF Inv, TablesInv, Tables, WorkflowTypeOK, NodeStates
<1>. QED
  BY <1>1, Invariance, PTL

(* Concurrent runs, nodes and awards never take more of a level than its    *)
(* ceiling, for every tree of levels, amounts and ceilings.                 *)
THEOREM CeilingsHold == Spec => []UseWithinCeiling
<1>1. Inv => UseWithinCeiling
  BY NowParts DEF Inv, TablesInv, Sound, UseWithinCeiling
<1>. QED
  BY <1>1, Invariance, PTL

(* The counters of every level are the sums of the reservations below it.   *)
THEOREM CountersHold == Spec => []ReservedIsHeld
<1>1. Inv => ReservedIsHeld
  BY NowParts DEF Inv, TablesInv, Sound, ReservedIsHeld
<1>. QED
  BY <1>1, Invariance, PTL

(* A reservation follows its node from the reserve to the settlement, for   *)
(* every definition and every interleaving of ticks, workers and people.    *)
THEOREM ReservationsFollow == Spec => []ReservationFollowsNode
<1>1. Inv => ReservationFollowsNode
  BY NowParts DEF Inv, TablesInv, Follows, ServiceFollows, ReservationFollowsNode, Services
<1>. QED
  BY <1>1, Invariance, PTL
-----------------------------------------------------------------------------
(* Order: what a visit starts has its dependencies met, and nothing that a  *)
(* dependency rests on is revised - neither the end of a node, nor the      *)
(* outcome of a job that succeeded, nor the acceptance of its review.       *)
Unrevised(x, y) ==
  \A m \in Nodes :
    /\ x.node[m] \in Ended => y.node[m] = x.node[m]
    /\ x.job[m] # NoJob /\ x.job[m].state = "succeeded" =>
         /\ y.job[m] # NoJob /\ y.job[m].state = "succeeded" /\ y.job[m].outcome = x.job[m].outcome
         /\ x.job[m].review = "accepted" => y.job[m].review = "accepted"

Started(x, n) == x.job[n] # NoJob \/ x.node[n] \in {"waiting_review", "succeeded"}

Orderly(x) ==
  \A n \in Nodes :
    /\ Type[n] # "service" => x.job[n] = NoJob
    /\ x.node[n] \in Ended => ~ LiveJob(x.job[n])
    /\ Started(x, n) => Unmet(x, n) = {}

(* Dependencies that are met stay met while nothing is revised.            *)
LEMMA UnmetStays ==
  ASSUME NEW x, TablesInv(x), Orderly(x), NEW y, Unrevised(x, y), NEW n \in Nodes, Unmet(x, n) = {}
  PROVE  Unmet(y, n) = {}
<1>1. SUFFICES ASSUME NEW i \in DOMAIN Needs[n] PROVE Meets(y, Needs[n][i])
  BY DEF Unmet
<1> DEFINE d == Needs[n][i]
<1>2. Meets(x, d) /\ d.node \in Nodes
  BY <1>1, WorkflowAssumption DEF Unmet
<1>. HIDE DEF d
<1>3. x.node[d.node] = "succeeded" /\ y.node[d.node] = "succeeded"
  BY <1>2 DEF Meets, Unrevised, Ended
<1>4. CASE d.require = "succeeded"
  BY <1>3, <1>4 DEF Meets, d
<1>5. CASE d.require # "succeeded"
  <2>1. x.job[d.node] # NoJob
    BY <1>2, <1>5 DEF Meets
  <2>2. Type[d.node] = "service"
    BY <1>2, <2>1 DEF Orderly
  <2>3. x.job[d.node].state = "succeeded"
    BY <1>2, <1>3, <2>2 DEF TablesInv, Follows, ServiceFollows
  <2>4. /\ y.job[d.node] # NoJob /\ y.job[d.node].outcome = x.job[d.node].outcome
        /\ x.job[d.node].review = "accepted" => y.job[d.node].review = "accepted"
    BY <1>2, <2>1, <2>3 DEF Unrevised
  <2>. QED
    BY <1>2, <1>3, <2>4 DEF Meets, d
<1>. QED
  BY <1>4, <1>5

(* A change of the tables that gives one node a state, and may add or        *)
(* change its job.                                                         *)
LEMMA TouchOrder ==
  ASSUME NEW x, TablesInv(x), Orderly(x), NEW n \in Nodes, x.node[n] \notin Ended,
         NEW y, NEW s, y.node = [x.node EXCEPT ![n] = s],
         \A m \in Nodes : /\ Type[m] # "service" => y.job[m] = NoJob
                          /\ x.job[m] # NoJob /\ x.job[m].state = "succeeded" =>
                               /\ y.job[m] # NoJob /\ y.job[m].state = "succeeded"
                               /\ y.job[m].outcome = x.job[m].outcome
                               /\ x.job[m].review = "accepted" => y.job[m].review = "accepted",
         \A m \in Nodes \ {n} : /\ LiveJob(y.job[m]) => LiveJob(x.job[m])
                                /\ y.job[m] # NoJob => x.job[m] # NoJob,
         s \in Ended => ~ LiveJob(y.job[n]),
         y.job[n] # NoJob \/ s \in {"waiting_review", "succeeded"} => Started(x, n) \/ Unmet(x, n) = {}
  PROVE  Orderly(y) /\ Unrevised(x, y)
<1>1. y.node[n] = s /\ \A m \in Nodes \ {n} : y.node[m] = x.node[m]
  BY DEF TablesInv, Tables
<1>2. Unrevised(x, y)
  BY <1>1 DEF Unrevised
<1>3. ASSUME NEW m \in Nodes, Started(y, m) PROVE Unmet(y, m) = {}
  <2>1. Started(x, m) \/ Unmet(x, m) = {}
    BY <1>1, <1>3 DEF Started
  <2>2. Unmet(x, m) = {}
    BY <2>1 DEF Orderly
  <2>. QED
    BY <1>2, <2>2, UnmetStays
<1>4. ASSUME NEW m \in Nodes, y.node[m] \in Ended PROVE ~ LiveJob(y.job[m])
  BY <1>1, <1>4 DEF Orderly
<1>. QED
  BY <1>2, <1>3, <1>4 DEF Orderly

(* A visit that gives a node without work under way a state.                *)
LEMMA StateOrder ==
  ASSUME NEW x, TablesInv(x), Orderly(x), NEW n \in Nodes, x.node[n] \in Waiting, NEW s,
         s \in {"waiting_review", "succeeded"} => Started(x, n) \/ Unmet(x, n) = {}
  PROVE  Orderly(To(x, n, s)) /\ Unrevised(x, To(x, n, s))
<1> DEFINE y == To(x, n, s)
<1>1. y.node = [x.node EXCEPT ![n] = s] /\ y.job = x.job
  BY DEF To, TablesInv, Tables
<1>. HIDE DEF y
<1>2. x.job[n] = NoJob
  BY DEF TablesInv, Follows, ServiceFollows, Orderly
<1>3. x.node[n] \notin Ended
  BY DEF Waiting, Ended
<1>4. ~ LiveJob(y.job[n]) /\ y.job[n] = NoJob
  BY <1>1, <1>2 DEF LiveJob
<1>5. \A m \in Nodes : Type[m] # "service" => y.job[m] = NoJob
  BY <1>1 DEF Orderly
<1>6. Orderly(y) /\ Unrevised(x, y)
  BY <1>1, <1>3, <1>4, <1>5, TouchOrder
<1>. QED
  BY <1>6 DEF y

(* A visit that reads the state of a job only ends what the job has ended. *)
LEMMA FollowOrder ==
  ASSUME NEW x, TablesInv(x), Orderly(x), NEW n \in Nodes, x.node[n] \in InFlight, NEW cancel
  PROVE  Orderly(Follow(x, n, cancel)) /\ Unrevised(x, Follow(x, n, cancel))
<1>1. x \in Tables
  BY DEF TablesInv
<1>2. Type[n] = "service" /\ x.job[n] # NoJob /\ x.job[n] \in Job
  BY <1>1 DEF TablesInv, Follows, OtherFollows, ServiceFollows, Tables
<1> DEFINE j == x.job[n]
           y == IF cancel /\ j.state \in InFlight /\ ~ j.cancel
                  THEN [x EXCEPT !.job[n] = CancelJob(j)] ELSE x
           z == Follow(x, n, cancel)
<1>3. y.node = x.node /\ y.job[n] # NoJob /\ \A m \in Nodes \ {n} : y.job[m] = x.job[m]
  BY <1>1, <1>2, JobTypes, NoJobAssumption DEF Tables
<1>4. j.state \notin InFlight => y = x
  OBVIOUS
<1>5. x.node[n] \notin Ended
  BY DEF InFlight, Ended
<1>6. PICK s : /\ z.node = [x.node EXCEPT ![n] = s] /\ z.job = y.job
               /\ s \in Ended => j.state \notin InFlight
  <2>0. /\ y = [tree |-> y.tree, node |-> y.node, job |-> y.job]
        /\ j.state \in JobStates /\ x.node = [x.node EXCEPT ![n] = x.node[n]]
    BY <1>1, <1>2 DEF Tables, Job
  <2>. HIDE DEF y
  <2> DEFINE T(u, t) == To([y EXCEPT !.tree = u], n, t)
  <2>1. \A u, t : T(u, t).node = [x.node EXCEPT ![n] = t] /\ T(u, t).job = y.job
    BY <1>3, <2>0 DEF To
  <2>2. ASSUME NEW s PROVE To(y, n, s).node = [y.node EXCEPT ![n] = s] /\ To(y, n, s).job = y.job
    BY <2>0 DEF To
  <2>3. CASE j.state = "succeeded"
    <3>1. z = T(Commit(y.tree, n), "succeeded")
      BY <2>3 DEF Follow, y
    <3>. HIDE DEF z, T
    <3>2. z.node = [x.node EXCEPT ![n] = "succeeded"] /\ z.job = y.job
      BY <2>1, <3>1
    <3>3. j.state \notin InFlight
      BY <2>3 DEF InFlight
    <3>. QED
      BY <3>2, <3>3, Zenon
  <2>4. CASE j.state \in {"failed", "cancelled"}
    <3>1. z = T(Release(y.tree, n), j.state)
      BY <2>4 DEF Follow, y
    <3>. HIDE DEF z, T
    <3>2. z.node = [x.node EXCEPT ![n] = j.state] /\ z.job = y.job
      BY <2>1, <3>1
    <3>3. j.state \notin InFlight
      BY <2>4 DEF InFlight
    <3>. QED
      BY <3>2, <3>3, Zenon
  <2>5. CASE j.state = "running"
    <3>1. z = To(y, n, "running")
      BY <2>5 DEF Follow, y
    <3>. HIDE DEF z
    <3>2. z.node = [x.node EXCEPT ![n] = "running"] /\ z.job = y.job
      BY <1>3, <2>2, <3>1
    <3>3. "running" \notin Ended
      BY DEF Ended
    <3>. QED
      BY <3>2, <3>3, Zenon
  <2>6. CASE j.state = "queued"
    <3>1. z = y
      BY <2>6 DEF Follow, y
    <3>. HIDE DEF z
    <3>. QED
      BY <1>3, <1>5, <2>0, <3>1
  <2>. QED
    BY <2>0, <2>3, <2>4, <2>5, <2>6 DEF JobStates
<1>. HIDE DEF y, z
<1>7. s \in Ended => ~ LiveJob(z.job[n])
  BY <1>4, <1>6 DEF LiveJob
<1>8. \A m \in Nodes \ {n} : z.job[m] = x.job[m]
  BY <1>3, <1>6
<1>9. j.state = "succeeded" => z.job[n] = j
  BY <1>4, <1>6 DEF InFlight
<1>10. \A m \in Nodes : Type[m] # "service" => z.job[m] = NoJob
  BY <1>2, <1>8 DEF Orderly
<1>11. Started(x, n)
  BY <1>2 DEF Started
<1>12. Orderly(z) /\ Unrevised(x, z)
  BY <1>5, <1>6, <1>7, <1>8, <1>9, <1>10, <1>11, TouchOrder
<1>. QED
  BY <1>12 DEF z

(* A service starts with its dependencies met, or leaves no job.           *)
LEMMA StartServiceOrder ==
  ASSUME NEW x, TablesInv(x), Orderly(x), NEW n \in Nodes, Type[n] = "service", NEW refused,
         x.node[n] \in {"pending", "waiting_dependency"}, Unmet(x, n) = {}
  PROVE  LET z == StartService(x, n, refused) IN Orderly(z) /\ Unrevised(x, z)
<1> DEFINE z == StartService(x, n, refused)
<1>1. x \in Tables /\ x.node[n] \notin Ended
  BY DEF TablesInv, Ended
<1>2. x.job[n] = NoJob
  BY DEF TablesInv, Follows, ServiceFollows, Waiting
<1>3. PICK s, j : /\ z.node = [x.node EXCEPT ![n] = s] /\ z.job = [x.job EXCEPT ![n] = j]
                  /\ s \in Ended => j = NoJob
  <2>0. x = [tree |-> x.tree, node |-> x.node, job |-> x.job] /\ x.job = [x.job EXCEPT ![n] = NoJob]
    BY <1>1, <1>2 DEF Tables
  <2> DEFINE T(t)    == To(x, n, t)
             B(u)    == To([x EXCEPT !.tree = u], n, "blocked")
             Q(u)    == To([[x EXCEPT !.tree = u] EXCEPT !.job[n] = NewJob], n, "queued")
             u       == Reserve(x.tree, LevelFor(x.tree, n), Amount[n], n)
  <2>1. \A t : T(t).node = [x.node EXCEPT ![n] = t] /\ T(t).job = x.job
    BY <2>0 DEF To
  <2>2. \A v : B(v).node = [x.node EXCEPT ![n] = "blocked"] /\ B(v).job = x.job
    BY <2>0 DEF To
  <2>3. \A v : Q(v).node = [x.node EXCEPT ![n] = "queued"] /\ Q(v).job = [x.job EXCEPT ![n] = NewJob]
    BY <2>0 DEF To
  <2>4. (\E t : z = T(t)) \/ z = B(u) \/ z = Q(u)
    BY <2>0 DEF StartService
  <2>. HIDE DEF z, u, T, B, Q
  <2>5. CASE \E t : z = T(t)
    <3>1. PICK t : z = T(t)
      BY <2>5
    <3>2. z.node = [x.node EXCEPT ![n] = t] /\ z.job = [x.job EXCEPT ![n] = NoJob]
      BY <2>0, <2>1, <3>1
    <3>. QED
      BY <3>2, Zenon
  <2>6. CASE z = B(u)
    BY <2>0, <2>2, <2>6
  <2>7. CASE z = Q(u)
    <3>1. z.node = [x.node EXCEPT ![n] = "queued"] /\ z.job = [x.job EXCEPT ![n] = NewJob]
      BY <2>3, <2>7
    <3>2. "queued" \notin Ended
      BY DEF Ended
    <3>. QED
      BY <3>1, <3>2, Zenon
  <2>. QED
    BY <2>4, <2>5, <2>6, <2>7
<1>. HIDE DEF z
<1>4. z.job[n] = j /\ \A m \in Nodes \ {n} : z.job[m] = x.job[m]
  BY <1>1, <1>3 DEF Tables
<1>5. s \in Ended => ~ LiveJob(z.job[n])
  BY <1>3, <1>4 DEF LiveJob
<1>6. \A m \in Nodes : Type[m] # "service" => z.job[m] = NoJob
  BY <1>4 DEF Orderly
<1>7. \A m \in Nodes : /\ m # n => z.job[m] = x.job[m]
                       /\ x.job[m] # NoJob => z.job[m] = x.job[m]
  BY <1>2, <1>4
<1>8. z.node = [x.node EXCEPT ![n] = s]
  BY <1>3
<1>9. Orderly(z) /\ Unrevised(x, z)
  BY <1>1, <1>5, <1>6, <1>7, <1>8, TouchOrder
<1>. QED
  BY <1>9 DEF z

(* A gate asks for a review, and takes none back.                          *)
LEMMA OpenGateOrder ==
  ASSUME NEW x, TablesInv(x), Orderly(x), NEW n \in Nodes, Type[n] = "review_gate",
         x.node[n] \in Waiting, Unmet(x, n) = {}
  PROVE  Orderly(OpenGate(x, n)) /\ Unrevised(x, OpenGate(x, n))
<1> DEFINE i == Input[n]
           z == OpenGate(x, n)
           a == x.job[i]
           j == [a EXCEPT !.review = IF @ = "none" THEN "requested" ELSE @]
<1>1. x \in Tables /\ x.node[n] \notin Ended /\ i \in Nodes /\ Type[i] = "service" /\ i # n
  BY GateAssumption DEF TablesInv, Waiting, Ended
<1>2. x.node[i] = "succeeded"
  <2>1. PICK k \in DOMAIN Needs[n] : Needs[n][k].node = i
    BY GateAssumption
  <2>2. Meets(x, Needs[n][k])
    BY DEF Unmet
  <2>. QED
    BY <2>1, <2>2 DEF Meets
<1>3. a # NoJob /\ a \in Job /\ a.state = "succeeded"
  BY <1>1, <1>2 DEF TablesInv, Follows, ServiceFollows, Tables
<1>4. j.state = a.state /\ j.outcome = a.outcome /\ j \in Job /\ (a.review = "accepted" => j.review = "accepted")
  <2>. HIDE DEF a
  <2>. QED
    BY <1>3 DEF Job
<1>5. z.node = [x.node EXCEPT ![n] = "waiting_review"] /\ z.job = [x.job EXCEPT ![i] = j]
  BY <1>1 DEF OpenGate, To, Tables
<1>. HIDE DEF z, j
<1>6. z.job[i] = j /\ \A m \in Nodes \ {i} : z.job[m] = x.job[m]
  BY <1>1, <1>5 DEF Tables
<1>7. j # NoJob /\ ~ LiveJob(j)
  BY <1>3, <1>4, NoJobAssumption DEF LiveJob, InFlight
<1>. HIDE DEF i
<1>8. \A m \in Nodes : Type[m] # "service" => z.job[m] = NoJob
  BY <1>1, <1>6 DEF Orderly
<1>9. \A m \in Nodes : x.job[m] # NoJob /\ x.job[m].state = "succeeded" =>
                         /\ z.job[m] # NoJob /\ z.job[m].state = "succeeded"
                         /\ z.job[m].outcome = x.job[m].outcome
                         /\ x.job[m].review = "accepted" => z.job[m].review = "accepted"
  BY <1>4, <1>6, <1>7
<1>10. \A m \in Nodes : /\ LiveJob(z.job[m]) => LiveJob(x.job[m])
                        /\ z.job[m] # NoJob => x.job[m] # NoJob
  BY <1>3, <1>6, <1>7
<1>11. PICK s : s = "waiting_review" /\ s \notin Ended /\ z.node = [x.node EXCEPT ![n] = s]
  BY <1>5 DEF Ended
<1>12. Orderly(z) /\ Unrevised(x, z)
  BY <1>1, <1>8, <1>9, <1>10, <1>11, TouchOrder
<1>. QED
  BY <1>12 DEF z

(* Every branch of a visit keeps the order.                                *)
LEMMA VisitOrder ==
  ASSUME NEW x, TablesInv(x), Orderly(x), NEW n \in Nodes, NEW cancel \in BOOLEAN, NEW refused
  PROVE  LET y == Visit(x, n, cancel, refused) IN Orderly(y) /\ Unrevised(x, y)
<1> DEFINE y == Visit(x, n, cancel, refused)
           Goal(z) == Orderly(z) /\ Unrevised(x, z)
<1>1. x.node[n] \in NodeStates
  BY DEF TablesInv, Tables
<1>2. Goal(x)
  BY DEF Unrevised
<1>3. ASSUME x.node[n] \in Waiting,
             NEW s, s \in {"waiting_review", "succeeded"} => Started(x, n) \/ Unmet(x, n) = {}
      PROVE  Goal(To(x, n, s))
  BY <1>3, StateOrder
<1>. SUFFICES Goal(y)
  OBVIOUS
<1>. HIDE DEF Goal
<1>4. CASE x.node[n] \in Ended
  BY <1>2, <1>4 DEF Visit, Ended, InFlight, Waiting
<1>5. CASE x.node[n] \in InFlight
  <2>1. y = Follow(x, n, cancel)
    BY <1>5 DEF Visit, Ended, InFlight, Waiting
  <2>. QED
    BY <1>5, <2>1, FollowOrder DEF Goal
<1>6. CASE x.node[n] \in Waiting /\ cancel
  <2>1. y = To(x, n, "cancelled")
    BY <1>6 DEF Visit, Ended, InFlight, Waiting
  <2>. QED
    BY <1>3, <1>6, <2>1
<1>7. CASE x.node[n] = "waiting_review" /\ ~ cancel
  <2>1. y \in {x, To(x, n, "succeeded"), To(x, n, "blocked")}
    BY <1>7 DEF Visit, Ended, InFlight, Waiting
  <2>2. Started(x, n) /\ x.node[n] \in Waiting
    BY <1>7 DEF Started, Waiting
  <2>. QED
    BY <1>2, <1>3, <2>1, <2>2
<1>8. CASE x.node[n] \in {"pending", "waiting_dependency"} /\ ~ cancel
  <2>0. x.node[n] \in Waiting
    BY <1>8 DEF Waiting
  <2>1. CASE Unmet(x, n) # {}
    <3>1. y \in {To(x, n, "blocked"), To(x, n, "waiting_dependency")}
      BY <1>8, <2>1 DEF Visit, Ended, InFlight, Waiting
    <3>. QED
      BY <1>3, <2>0, <3>1
  <2>2. CASE Unmet(x, n) = {}
    <3>1. y = Start(x, n, refused)
      BY <1>8, <2>2 DEF Visit, Ended, InFlight, Waiting
    <3>. HIDE DEF y
    <3>2. CASE Type[n] = "service"
      <4>1. Start(x, n, refused) = StartService(x, n, refused)
        BY <3>2 DEF Start
      <4>. QED
        BY <1>8, <2>2, <3>1, <3>2, <4>1, StartServiceOrder DEF Goal
    <3>3. CASE Type[n] = "review_gate"
      <4>1. Start(x, n, refused) \in {To(x, n, "blocked"), OpenGate(x, n)}
        BY <3>3 DEF Start
      <4>2. Goal(OpenGate(x, n))
        BY <2>0, <2>2, <3>3, OpenGateOrder DEF Goal
      <4>. QED
        BY <1>3, <2>0, <2>2, <3>1, <4>1, <4>2
    <3>4. CASE Type[n] \in {"dataset", "export"}
      <4>1. Start(x, n, refused) \in {To(x, n, "succeeded"), To(x, n, "blocked")}
        BY <3>4 DEF Start
      <4>. QED
        BY <1>3, <2>0, <2>2, <3>1, <4>1
    <3>. QED
      BY <3>2, <3>3, <3>4, WorkflowAssumption DEF NodeTypes
  <2>. QED
    BY <2>1, <2>2
<1>. QED
  BY <1>1, <1>4, <1>5, <1>6, <1>7, <1>8 DEF NodeStates, Waiting

(* The walk of a tick keeps the order and revises nothing.                   *)
LEMMA WalkOrder ==
  ASSUME NEW W, NEW k \in Nat, NEW order \in [1..k -> Nodes],
         NEW cancel \in BOOLEAN, NEW refused, TablesInv(W[0]), Orderly(W[0]),
         \A i \in 1..k : W[i] = Visit(W[i - 1], order[i], cancel, refused)
  PROVE  TablesInv(W[k]) /\ Orderly(W[k]) /\ Unrevised(W[0], W[k])
<1> DEFINE Good(y) == TablesInv(y) /\ Orderly(y) /\ Unrevised(W[0], y)
           Broken  == {i \in 0..k : ~ Good(W[i])}
<1>0. Good(W[0])
  BY DEF Unrevised
<1>1. ASSUME NEW x, Good(x), NEW n \in Nodes PROVE Good(Visit(x, n, cancel, refused))
  <2>1. TablesInv(Visit(x, n, cancel, refused))
    BY <1>1, VisitKeeps
  <2>2. Orderly(Visit(x, n, cancel, refused)) /\ Unrevised(x, Visit(x, n, cancel, refused))
    BY <1>1, VisitOrder
  <2>3. Unrevised(W[0], Visit(x, n, cancel, refused))
    <3> DEFINE y == Visit(x, n, cancel, refused)
    <3>1. Unrevised(W[0], x) /\ Unrevised(x, y)
      BY <1>1, <2>2
    <3>. HIDE DEF y
    <3>2. Unrevised(W[0], y)
      BY <3>1 DEF Unrevised
    <3>. QED
      BY <3>2 DEF y
  <2>. QED
    BY <2>1, <2>2, <2>3
<1>. HIDE DEF Good
<1>2. SUFFICES ASSUME Broken # {} PROVE FALSE
  <2>1. k \in 0..k
    OBVIOUS
  <2>2. Good(W[k])
    BY <1>2, <2>1
  <2>. QED
    BY <2>2 DEF Good
<1>3. PICK i \in Broken : \A j \in Broken : i <= j
  <2>1. Broken \in SUBSET Nat
    OBVIOUS
  <2>. HIDE DEF Broken
  <2>. QED
    BY <1>2, <2>1, LeastNat
<1>4. i \in 1..k /\ i - 1 \in 0..k /\ ~ (i <= i - 1)
  BY <1>0
<1>5. Good(W[i - 1])
  BY <1>3, <1>4
<1>6. W[i] = Visit(W[i - 1], order[i], cancel, refused) /\ order[i] \in Nodes
  BY <1>4
<1>7. Good(W[i])
  BY <1>1, <1>5, <1>6
<1>. QED
  BY <1>3, <1>7

-----------------------------------------------------------------------------
(* Runs: one that rests (it was cancelled, is blocked or failed in part)     *)
(* has ended nodes only, and is what they make of it.                      *)
RunsSettle ==
  \A r \in Runs :
    /\ run[r].state \in {"cancelled", "blocked", "partially_failed"} =>
         \A n \in NodesOf(r) : node[n] \in Ended
    /\ run[r].state \in {"blocked", "partially_failed"} =>
         run[r].state = Derived(r, node, run[r].cancel)

OrderInv == Inv /\ Orderly(Now) /\ RunsSettle

(* The nodes of a run are nodes.                                           *)
LEMMA NodesOfType == \A r \in Runs : NodesOf(r) \subseteq Nodes
BY WorkflowAssumption DEF NodesOf

(* What a step makes of the order of nodes and jobs.                        *)
LEMMA SameOrder ==
  ASSUME OrderInv, UNCHANGED <<node, job>>
  PROVE  Orderly(Now') /\ Unrevised(Now, Now')
<1>1. Unrevised(Now, Now')
  BY NowParts DEF Unrevised
<1>2. ASSUME NEW n \in Nodes, Started(Now', n) PROVE Unmet(Now', n) = {}
  <2>1. Started(Now, n)
    BY <1>2, NowParts DEF Started
  <2>. QED
    BY <1>1, <2>1, UnmetStays DEF OrderInv, Inv, Orderly
<1>3. \A n \in Nodes : /\ Type[n] # "service" => job'[n] = NoJob
                       /\ node'[n] \in Ended => ~ LiveJob(job'[n])
  BY NowParts DEF OrderInv, Orderly
<1>. QED
  BY <1>1, <1>2, <1>3, NowParts DEF Orderly

(* A step that changes one job, and neither revives nor revises it.        *)
LEMMA SetJobOrder ==
  ASSUME OrderInv, NEW n \in Nodes, job[n] # NoJob, NEW j, j # NoJob, SetJob(n, j),
         LiveJob(j) => LiveJob(job[n]),
         job[n].state = "succeeded" =>
           /\ j.state = "succeeded" /\ j.outcome = job[n].outcome
           /\ job[n].review = "accepted" => j.review = "accepted"
  PROVE  Orderly(Now') /\ Unrevised(Now, Now')
<1>0. node' = node /\ job'[n] = j /\ \A m \in Nodes \ {n} : job'[m] = job[m]
  BY NowParts DEF SetJob, OrderInv, Inv, TablesInv, Tables
<1>1. Unrevised(Now, Now')
  BY <1>0, NowParts DEF Unrevised
<1>2. ASSUME NEW m \in Nodes, Started(Now', m) PROVE Unmet(Now', m) = {}
  <2>1. Started(Now, m)
    BY <1>0, <1>2, NowParts DEF Started
  <2>. QED
    BY <1>1, <2>1, UnmetStays DEF OrderInv, Inv, Orderly
<1>3. \A m \in Nodes : /\ Type[m] # "service" => job'[m] = NoJob
                       /\ node'[m] \in Ended => ~ LiveJob(job'[m])
  BY <1>0, NowParts DEF OrderInv, Orderly
<1>. QED
  BY <1>1, <1>2, <1>3, NowParts DEF Orderly

(* Workers, requests to cancel, and reviews.                               *)
LEMMA JobMovesOrder ==
  ASSUME OrderInv, NEW n \in Nodes,
         JobMoves(n) \/ JobCancel(n) \/ RequestReview(n) \/ DecideReview(n)
  PROVE  Orderly(Now') /\ Unrevised(Now, Now')
<1> DEFINE j == job[n]
<1>1. j # NoJob /\ j \in Job
  BY NowParts DEF OrderInv, Inv, TablesInv, Tables, JobMoves, JobClaim, JobEnds, JobCancel, LiveJob,
     RequestReview, DecideReview
<1>2. ASSUME NEW i, i \in Job, SetJob(n, i), LiveJob(i) => LiveJob(j),
             j.state = "succeeded" =>
               /\ i.state = "succeeded" /\ i.outcome = j.outcome
               /\ j.review = "accepted" => i.review = "accepted"
      PROVE  Orderly(Now') /\ Unrevised(Now, Now')
  BY <1>1, <1>2, SetJobOrder, NoJobAssumption
<1>3. CASE JobClaim(n) \/ JobEnds(n)
  <2>1. j.state \in {"queued", "running"} /\ j.state # "succeeded" /\ LiveJob(j)
    BY <1>1, <1>3 DEF JobClaim, JobEnds, LiveJob, InFlight
  <2>2. \A o \in Outcomes : [j EXCEPT !.state = "succeeded", !.outcome = o] \in Job
    BY <1>1 DEF Job, JobStates
  <2>3. \A s \in JobStates : [j EXCEPT !.state = s] \in Job
    BY <1>1, JobTypes
  <2>4. j.retries > 0 => [j EXCEPT !.state = "queued", !.retries = @ - 1] \in Job
    <3>1. j.retries \in 0..MaxRetries /\ MaxRetries \in Nat
      BY <1>1, WorkflowAssumption DEF Job
    <3>2. j.retries > 0 => j.retries - 1 \in 0..MaxRetries
      BY <3>1
    <3>. QED
      BY <1>1, <3>2 DEF Job, JobStates
  <2>5. PICK i \in Job : SetJob(n, i)
    BY <1>3, <2>2, <2>3, <2>4 DEF JobClaim, JobEnds, JobStates
  <2>. QED
    BY <1>2, <2>1, <2>5
<1>4. CASE JobCancel(n)
  <2>1. LiveJob(j) /\ j.state # "succeeded" /\ CancelJob(j) \in Job /\ SetJob(n, CancelJob(j))
    BY <1>1, <1>4, JobTypes DEF JobCancel, LiveJob, InFlight
  <2>. QED
    BY <1>2, <2>1
<1>5. CASE RequestReview(n) \/ DecideReview(n)
  <2>1. PICK v \in {"requested", "accepted", "rejected"} :
          SetJob(n, [j EXCEPT !.review = v]) /\ j.review # "accepted"
    BY <1>1, <1>5 DEF RequestReview, DecideReview
  <2> DEFINE i == [j EXCEPT !.review = v]
  <2>2. i \in Job /\ i.state = j.state /\ i.outcome = j.outcome
    BY <1>1 DEF Job
  <2>3. LiveJob(i) => LiveJob(j)
    BY <1>1, <2>2 DEF LiveJob
  <2>. HIDE DEF i, j
  <2>4. SetJob(n, i)
    BY <2>1 DEF i
  <2>. QED
    BY <1>2, <2>1, <2>2, <2>3, <2>4
<1>. QED
  BY <1>3, <1>4, <1>5 DEF JobMoves

(* advance: the whole walk, by the lemma on walks.                         *)
LEMMA TickOrder ==
  ASSUME OrderInv, NEW r \in Runs, NEW cancel \in BOOLEAN, NEW refused, Tick(r, cancel, refused)
  PROVE  Orderly(Now') /\ Unrevised(Now, Now')
<1> DEFINE W == Walk(r, cancel, refused)
           k == Len(Order[r])
<1>1. /\ k \in Nat /\ Order[r] \in [1..k -> Nodes]
      /\ W[0] = Now /\ \A i \in 1..k : W[i] = Visit(W[i - 1], Order[r][i], cancel, refused)
      /\ tree' = W[k].tree /\ node' = W[k].node /\ job' = W[k].job
  BY TickIsWalk
<1>. HIDE DEF W, k
<1>2. TablesInv(W[k]) /\ Orderly(W[k]) /\ Unrevised(W[0], W[k])
  BY <1>1, WalkOrder DEF OrderInv, Inv
<1>3. W[k] = Now'
  BY <1>1, <1>2, NowParts DEF TablesInv, Tables
<1>. QED
  BY <1>1, <1>2, <1>3

(* Every action keeps the order; most do not touch nodes and jobs.         *)
LEMMA StepOrder ==
  ASSUME OrderInv, Next
  PROVE  Orderly(Now') /\ Unrevised(Now, Now')
<1>1. ASSUME NEW r \in Runs, Advance(r) \/ Cancel(r) PROVE Orderly(Now') /\ Unrevised(Now, Now')
  <2>1. run[r].cancel \in BOOLEAN
    BY DEF OrderInv, Inv
  <2>. QED
    BY <1>1, <2>1, TickOrder DEF Advance, Cancel
<1>2. ASSUME NEW r \in Runs, StartRun(r) PROVE UNCHANGED <<node, job>>
  BY <1>2 DEF StartRun
<1>3. ASSUME NEW a \in Awards, AwardReserves(a) \/ AwardCloses(a) PROVE UNCHANGED <<node, job>>
  BY <1>3 DEF AwardReserves, AwardCloses, SetTree
<1>4. ASSUME \/ SetWorkspaceCeiling
             \/ \E n \in Nodes : DeleteDataset(n)
             \/ \E p \in Principals : Revoke(p)
      PROVE  UNCHANGED <<node, job>>
  BY <1>4 DEF SetWorkspaceCeiling, SetTree, DeleteDataset, Revoke
<1>. QED
  BY <1>1, <1>2, <1>3, <1>4, SameOrder, JobMovesOrder DEF Next

(* A run is derived from its nodes: when these have ended for good, it is    *)
(* derived again to be what it is.                                         *)
LEMMA DerivedEnds ==
  ASSUME NEW r, NEW nodes, NEW cancel,
         Derived(r, nodes, cancel) \in {"cancelled", "blocked", "partially_failed"}
  PROVE  \A n \in NodesOf(r) : nodes[n] \in Ended
<1>1. {nodes[n] : n \in NodesOf(r)} \subseteq Ended
  BY DEF Derived
<1>. QED
  BY <1>1

(* Nodes that have ended derive the same run after every step.             *)
LEMMA DerivedStays ==
  ASSUME NEW r \in Runs, \A n \in NodesOf(r) : node[n] \in Ended, Unrevised(Now, Now'), NEW cancel
  PROVE  /\ \A n \in NodesOf(r) : node'[n] \in Ended
         /\ Derived(r, node', cancel) = Derived(r, node, cancel)
<1>1. \A n \in NodesOf(r) : node'[n] = node[n]
  BY NowParts, NodesOfType DEF Unrevised
<1>2. {node'[n] : n \in NodesOf(r)} = {node[n] : n \in NodesOf(r)}
  BY <1>1
<1>3. (\A o \in Outputs[r] : node'[o] = "succeeded") <=> (\A o \in Outputs[r] : node[o] = "succeeded")
  BY <1>1, OutputsAssumption
<1>. QED
  BY <1>1, <1>2, <1>3 DEF Derived

(* The walk's own table of nodes differs from the rows only at nodes it has  *)
(* started, so it tells the same of a run without live nodes.              *)
LEMMA InMemoryEnds ==
  ASSUME NEW r \in Runs, NEW nodes, NEW cancel,
         \/ \A n \in NodesOf(r) : nodes[n] \in Ended
         \/ Derived(r, InMemory(nodes), cancel) \in {"cancelled", "blocked", "partially_failed"}
  PROVE  /\ \A n \in NodesOf(r) : nodes[n] \in Ended
         /\ Derived(r, InMemory(nodes), cancel) = Derived(r, nodes, cancel)
<1> DEFINE memory == InMemory(nodes)
<1>1. \A n \in NodesOf(r) : memory[n] = IF node[n] \in NotStarted /\ nodes[n] = "queued" THEN node[n] ELSE nodes[n]
  BY NodesOfType DEF InMemory
<1>2. "queued" \notin Ended /\ NotStarted \cap Ended = {}
  BY DEF Ended, NotStarted
<1>. HIDE DEF memory
<1>3. \A n \in NodesOf(r) : nodes[n] \in Ended
  <2>1. CASE Derived(r, memory, cancel) \in {"cancelled", "blocked", "partially_failed"}
    <3>1. \A n \in NodesOf(r) : memory[n] \in Ended
      BY <2>1, DerivedEnds
    <3>. QED
      BY <1>1, <1>2, <3>1
  <2>. QED
    BY <2>1 DEF memory
<1>4. \A n \in NodesOf(r) : memory[n] = nodes[n]
  BY <1>1, <1>2, <1>3
<1>5. {memory[n] : n \in NodesOf(r)} = {nodes[n] : n \in NodesOf(r)}
  BY <1>4
<1>6. (\A o \in Outputs[r] : memory[o] = "succeeded") <=> (\A o \in Outputs[r] : nodes[o] = "succeeded")
  BY <1>4, OutputsAssumption
<1>7. Derived(r, memory, cancel) = Derived(r, nodes, cancel)
  BY <1>5, <1>6 DEF Derived
<1>. QED
  BY <1>3, <1>7 DEF memory

(* What a step makes of one run.                                            *)
LEMMA RunEffect ==
  ASSUME Inv, Next, NEW r \in Runs
  PROVE  \/ run'[r] = run[r]
         \/ run[r].state = "none" /\ run'[r].state = "running"
         \/ /\ run[r].state \notin Final
            /\ \E cancel \in BOOLEAN :
                 /\ run[r].cancel => cancel
                 /\ run'[r] = [state |-> Derived(r, InMemory(node'), cancel), cancel |-> cancel]
<1>0. run \in [Runs -> [state : RunStates, cancel : BOOLEAN]]
  BY DEF Inv
<1>1. ASSUME NEW q \in Runs, NEW cancel \in BOOLEAN, NEW refused, Tick(q, cancel, refused)
      PROVE  /\ run'[q] = [state |-> Derived(q, InMemory(node'), cancel), cancel |-> cancel]
             /\ \A p \in Runs \ {q} : run'[p] = run[p]
  BY <1>0, <1>1 DEF Tick
<1>2. CASE \E q \in Runs : Advance(q) \/ Cancel(q)
  <2>1. PICK q \in Runs : Advance(q) \/ Cancel(q)
    BY <1>2
  <2>2. PICK cancel \in BOOLEAN : /\ run[q].cancel => cancel
                                  /\ \E refused : Tick(q, cancel, refused)
                                  /\ run[q].state \notin Final
    BY <1>0, <2>1 DEF Advance, Cancel, Walkable
  <2>. QED
    BY <1>1, <2>2
<1>3. CASE \E q \in Runs : StartRun(q)
  BY <1>0, <1>3 DEF StartRun
<1>4. CASE UNCHANGED run
  BY <1>4
<1>5. ASSUME NEW n \in Nodes, \/ JobMoves(n) \/ JobCancel(n)
                              \/ RequestReview(n) \/ DecideReview(n) \/ DeleteDataset(n)
      PROVE  UNCHANGED run
  BY <1>5 DEF JobMoves, JobClaim, JobEnds, JobCancel, RequestReview, DecideReview, SetJob, DeleteDataset
<1>6. ASSUME NEW a \in Awards, AwardReserves(a) \/ AwardCloses(a) PROVE UNCHANGED run
  BY <1>6 DEF AwardReserves, AwardCloses, SetTree
<1>7. ASSUME SetWorkspaceCeiling \/ \E p \in Principals : Revoke(p) PROVE UNCHANGED run
  BY <1>7 DEF SetWorkspaceCeiling, SetTree, Revoke
<1>. QED
  BY <1>2, <1>3, <1>4, <1>5, <1>6, <1>7 DEF Next

(* Every action leaves a run that rests as its nodes derive it.            *)
LEMMA RunsStep ==
  ASSUME OrderInv, Next
  PROVE  RunsSettle'
<1>1. Unrevised(Now, Now') /\ Inv
  BY StepOrder DEF OrderInv
<1>2. SUFFICES ASSUME NEW r \in Runs
      PROVE  /\ run'[r].state \in {"cancelled", "blocked", "partially_failed"} =>
                  \A n \in NodesOf(r) : node'[n] \in Ended
             /\ run'[r].state \in {"blocked", "partially_failed"} =>
                  run'[r].state = Derived(r, node', run'[r].cancel)
  <2>1. \A q : NodesOf(q)' = NodesOf(q)
    BY DEF NodesOf
  <2>2. \A q, nodes, c : Derived(q, nodes, c)' = Derived(q, nodes', c')
    OBVIOUS
  <2>. QED
    BY <1>2 DEF RunsSettle
<1>3. CASE run'[r] = run[r]
  BY <1>1, <1>3, DerivedStays DEF OrderInv, RunsSettle
<1>4. CASE run'[r].state = "running"
  BY <1>4
<1>5. CASE \E cancel \in BOOLEAN :
             run'[r] = [state |-> Derived(r, InMemory(node'), cancel), cancel |-> cancel]
  BY <1>5, InMemoryEnds
<1>. QED
  BY <1>1, <1>3, <1>4, <1>5, RunEffect

(* The invariant of the order is inductive.                                 *)
THEOREM OrderInvariance == Spec => []OrderInv
<1>1. Init => OrderInv
  <2>. SUFFICES ASSUME Init PROVE OrderInv
    OBVIOUS
  <2>1. Orderly(Now)
    BY NowParts DEF Init, Orderly, Started, LiveJob, Ended
  <2>2. RunsSettle
    BY DEF Init, RunsSettle
  <2>. QED
    BY <2>1, <2>2, InitInv DEF OrderInv
<1>2. OrderInv /\ [Next]_vars => OrderInv'
  <2>. SUFFICES ASSUME OrderInv, [Next]_vars PROVE OrderInv'
    OBVIOUS
  <2>1. Inv'
    BY NextKeeps DEF OrderInv
  <2>2. CASE Next
    BY <2>1, <2>2, StepOrder, RunsStep, NowParts DEF OrderInv
  <2>3. CASE UNCHANGED vars
    <3>1. Now' = Now /\ run' = run /\ node' = node
      BY <2>3 DEF vars, Now
    <3>2. Orderly(Now)' /\ RunsSettle'
      BY <2>3, <3>1, SameOrder DEF vars, OrderInv, RunsSettle
    <3>. QED
      BY <2>1, <3>2 DEF OrderInv
  <2>. QED
    BY <2>2, <2>3
<1>. QED
  BY <1>1, <1>2, PTL DEF Spec

(* Whatever a tick started, or has succeeded, has its dependencies met, for *)
(* every definition: none of them is revised afterwards.                   *)
THEOREM DependenciesHold == Spec => []StartedAfterDependencies
<1>1. OrderInv => StartedAfterDependencies
  <2>. SUFFICES ASSUME OrderInv, NEW n \in Nodes,
                       job[n] # NoJob \/ node[n] \in {"waiting_review", "succeeded"},
                       NEW i \in DOMAIN Needs[n]
                PROVE  LET d == Needs[n][i] IN
                       /\ node[d.node] = "succeeded"
                       /\ d.require = "accepted_review" => job[d.node].review = "accepted"
                       /\ d.require = "outcome_in" => job[d.node].outcome \in d.outcomes
    BY DEF StartedAfterDependencies
  <2>1. Meets(Now, Needs[n][i])
    BY NowParts DEF OrderInv, Orderly, Started, Unmet
  <2>. QED
    BY <2>1, NowParts DEF Meets
<1>. QED
  BY <1>1, OrderInvariance, PTL

(* A cancelled run has ended nodes only, and these have no live job.         *)
THEOREM CancelledIsIdle == Spec => []CancelledRunIsIdle
<1>1. OrderInv => CancelledRunIsIdle
  BY NodesOfType, NowParts DEF OrderInv, Orderly, RunsSettle, CancelledRunIsIdle
<1>. QED
  BY <1>1, OrderInvariance, PTL

(* No tick revises the end of a node, and a run leaves its end only to be    *)
(* cancelled.                                                              *)
THEOREM EndsHold == Spec => EndsAreKept
<1> DEFINE Kept ==
      /\ \A n \in Nodes : node[n] \in Ended => node'[n] = node[n]
      /\ \A r \in Runs : run[r].state \in Final => run'[r] = run[r]
      /\ \A r \in Runs : run[r].state \in {"blocked", "partially_failed"} /\ run'[r] # run[r]
                           => run'[r].cancel
<1>1. OrderInv /\ [Next]_vars => [Kept]_vars
  <2>. SUFFICES ASSUME OrderInv, Next PROVE Kept
    OBVIOUS
  <2>0. Inv /\ Unrevised(Now, Now') /\ run \in [Runs -> [state : RunStates, cancel : BOOLEAN]]
    BY StepOrder DEF OrderInv, Inv
  <2>1. \A n \in Nodes : node[n] \in Ended => node'[n] = node[n]
    BY <2>0, NowParts DEF Unrevised
  <2>2. \A r \in Runs : run[r].state \in Final => run'[r] = run[r]
    BY <2>0, RunEffect DEF Final
  <2>3. ASSUME NEW r \in Runs, run[r].state \in {"blocked", "partially_failed"}, run'[r] # run[r]
        PROVE  run'[r].cancel
    <3>1. PICK cancel \in BOOLEAN :
            /\ run[r].cancel => cancel
            /\ run'[r] = [state |-> Derived(r, InMemory(node'), cancel), cancel |-> cancel]
      BY <2>0, <2>3, RunEffect
    <3>2. CASE cancel
      BY <3>1, <3>2
    <3>3. CASE ~ cancel
      <4>1. run[r].cancel = cancel /\ run[r].state = Derived(r, InMemory(node'), cancel)
        <5>1. run[r].cancel = cancel /\ run[r].state = Derived(r, node, cancel) /\ \A n \in NodesOf(r) : node[n] \in Ended
          BY <2>0, <2>3, <3>1, <3>3 DEF OrderInv, RunsSettle
        <5>2. Derived(r, node', cancel) = Derived(r, node, cancel) /\ \A n \in NodesOf(r) : node'[n] \in Ended
          BY <2>0, <5>1, DerivedStays
        <5>3. Derived(r, InMemory(node'), cancel) = Derived(r, node', cancel)
          BY <5>2, InMemoryEnds
        <5>. QED
          BY <5>1, <5>2, <5>3
      <4>2. run[r] = [state |-> run[r].state, cancel |-> run[r].cancel]
        BY <2>0
      <4>. QED
        BY <2>3, <3>1, <4>1, <4>2
    <3>. QED
      BY <3>2, <3>3
  <2>. QED
    BY <2>1, <2>2, <2>3
<1>. QED
  BY <1>1, OrderInvariance, PTL DEF Spec, EndsAreKept
=============================================================================
