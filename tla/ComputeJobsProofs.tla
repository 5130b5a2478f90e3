-------------------------- MODULE ComputeJobsProofs --------------------------
(***************************************************************************)
(* What holds of checkpointed jobs for every number of jobs, workers, nodes,*)
(* units, claims and slots.  An attempt is trusted only while it holds the *)
(* lease: what it then carries is related to the newest checkpoint, and     *)
(* nobody else can write checkpoints or the output of its job.              *)
(***************************************************************************)
EXTENDS ComputeJobs, FiniteSetTheorems, WellFoundedInduction, TLAPS

Child == {"computing", "checkpointing"}
Attempting == {"claimed"} \cup Child
Busy == Attempting \cup {"finishing"}

JobRow == [state : {"queued", "running"} \cup Ended, owner : Agents \cup {Free},
           generation : Nat, retries : 0..MaxRetries,
           cancel : BOOLEAN, hold : BOOLEAN, evidence : Nat]
RunRow == [control : Controls, preempted_for : Jobs \cup {Free}, output : Nat]
Trying == [at : Attempting, job : Jobs, generation : Nat, ckpt : Nat, done : Nat, told : Controls]
Ending == [at : {"finishing"}, job : Jobs, generation : Nat, result : Errors \cup {"ok", "paused"}]
Leaving == [at : {"releasing"}, job : Jobs]
Stored == [generation : Nat \ {0}, committed : Nat, attempt : Nat]
Worked == [from : Nat, to : Nat, attempt : Nat]

(* The types, with what of them is not in the rows of one table.            *)
TypeInv ==
  /\ job \in [Jobs -> JobRow] /\ run \in [Jobs -> RunRow]
  /\ checkpoints \in [Jobs -> SUBSET Stored] /\ units \in [Jobs -> SUBSET Worked]
  /\ reserved \in [Jobs -> {Free} \cup Workers]
  /\ doing \in [Agents -> Doings]
  /\ lost \subseteq Jobs
  /\ \A j \in Jobs : job[j].owner # Free <=> job[j].state = "running"
  /\ \A j \in Jobs : job[j].hold => job[j].state \in {"queued", "cancelled"}
  /\ \A j \in Jobs : job[j].generation <= MaxClaims[j]

Within(j) ==
  /\ \A c \in checkpoints[j] : c.committed < Units[j] /\ c.attempt \in 1..job[j].generation
  /\ \A u \in units[j] : u.from < Units[j] /\ u.to \in 1..Units[j] /\ u.attempt \in 1..job[j].generation

(* The checkpoints are numbered from 1 and there is a last one.             *)
Counted(j) ==
  /\ checkpoints[j] # {} => \E c \in checkpoints[j] : c.generation = 1
  /\ \E b \in Nat : \A c \in checkpoints[j] : c.generation <= b

Tables == /\ \A j \in Jobs : Within(j) /\ Counted(j)
          /\ CheckpointsAdvance /\ PublishedByLastClaim

(* What an agent in state d carries.  While it holds the lease, either all  *)
(* checkpoints are behind it, or the number it will ask for is taken.       *)
Holds(w, d) ==
  LET r == job[d.job] IN r.state = "running" /\ r.owner = w /\ r.generation = d.generation
Behind(d) == \A c \in checkpoints[d.job] : c.generation <= d.ckpt /\ c.committed <= d.done
NumberTaken(d) == \E c \in checkpoints[d.job] : c.generation = d.ckpt + 1

Carries(w, d) ==
  /\ d.at \in Busy => d.generation \in 1..job[d.job].generation
  /\ d.at \in Attempting => d.done < Units[d.job]
  /\ d.at \in Child => d.ckpt = 0 \/ checkpoints[d.job] # {}
  /\ d.at \in Child /\ Holds(w, d) => Behind(d) \/ NumberTaken(d)
  /\ d.at = "finishing" /\ d.result = "ok" /\ Holds(w, d) => run[d.job].output = d.generation

Inv == TypeInv /\ Tables /\ \A w \in Agents : Carries(w, doing[w])

-----------------------------------------------------------------------------
(* A nonempty bounded set of naturals has a greatest element.               *)
LEMMA GreatestNat ==
  ASSUME NEW T \in SUBSET Nat, T # {}, NEW b \in Nat, \A x \in T : x <= b
  PROVE  \E x \in T : \A y \in T : y <= x
<1> DEFINE R == {p \in Nat \X Nat : p[1] < p[2]}
           D == {n \in Nat : b - n \in T}
<1>1. IsWellFoundedOn(OpToRel(<, Nat), Nat)
  BY NatLessThanWellFounded
<1>2. OpToRel(<, Nat) = R
  BY DEF OpToRel
<1>3. IsWellFoundedOn(R, Nat)
  BY <1>1, <1>2
<1>4. D \subseteq Nat /\ D # {}
  <2>1. PICK x \in T : TRUE
    OBVIOUS
  <2>2. b - x \in Nat /\ b - (b - x) = x
    BY <2>1
  <2>. QED
    BY <2>1, <2>2
<1>5. \E n \in D : \A m \in D : ~ (<<m, n>> \in R)
  <2>. HIDE DEF R, D
  <2>. QED
    BY <1>3, <1>4, WFMin
<1>less. \A m, n \in Nat : <<m, n>> \notin R => n <= m
  OBVIOUS
<1>6. PICK n \in D : \A m \in D : n <= m
  <2>. HIDE DEF R, D
  <2>. QED
    BY <1>4, <1>5, <1>less
<1>7. \A y \in T : b - y \in D
  <2>1. \A y \in T : b - y \in Nat /\ b - (b - y) = y
    OBVIOUS
  <2>. QED
    BY <2>1
<1>8. \A y \in T : y <= b - n
  <2>. TAKE y \in T
  <2>1. n <= b - y
    <3>. HIDE DEF D
    <3>. QED
      BY <1>6, <1>7
  <2>. QED
    BY <2>1, <1>6
<1>. QED
  BY <1>6, <1>8

LEMMA DoingShape ==
  ASSUME NEW d \in Doings
  PROVE  /\ d.at \in Attempting => d \in Trying
         /\ d.at = "finishing" => d \in Ending
         /\ d.at = "releasing" => d \in Leaving
         /\ d.at \notin Attempting \cup {"finishing", "releasing"} => d = Idle
<1>1. d \in {Idle} \cup Trying \cup Ending \cup Leaving
  BY DEF Doings, Trying, Attempting, Child, Ending, Leaving
<1>2. CASE d = Idle
  BY <1>2 DEF Idle, Attempting, Child
<1>3. CASE d \in Trying
  BY <1>3 DEF Trying, Attempting, Child
<1>4. CASE d \in Ending
  BY <1>4 DEF Ending, Attempting, Child
<1>5. CASE d \in Leaving
  BY <1>5 DEF Leaving, Attempting, Child
<1>. QED
  BY <1>1, <1>2, <1>3, <1>4, <1>5

(* Latest is the newest checkpoint, and what a job committed the most work. *)
LEMMA LatestIsNewest ==
  ASSUME NEW j \in Jobs, checkpoints[j] \subseteq Stored, Counted(j)
  PROVE  checkpoints[j] # {} =>
           /\ Latest(j) \in checkpoints[j]
           /\ \A c \in checkpoints[j] : c.generation <= Latest(j).generation
<1>. SUFFICES ASSUME checkpoints[j] # {}
              PROVE  /\ Latest(j) \in checkpoints[j]
                     /\ \A c \in checkpoints[j] : c.generation <= Latest(j).generation
  OBVIOUS
<1> DEFINE T == {c.generation : c \in checkpoints[j]}
<1>1. PICK b \in Nat : \A c \in checkpoints[j] : c.generation <= b
  BY DEF Counted
<1>2. T \subseteq Nat /\ T # {} /\ \A x \in T : x <= b
  BY <1>1 DEF Stored
<1>3. \E x \in T : \A y \in T : y <= x
  <2>. HIDE DEF T
  <2>. QED
    BY <1>2, GreatestNat
<1>4. \E c \in checkpoints[j] : \A d \in checkpoints[j] : d.generation <= c.generation
  BY <1>3
<1>. QED
  BY <1>4 DEF Latest

LEMMA CommittedIsMost ==
  ASSUME NEW j \in Jobs, checkpoints[j] \subseteq Stored, Within(j), Units[j] \in Nat \ {0}
  PROVE  /\ Committed(j) \in 0..Units[j] - 1
         /\ \A c \in checkpoints[j] : c.committed <= Committed(j)
         /\ Committed(j) = 0 \/ \E c \in checkpoints[j] : c.committed = Committed(j)
<1> DEFINE T == {0} \cup {c.committed : c \in checkpoints[j]}
<1>1. T \subseteq Nat /\ T # {} /\ Units[j] - 1 \in Nat /\ \A x \in T : x <= Units[j] - 1
  BY DEF Stored, Within
<1>2. \E x \in T : \A y \in T : y <= x
  <2>. HIDE DEF T
  <2>. QED
    BY <1>1, GreatestNat
<1>3. \E x \in T : \A y \in T : x >= y
  BY <1>1, <1>2
<1>4. Committed(j) \in T /\ \A y \in T : y <= Committed(j)
  <2>1. Committed(j) = CHOOSE x \in T : \A y \in T : x >= y
    BY DEF Committed, Max
  <2>2. Committed(j) \in T /\ \A y \in T : Committed(j) >= y
    <3>. HIDE DEF T
    <3>. QED
      BY <1>3, <2>1
  <2>. QED
    BY <1>1, <2>2
<1>5. Committed(j) \in 0..Units[j] - 1
  <2>1. Committed(j) \in Nat /\ Committed(j) <= Units[j] - 1
    <3>. HIDE DEF T
    <3>. QED
      BY <1>1, <1>4
  <2>. QED
    BY <2>1
<1>6. Committed(j) = 0 \/ \E c \in checkpoints[j] : c.committed = Committed(j)
  BY <1>4
<1>7. \A c \in checkpoints[j] : c.committed <= Committed(j)
  BY <1>4
<1>. QED
  BY <1>5, <1>6, <1>7

-----------------------------------------------------------------------------
LEMMA InitInv == Init => Inv
<1>. SUFFICES ASSUME Init PROVE Inv
  OBVIOUS
<1>. USE DEF Init
<1>1. Free \notin Agents /\ MaxRetries \in 0..MaxRetries /\ \A j \in Jobs : MaxClaims[j] \in Nat
  BY ComputeAssumption
<1>2. TypeInv
  <2>1. job \in [Jobs -> JobRow] /\ run \in [Jobs -> RunRow]
    BY <1>1 DEF JobRow, RunRow, Controls
  <2>2. doing \in [Agents -> Doings]
    BY DEF Doings
  <2>3. checkpoints \in [Jobs -> SUBSET Stored] /\ units \in [Jobs -> SUBSET Worked]
        /\ reserved \in [Jobs -> {Free} \cup Workers] /\ lost \subseteq Jobs
    OBVIOUS
  <2>4. \A j \in Jobs : /\ job[j].owner = Free /\ job[j].state = "queued"
                        /\ ~job[j].hold /\ job[j].generation = 0
    OBVIOUS
  <2>. HIDE DEF Init
  <2>. QED
    BY <1>1, <2>1, <2>2, <2>3, <2>4 DEF TypeInv
<1>3. Tables
  BY DEF Tables, Within, Counted, CheckpointsAdvance, PublishedByLastClaim
<1>4. \A w \in Agents : Carries(w, doing[w])
  BY DEF Carries, Idle, Busy, Attempting, Child
<1>. QED
  BY <1>2, <1>3, <1>4 DEF Inv

(* An agent that does nothing carries on: the tables of its job move under  *)
(* it only once it lost the lease.                                          *)
LEMMA CarriesOn ==
  ASSUME TypeInv, NEW v \in Agents, NEW d \in Doings, Carries(v, d),
         \A j \in Jobs : /\ job[j].generation <= job'[j].generation
                         /\ job'[j].generation \in Nat
                         /\ checkpoints[j] \subseteq checkpoints'[j],
         d.at \in Busy /\ Holds(v, d)' => /\ Holds(v, d)
                                          /\ checkpoints'[d.job] = checkpoints[d.job]
                                          /\ run'[d.job].output = run[d.job].output
  PROVE  Carries(v, d)'
<1>1. d.at \in Busy => d.job \in Jobs /\ d.generation \in Nat
  BY DoingShape DEF Busy, Trying, Ending
<1>2. \A j \in Jobs : job[j].generation \in Nat
  BY DEF TypeInv, JobRow
<1>3. d.at \in Busy => d.generation \in 1..job'[d.job].generation
  BY <1>1, <1>2 DEF Carries
<1>4. d.at \in Child => d.ckpt = 0 \/ checkpoints'[d.job] # {}
  BY <1>1 DEF Carries, Busy, Attempting
<1>5. d.at \in Child /\ Holds(v, d)' => Behind(d)' \/ NumberTaken(d)'
  BY DEF Carries, Busy, Attempting, Behind, NumberTaken
<1>6. d.at = "finishing" /\ d.result = "ok" /\ Holds(v, d)' => run'[d.job].output = d.generation
  BY DEF Carries, Busy
<1>7. d.at \in Attempting => d.done < Units[d.job]
  BY DEF Carries
<1>. QED
  BY <1>3, <1>4, <1>5, <1>6, <1>7 DEF Carries

(* A step leaves agent v alone, and the tables of v's job, while it holds   *)
(* the lease.                                                              *)
LeavesAlone(v) ==
  /\ doing'[v] = doing[v]
  /\ doing[v].at \in Busy /\ Holds(v, doing[v])' =>
       /\ Holds(v, doing[v])
       /\ checkpoints'[doing[v].job] = checkpoints[doing[v].job]
       /\ run'[doing[v].job].output = run[doing[v].job].output
Grows ==
  \A j \in Jobs : /\ job[j].generation <= job'[j].generation
                  /\ checkpoints[j] \subseteq checkpoints'[j]

LEMMA LeftAlone ==
  ASSUME Inv, TypeInv', Grows, NEW v \in Agents, LeavesAlone(v)
  PROVE  Carries(v, doing[v])'
<1>1. PICK e \in Doings : e = doing[v]
  BY DEF Inv, TypeInv
<1>2. doing'[v] = e
  BY <1>1 DEF LeavesAlone
<1>3. Carries(v, e)
  BY <1>1 DEF Inv
<1>4. e.at \in Busy /\ Holds(v, e)' => /\ Holds(v, e)
                                       /\ checkpoints'[e.job] = checkpoints[e.job]
                                       /\ run'[e.job].output = run[e.job].output
  BY <1>1, <1>2 DEF Holds, LeavesAlone
<1>5. \A j \in Jobs : job'[j].generation \in Nat
  BY DEF TypeInv, JobRow
<1>6. Carries(v, e)'
  BY <1>3, <1>4, <1>5, CarriesOn DEF Inv, Grows
<1>. QED
  BY <1>2, <1>6 DEF Carries, Holds, Behind, NumberTaken

(* A step that gives one agent w the state d.                               *)
LEMMA StepKeeps ==
  ASSUME Inv, TypeInv', Tables', Grows, NEW w \in Agents, NEW d \in Doings,
         doing' = [doing EXCEPT ![w] = d], Carries(w, d)',
         \A v \in Agents \ {w} : LeavesAlone(v)
  PROVE  Inv'
<1>1. \A v \in Agents \ {w} : Carries(v, doing[v])'
  BY LeftAlone
<1>2. doing'[w] = d
  BY DEF Inv, TypeInv
<1>3. Carries(w, doing[w])'
  BY <1>2 DEF Carries, Holds, Behind, NumberTaken
<1>. QED
  BY <1>1, <1>3 DEF Inv

-----------------------------------------------------------------------------
(* The steps that change what one agent is doing and at most the slots.     *)
LEMMA SweepKeeps ==
  ASSUME Inv, NEW w \in Agents, NEW d \in Doings, Carries(w, d),
         doing' = [doing EXCEPT ![w] = d],
         reserved' \in [Jobs -> {Free} \cup Workers], lost' \subseteq Jobs,
         UNCHANGED <<job, run, checkpoints, units>>
  PROVE  Inv'
<1>1. TypeInv'
  BY DEF Inv, TypeInv
<1>2. Tables'
  BY DEF Inv, Tables, Within, Counted, CheckpointsAdvance, PublishedByLastClaim
<1>3. Carries(w, d)'
  BY DEF Carries, Holds, Behind, NumberTaken
<1>4. Grows
  BY DEF Inv, TypeInv, JobRow, Grows
<1>5. \A v \in Agents \ {w} : LeavesAlone(v)
  BY DEF Inv, TypeInv, LeavesAlone, Holds
<1>. QED
  BY <1>1, <1>2, <1>3, <1>4, <1>5, StepKeeps

LEMMA MoveKeeps ==
  ASSUME Inv, NEW w \in Agents, NEW d \in Doings, Carries(w, d),
         doing' = [doing EXCEPT ![w] = d],
         UNCHANGED <<job, run, checkpoints, units, reserved, lost>>
  PROVE  Inv'
  BY SweepKeeps DEF Inv, TypeInv

(* What an agent that does something is doing.                              *)
LEMMA Doing ==
  ASSUME TypeInv, NEW w \in Agents
  PROVE  /\ doing[w] \in Doings
         /\ doing[w].at \in Attempting => doing[w] \in Trying
         /\ doing[w].at = "finishing" => doing[w] \in Ending
         /\ doing[w].at = "releasing" => doing[w] \in Leaving
<1>1. doing[w] \in Doings
  BY DEF TypeInv
<1>2. PICK d \in Doings : d = doing[w]
  BY <1>1
<1>. QED
  BY <1>2, DoingShape

LEMMA EndsCarries ==
  ASSUME Inv, NEW w \in Agents, doing[w].at \in Attempting,
         NEW result \in Errors \cup {"paused"}
  PROVE  Ends(w, result) \in Doings /\ Carries(w, Ends(w, result))
<1>1. doing[w] \in Trying
  BY Doing DEF Inv
<1>2. Ends(w, result) \in Ending
  BY <1>1 DEF Ends, Of, Ending, Trying
<1>3. doing[w].generation \in 1..job[doing[w].job].generation
  BY DEF Inv, Carries, Busy
<1>4. Carries(w, Ends(w, result))
  BY <1>3 DEF Ends, Of, Carries, Attempting, Child, Errors
<1>. QED
  BY <1>2, <1>4 DEF Ending, Doings

LEMMA LeaveCarries ==
  ASSUME NEW w \in Agents, Of(w) \in Jobs
  PROVE  Leave(w) \in Doings /\ Carries(w, Leave(w))
<1>1. Leave(w) \in Doings
  BY DEF Leave, Doings
<1>2. Leave(w).at \notin Busy /\ Leave(w).at # "finishing"
  BY DEF Leave, Idle, Busy, Attempting, Child
<1>. QED
  BY <1>1, <1>2 DEF Carries, Busy, Attempting

LEMMA IdleCarries == \A w \in Agents : Idle \in Doings /\ Carries(w, Idle)
  BY DEF Idle, Doings, Carries, Busy, Attempting, Child

LEMMA StartKeeps ==
  ASSUME Inv, NEW w \in Agents, Start(w)
  PROVE  Inv'
<1> DEFINE j == Of(w)
           With(c) == [doing[w] EXCEPT !.at = "computing", !.ckpt = c.generation, !.done = c.committed]
<1>1. doing[w] \in Trying /\ j \in Jobs /\ doing[w].at = "claimed"
  BY Doing DEF Inv, Start, Attempting, Trying, Of
<1>2. Units[j] \in Nat \ {0} /\ checkpoints[j] \subseteq Stored /\ Within(j) /\ Counted(j)
  BY <1>1, ComputeAssumption DEF Inv, TypeInv, Tables
<1>3. doing[w].generation \in 1..job[j].generation
  BY <1>1 DEF Inv, Carries, Busy, Attempting, Of
<1>4. ASSUME NEW c \in Stored \cup {NoCheckpoint},
             c.committed < Units[j], c.generation = 0 \/ checkpoints[j] # {},
             Holds(w, With(c)) => Behind(With(c)) \/ NumberTaken(With(c)),
             Starts(w, c)
      PROVE  Inv'
  <2>1. With(c) \in Trying
    <3>1. c.generation \in Nat /\ c.committed \in Nat
      BY <1>4 DEF Stored, NoCheckpoint
    <3>. QED
      BY <1>1, <3>1 DEF Trying, Attempting, Child
  <2>2. With(c) \in Doings
    BY <2>1 DEF Doings, Trying, Attempting, Child
  <2>3. /\ With(c).at = "computing" /\ With(c).job = j /\ With(c).generation = doing[w].generation
        /\ With(c).ckpt = c.generation /\ With(c).done = c.committed
    BY <1>1 DEF Trying, Of
  <2>4. Carries(w, With(c))
    <3>1. With(c).at # "finishing"
      BY <2>3
    <3>. HIDE DEF With, j
    <3>. QED
      BY <1>3, <1>4, <2>3, <3>1 DEF Carries
  <2>5. doing' = [doing EXCEPT ![w] = With(c)]
    BY <1>4 DEF Starts, Inv, TypeInv
  <2>6. UNCHANGED <<job, run, checkpoints, units, reserved, lost>>
    BY <1>4 DEF Starts
  <2>. HIDE DEF With
  <2>. QED
    BY <2>2, <2>4, <2>5, <2>6, MoveKeeps
<1>afresh. ASSUME Starts(w, NoCheckpoint), Behind(With(NoCheckpoint)) \/ NumberTaken(With(NoCheckpoint))
           PROVE  Inv'
  <2>1. NoCheckpoint.generation = 0 /\ NoCheckpoint.committed = 0 /\ 0 < Units[j]
    BY <1>2 DEF NoCheckpoint
  <2>. HIDE DEF With, j
  <2>. QED
    BY <1>4, <1>afresh, <2>1
<1>5. CASE Starts(w, Latest(j))
  <2>1. CASE checkpoints[j] = {}
    <3>1. Latest(j) = NoCheckpoint
      BY <2>1 DEF Latest
    <3>2. Behind(With(NoCheckpoint))
      BY <1>1, <2>1 DEF Behind, Trying, Of
    <3>. QED
      BY <1>5, <1>afresh, <3>1, <3>2
  <2>2. CASE checkpoints[j] # {}
    <3> DEFINE c == Latest(j)
    <3>1. c \in checkpoints[j] /\ \A d \in checkpoints[j] : d.generation <= c.generation
      BY <1>1, <1>2, <2>2, LatestIsNewest
    <3>2. \A d \in checkpoints[j] : d.committed <= c.committed
      BY <1>1, <1>2, <3>1 DEF Inv, Tables, CheckpointsAdvance, Stored
    <3>3. Behind(With(c))
      BY <1>1, <3>1, <3>2 DEF Behind, Trying, Of
    <3>4. c \in Stored /\ c.committed < Units[j]
      BY <1>2, <3>1 DEF Within
    <3>. QED
      BY <1>4, <1>5, <2>2, <3>3, <3>4
  <2>. QED
    BY <2>1, <2>2
<1>6. CASE Starts(w, NoCheckpoint)
  <2>1. CASE checkpoints[j] = {}
    <3>1. Behind(With(NoCheckpoint))
      BY <1>1, <2>1 DEF Behind, Trying, Of
    <3>. QED
      BY <1>6, <1>afresh, <3>1
  <2>2. CASE checkpoints[j] # {}
    <3>1. PICK c \in checkpoints[j] : c.generation = 1
      BY <1>2, <2>2 DEF Counted
    <3>2. NumberTaken(With(NoCheckpoint))
      BY <1>1, <3>1 DEF NumberTaken, NoCheckpoint, Trying, Of
    <3>. QED
      BY <1>6, <1>afresh, <3>2
  <2>. QED
    BY <2>1, <2>2
<1>. QED
  BY <1>5, <1>6 DEF Start

LEMMA LeaveKeeps ==
  ASSUME Inv, NEW w \in Agents, doing[w].at \in Busy, doing' = [doing EXCEPT ![w] = Leave(w)],
         UNCHANGED <<job, run, checkpoints, units, reserved, lost>>
  PROVE  Inv'
<1>1. Of(w) \in Jobs
  BY Doing DEF Inv, Busy, Trying, Ending, Of
<1>2. Leave(w) \in Doings /\ Carries(w, Leave(w))
  BY <1>1, LeaveCarries
<1>. QED
  BY <1>2, MoveKeeps

LEMMA CheckpointKeeps ==
  ASSUME Inv, NEW w \in Agents, Checkpoint(w)
  PROVE  Inv'
<1>1. doing[w] \in Trying /\ Of(w) \in Jobs /\ doing[w].at = "computing"
  BY Doing DEF Inv, Checkpoint, Attempting, Child, Trying, Of
<1>2. Units[Of(w)] \in Nat \ {0} /\ run[Of(w)].control \in Controls
  BY <1>1, ComputeAssumption DEF Inv, TypeInv, RunRow
<1>3. PICK told \in {"none"} \cup {Heard(Of(w))}, done \in doing[w].done .. Units[Of(w)] - 1 :
        doing' = [doing EXCEPT ![w].at = "checkpointing", ![w].done = done, ![w].told = told]
  BY DEF Checkpoint
<1> DEFINE d == [doing[w] EXCEPT !.at = "checkpointing", !.done = done, !.told = told]
<1>4. told \in Controls /\ done \in Nat /\ done >= doing[w].done /\ done < Units[Of(w)]
  BY <1>1, <1>2, <1>3 DEF Heard, Controls, Trying
<1>5. d \in Trying
  BY <1>1, <1>4 DEF Trying, Attempting, Child
<1>6. /\ d.at = "checkpointing" /\ d.job = Of(w) /\ d.generation = doing[w].generation
      /\ d.ckpt = doing[w].ckpt /\ d.done = done
  BY <1>1 DEF Trying, Of
<1>7. Carries(w, doing[w])
  BY DEF Inv
<1>8. Behind(doing[w]) => Behind(d)
  <2>1. \A c \in checkpoints[Of(w)] : c \in Stored
    BY <1>1 DEF Inv, TypeInv
  <2>2. doing[w].done \in Nat
    BY <1>1 DEF Trying
  <2>. HIDE DEF d
  <2>. QED
    BY <1>4, <1>6, <2>1, <2>2 DEF Behind, Of, Stored
<1>9. Carries(w, d)
  <2>. HIDE DEF d
  <2>. QED
    BY <1>1, <1>4, <1>6, <1>7, <1>8 DEF Carries, Holds, NumberTaken, Of, Busy, Attempting, Child
<1>10. d \in Doings
  BY <1>5 DEF Doings, Trying, Attempting, Child
<1>11. doing' = [doing EXCEPT ![w] = d]
  BY <1>3 DEF Inv, TypeInv
<1>12. UNCHANGED <<job, run, checkpoints, units, reserved, lost>>
  BY DEF Checkpoint
<1>. HIDE DEF d
<1>. QED
  BY <1>9, <1>10, <1>11, <1>12, MoveKeeps

LEMMA ToldCarries ==
  ASSUME Inv, NEW w \in Agents, doing[w].at = "checkpointing", NEW ack \in {"pause", "cancel"}
  PROVE  Answered(w, ack) \in Doings /\ Carries(w, Answered(w, ack))
<1> DEFINE result == IF ack = "pause" THEN "paused" ELSE "CANCELLED"
<1>1. Answered(w, ack) = Ends(w, result) /\ result \in Errors \cup {"paused"}
  BY DEF Answered, Errors
<1>2. doing[w].at \in Attempting
  BY DEF Attempting, Child
<1>. HIDE DEF result
<1>. QED
  BY <1>1, <1>2, EndsCarries

LEMMA CheckpointRejectedKeeps ==
  ASSUME Inv, NEW w \in Agents, CheckpointRejected(w)
  PROVE  Inv'
<1>1. doing[w].at = "checkpointing" /\ doing[w] \in Trying
  BY Doing DEF Inv, CheckpointRejected, Attempting, Child
<1>2. CASE doing' = [doing EXCEPT ![w] = Idle]
  BY <1>2, IdleCarries, MoveKeeps DEF CheckpointRejected
<1>3. CASE \E ack \in {"cancel", doing[w].told} \ {"none"} : doing' = [doing EXCEPT ![w] = Answered(w, ack)]
  <2>1. PICK ack \in {"cancel", doing[w].told} \ {"none"} : doing' = [doing EXCEPT ![w] = Answered(w, ack)]
    BY <1>3
  <2>2. ack \in {"pause", "cancel"}
    BY <1>1 DEF Trying, Controls
  <2>. QED
    BY <1>1, <2>1, <2>2, ToldCarries, MoveKeeps DEF CheckpointRejected
<1>. QED
  BY <1>2, <1>3 DEF CheckpointRejected

LEMMA FailKeeps ==
  ASSUME Inv, NEW w \in Agents, Fail(w)
  PROVE  Inv'
<1>1. PICK e \in {"COMPUTATION_ERROR", "FINAL"} : doing' = [doing EXCEPT ![w] = Ends(w, e)]
  BY DEF Fail
<1>2. doing[w].at \in Attempting /\ e \in Errors \cup {"paused"}
  BY DEF Fail, Attempting, Child, Errors
<1>. QED
  BY <1>1, <1>2, EndsCarries, MoveKeeps DEF Fail

LEMMA MovesKeep ==
  ASSUME Inv, NEW w \in Agents,
         \/ Start(w) \/ RenewRefused(w) \/ Checkpoint(w) \/ CheckpointRejected(w)
         \/ Fail(w) \/ Crash(w)
  PROVE  Inv'
<1>1. CASE RenewRefused(w)
  BY <1>1, LeaveKeeps DEF RenewRefused, Busy, Attempting, Child
<1>2. CASE Crash(w)
  BY <1>2, IdleCarries, MoveKeeps DEF Crash
<1>. QED
  BY <1>1, <1>2, StartKeeps, CheckpointKeeps, CheckpointRejectedKeeps, FailKeeps

-----------------------------------------------------------------------------
(* Checkpoints and output: only the holder of the lease writes them.        *)
LEMMA OneHolder ==
  ASSUME NEW w \in Agents, NEW v \in Agents \ {w},
         Fence(w), Holds(v, doing[v])
  PROVE  doing[v].job # Of(w)
  BY DEF Fence, Holds, Of

LEMMA WithUnitsWithin ==
  ASSUME TypeInv, Tables, NEW j \in Jobs, NEW done \in 0..Units[j],
         NEW attempt \in 1..job[j].generation
  PROVE  /\ WithUnits(j, done, attempt) \in [Jobs -> SUBSET Worked]
         /\ \A i \in Jobs : \A u \in WithUnits(j, done, attempt)[i] :
              u.from < Units[i] /\ u.to \in 1..Units[i] /\ u.attempt \in 1..job[i].generation
<1> DEFINE new == [from |-> Committed(j), to |-> done, attempt |-> attempt]
           more == [units EXCEPT ![j] = @ \cup {new}]
<1>1. Units[j] \in Nat \ {0} /\ job[j].generation \in Nat
  BY ComputeAssumption DEF TypeInv, JobRow
<1>2. checkpoints[j] \subseteq Stored /\ Within(j)
  BY DEF TypeInv, Tables
<1>3. Committed(j) \in 0..Units[j] - 1
  BY <1>1, <1>2, CommittedIsMost
<1>4. CASE done > Committed(j)
  <2>1. new \in Worked
    BY <1>1, <1>3 DEF Worked
  <2>2. more \in [Jobs -> SUBSET Worked] /\ \A i \in Jobs : more[i] \subseteq units[i] \cup {new}
    <3>. HIDE DEF new
    <3>. QED
      BY <2>1 DEF TypeInv
  <2>3. \A i \in Jobs \ {j} : more[i] = units[i]
    BY DEF TypeInv
  <2>4. new.from < Units[j] /\ new.to \in 1..Units[j] /\ new.attempt \in 1..job[j].generation
    BY <1>1, <1>3, <1>4
  <2>5. \A i \in Jobs : \A u \in units[i] :
          u.from < Units[i] /\ u.to \in 1..Units[i] /\ u.attempt \in 1..job[i].generation
    BY DEF Tables, Within
  <2>6. \A i \in Jobs : \A u \in more[i] :
          u.from < Units[i] /\ u.to \in 1..Units[i] /\ u.attempt \in 1..job[i].generation
    <3>. HIDE DEF new, more
    <3>. QED
      BY <2>2, <2>3, <2>4, <2>5
  <2>7. WithUnits(j, done, attempt) \in {units, more}
    BY DEF WithUnits
  <2>. HIDE DEF more
  <2>. QED
    BY <2>2, <2>5, <2>6, <2>7 DEF TypeInv
<1>5. CASE ~(done > Committed(j))
  <2>1. WithUnits(j, done, attempt) = units
    BY <1>5 DEF WithUnits
  <2>. QED
    BY <2>1 DEF TypeInv, Tables, Within
<1>. QED
  BY <1>4, <1>5

LEMMA PublishCheckpointKeeps ==
  ASSUME Inv, NEW w \in Agents, PublishCheckpoint(w)
  PROVE  Inv'
<1> DEFINE j == Of(w)
           new == [generation |-> doing[w].ckpt + 1, committed |-> doing[w].done,
                   attempt |-> doing[w].generation]
           next == Answered(w, Ack(w))
<1>1. doing[w] \in Trying /\ j \in Jobs /\ doing[w].at = "checkpointing"
  BY Doing DEF Inv, PublishCheckpoint, Attempting, Child, Trying, Of
<1>2. /\ checkpoints' = [checkpoints EXCEPT ![j] = @ \cup {new}]
      /\ units' = WithUnits(j, doing[w].done, doing[w].generation)
      /\ doing' = [doing EXCEPT ![w] = next]
      /\ UNCHANGED <<job, run, reserved, lost>>
  BY DEF PublishCheckpoint, Of
<1>3. /\ Fence(w) /\ Holds(w, doing[w])
      /\ doing[w].generation = job[j].generation
      /\ \A c \in checkpoints[j] : c.generation # doing[w].ckpt + 1
  BY DEF PublishCheckpoint, Fence, Holds, Numbered, Of
<1>4. /\ doing[w].generation \in 1..job[j].generation
      /\ doing[w].done < Units[j] /\ Behind(doing[w])
  BY <1>1, <1>3 DEF Inv, Carries, Busy, Attempting, Child, NumberTaken, Of
<1>5. /\ Units[j] \in Nat \ {0} /\ doing[w].done \in Nat /\ doing[w].ckpt \in Nat
      /\ doing[w].generation \in Nat /\ doing[w].done \in 0..Units[j]
  BY <1>1, <1>4, ComputeAssumption DEF Trying
<1>6. new \in Stored
  BY <1>5 DEF Stored
<1>7. /\ checkpoints' \in [Jobs -> SUBSET Stored]
      /\ checkpoints'[j] = checkpoints[j] \cup {new}
      /\ \A i \in Jobs \ {j} : checkpoints'[i] = checkpoints[i]
  <2>. HIDE DEF new
  <2>. QED
    BY <1>1, <1>2, <1>6 DEF Inv, TypeInv
<1>8. next \in Doings
  <2>1. CASE Ack(w) = "none"
    <3>1. next = [doing[w] EXCEPT !.at = "computing", !.ckpt = doing[w].ckpt + 1]
      BY <1>1, <2>1 DEF Answered, Trying
    <3>2. doing[w].ckpt + 1 \in Nat
      BY <1>5
    <3>3. next \in Trying
      BY <1>1, <3>1, <3>2 DEF Trying, Attempting, Child
    <3>. QED
      BY <3>3 DEF Trying, Doings, Attempting, Child
  <2>2. CASE Ack(w) # "none"
    <3>1. Ack(w) \in {"pause", "cancel"}
      BY <1>1, <2>2 DEF Inv, TypeInv, RunRow, Ack, Heard, Trying, Controls
    <3>. QED
      BY <1>1, <3>1, ToldCarries
  <2>. QED
    BY <2>1, <2>2
<1>9. TypeInv'
  <2>1. units' \in [Jobs -> SUBSET Worked]
    BY <1>1, <1>2, <1>4, <1>5, WithUnitsWithin DEF Inv
  <2>2. doing' \in [Agents -> Doings]
    <3>. HIDE DEF next
    <3>. QED
      BY <1>2, <1>8 DEF Inv, TypeInv
  <2>. QED
    BY <1>2, <1>7, <2>1, <2>2 DEF Inv, TypeInv
<1>10. Tables'
  <2>1. ASSUME NEW i \in Jobs PROVE Within(i)' /\ Counted(i)'
    <3>1. /\ \A u \in units'[i] :
               u.from < Units[i] /\ u.to \in 1..Units[i] /\ u.attempt \in 1..job'[i].generation
      BY <1>1, <1>2, <1>4, <1>5, WithUnitsWithin DEF Inv
    <3>2. Within(i)
      BY DEF Inv, Tables
    <3>3. Within(i)'
      BY <1>2, <1>4, <1>7, <3>1, <3>2 DEF Within
    <3>4. Counted(i)
      BY DEF Inv, Tables
    <3>5. CASE i # j
      BY <1>7, <3>3, <3>4, <3>5 DEF Counted
    <3>6. CASE i = j
      <4>1. PICK b \in Nat : \A c \in checkpoints[j] : c.generation <= b
        BY <3>4, <3>6 DEF Counted
      <4>2. \A c \in checkpoints'[j] : c.generation <= b + doing[w].ckpt + 1
        BY <1>5, <1>7, <4>1, <1>1 DEF Inv, TypeInv, Stored
      <4>3. b + doing[w].ckpt + 1 \in Nat
        BY <1>5
      <4>4. \E c \in checkpoints'[j] : c.generation = 1
        <5>1. CASE checkpoints[j] = {}
          <6>1. doing[w].ckpt = 0
            BY <1>1, <5>1 DEF Inv, Carries, Child, Of
          <6>2. new \in checkpoints'[j] /\ new.generation = 1
            BY <1>7, <6>1
          <6>. QED
            BY <6>2
        <5>2. CASE checkpoints[j] # {}
          BY <1>7, <3>4, <3>6, <5>2 DEF Counted
        <5>. QED
          BY <5>1, <5>2
      <4>. HIDE DEF j, new
      <4>. QED
        BY <3>3, <3>6, <4>2, <4>3, <4>4 DEF Counted
    <3>. QED
      BY <3>5, <3>6
  <2>2. CheckpointsAdvance'
    <3>1. \A c \in checkpoints[j] : c \in Stored /\ c.attempt \in 1..job[j].generation
      BY <1>1 DEF Inv, TypeInv, Tables, Within
    <3>2. \A c \in checkpoints[j] : /\ c.generation < new.generation
                                    /\ c.committed <= new.committed /\ c.attempt <= new.attempt
      BY <1>1, <1>3, <1>4, <1>5, <3>1 DEF Behind, Stored, Of
    <3>3. \A i \in Jobs : \A c, d \in checkpoints[i] :
             /\ c.generation < d.generation => c.committed <= d.committed /\ c.attempt <= d.attempt
             /\ c.generation = d.generation => c = d
      BY DEF Inv, Tables, CheckpointsAdvance
    <3>4. \A c, d \in checkpoints'[j] :
             /\ c.generation < d.generation => c.committed <= d.committed /\ c.attempt <= d.attempt
             /\ c.generation = d.generation => c = d
      <4>. HIDE DEF j, new
      <4>. QED
        BY <1>1, <1>6, <1>7, <3>1, <3>2, <3>3 DEF Stored
    <3>. QED
      BY <1>7, <3>3, <3>4 DEF CheckpointsAdvance
  <2>3. PublishedByLastClaim'
    BY <1>2 DEF Inv, Tables, PublishedByLastClaim
  <2>. QED
    BY <2>1, <2>2, <2>3 DEF Tables
<1>11. PICK d \in Doings : d = next
  BY <1>8
<1>12. Carries(w, d)'
  <2>1. CASE Ack(w) = "none"
    <3>1. /\ d.at = "computing" /\ d.job = j /\ d.generation = doing[w].generation
          /\ d.ckpt = doing[w].ckpt + 1 /\ d.done = doing[w].done
      BY <1>1, <1>11, <2>1 DEF Answered, Trying, Of
    <3>2. \A c \in checkpoints'[j] : c.generation <= doing[w].ckpt + 1 /\ c.committed <= doing[w].done
      BY <1>1, <1>4, <1>5, <1>7 DEF Behind, Of, Inv, TypeInv, Stored
    <3>3. checkpoints'[j] # {}
      BY <1>7
    <3>. HIDE DEF next, j
    <3>. QED
      BY <1>2, <1>4, <3>1, <3>2, <3>3 DEF Carries, Behind
  <2>2. CASE Ack(w) # "none"
    <3>1. Ack(w) \in {"pause", "cancel"}
      BY <1>1, <2>2 DEF Inv, TypeInv, RunRow, Ack, Heard, Trying, Controls
    <3>2. d = Ends(w, IF Ack(w) = "pause" THEN "paused" ELSE "CANCELLED")
      BY <1>11, <2>2 DEF Answered
    <3>3. d.at = "finishing" /\ d.result # "ok" /\ d.job = j /\ d.generation = doing[w].generation
      BY <3>2 DEF Ends
    <3>. HIDE DEF next, j
    <3>. QED
      BY <1>2, <1>4, <3>3 DEF Carries, Attempting, Child
  <2>. QED
    BY <2>1, <2>2
<1>13. Grows
  BY <1>2, <1>7 DEF Inv, TypeInv, JobRow, Grows
<1>14. ASSUME NEW v \in Agents \ {w} PROVE LeavesAlone(v)
  <2>1. doing'[v] = doing[v] /\ (doing[v].at \in Busy => doing[v].job \in Jobs)
    BY <1>2, Doing DEF Inv, TypeInv, Busy, Trying, Ending
  <2>2. Holds(v, doing[v])' => Holds(v, doing[v])
    BY <1>2, <2>1 DEF Holds
  <2>3. Holds(v, doing[v]) => doing[v].job # j
    BY <1>3, OneHolder
  <2>. QED
    BY <1>2, <1>7, <2>1, <2>2, <2>3 DEF LeavesAlone
<1>. HIDE DEF next, j
<1>. QED
  BY <1>2, <1>9, <1>10, <1>11, <1>12, <1>13, <1>14, StepKeeps

LEMMA VerifyKeeps ==
  ASSUME Inv, NEW w \in Agents, Verify(w)
  PROVE  Inv'
<1> DEFINE j == Of(w)
<1>1. doing[w] \in Trying /\ j \in Jobs /\ doing[w].at = "computing"
  BY Doing DEF Inv, Verify, Attempting, Child, Trying, Of
<1>2. CASE ~Fence(w)
  BY <1>1, <1>2, LeaveKeeps DEF Verify, Busy, Attempting, Child
<1>3. CASE Fence(w)
  <2>1. PICK verdict \in {"ok", "FINAL"} : doing' = [doing EXCEPT ![w] = Ends(w, verdict)]
    BY <1>3 DEF Verify
  <2>2. /\ units' = WithUnits(j, Units[j], doing[w].generation)
        /\ run' = [run EXCEPT ![j].output = doing[w].generation]
        /\ UNCHANGED <<job, checkpoints, reserved, lost>>
    BY <1>3 DEF Verify
  <2>3. doing[w].generation \in 1..job[j].generation /\ doing[w].generation \in Nat
    BY <1>1 DEF Inv, Carries, Busy, Attempting, Child, Of, Trying
  <2>4. Units[j] \in 0..Units[j] /\ job[j].state = "running"
    BY <1>1, <1>3, ComputeAssumption DEF Fence
  <2>5. /\ units' \in [Jobs -> SUBSET Worked]
        /\ \A i \in Jobs : \A u \in units'[i] :
              u.from < Units[i] /\ u.to \in 1..Units[i] /\ u.attempt \in 1..job[i].generation
    BY <1>1, <2>2, <2>3, <2>4, WithUnitsWithin DEF Inv
  <2>6. run' \in [Jobs -> RunRow] /\ run'[j].output = doing[w].generation
        /\ \A i \in Jobs \ {j} : run'[i] = run[i]
    BY <1>1, <2>2, <2>3 DEF Inv, TypeInv, RunRow
  <2>7. PICK d \in Doings : d = Ends(w, verdict)
    <3>1. Ends(w, verdict) \in Ending
      BY <1>1, <2>3 DEF Ends, Ending, Errors, Of
    <3>. QED
      BY <3>1 DEF Ending, Doings
  <2>8. TypeInv'
    BY <2>1, <2>2, <2>5, <2>6, <2>7 DEF Inv, TypeInv
  <2>9. Tables'
    <3>1. \A i \in Jobs : Within(i)' /\ Counted(i)'
      BY <2>2, <2>5 DEF Inv, Tables, Within, Counted
    <3>2. CheckpointsAdvance'
      BY <2>2 DEF Inv, Tables, CheckpointsAdvance
    <3>3. PublishedByLastClaim'
      BY <2>2, <2>4, <2>6 DEF Inv, Tables, PublishedByLastClaim
    <3>. QED
      BY <3>1, <3>2, <3>3 DEF Tables
  <2>10. Carries(w, d)'
    <3>1. d.at = "finishing" /\ d.job = j /\ d.generation = doing[w].generation
      BY <2>7 DEF Ends
    <3>. HIDE DEF j
    <3>. QED
      BY <2>2, <2>3, <2>6, <3>1 DEF Carries, Attempting, Child
  <2>11. Grows
    BY <2>2 DEF Inv, TypeInv, JobRow, Grows
  <2>12. ASSUME NEW v \in Agents \ {w} PROVE LeavesAlone(v)
    <3>1. doing'[v] = doing[v] /\ (doing[v].at \in Busy => doing[v].job \in Jobs)
      BY <2>1, Doing DEF Inv, TypeInv, Busy, Trying, Ending
    <3>2. Holds(v, doing[v])' => Holds(v, doing[v])
      BY <2>2, <3>1 DEF Holds
    <3>3. Holds(v, doing[v]) => doing[v].job # j
      BY <1>3, OneHolder
    <3>. QED
      BY <2>2, <2>6, <3>1, <3>2, <3>3 DEF LeavesAlone
  <2>. HIDE DEF j
  <2>. QED
    BY <2>1, <2>7, <2>8, <2>9, <2>10, <2>11, <2>12, StepKeeps
<1>. QED
  BY <1>2, <1>3

-----------------------------------------------------------------------------
(* The end of an attempt.                                                   *)
LEMMA FinishedRow ==
  ASSUME NEW r \in JobRow, ~r.hold, NEW g \in Nat, NEW result \in Errors \cup {"ok", "paused"}
  PROVE  LET f == Finished(r, g, result) IN
         /\ f \in JobRow /\ f.owner = Free /\ f.state # "running"
         /\ f.hold => f.state = "queued"
         /\ f.generation = r.generation
         /\ f.state = "succeeded" => result = "ok" /\ f.evidence = g
         /\ result # "ok" => f.evidence = r.evidence
         /\ f.cancel = r.cancel
         /\ f.state \in (IF result = "ok" THEN {"succeeded"} ELSE {"queued", "failed", "cancelled"})
<1>1. CASE result = "paused"
  BY <1>1 DEF Finished, JobRow, Ended
<1>2. CASE result = "ok"
  BY <1>2 DEF Finished, JobRow, Ended
<1>3. CASE result = "COMPUTATION_ERROR" /\ r.retries > 0
  <2>1. r.retries - 1 \in 0..MaxRetries
    BY <1>3, ComputeAssumption DEF JobRow
  <2>2. Finished(r, g, result) = [r EXCEPT !.owner = Free, !.state = "queued", !.retries = r.retries - 1]
    BY <1>3 DEF Finished, JobRow
  <2>. QED
    BY <1>3, <2>1, <2>2 DEF JobRow, Ended
<1>4. CASE result \in Errors /\ ~(result = "COMPUTATION_ERROR" /\ r.retries > 0)
  <2>1. Finished(r, g, result) =
          [r EXCEPT !.owner = Free, !.state = IF result = "CANCELLED" THEN "cancelled" ELSE "failed"]
    BY <1>4 DEF Finished, JobRow, Errors
  <2>2. PICK q \in {"cancelled", "failed"} :
          Finished(r, g, result) = [r EXCEPT !.owner = Free, !.state = q]
    BY <2>1
  <2>3. result # "ok"
    BY <1>4 DEF Errors
  <2>. QED
    BY <2>2, <2>3 DEF JobRow, Ended
<1>. QED
  BY <1>1, <1>2, <1>3, <1>4

LEMMA FinishKeeps ==
  ASSUME Inv, NEW w \in Agents, Finish(w)
  PROVE  Inv'
<1> DEFINE j == Of(w)
           row == Finished(job[j], doing[w].generation, doing[w].result)
<1>1. doing[w] \in Ending /\ j \in Jobs /\ doing[w].at = "finishing"
  BY Doing DEF Inv, Finish, Ending, Of
<1>2. CASE ~Fence(w)
  BY <1>1, <1>2, LeaveKeeps DEF Finish, Busy
<1>3. CASE Fence(w)
  <2>1. /\ job' = [job EXCEPT ![j] = row]
        /\ doing' = [doing EXCEPT ![w] = Leave(w)]
        /\ lost' = lost \ {j}
        /\ UNCHANGED <<checkpoints, units>>
    BY <1>3 DEF Finish
  <2>2. /\ run' \in {run, [run EXCEPT ![j].control = "none"]}
        /\ reserved' \in {reserved, [reserved EXCEPT ![j] = Free]}
    BY DEF Finish
  <2>3. job[j] \in JobRow /\ job[j].state = "running" /\ ~job[j].hold
    BY <1>1, <1>3 DEF Inv, TypeInv, Fence, Ended
  <2>4. /\ row \in JobRow /\ row.owner = Free /\ row.state # "running"
        /\ row.hold => row.state = "queued"
        /\ row.generation = job[j].generation
        /\ row.state = "succeeded" => doing[w].result = "ok" /\ row.evidence = doing[w].generation
    BY <1>1, <2>3, FinishedRow DEF Ending
  <2>5. /\ job' \in [Jobs -> JobRow] /\ job'[j] = row
        /\ \A i \in Jobs \ {j} : job'[i] = job[i]
    <3>. HIDE DEF row
    <3>. QED
      BY <1>1, <2>1, <2>4 DEF Inv, TypeInv
  <2>6. run' \in [Jobs -> RunRow] /\ \A i \in Jobs : run'[i].output = run[i].output
    <3>. HIDE DEF row, j
    <3>1. run \in [Jobs -> RunRow] /\ run[j] \in RunRow /\ "none" \in Controls
      BY <1>1 DEF Inv, TypeInv, Controls
    <3>2. CASE run' = run
      BY <3>1, <3>2
    <3>3. CASE run' = [run EXCEPT ![j].control = "none"]
      BY <1>1, <3>1, <3>3 DEF RunRow
    <3>. QED
      BY <2>2, <3>2, <3>3
  <2>7. Leave(w) \in Doings /\ Carries(w, Leave(w))
    BY <1>1, LeaveCarries
  <2>8. TypeInv'
    <3>1. reserved' \in [Jobs -> {Free} \cup Workers] /\ lost' \subseteq Jobs
      BY <1>1, <2>1, <2>2 DEF Inv, TypeInv
    <3>2. doing' \in [Agents -> Doings]
      BY <2>1, <2>7 DEF Inv, TypeInv
    <3>. HIDE DEF row
    <3>. QED
      BY <2>1, <2>4, <2>5, <2>6, <3>1, <3>2 DEF Inv, TypeInv
  <2>9. job[j].generation = doing[w].generation
        /\ (doing[w].result = "ok" => run[j].output = doing[w].generation)
    BY <1>1, <1>3 DEF Inv, Carries, Holds, Fence, Of
  <2>10. Tables'
    <3>. HIDE DEF row, j
    <3>1. \A i \in Jobs : job'[i].generation = job[i].generation
      BY <2>4, <2>5
    <3>2. \A i \in Jobs : Within(i)' /\ Counted(i)'
      BY <2>1, <3>1 DEF Inv, Tables, Within, Counted
    <3>3. CheckpointsAdvance'
      BY <2>1 DEF Inv, Tables, CheckpointsAdvance
    <3>4. PublishedByLastClaim'
      BY <2>4, <2>5, <2>6, <2>9 DEF Inv, Tables, PublishedByLastClaim
    <3>. QED
      BY <3>2, <3>3, <3>4 DEF Tables
  <2>11. PICK d \in Doings : d = Leave(w)
    BY <2>7
  <2>12. Carries(w, d)'
    <3>1. d.at \notin Busy
      BY <2>11 DEF Leave, Idle, Busy, Attempting, Child
    <3>. QED
      BY <3>1 DEF Carries, Busy, Attempting
  <2>13. Grows
    <3>. HIDE DEF row
    <3>. QED
      BY <2>1, <2>4, <2>5 DEF Inv, TypeInv, JobRow, Grows
  <2>14. ASSUME NEW v \in Agents \ {w} PROVE LeavesAlone(v)
    <3>. HIDE DEF row, j
    <3>1. doing'[v] = doing[v] /\ (doing[v].at \in Busy => doing[v].job \in Jobs)
      BY <2>1, Doing DEF Inv, TypeInv, Busy, Trying, Ending
    <3>2. doing[v].at \in Busy /\ Holds(v, doing[v])' => Holds(v, doing[v])
      BY <2>4, <2>5, <3>1 DEF Holds
    <3>. QED
      BY <2>1, <2>6, <3>1, <3>2 DEF LeavesAlone
  <2>. QED
    BY <2>1, <2>8, <2>10, <2>11, <2>12, <2>13, <2>14, StepKeeps
<1>. QED
  BY <1>2, <1>3

LEMMA ReleaseKeeps ==
  ASSUME Inv, NEW w \in Agents, Release(w)
  PROVE  Inv'
<1>1. doing[w] \in Leaving /\ Of(w) \in Jobs
  BY Doing DEF Inv, Release, Leaving, Of
<1>2. reserved' \in [Jobs -> {Free} \cup Workers] /\ lost' \subseteq Jobs
  BY <1>1 DEF Release, Inv, TypeInv
<1>. QED
  BY <1>2, IdleCarries, SweepKeeps DEF Release

LEMMA OfflineKeeps ==
  ASSUME Inv, NEW w \in Workers, Offline(w)
  PROVE  Inv'
<1>1. w \in Agents /\ doing' = [doing EXCEPT ![w] = Idle]
  BY DEF Offline, Inv, TypeInv, Agents
<1>2. reserved' \in [Jobs -> {Free} \cup Workers] /\ lost' \subseteq Jobs
  BY DEF Offline, Inv, TypeInv
<1>. QED
  BY <1>1, <1>2, IdleCarries, SweepKeeps DEF Offline

-----------------------------------------------------------------------------
(* The owner and the claim that finds nothing: no agent moves.              *)
LEMMA AgentsRest ==
  ASSUME Inv, TypeInv',
         UNCHANGED <<doing, checkpoints, units>>,
         \A j \in Jobs :
           /\ job'[j].generation = job[j].generation
           /\ job'[j].owner = job[j].owner
           /\ job'[j].state = "running" => job[j].state = "running"
           /\ job'[j].state = "succeeded" => job'[j] = job[j]
           /\ run'[j].output = run[j].output
  PROVE  Inv'
<1>1. Tables'
  BY DEF Inv, Tables, Within, Counted, CheckpointsAdvance, PublishedByLastClaim
<1>2. Grows
  BY DEF Inv, TypeInv, JobRow, Grows
<1>3. ASSUME NEW v \in Agents PROVE LeavesAlone(v)
  <2>1. doing'[v] = doing[v] /\ (doing[v].at \in Busy => doing[v].job \in Jobs)
    BY Doing DEF Inv, Busy, Trying, Ending
  <2>. QED
    BY <2>1 DEF LeavesAlone, Holds
<1>. QED
  BY <1>1, <1>2, <1>3, LeftAlone DEF Inv

(* The owner changes the flags of one job j.                                *)
LEMMA FlagsKeep ==
  ASSUME Inv, NEW j \in Jobs, NEW row \in JobRow, job' = [job EXCEPT ![j] = row],
         row.generation = job[j].generation, row.owner = job[j].owner,
         row.state = job[j].state \/ (job[j].state = "queued" /\ row.state = "cancelled"),
         row.hold => job[j].hold, row.state # "succeeded",
         run' \in [Jobs -> RunRow], \A i \in Jobs : run'[i].output = run[i].output,
         UNCHANGED <<checkpoints, units, reserved, doing, lost>>
  PROVE  Inv'
<1>1. job \in [Jobs -> JobRow]
  BY DEF Inv, TypeInv
<1>2. job' \in [Jobs -> JobRow] /\ job'[j] = row /\ \A i \in Jobs \ {j} : job'[i] = job[i]
  BY <1>1
<1>3. TypeInv'
  BY <1>2 DEF Inv, TypeInv
<1>. QED
  BY <1>2, <1>3, AgentsRest

LEMMA OwnerKeeps ==
  ASSUME Inv, NEW j \in Jobs, Pause(j) \/ Resume(j) \/ Cancel(j)
  PROVE  Inv'
<1>1. job \in [Jobs -> JobRow] /\ job[j] \in JobRow /\ run \in [Jobs -> RunRow]
  BY DEF Inv, TypeInv
<1>2. ASSUME NEW control \in Controls, run' \in {run, [run EXCEPT ![j].control = control]}
      PROVE  run' \in [Jobs -> RunRow] /\ \A i \in Jobs : run'[i].output = run[i].output
  BY <1>1, <1>2 DEF RunRow
<1>3. CASE Pause(j)
  <2>1. run' \in [Jobs -> RunRow] /\ \A i \in Jobs : run'[i].output = run[i].output
    BY <1>2, <1>3 DEF Pause, Controls
  <2>2. job' = [job EXCEPT ![j] = job[j]] /\ job[j].state # "succeeded"
    BY <1>1, <1>3 DEF Pause
  <2>. QED
    BY <1>1, <1>3, <2>1, <2>2, FlagsKeep DEF Pause
<1>4. CASE Resume(j)
  <2> DEFINE row == [job[j] EXCEPT !.hold = FALSE]
  <2>1. run' \in [Jobs -> RunRow] /\ \A i \in Jobs : run'[i].output = run[i].output
    BY <1>2, <1>4 DEF Resume, Controls
  <2>2. job' = [job EXCEPT ![j] = row]
    BY <1>4 DEF Resume
  <2>3. /\ row \in JobRow /\ row.generation = job[j].generation /\ row.owner = job[j].owner
        /\ row.state = job[j].state /\ ~row.hold /\ row.state # "succeeded"
    BY <1>1, <1>4 DEF Resume, JobRow
  <2>. HIDE DEF row
  <2>. QED
    BY <1>4, <2>1, <2>2, <2>3, FlagsKeep DEF Resume
<1>5. CASE Cancel(j)
  <2> DEFINE row == [job[j] EXCEPT !.cancel = TRUE,
                                   !.state = IF @ = "queued" THEN "cancelled" ELSE @]
  <2>1. run' \in [Jobs -> RunRow] /\ \A i \in Jobs : run'[i].output = run[i].output
    BY <1>2, <1>5 DEF Cancel, Controls
  <2>2. job' = [job EXCEPT ![j] = row]
    BY <1>1, <1>5 DEF Cancel, JobRow
  <2>3. /\ row \in JobRow /\ row.generation = job[j].generation /\ row.owner = job[j].owner
        /\ row.state = job[j].state \/ (job[j].state = "queued" /\ row.state = "cancelled")
        /\ row.hold => job[j].hold
        /\ row.state # "succeeded"
    BY <1>1, <1>5 DEF Cancel, JobRow, Ended
  <2>. HIDE DEF row
  <2>. QED
    BY <1>5, <2>1, <2>2, <2>3, FlagsKeep DEF Cancel
<1>. QED
  BY <1>3, <1>4, <1>5

-----------------------------------------------------------------------------
(* Claims.                                                                  *)
LEMMA UnheldRows ==
  ASSUME TypeInv, NEW X \in SUBSET Jobs
  PROVE  /\ Unheld(X) \in [Jobs -> JobRow]
         /\ \A i \in Jobs : /\ Unheld(X)[i].generation = job[i].generation
                            /\ Unheld(X)[i].owner = job[i].owner
                            /\ Unheld(X)[i].state = job[i].state
                            /\ Unheld(X)[i].cancel = job[i].cancel
                            /\ Unheld(X)[i].evidence = job[i].evidence
                            /\ Unheld(X)[i].hold => job[i].hold
                            /\ job[i].state # "queued" => Unheld(X)[i] = job[i]
<1>1. ASSUME NEW i \in Jobs
      PROVE  /\ Unheld(X)[i] \in JobRow
             /\ Unheld(X)[i].generation = job[i].generation
             /\ Unheld(X)[i].owner = job[i].owner
             /\ Unheld(X)[i].state = job[i].state
             /\ Unheld(X)[i].cancel = job[i].cancel
             /\ Unheld(X)[i].evidence = job[i].evidence
             /\ Unheld(X)[i].hold => job[i].hold
             /\ job[i].state # "queued" => Unheld(X)[i] = job[i]
  <2>1. job[i] \in JobRow
    BY DEF TypeInv
  <2>2. Unheld(X)[i] = IF i \in Resumable(X) THEN [job[i] EXCEPT !.hold = FALSE] ELSE job[i]
    BY DEF Unheld
  <2>3. i \in Resumable(X) => job[i].state = "queued"
    BY DEF Resumable
  <2>. QED
    BY <2>1, <2>2, <2>3 DEF JobRow
<1>2. Unheld(X) \in [Jobs -> JobRow]
  BY <1>1 DEF Unheld
<1>. QED
  BY <1>1, <1>2

LEMMA RunRows ==
  ASSUME TypeInv, NEW X \in SUBSET Jobs
  PROVE  /\ Resumed(X) \in [Jobs -> RunRow]
         /\ \A i \in Jobs : Resumed(X)[i].output = run[i].output
         /\ \A A \in Asks(X) : /\ Asked(A, X) \in [Jobs -> RunRow]
                               /\ \A i \in Jobs : Asked(A, X)[i].output = run[i].output
<1>1. ASSUME NEW i \in Jobs PROVE Resumed(X)[i] \in RunRow /\ Resumed(X)[i].output = run[i].output
  <2>1. run[i] \in RunRow
    BY DEF TypeInv
  <2>. QED
    BY <2>1 DEF Resumed, RunRow
<1>2. ASSUME NEW A \in Asks(X), NEW i \in Jobs
      PROVE  Asked(A, X)[i] \in RunRow /\ Asked(A, X)[i].output = run[i].output
  <2>1. run[i] \in RunRow
    BY DEF TypeInv
  <2>2. \A p \in A : p[1] \in Jobs
    BY PreemptionAssumption DEF Asks
  <2>3. CASE \E p \in A : p[2] = i
    <3>1. (CHOOSE p \in A : p[2] = i) \in A
      BY <2>3
    <3>2. PICK k \in Jobs : Asked(A, X)[i] = [run[i] EXCEPT !.control = "pause", !.preempted_for = k]
      BY <2>2, <2>3, <3>1 DEF Asked
    <3>. QED
      BY <2>1, <3>2 DEF RunRow, Controls
  <2>4. CASE ~\E p \in A : p[2] = i
    BY <1>1, <2>4 DEF Asked
  <2>. QED
    BY <2>3, <2>4
<1>3. Resumed(X) \in [Jobs -> RunRow]
  BY <1>1 DEF Resumed
<1>4. \A A \in Asks(X) : Asked(A, X) \in [Jobs -> RunRow]
  <2>. TAKE A \in Asks(X)
  <2>1. DOMAIN Asked(A, X) = Jobs /\ Asked(A, X) = [h \in Jobs |-> Asked(A, X)[h]]
    BY DEF Asked
  <2>. QED
    BY <1>2, <2>1
<1>. QED
  BY <1>1, <1>2, <1>3, <1>4

LEMMA TakesKeeps ==
  ASSUME Inv, NEW w \in Agents, NEW j \in Jobs, NEW J \in [Jobs -> JobRow],
         \A i \in Jobs : /\ J[i].generation = job[i].generation
                         /\ J[i].owner = job[i].owner /\ J[i].state = job[i].state
                         /\ J[i].hold => job[i].hold
                         /\ job[i].state # "queued" => J[i] = job[i],
         ~J[j].hold, J[j].state \in {"queued", "running"},
         Takes(w, j, J),
         run' \in [Jobs -> RunRow], \A i \in Jobs : run'[i].output = run[i].output,
         reserved' \in [Jobs -> {Free} \cup Workers], lost' \subseteq Jobs
  PROVE  Inv'
<1> DEFINE row == Leased(J[j], w)
           g == J[j].generation
<1>1. /\ job' = [J EXCEPT ![j] = row] /\ doing' = [doing EXCEPT ![w] = Attempt(j, g + 1)]
      /\ UNCHANGED <<checkpoints, units>> /\ g < MaxClaims[j]
  BY DEF Takes
<1>2. g \in Nat /\ MaxClaims[j] \in Nat /\ Units[j] \in Nat \ {0} /\ g = job[j].generation /\ Free \notin Agents
  BY ComputeAssumption DEF JobRow
<1>3. /\ row \in JobRow /\ row.state = "running" /\ row.owner = w
      /\ row.generation = g + 1 /\ ~row.hold
  <2>1. row = [J[j] EXCEPT !.state = "running", !.owner = w, !.generation = g + 1]
    BY DEF Leased, JobRow
  <2>2. J[j] \in JobRow /\ g + 1 \in Nat
    BY <1>2
  <2>. HIDE DEF row, g
  <2>. QED
    BY <2>1, <2>2 DEF JobRow
<1>. HIDE DEF row
<1>4. job' \in [Jobs -> JobRow] /\ job'[j] = row /\ \A i \in Jobs \ {j} : job'[i] = J[i]
  BY <1>1, <1>3
<1>5. PICK d \in Doings : d = Attempt(j, g + 1)
  <2>1. g + 1 \in Nat
    BY <1>2
  <2>2. Attempt(j, g + 1) \in Trying
    <3>. HIDE DEF g
    <3>. QED
      BY <2>1 DEF Attempt, Trying, Attempting, Child, Controls
  <2>. QED
    BY <2>2 DEF Trying, Doings, Attempting, Child
<1>6. TypeInv'
  <2>1. doing' \in [Agents -> Doings]
    BY <1>1, <1>5 DEF Inv, TypeInv
  <2>2. \A i \in Jobs : job'[i].owner # Free <=> job'[i].state = "running"
    BY <1>2, <1>3, <1>4 DEF Inv, TypeInv
  <2>3. \A i \in Jobs : job'[i].hold => job'[i].state \in {"queued", "cancelled"}
    BY <1>3, <1>4 DEF Inv, TypeInv
  <2>4. \A i \in Jobs : job'[i].generation <= MaxClaims[i]
    BY <1>1, <1>2, <1>3, <1>4 DEF Inv, TypeInv
  <2>. QED
    BY <1>1, <1>4, <2>1, <2>2, <2>3, <2>4 DEF Inv, TypeInv
<1>7. \A i \in Jobs : job'[i].generation \in Nat /\ job[i].generation <= job'[i].generation
  BY <1>2, <1>3, <1>4 DEF Inv, TypeInv, JobRow
<1>8. Tables'
  <2>1. ASSUME NEW i \in Jobs PROVE Within(i)' /\ Counted(i)'
    <3>1. Within(i) /\ Counted(i) /\ job[i].generation \in Nat
      BY DEF Inv, Tables, TypeInv, JobRow
    <3>2. \A n \in 1..job[i].generation : n \in 1..job'[i].generation
      BY <1>7, <3>1
    <3>. QED
      BY <1>1, <3>1, <3>2 DEF Within, Counted
  <2>2. CheckpointsAdvance'
    BY <1>1 DEF Inv, Tables, CheckpointsAdvance
  <2>3. PublishedByLastClaim'
    BY <1>3, <1>4 DEF Inv, Tables, PublishedByLastClaim
  <2>. QED
    BY <2>1, <2>2, <2>3 DEF Tables
<1>9. Carries(w, d)'
  <2>1. d.at = "claimed" /\ d.job = j /\ d.generation = g + 1 /\ d.done = 0
    BY <1>5 DEF Attempt
  <2>. QED
    BY <1>2, <1>3, <1>4, <2>1 DEF Carries, Child
<1>10. Grows
  BY <1>1, <1>7 DEF Grows
<1>11. ASSUME NEW v \in Agents \ {w} PROVE LeavesAlone(v)
  <2>1. doing'[v] = doing[v] /\ (doing[v].at \in Busy => doing[v].job \in Jobs)
    BY <1>1, Doing DEF Inv, TypeInv, Busy, Trying, Ending
  <2>2. doing[v].at \in Busy /\ Holds(v, doing[v])' => Holds(v, doing[v])
    BY <1>3, <1>4, <2>1 DEF Holds
  <2>. QED
    BY <1>1, <2>1, <2>2 DEF LeavesAlone
<1>. QED
  BY <1>1, <1>5, <1>6, <1>8, <1>9, <1>10, <1>11, StepKeeps

LEMMA ClaimKeeps ==
  ASSUME Inv, NEW w \in Agents, Claim(w)
  PROVE  Inv'
<1>1. PICK X \in SUBSET Jobs :
        \/ w \in Workers /\ (ClaimQueued(w, X) \/ ClaimAbandoned(w, X) \/ ClaimNothing(X))
        \/ w \in Nodes /\ NodeClaim(w, X)
  BY DEF Claim
<1>2. TypeInv /\ Local \subseteq Jobs /\ Remote \subseteq Jobs
  BY ComputeAssumption DEF Inv
<1>3. ASSUME w \in Workers, NEW j \in Jobs, Reserves(w, j, X)
      PROVE  reserved' \in [Jobs -> {Free} \cup Workers] /\ lost' \subseteq Jobs
  BY <1>2, <1>3 DEF Reserves, Reserve, TypeInv, Abandoned
<1>4. CASE w \in Workers /\ ClaimQueued(w, X)
  <2>1. PICK j \in Claimable(X) : Takes(w, j, Unheld(X)) /\ Reserves(w, j, X)
    BY <1>4 DEF ClaimQueued
  <2>2. j \in Jobs /\ Unheld(X)[j].state = "queued" /\ ~Unheld(X)[j].hold
    BY <1>2, <2>1 DEF Claimable
  <2>3. run' = Resumed(X)
    BY <1>4 DEF ClaimQueued
  <2>. QED
    BY <1>2, <1>3, <1>4, <2>1, <2>2, <2>3, UnheldRows, RunRows, TakesKeeps
<1>5. CASE w \in Workers /\ ClaimAbandoned(w, X)
  <2>1. PICK j \in Recoverable(X) : Takes(w, j, Unheld(X)) /\ Reserves(w, j, X)
    BY <1>5 DEF ClaimAbandoned
  <2>2. j \in Jobs /\ job[j].state = "running" /\ ~job[j].hold
    BY <1>2, <2>1 DEF Recoverable, Abandoned, TypeInv
  <2>3. Unheld(X)[j].state = "running" /\ ~Unheld(X)[j].hold
    BY <1>2, <2>2, UnheldRows
  <2>4. PICK A \in Asks(X) : run' = Asked(A, X)
    BY <1>5 DEF ClaimAbandoned
  <2>. QED
    BY <1>2, <1>3, <1>5, <2>1, <2>2, <2>3, <2>4, UnheldRows, RunRows, TakesKeeps
<1>6. CASE w \in Workers /\ ClaimNothing(X)
  <2>1. job' = Unheld(X) /\ UNCHANGED <<checkpoints, units, doing>>
    BY <1>6 DEF ClaimNothing
  <2>2. PICK A \in Asks(X) : run' = Asked(A, X)
    BY <1>6 DEF ClaimNothing
  <2>3. reserved' \in [Jobs -> {Free} \cup Workers] /\ lost' \subseteq Jobs
    BY <1>2, <1>6 DEF ClaimNothing, TypeInv, Abandoned
  <2>4. job' \in [Jobs -> JobRow] /\ run' \in [Jobs -> RunRow]
    BY <1>2, <2>1, <2>2, UnheldRows, RunRows
  <2>5. \A i \in Jobs : /\ job'[i].generation = job[i].generation
                        /\ job'[i].owner = job[i].owner /\ job'[i].state = job[i].state
                        /\ job'[i].hold => job[i].hold
                        /\ job[i].state # "queued" => job'[i] = job[i]
    BY <1>2, <2>1, UnheldRows
  <2>6. TypeInv'
    BY <1>2, <2>1, <2>3, <2>4, <2>5 DEF TypeInv
  <2>7. \A i \in Jobs : run'[i].output = run[i].output
    BY <1>2, <2>2, RunRows
  <2>. QED
    BY <2>1, <2>5, <2>6, <2>7, AgentsRest
<1>7. CASE w \in Nodes /\ NodeClaim(w, X)
  <2>1. PICK j \in Remote : /\ Takes(w, j, job) /\ lost' = lost \ {j}
                            /\ reserved' \in {reserved, [reserved EXCEPT ![j] = Free]}
                            /\ Waiting(j) \/ job[j].state = "running"
    BY <1>7 DEF NodeClaim, Abandoned
  <2>2. j \in Jobs /\ job[j].state \in {"queued", "running"} /\ ~job[j].hold
    BY <1>2, <2>1 DEF Waiting, TypeInv
  <2>3. reserved' \in [Jobs -> {Free} \cup Workers] /\ lost' \subseteq Jobs
    BY <1>2, <2>1, <2>2 DEF TypeInv
  <2>4. run' = run
    BY <1>7 DEF NodeClaim
  <2>. QED
    BY <1>2, <2>1, <2>2, <2>3, <2>4, TakesKeeps DEF TypeInv
<1>. QED
  BY <1>1, <1>4, <1>5, <1>6, <1>7

(* The invariant is inductive.                                              *)
LEMMA NextKeeps == Inv /\ [Next]_vars => Inv'
<1>. SUFFICES ASSUME Inv, [Next]_vars PROVE Inv'
  OBVIOUS
<1>1. ASSUME NEW w \in Agents, Claim(w) \/ Work(w) \/ Crash(w) PROVE Inv'
  BY <1>1, ClaimKeeps, MovesKeep, PublishCheckpointKeeps, VerifyKeeps, FinishKeeps, ReleaseKeeps DEF Work
<1>2. CASE UNCHANGED vars
  <2>1. TypeInv' /\ Tables'
    BY <1>2 DEF vars, Inv, TypeInv, Tables, Within, Counted, CheckpointsAdvance, PublishedByLastClaim
  <2>. QED
    BY <1>2, <2>1 DEF vars, Inv, Carries, Holds, Behind, NumberTaken
<1>3. Pausable \subseteq Jobs /\ Cancellable \subseteq Jobs
  BY ComputeAssumption
<1>. QED
  BY <1>1, <1>2, <1>3, OfflineKeeps, OwnerKeeps DEF Next

THEOREM Invariance == Spec => []Inv
<1>. QED
  BY InitInv, NextKeeps, PTL DEF Spec

-----------------------------------------------------------------------------
(* Every table and every agent keeps its type: the numbers of claims, the   *)
(* work of a checkpoint and the ends of a range stay within their bounds.   *)
THEOREM TypesHold == Spec => []ComputeTypeOK
<1>1. Inv => ComputeTypeOK
  <2>. SUFFICES ASSUME Inv PROVE ComputeTypeOK
    OBVIOUS
  <2>1. ASSUME NEW j \in Jobs
        PROVE  /\ checkpoints[j] \subseteq
                    [generation : Nat \ {0}, committed : 0..Units[j] - 1, attempt : 1..MaxClaims[j]]
               /\ units[j] \subseteq [from : 0..Units[j] - 1, to : 1..Units[j], attempt : 1..MaxClaims[j]]
    <3>1. /\ Units[j] \in Nat \ {0} /\ MaxClaims[j] \in Nat /\ job[j].generation \in Nat
          /\ job[j].generation <= MaxClaims[j]
      BY ComputeAssumption DEF Inv, TypeInv, JobRow
    <3>2. \A n \in 1..job[j].generation : n \in 1..MaxClaims[j]
      BY <3>1
    <3>3. \A n \in Nat : n < Units[j] => n \in 0..Units[j] - 1
      BY <3>1
    <3>4. checkpoints[j] \subseteq Stored /\ units[j] \subseteq Worked /\ Within(j)
      BY DEF Inv, TypeInv, Tables
    <3>. QED
      BY <3>2, <3>3, <3>4 DEF Stored, Worked, Within
  <2>. QED
    BY <2>1 DEF Inv, TypeInv, ComputeTypeOK, JobRow, RunRow
<1>. QED
  BY <1>1, Invariance, PTL

(* Through every pause, retry, recovery and restart on another machine the  *)
(* checkpoints of a job advance, and no number is given twice.              *)
THEOREM ResumedWorkAdvances == Spec => []CheckpointsAdvance
<1>1. Inv => CheckpointsAdvance
  BY DEF Inv, Tables
<1>. QED
  BY <1>1, Invariance, PTL

(* The output and the evidence of a job that succeeded come from its last   *)
(* claim, although they are stored in two transactions.                     *)
THEOREM LastClaimPublishes == Spec => []PublishedByLastClaim
<1>1. Inv => PublishedByLastClaim
  BY DEF Inv, Tables
<1>. QED
  BY <1>1, Invariance, PTL

-----------------------------------------------------------------------------
(* Slots.                                                                   *)
LEMMA FewerReserved ==
  ASSUME ReservationBacksRun, \A j \in Jobs : reserved'[j] \in {reserved[j], Free}
  PROVE  Cardinality({j \in Jobs : reserved'[j] # Free}) <= Slots
<1> DEFINE before == {j \in Jobs : reserved[j] # Free}
           after == {j \in Jobs : reserved'[j] # Free}
<1>1. after \subseteq before
  OBVIOUS
<1>2. IsFiniteSet(before) /\ Slots \in Nat
  BY FS_Subset, ComputeAssumption
<1>3. IsFiniteSet(after) /\ Cardinality(after) <= Cardinality(before)
  BY <1>1, <1>2, FS_Subset
<1>4. Cardinality(after) \in Nat /\ Cardinality(before) \in Nat
  BY <1>2, <1>3, FS_CardinalityType
<1>5. Cardinality(before) <= Slots
  BY DEF ReservationBacksRun
<1>6. Cardinality(after) <= Slots
  <2>. HIDE DEF before, after
  <2>. QED
    BY <1>2, <1>3, <1>4, <1>5
<1>. QED
  BY <1>6

(* A row taken within the room.                                             *)
LEMMA RoomReserved ==
  ASSUME NEW w \in Workers, NEW j \in Jobs, NEW X \in SUBSET Jobs,
         Room({}, X) \/ Room({j}, X), Reserves(w, j, X)
  PROVE  Cardinality({i \in Jobs : reserved'[i] # Free}) <= Slots
<1> DEFINE others == Holding(X) \ {j}
           after == {i \in Jobs : reserved'[i] # Free}
<1>1. w # Free /\ Slots \in Nat /\ IsFiniteSet(Jobs)
  BY ComputeAssumption DEF Agents
<1>2. after = others \cup {j}
  BY <1>1 DEF Reserves, Reserve, Holding
<1>3. IsFiniteSet(Holding(X)) /\ IsFiniteSet(others)
  BY <1>1, FS_Subset DEF Holding
<1>4. /\ Cardinality(Holding(X)) \in Nat /\ Cardinality(others) \in Nat
      /\ Cardinality(others) <= Cardinality(Holding(X))
  BY <1>3, FS_Subset, FS_CardinalityType
<1>5. Cardinality(others) < Slots
  <2>1. Holding(X) \ {} = Holding(X)
    OBVIOUS
  <2>2. CASE Room({}, X)
    <3>1. Cardinality(Holding(X)) < Slots
      BY <2>1, <2>2 DEF Room
    <3>. HIDE DEF others
    <3>. QED
      BY <1>1, <1>4, <3>1
  <2>3. CASE Room({j}, X)
    BY <2>3 DEF Room
  <2>. QED
    BY <2>2, <2>3
<1>6. Cardinality(others \cup {j}) = Cardinality(others) + 1
  BY <1>3, FS_AddElement
<1>7. Cardinality(after) <= Slots
  <2>. HIDE DEF others, after
  <2>. QED
    BY <1>1, <1>2, <1>4, <1>5, <1>6
<1>. QED
  BY <1>7

Backed == \A j \in Jobs :
  (job[j].state = "running" /\ job[j].owner \in Workers /\ j \notin lost) =>
    reserved[j] = job[j].owner

(* A local claim keeps the reservation of every job that is not lost.       *)
LEMMA ClaimBacks ==
  ASSUME Inv, Backed, NEW w \in Workers, NEW j \in Jobs, NEW X \in SUBSET Jobs,
         Takes(w, j, Unheld(X)), Reserves(w, j, X)
  PROVE  Backed'
<1> DEFINE row == Leased(Unheld(X)[j], w)
<1>1. TypeInv /\ Free \notin Agents /\ Workers \subseteq Agents
  BY ComputeAssumption DEF Inv, Agents
<1>2. Unheld(X) \in [Jobs -> JobRow] /\ \A i \in Jobs : /\ Unheld(X)[i].state = job[i].state
                                                         /\ Unheld(X)[i].owner = job[i].owner
  BY <1>1, UnheldRows
<1>3. row.owner = w
  <2>1. Unheld(X)[j] \in JobRow
    BY <1>2
  <2>. QED
    BY <2>1 DEF Leased, JobRow
<1>4. job'[j].owner = w /\ \A i \in Jobs \ {j} : job'[i] = Unheld(X)[i]
  <2>1. job' = [Unheld(X) EXCEPT ![j] = row]
    BY DEF Takes
  <2>. HIDE DEF row
  <2>. QED
    BY <1>2, <1>3, <2>1
<1>5. reserved'[j] = w
  BY DEF Reserves, Reserve
<1>6. ASSUME NEW i \in Jobs \ {j}, job'[i].state = "running", job'[i].owner \in Workers, i \notin lost'
      PROVE  reserved'[i] = job'[i].owner
  <2>1. job[i].state = "running" /\ job[i].owner = job'[i].owner
    BY <1>2, <1>4, <1>6
  <2>2. i \notin X /\ i \notin lost
    BY <1>6, <2>1 DEF Reserves, Abandoned
  <2>3. reserved[i] = job[i].owner /\ reserved[i] # Free
    BY <1>1, <1>6, <2>1, <2>2 DEF Backed
  <2>. QED
    BY <2>1, <2>2, <2>3 DEF Reserves, Reserve, Holding
<1>. QED
  BY <1>4, <1>5, <1>6 DEF Backed

(* Every other step gives no row, and takes rows away only from jobs that   *)
(* are lost, that end or that go to a node.                                 *)
LEMMA OthersBack ==
  ASSUME ReservationBacksRun,
         \A j \in Jobs : reserved'[j] \in {reserved[j], Free},
         \A j \in Jobs :
           job'[j].state = "running" /\ job'[j].owner \in Workers /\ j \notin lost' =>
             /\ job[j].state = "running" /\ job[j].owner = job'[j].owner /\ j \notin lost
             /\ reserved'[j] = reserved[j]
  PROVE  ReservationBacksRun'
<1>1. Cardinality({j \in Jobs : reserved'[j] # Free}) <= Slots
  BY FewerReserved
<1>. QED
  BY <1>1 DEF ReservationBacksRun

LEMMA ClaimKeepsBacked ==
  ASSUME Inv, ReservationBacksRun, NEW w \in Agents, Claim(w)
  PROVE  ReservationBacksRun'
<1>1. PICK X \in SUBSET Jobs :
        \/ w \in Workers /\ (ClaimQueued(w, X) \/ ClaimAbandoned(w, X) \/ ClaimNothing(X))
        \/ w \in Nodes /\ NodeClaim(w, X)
  BY DEF Claim
<1>2. TypeInv /\ Local \subseteq Jobs /\ Remote \subseteq Jobs /\ Workers \cap Nodes = {} /\ Backed
  BY ComputeAssumption DEF Inv, ReservationBacksRun, Backed
<1>3. ASSUME w \in Workers, NEW j \in Jobs, Room({}, X) \/ Room({j}, X),
             Takes(w, j, Unheld(X)), Reserves(w, j, X)
      PROVE  ReservationBacksRun'
  BY <1>2, <1>3, RoomReserved, ClaimBacks DEF ReservationBacksRun, Backed
<1>4. CASE w \in Workers /\ ClaimQueued(w, X)
  BY <1>2, <1>3, <1>4 DEF ClaimQueued, Claimable
<1>5. CASE w \in Workers /\ ClaimAbandoned(w, X)
  BY <1>2, <1>3, <1>5 DEF ClaimAbandoned, Recoverable
<1>6. CASE w \in Workers /\ ClaimNothing(X)
  <2>1. job' = Unheld(X)
        /\ \/ reserved' = [j \in Jobs |-> IF j \in X THEN Free ELSE reserved[j]]
              /\ lost' = lost \cup Abandoned(X)
           \/ UNCHANGED <<reserved, lost>>
    BY <1>6 DEF ClaimNothing
  <2>2. \A j \in Jobs : job'[j].state = job[j].state /\ job'[j].owner = job[j].owner
    BY <1>2, <2>1, UnheldRows
  <2>. QED
    BY <1>2, <2>1, <2>2, OthersBack DEF Abandoned, TypeInv
<1>7. CASE w \in Nodes /\ NodeClaim(w, X)
  <2>1. PICK j \in Remote : /\ Takes(w, j, job) /\ lost' = lost \ {j}
                            /\ reserved' \in {reserved, [reserved EXCEPT ![j] = Free]}
    BY <1>7 DEF NodeClaim
  <2>2. job'[j].owner = w /\ \A i \in Jobs \ {j} : job'[i] = job[i]
    <3>1. job' = [job EXCEPT ![j] = Leased(job[j], w)] /\ job[j] \in JobRow
      BY <1>2, <2>1 DEF Takes, TypeInv
    <3>2. Leased(job[j], w).owner = w
      BY <3>1 DEF Leased, JobRow
    <3>. QED
      BY <1>2, <3>1, <3>2 DEF TypeInv
  <2>3. \A i \in Jobs : reserved'[i] \in {reserved[i], Free}
    BY <1>2, <2>1 DEF TypeInv
  <2>4. \A i \in Jobs \ {j} : reserved'[i] = reserved[i]
    BY <1>2, <2>1 DEF TypeInv
  <2>. QED
    BY <1>2, <1>7, <2>1, <2>2, <2>3, <2>4, OthersBack
<1>. QED
  BY <1>1, <1>4, <1>5, <1>6, <1>7

LEMMA FinishKeepsBacked ==
  ASSUME Inv, ReservationBacksRun, NEW w \in Agents, Finish(w)
  PROVE  ReservationBacksRun'
<1> DEFINE j == Of(w)
           row == Finished(job[j], doing[w].generation, doing[w].result)
<1>1. doing[w] \in Ending /\ j \in Jobs
  BY Doing DEF Inv, Finish, Ending, Of
<1>2. CASE ~Fence(w)
  BY <1>2, OthersBack DEF Finish
<1>3. CASE Fence(w)
  <2>1. job[j] \in JobRow /\ ~job[j].hold
    BY <1>1, <1>3 DEF Inv, TypeInv, Fence, Ended
  <2>2. row.state # "running"
    BY <1>1, <2>1, FinishedRow DEF Ending
  <2>3. job' = [job EXCEPT ![j] = row] /\ lost' = lost \ {j}
        /\ reserved' \in {reserved, [reserved EXCEPT ![j] = Free]}
    BY <1>3 DEF Finish
  <2>4. job'[j].state # "running" /\ \A i \in Jobs \ {j} : job'[i] = job[i] /\ reserved'[i] = reserved[i]
    <3>. HIDE DEF row
    <3>. QED
      BY <1>1, <2>2, <2>3 DEF Inv, TypeInv
  <2>5. \A i \in Jobs : reserved'[i] \in {reserved[i], Free}
    BY <1>1, <2>3 DEF Inv, TypeInv
  <2>. HIDE DEF row, j
  <2>. QED
    BY <2>3, <2>4, <2>5, OthersBack
<1>. QED
  BY <1>2, <1>3

LEMMA NextKeepsBacked == Inv /\ ReservationBacksRun /\ [Next]_vars => ReservationBacksRun'
<1>. SUFFICES ASSUME Inv, ReservationBacksRun, [Next]_vars PROVE ReservationBacksRun'
  OBVIOUS
<1>1. ASSUME NEW w \in Agents, Work(w) \/ Crash(w) PROVE ReservationBacksRun'
  <2>1. CASE \/ Start(w) \/ RenewRefused(w) \/ Checkpoint(w) \/ PublishCheckpoint(w)
             \/ CheckpointRejected(w) \/ Fail(w) \/ Verify(w) \/ Crash(w)
    <3>1. UNCHANGED <<job, reserved, lost>>
      BY <2>1 DEF Start, Starts, RenewRefused, Checkpoint, PublishCheckpoint, CheckpointRejected,
                  Fail, Verify, Crash
    <3>. QED
      BY <3>1, OthersBack
  <2>2. CASE Release(w)
    <3>1. Of(w) \in Jobs
      BY <2>2, Doing DEF Inv, Release, Leaving, Of
    <3>. QED
      BY <2>2, <3>1, OthersBack DEF Release, Inv, TypeInv
  <2>. QED
    BY <1>1, <2>1, <2>2, FinishKeepsBacked DEF Work
<1>2. ASSUME NEW w \in Workers, Offline(w) PROVE ReservationBacksRun'
  BY <1>2, OthersBack DEF Offline, Inv, TypeInv
<1>3. ASSUME NEW j \in Jobs, Pause(j) \/ Resume(j) \/ Cancel(j) PROVE ReservationBacksRun'
  <2>1. job \in [Jobs -> JobRow] /\ UNCHANGED <<reserved, lost>>
    BY <1>3 DEF Inv, TypeInv, Pause, Resume, Cancel
  <2>2. \A i \in Jobs : job'[i].owner = job[i].owner /\ (job'[i].state = "running" => job[i].state = "running")
    BY <1>3, <2>1 DEF Pause, Resume, Cancel, JobRow
  <2>. QED
    BY <2>1, <2>2, OthersBack
<1>4. CASE UNCHANGED vars
  BY <1>4, OthersBack DEF vars
<1>5. Pausable \subseteq Jobs /\ Cancellable \subseteq Jobs
  BY ComputeAssumption
<1>. QED
  BY <1>1, <1>2, <1>3, <1>4, <1>5, ClaimKeepsBacked DEF Next

(* Claims, sweeps, releases and recoveries never fill more than the slots,  *)
(* and a job under a local lease has its slot unless it was taken from it.  *)
THEOREM SlotsHold == Spec => []ReservationBacksRun
<1>1. Init => ReservationBacksRun
  <2>. SUFFICES ASSUME Init PROVE ReservationBacksRun
    OBVIOUS
  <2>1. {j \in Jobs : reserved[j] # Free} = {}
    BY DEF Init
  <2>2. Cardinality({j \in Jobs : reserved[j] # Free}) <= Slots
    BY <2>1, FS_EmptySet, ComputeAssumption
  <2>. QED
    BY <2>2 DEF Init, ReservationBacksRun
<1>. QED
  BY <1>1, Invariance, NextKeepsBacked, PTL DEF Spec
-----------------------------------------------------------------------------
(* Work units.  While no attempt was cut short, the ranges of a job reach   *)
(* exactly as far as its checkpoints, and past them only when the attempt   *)
(* of the last claim stored its output: so the next range starts where the  *)
(* last one ends.                                                           *)
Total(j) == \E u \in units[j] : u.to = Units[j]

Follow(j) ==
  /\ \A u \in units[j] : u.from = 0 \/ \E v \in units[j] : v.to = u.from
  /\ \A u, v \in units[j] : u.to <= v.from \/ v.to <= u.from \/ u = v
  /\ \A u \in units[j] : u.to = Units[j] \/ \E c \in checkpoints[j] : u.to <= c.committed
  /\ \A c \in checkpoints[j] : c.committed = 0 \/ \E u \in units[j] : u.to = c.committed
  /\ job[j].state = "succeeded" => Total(j)

(* While it computes, the holder of the lease has not counted the last unit;*)
(* once it verified its output, somebody has.                               *)
Covers(w, d) ==
  /\ d.at \in Attempting /\ Holds(w, d) =>
       \A u \in units[d.job] : u.to = Units[d.job] => u.attempt # d.generation
  /\ d.at = "finishing" /\ d.result = "ok" /\ Holds(w, d) /\ ~CutShort(d.job) => Total(d.job)

UInv ==
  /\ \A j \in Jobs : /\ \A u \in units[j] : u.from < u.to
                     /\ ~CutShort(j) => Follow(j)
  /\ \A w \in Agents : Covers(w, doing[w])

(* What an insertion adds, whatever is there already.                       *)
LEMMA WithUnitsAdds ==
  ASSUME TypeInv, Tables, NEW j \in Jobs, NEW done \in Nat, NEW attempt,
         units' = WithUnits(j, done, attempt)
  PROVE  /\ \A i \in Jobs \ {j} : units'[i] = units[i]
         /\ units[j] \subseteq units'[j]
         /\ \A u \in units'[j] : u \in units[j] \/ (u.to = done /\ u.attempt = attempt /\ u.from < u.to)
<1> DEFINE new == [from |-> Committed(j), to |-> done, attempt |-> attempt]
<1>0. Committed(j) \in Nat
  BY CommittedIsMost, ComputeAssumption DEF TypeInv, Tables
<1>1. units' = units \/ (Committed(j) < done /\ units' = [units EXCEPT ![j] = @ \cup {new}])
  BY <1>0 DEF WithUnits
<1>2. new.to = done /\ new.attempt = attempt /\ new.from = Committed(j)
  OBVIOUS
<1>. HIDE DEF new
<1>. QED
  BY <1>1, <1>2 DEF TypeInv

(* ... and where it goes while the last unit is not counted.                *)
LEMMA WithUnitsFollows ==
  ASSUME TypeInv, Tables, NEW j \in Jobs, NEW done \in Nat, NEW attempt,
         \A u \in units[j] : u.from < u.to,
         Follow(j), ~Total(j), \A c \in checkpoints[j] : c.committed <= done,
         units' = WithUnits(j, done, attempt)
  PROVE  /\ \A u \in units'[j] : u.from < u.to /\ u.to <= done
         /\ \A u \in units'[j] : u.from = 0 \/ \E v \in units'[j] : v.to = u.from
         /\ \A u, v \in units'[j] : u.to <= v.from \/ v.to <= u.from \/ u = v
         /\ done = 0 \/ \E u \in units'[j] : u.to = done
<1> DEFINE p == Committed(j)
           new == [from |-> p, to |-> done, attempt |-> attempt]
<1>1. /\ checkpoints[j] \subseteq Stored /\ units[j] \subseteq Worked /\ Within(j)
      /\ Units[j] \in Nat \ {0}
  BY ComputeAssumption DEF TypeInv, Tables
<1>2. /\ p \in Nat /\ \A c \in checkpoints[j] : c.committed <= p
      /\ p = 0 \/ \E c \in checkpoints[j] : c.committed = p
  BY <1>1, CommittedIsMost
<1>3. p <= done
  BY <1>2
<1>4. ASSUME NEW u \in units[j] PROVE u.to \in Nat /\ u.from \in Nat /\ u.to <= p
  <2>1. u.to \in Nat /\ u.from \in Nat
    BY <1>1 DEF Worked
  <2>2. PICK c \in checkpoints[j] : u.to <= c.committed
    BY DEF Follow, Total
  <2>3. c.committed \in Nat /\ c.committed <= p
    BY <1>1, <1>2 DEF Stored
  <2>. QED
    BY <1>2, <2>1, <2>2, <2>3
<1>5. p = 0 \/ \E u \in units[j] : u.to = p
  BY <1>2 DEF Follow
<1>6. CASE done = p
  <2>1. units' = units
    BY <1>2, <1>6 DEF WithUnits
  <2>. QED
    BY <1>4, <1>5, <1>6, <2>1 DEF Follow
<1>7. CASE done # p
  <2>1. done > p
    BY <1>2, <1>3, <1>7
  <2>2. \A u \in units[j] : u.from # p
    BY <1>2, <1>4
  <2>3. units' = [units EXCEPT ![j] = @ \cup {new}]
    BY <2>1, <2>2 DEF WithUnits
  <2>4. new.from = p /\ new.to = done
    OBVIOUS
  <2>. HIDE DEF new, p
  <2>5. units'[j] = units[j] \cup {new}
    BY <2>3 DEF TypeInv
  <2>6. \A u \in units'[j] : u.from < u.to /\ u.to <= done
    BY <1>2, <1>4, <2>1, <2>4, <2>5
  <2>7. \A u \in units'[j] : u.from = 0 \/ \E v \in units'[j] : v.to = u.from
    BY <1>5, <2>4, <2>5 DEF Follow
  <2>8. \A u, v \in units'[j] : u.to <= v.from \/ v.to <= u.from \/ u = v
    BY <1>4, <2>4, <2>5 DEF Follow
  <2>9. \E u \in units'[j] : u.to = done
    BY <2>4, <2>5
  <2>. QED
    BY <2>6, <2>7, <2>8, <2>9
<1>. QED
  BY <1>6, <1>7

(* An attempt that is cut short stays so: claims only grow.                 *)
LEMMA CutShortStays ==
  ASSUME Inv, NEW j \in Jobs, units[j] \subseteq units'[j],
         job[j].generation <= job'[j].generation, job'[j].generation \in Nat, CutShort(j)
  PROVE  CutShort(j)'
<1>1. PICK u \in units[j] : u.to = Units[j] /\ u.attempt # job[j].generation
  BY DEF CutShort
<1>2. u.attempt \in 1..job[j].generation /\ job[j].generation \in Nat
  BY DEF Inv, Tables, Within, TypeInv, JobRow
<1>3. u.attempt # job'[j].generation
  BY <1>1, <1>2
<1>. QED
  BY <1>1, <1>3 DEF CutShort

LEMMA CoversOn ==
  ASSUME NEW v \in Agents, NEW d, Covers(v, d),
         d.at \in Busy /\ Holds(v, d)' => Holds(v, d) /\ units'[d.job] = units[d.job]
  PROVE  Covers(v, d)'
<1>1. ASSUME d.at \in Busy, Holds(v, d)'
      PROVE  units'[d.job] = units[d.job] /\ job'[d.job].generation = job[d.job].generation
  BY <1>1 DEF Holds
<1>2. d.at \in Attempting /\ Holds(v, d)' =>
        \A u \in units'[d.job] : u.to = Units[d.job] => u.attempt # d.generation
  BY <1>1 DEF Covers, Busy
<1>3. d.at = "finishing" /\ d.result = "ok" /\ Holds(v, d)' /\ ~CutShort(d.job)' => Total(d.job)'
  BY <1>1 DEF Covers, Busy, CutShort, Total
<1>. QED
  BY <1>2, <1>3 DEF Covers

(* A step leaves agent v alone, and the units of v's job, while it holds    *)
(* the lease.                                                               *)
SparesUnits(v) ==
  /\ doing'[v] = doing[v]
  /\ doing[v].at \in Busy /\ Holds(v, doing[v])' =>
       Holds(v, doing[v]) /\ units'[doing[v].job] = units[doing[v].job]

LEMMA UnitsSpared ==
  ASSUME UInv, NEW v \in Agents, SparesUnits(v)
  PROVE  Covers(v, doing[v])'
<1>1. PICK e : e = doing[v]
  OBVIOUS
<1>2. doing'[v] = e
  BY <1>1 DEF SparesUnits
<1>3. Covers(v, e)
  BY <1>1 DEF UInv
<1>4. e.at \in Busy /\ Holds(v, e)' => Holds(v, e) /\ units'[e.job] = units[e.job]
  BY <1>1, <1>2 DEF Holds, SparesUnits
<1>5. Covers(v, e)'
  BY <1>3, <1>4, CoversOn
<1>. QED
  BY <1>2, <1>5 DEF Covers, Holds

(* A step that inserts nothing, and by which agent w comes to be doing d.   *)
LEMMA NothingInserted ==
  ASSUME Inv, UInv, UNCHANGED <<checkpoints, units>>,
         \A i \in Jobs : /\ job[i].generation <= job'[i].generation /\ job'[i].generation \in Nat
                         /\ job'[i].state = "succeeded" =>
                              job[i].state = "succeeded" \/ CutShort(i) \/ Total(i),
         NEW w \in Agents, NEW d, doing'[w] = d, Covers(w, d)',
         \A v \in Agents \ {w} : SparesUnits(v)
  PROVE  UInv'
<1>1. ASSUME NEW i \in Jobs, ~CutShort(i)' PROVE Follow(i)'
  <2>1. ~CutShort(i)
    BY <1>1, CutShortStays
  <2>. QED
    BY <2>1 DEF UInv, Follow, Total
<1>2. Covers(w, doing[w])'
  BY DEF Covers, Holds
<1>3. \A v \in Agents \ {w} : Covers(v, doing[v])'
  BY UnitsSpared
<1>. QED
  BY <1>1, <1>2, <1>3 DEF UInv

(* A step that only changes what w is doing, to d.                          *)
LEMMA DoesNext ==
  ASSUME Inv, UInv, UNCHANGED <<job, checkpoints, units>>,
         NEW w \in Agents, NEW d, doing' = [doing EXCEPT ![w] = d], Covers(w, d)
  PROVE  UInv'
<1>1. doing'[w] = d /\ \A v \in Agents \ {w} : doing'[v] = doing[v]
  BY DEF Inv, TypeInv
<1>2. Covers(w, d)'
  BY DEF Covers, Holds, CutShort, Total
<1>3. \A v \in Agents \ {w} : SparesUnits(v)
  BY <1>1 DEF SparesUnits, Holds
<1>4. \A i \in Jobs : job[i].generation \in Nat /\ job[i].generation <= job'[i].generation
  BY DEF Inv, TypeInv, JobRow
<1>. QED
  BY <1>1, <1>2, <1>3, <1>4, NothingInserted

LEMMA TriesOn ==
  ASSUME UInv, NEW w \in Agents, doing[w].at \in Attempting,
         NEW d, d.at \in Attempting, d.job = doing[w].job, d.generation = doing[w].generation
  PROVE  Covers(w, d)
<1>1. d.at # "finishing"
  BY DEF Attempting, Child
<1>. QED
  BY <1>1 DEF UInv, Covers, Holds

LEMMA EndsCovers ==
  ASSUME NEW w \in Agents, NEW result, result # "ok"
  PROVE  Covers(w, Ends(w, result))
BY DEF Ends, Covers, Attempting, Child

LEMMA LeaveCovers ==
  ASSUME NEW w \in Agents
  PROVE  Covers(w, Leave(w)) /\ Covers(w, Idle)
BY DEF Leave, Idle, Covers, Attempting, Child

LEMMA StartKeepsUnits ==
  ASSUME Inv, UInv, NEW w \in Agents, Start(w)
  PROVE  UInv'
<1>1. ASSUME NEW c, Starts(w, c) PROVE UInv'
  <2> DEFINE d == [doing[w] EXCEPT !.at = "computing", !.ckpt = c.generation, !.done = c.committed]
  <2>1. doing[w] \in Trying /\ doing[w].at \in Attempting /\ "computing" \in Attempting
    BY Doing DEF Inv, Start, Attempting, Child
  <2>2. d.at = "computing" /\ d.job = doing[w].job /\ d.generation = doing[w].generation
    BY <2>1 DEF Trying
  <2>3. doing' = [doing EXCEPT ![w] = d] /\ UNCHANGED <<job, checkpoints, units>>
    BY <1>1 DEF Starts, Inv, TypeInv
  <2>. HIDE DEF d
  <2>. QED
    BY <2>1, <2>2, <2>3, TriesOn, DoesNext
<1>. QED
  BY <1>1 DEF Start

LEMMA CheckpointKeepsUnits ==
  ASSUME Inv, UInv, NEW w \in Agents, Checkpoint(w)
  PROVE  UInv'
<1>1. PICK told \in {"none"} \cup {Heard(Of(w))}, done \in doing[w].done .. Units[Of(w)] - 1 :
        doing' = [doing EXCEPT ![w].at = "checkpointing", ![w].done = done, ![w].told = told]
  BY ZenonT(30) DEF Checkpoint
<1> DEFINE d == [doing[w] EXCEPT !.at = "checkpointing", !.done = done, !.told = told]
<1>2. doing[w] \in Trying /\ doing[w].at \in Attempting /\ "checkpointing" \in Attempting
  BY Doing DEF Inv, Checkpoint, Attempting, Child
<1>3. d.at = "checkpointing" /\ d.job = doing[w].job /\ d.generation = doing[w].generation
  BY <1>2 DEF Trying
<1>4. doing' = [doing EXCEPT ![w] = d]
  BY <1>1 DEF Inv, TypeInv
<1>5. UNCHANGED <<job, checkpoints, units>>
  BY DEF Checkpoint
<1>. HIDE DEF d
<1>. QED
  BY <1>2, <1>3, <1>4, <1>5, TriesOn, DoesNext

LEMMA CheckpointRejectedKeepsUnits ==
  ASSUME Inv, UInv, NEW w \in Agents, CheckpointRejected(w)
  PROVE  UInv'
<1>2. PICK next \in {Idle, Ends(w, "paused"), Ends(w, "CANCELLED")} : doing' = [doing EXCEPT ![w] = next]
  BY DEF CheckpointRejected, Answered
<1>3. Covers(w, next)
  BY EndsCovers, LeaveCovers
<1>4. UNCHANGED <<job, checkpoints, units>>
  BY DEF CheckpointRejected
<1>. QED
  BY <1>2, <1>3, <1>4, DoesNext

LEMMA MovesKeepUnits ==
  ASSUME Inv, UInv, NEW w \in Agents, RenewRefused(w) \/ Fail(w) \/ Release(w) \/ Crash(w)
  PROVE  UInv'
<1>1. UNCHANGED <<job, checkpoints, units>>
  BY DEF RenewRefused, Fail, Release, Crash
<1>2. CASE Fail(w)
  <2>1. PICK e \in {"COMPUTATION_ERROR", "FINAL"} : doing' = [doing EXCEPT ![w] = Ends(w, e)]
    BY <1>2 DEF Fail
  <2>. QED
    BY <1>1, <2>1, EndsCovers, DoesNext
<1>3. CASE RenewRefused(w) \/ Release(w) \/ Crash(w)
  BY <1>1, <1>3, LeaveCovers, DoesNext DEF RenewRefused, Release, Crash
<1>. QED
  BY <1>2, <1>3

(* The holder of the lease publishes a checkpoint and what it covers.       *)
LEMMA PublishCheckpointKeepsUnits ==
  ASSUME Inv, UInv, NEW w \in Agents, PublishCheckpoint(w)
  PROVE  UInv'
<1>1. doing[w] \in Trying /\ doing[w].at = "checkpointing" /\ doing[w].at \in Attempting
  BY Doing DEF Inv, PublishCheckpoint, Attempting, Child
<1>j. PICK j \in Jobs : j = Of(w)
  BY <1>1 DEF Trying, Of
<1> DEFINE new == [generation |-> doing[w].ckpt + 1, committed |-> doing[w].done,
                   attempt |-> doing[w].generation]
           next == Answered(w, Ack(w))
<1>2. /\ checkpoints' = [checkpoints EXCEPT ![j] = @ \cup {new}]
      /\ units' = WithUnits(j, doing[w].done, doing[w].generation)
      /\ doing' = [doing EXCEPT ![w] = next]
      /\ UNCHANGED <<job, run>>
  BY <1>j DEF PublishCheckpoint, Of
<1>3. /\ Fence(w) /\ Holds(w, doing[w])
      /\ doing[w].generation = job[j].generation /\ job[j].state = "running"
      /\ \A c \in checkpoints[j] : c.generation # doing[w].ckpt + 1
  BY <1>j DEF PublishCheckpoint, Fence, Holds, Numbered, Of
<1>4. Behind(doing[w]) /\ doing[w].done < Units[j] /\ doing[w].done \in Nat /\ Units[j] \in Nat
  BY <1>j, <1>1, <1>3, ComputeAssumption DEF Inv, Carries, Child, NumberTaken, Of, Trying
<1>5. /\ \A i \in Jobs \ {j} : units'[i] = units[i]
      /\ units[j] \subseteq units'[j]
      /\ \A u \in units'[j] : u \in units[j] \/ (u.to = doing[w].done /\ u.attempt = doing[w].generation
                                                /\ u.from < u.to)
  BY <1>1, <1>2, <1>4, WithUnitsAdds DEF Inv
<1>6. /\ checkpoints'[j] = checkpoints[j] \cup {new}
      /\ \A i \in Jobs \ {j} : checkpoints'[i] = checkpoints[i]
      /\ new.committed = doing[w].done
  <2>. HIDE DEF new
  <2>1. checkpoints'[j] = checkpoints[j] \cup {new} /\ \A i \in Jobs \ {j} : checkpoints'[i] = checkpoints[i]
    BY <1>1, <1>2 DEF Inv, TypeInv
  <2>. QED
    BY <2>1 DEF new
<1>7. \A u \in units[j] : u.to = Units[j] => u.attempt # doing[w].generation
  BY <1>j, <1>1, <1>3 DEF UInv, Covers, Of
<1>8. ASSUME NEW i \in Jobs \ {j}
      PROVE  (\A u \in units'[i] : u.from < u.to) /\ (~CutShort(i)' => Follow(i)')
  BY <1>2, <1>5, <1>6 DEF UInv, Follow, CutShort, Total
<1>9. (\A u \in units'[j] : u.from < u.to) /\ (~CutShort(j)' => Follow(j)')
  <2>1. \A u \in units'[j] : u.from < u.to
    BY <1>1, <1>5 DEF UInv
  <2>2. ASSUME ~CutShort(j)' PROVE Follow(j)'
    <3>1. ~CutShort(j)
      BY <1>2, <1>5, <2>2 DEF CutShort
    <3>2. Follow(j) /\ ~Total(j)
      BY <1>1, <1>3, <1>7, <3>1 DEF UInv, CutShort, Total
    <3>3. \A c \in checkpoints[j] : c.committed <= doing[w].done
      BY <1>j, <1>4 DEF Behind, Of
    <3>4. /\ \A u \in units'[j] : u.from < u.to /\ u.to <= doing[w].done
          /\ \A u \in units'[j] : u.from = 0 \/ \E v \in units'[j] : v.to = u.from
          /\ \A u, v \in units'[j] : u.to <= v.from \/ v.to <= u.from \/ u = v
          /\ doing[w].done = 0 \/ \E u \in units'[j] : u.to = doing[w].done
      BY <1>1, <1>2, <1>4, <3>2, <3>3, WithUnitsFollows DEF Inv, UInv
    <3>5. \A u \in units'[j] : \E c \in checkpoints'[j] : u.to <= c.committed
      BY <1>6, <3>4
    <3>6. \A c \in checkpoints'[j] : c.committed = 0 \/ \E u \in units'[j] : u.to = c.committed
      BY <1>5, <1>6, <3>2, <3>4 DEF Follow
    <3>. QED
      BY <1>2, <1>3, <3>4, <3>5, <3>6 DEF Follow
  <2>. QED
    BY <2>1, <2>2
<1>10. PICK d : d = next
  OBVIOUS
<1>11. Covers(w, d)'
  <2>1. CASE Ack(w) = "none"
    <3>1. d.at = "computing" /\ d.job = j /\ d.generation = doing[w].generation
      BY <1>j, <1>1, <1>10, <2>1 DEF Answered, Trying, Of
    <3>2. \A u \in units'[j] : u.to = Units[j] => u.attempt # doing[w].generation
      BY <1>4, <1>5, <1>7
    <3>. HIDE DEF next
    <3>. QED
      BY <3>1, <3>2 DEF Covers
  <2>2. CASE Ack(w) # "none"
    <3>1. d = Ends(w, IF Ack(w) = "pause" THEN "paused" ELSE "CANCELLED")
      BY <1>10, <2>2 DEF Answered
    <3>2. d.at = "finishing" /\ d.result # "ok"
      BY <3>1 DEF Ends
    <3>. QED
      BY <3>2 DEF Covers, Attempting, Child
  <2>. QED
    BY <2>1, <2>2
<1>12. doing'[w] = d /\ \A v \in Agents \ {w} : doing'[v] = doing[v]
  <2>. HIDE DEF next
  <2>. QED
    BY <1>2, <1>10 DEF Inv, TypeInv
<1>13. ASSUME NEW v \in Agents \ {w} PROVE SparesUnits(v)
  <2>1. doing[v].at \in Busy => doing[v].job \in Jobs
    BY Doing DEF Inv, Busy, Trying, Ending
  <2>2. Holds(v, doing[v])' => Holds(v, doing[v])
    BY <1>2, <1>12 DEF Holds
  <2>3. Holds(v, doing[v]) => doing[v].job # j
    BY <1>j, <1>3, OneHolder
  <2>. QED
    BY <1>5, <1>12, <2>1, <2>2, <2>3 DEF SparesUnits
<1>14. Covers(w, doing[w])'
  BY <1>11, <1>12 DEF Covers, Holds
<1>. HIDE DEF next, new
<1>. QED
  BY <1>1, <1>8, <1>9, <1>13, <1>14, UnitsSpared DEF UInv

(* The holder of the lease stores its output: the last range ends at the    *)
(* total.                                                                   *)
LEMMA VerifyKeepsUnits ==
  ASSUME Inv, UInv, NEW w \in Agents, Verify(w)
  PROVE  UInv'
<1>1. doing[w] \in Trying /\ doing[w].at = "computing" /\ doing[w].at \in Attempting
  BY Doing DEF Inv, Verify, Attempting, Child
<1>j. PICK j \in Jobs : j = Of(w)
  BY <1>1 DEF Trying, Of
<1>2. CASE ~Fence(w)
  BY <1>2, LeaveCovers, DoesNext DEF Verify
<1>3. CASE Fence(w)
  <2>1. PICK verdict \in {"ok", "FINAL"} : doing' = [doing EXCEPT ![w] = Ends(w, verdict)]
    BY <1>3 DEF Verify
  <2>2. /\ units' = WithUnits(j, Units[j], doing[w].generation)
        /\ UNCHANGED <<job, checkpoints>>
    BY <1>j, <1>3 DEF Verify
  <2>3. /\ Holds(w, doing[w]) /\ doing[w].generation = job[j].generation /\ job[j].state = "running"
        /\ Units[j] \in Nat \ {0}
    BY <1>j, <1>1, <1>3, ComputeAssumption DEF Fence, Holds, Of
  <2>4. /\ \A i \in Jobs \ {j} : units'[i] = units[i]
        /\ units[j] \subseteq units'[j]
        /\ \A u \in units'[j] : u \in units[j] \/ (u.to = Units[j] /\ u.attempt = doing[w].generation
                                                  /\ u.from < u.to)
    BY <1>1, <2>2, <2>3, WithUnitsAdds DEF Inv
  <2>5. \A u \in units[j] : u.to = Units[j] => u.attempt # doing[w].generation
    BY <1>j, <1>1, <2>3 DEF UInv, Covers, Of
  <2>6. ASSUME NEW i \in Jobs \ {j}
        PROVE  (\A u \in units'[i] : u.from < u.to) /\ (~CutShort(i)' => Follow(i)')
    BY <2>2, <2>4 DEF UInv, Follow, CutShort, Total
  <2>7. \A u \in units'[j] : u.from < u.to
    BY <1>1, <2>4 DEF UInv
  <2>8. ASSUME ~CutShort(j)' PROVE Follow(j)' /\ Total(j)'
    <3>1. ~CutShort(j)
      BY <2>2, <2>4, <2>8 DEF CutShort
    <3>2. Follow(j) /\ ~Total(j)
      BY <1>1, <2>3, <2>5, <3>1 DEF UInv, CutShort, Total
    <3>3. \A c \in checkpoints[j] : c.committed <= Units[j]
      BY <1>1, <2>3 DEF Inv, Tables, Within, TypeInv, Stored
    <3>4. /\ \A u \in units'[j] : u.from = 0 \/ \E v \in units'[j] : v.to = u.from
          /\ \A u, v \in units'[j] : u.to <= v.from \/ v.to <= u.from \/ u = v
          /\ \E u \in units'[j] : u.to = Units[j]
      BY <1>1, <2>2, <2>3, <3>2, <3>3, WithUnitsFollows DEF Inv, UInv
    <3>. QED
      BY <2>2, <2>4, <3>2, <3>4 DEF Follow, Total
  <2>9. PICK d : d = Ends(w, verdict)
    OBVIOUS
  <2>10. d.at = "finishing" /\ d.job = j /\ doing'[w] = d /\ \A v \in Agents \ {w} : doing'[v] = doing[v]
    <3>1. d.at = "finishing" /\ d.job = j
      BY <1>j, <2>9 DEF Ends
    <3>. QED
      BY <2>1, <2>9, <3>1 DEF Inv, TypeInv
  <2>11. Covers(w, d)'
    BY <2>8, <2>10 DEF Covers, Attempting, Child
  <2>12. ASSUME NEW v \in Agents \ {w} PROVE SparesUnits(v)
    <3>1. doing[v].at \in Busy => doing[v].job \in Jobs
      BY Doing DEF Inv, Busy, Trying, Ending
    <3>2. Holds(v, doing[v])' => Holds(v, doing[v])
      BY <2>2, <2>10 DEF Holds
    <3>3. Holds(v, doing[v]) => doing[v].job # j
      BY <1>j, <1>3, OneHolder
    <3>. QED
      BY <2>4, <2>10, <3>1, <3>2, <3>3 DEF SparesUnits
  <2>13. Covers(w, doing[w])'
    BY <2>10, <2>11 DEF Covers, Holds
  <2>. QED
    BY <1>1, <2>6, <2>7, <2>8, <2>12, <2>13, UnitsSpared DEF UInv
<1>. QED
  BY <1>2, <1>3

LEMMA FinishKeepsUnits ==
  ASSUME Inv, UInv, NEW w \in Agents, Finish(w)
  PROVE  UInv'
<1>1. doing[w] \in Ending /\ doing[w].at = "finishing" /\ doing[w].at \in Busy
  BY Doing DEF Inv, Finish, Busy
<1>j. PICK j \in Jobs : j = Of(w)
  BY <1>1 DEF Ending, Of
<1>2. CASE ~Fence(w)
  BY <1>2, LeaveCovers, DoesNext DEF Finish
<1>3. CASE Fence(w)
  <2> DEFINE row == Finished(job[j], doing[w].generation, doing[w].result)
  <2>1. /\ job' = [job EXCEPT ![j] = row]
        /\ doing' = [doing EXCEPT ![w] = Leave(w)]
        /\ UNCHANGED <<checkpoints, units>>
    BY <1>j, <1>3 DEF Finish
  <2>2. job[j] \in JobRow /\ ~job[j].hold
    BY <1>j, <1>3 DEF Inv, TypeInv, Fence, Ended
  <2>3. /\ row.state # "running" /\ row.generation = job[j].generation
        /\ row.state = "succeeded" => doing[w].result = "ok"
    BY <1>1, <2>2, FinishedRow DEF Ending
  <2>4. job'[j] = row /\ \A i \in Jobs \ {j} : job'[i] = job[i]
    <3>. HIDE DEF row
    <3>. QED
      BY <2>1 DEF Inv, TypeInv
  <2>5. doing[w].result = "ok" => CutShort(j) \/ Total(j)
    BY <1>1, <1>j, <1>3 DEF UInv, Covers, Fence, Holds, Of
  <2>. HIDE DEF row
  <2>6. ASSUME NEW i \in Jobs
        PROVE  /\ job[i].generation <= job'[i].generation /\ job'[i].generation \in Nat
               /\ job'[i].state = "succeeded" => job[i].state = "succeeded" \/ CutShort(i) \/ Total(i)
    <3>1. job[i].generation \in Nat /\ job'[i].generation = job[i].generation
      BY <2>3, <2>4 DEF Inv, TypeInv, JobRow
    <3>. QED
      BY <2>3, <2>4, <2>5, <3>1
  <2>7. PICK d : d = Leave(w)
    OBVIOUS
  <2>8. doing'[w] = d /\ \A v \in Agents \ {w} : doing'[v] = doing[v]
    BY <2>1, <2>7 DEF Inv, TypeInv
  <2>9. Covers(w, d)'
    BY <2>7 DEF Leave, Idle, Covers, Attempting, Child
  <2>10. ASSUME NEW v \in Agents \ {w} PROVE SparesUnits(v)
    <3>1. doing[v].at \in Busy => doing[v].job \in Jobs
      BY Doing DEF Inv, Busy, Trying, Ending
    <3>. QED
      BY <2>1, <2>3, <2>4, <2>8, <3>1 DEF SparesUnits, Holds
  <2>. QED
    BY <2>1, <2>6, <2>8, <2>9, <2>10, NothingInserted
<1>. QED
  BY <1>2, <1>3

(* What a claim does to the rows and the agents: it gives one job j to w    *)
(* under a new generation, or nothing to anybody.                           *)
Given(w, j) ==
  /\ job'[j].generation = job[j].generation + 1
  /\ job'[j].state = "running" /\ job'[j].owner = w
  /\ job'[j].cancel = job[j].cancel /\ job'[j].evidence = job[j].evidence
  /\ doing'[w] = Attempt(j, job[j].generation + 1)
Stays(i) ==
  /\ job'[i].generation = job[i].generation
  /\ job'[i].state = job[i].state /\ job'[i].owner = job[i].owner
  /\ job'[i].cancel = job[i].cancel /\ job'[i].evidence = job[i].evidence

(* A claim takes a job that waits or, its lease run out, still runs.        *)
MayTake(j) ==
  /\ job[j].state \in {"queued", "running"}
  /\ job[j].cancel => job[j].state = "running"

LEMMA TakesGives ==
  ASSUME TypeInv, NEW w \in Agents, NEW j \in Jobs, NEW J \in [Jobs -> JobRow],
         \A i \in Jobs : /\ J[i].generation = job[i].generation
                         /\ J[i].owner = job[i].owner /\ J[i].state = job[i].state
                         /\ J[i].cancel = job[i].cancel /\ J[i].evidence = job[i].evidence,
         Takes(w, j, J)
  PROVE  /\ UNCHANGED <<checkpoints, units>>
         /\ \A v \in Agents \ {w} : doing'[v] = doing[v]
         /\ Given(w, j) /\ \A i \in Jobs \ {j} : Stays(i)
<1> DEFINE row == Leased(J[j], w)
<1>1. /\ job' = [J EXCEPT ![j] = row] /\ doing' = [doing EXCEPT ![w] = Attempt(j, J[j].generation + 1)]
      /\ UNCHANGED <<checkpoints, units>>
  BY DEF Takes
<1>2. /\ row.state = "running" /\ row.owner = w /\ row.generation = J[j].generation + 1
      /\ row.cancel = J[j].cancel /\ row.evidence = J[j].evidence
  <2>1. J[j] \in JobRow
    OBVIOUS
  <2>. QED
    BY <2>1 DEF Leased, JobRow
<1>. HIDE DEF row
<1>3. job'[j] = row /\ \A i \in Jobs \ {j} : job'[i] = J[i]
  BY <1>1
<1>4. doing'[w] = Attempt(j, job[j].generation + 1) /\ \A v \in Agents \ {w} : doing'[v] = doing[v]
  BY <1>1 DEF TypeInv
<1>. QED
  BY <1>1, <1>2, <1>3, <1>4 DEF Given, Stays

LEMMA ClaimGives ==
  ASSUME TypeInv, NEW w \in Agents, Claim(w)
  PROVE  /\ UNCHANGED <<checkpoints, units>>
         /\ \A i \in Jobs : run'[i].output = run[i].output
         /\ \A v \in Agents \ {w} : doing'[v] = doing[v]
         /\ \/ \E j \in Jobs : MayTake(j) /\ Given(w, j) /\ \A i \in Jobs \ {j} : Stays(i)
            \/ doing'[w] = Idle /\ \A i \in Jobs : Stays(i)
<1>1. PICK X \in SUBSET Jobs :
        \/ w \in Workers /\ (ClaimQueued(w, X) \/ ClaimAbandoned(w, X) \/ ClaimNothing(X))
        \/ w \in Nodes /\ NodeClaim(w, X)
  BY DEF Claim
<1>2. Local \subseteq Jobs /\ Remote \subseteq Jobs
  BY ComputeAssumption
<1>3. /\ Unheld(X) \in [Jobs -> JobRow]
      /\ \A i \in Jobs : /\ Unheld(X)[i].generation = job[i].generation
                         /\ Unheld(X)[i].owner = job[i].owner
                         /\ Unheld(X)[i].state = job[i].state
                         /\ Unheld(X)[i].cancel = job[i].cancel
                         /\ Unheld(X)[i].evidence = job[i].evidence
  BY UnheldRows
<1>4. CASE ClaimQueued(w, X) \/ ClaimAbandoned(w, X)
  <2>1. PICK j \in Jobs : Takes(w, j, Unheld(X)) /\ MayTake(j)
    BY <1>2, <1>3, <1>4 DEF ClaimQueued, Claimable, ClaimAbandoned, Recoverable, Abandoned, MayTake
  <2>2. run' = Resumed(X) \/ \E A \in Asks(X) : run' = Asked(A, X)
    BY <1>4 DEF ClaimQueued, ClaimAbandoned
  <2>. QED
    BY <1>3, <2>1, <2>2, TakesGives, RunRows
<1>5. CASE ClaimNothing(X)
  <2>1. job' = Unheld(X) /\ UNCHANGED <<checkpoints, units, doing>> /\ doing[w] = Idle
    BY <1>5 DEF ClaimNothing, Claim
  <2>2. \E A \in Asks(X) : run' = Asked(A, X)
    BY <1>5 DEF ClaimNothing
  <2>. QED
    BY <1>3, <2>1, <2>2, RunRows DEF Stays
<1>6. CASE NodeClaim(w, X)
  <2>1. PICK j \in Jobs : Takes(w, j, job) /\ MayTake(j) /\ UNCHANGED run
    BY <1>2, <1>6 DEF NodeClaim, Abandoned, Waiting, MayTake
  <2>. QED
    BY <2>1, TakesGives DEF TypeInv
<1>. QED
  BY <1>1, <1>4, <1>5, <1>6

LEMMA ClaimKeepsUnits ==
  ASSUME Inv, UInv, NEW w \in Agents, Claim(w)
  PROVE  UInv'
<1>1. /\ UNCHANGED <<checkpoints, units>>
      /\ \A v \in Agents \ {w} : doing'[v] = doing[v]
      /\ \/ \E j \in Jobs : Given(w, j) /\ \A i \in Jobs \ {j} : Stays(i)
         \/ doing'[w] = Idle /\ \A i \in Jobs : Stays(i)
  BY ClaimGives DEF Inv
<1>2. \A i \in Jobs : job[i].generation \in Nat
  BY DEF Inv, TypeInv, JobRow
<1>3. \A v \in Agents \ {w} : doing[v].at \in Busy => doing[v].job \in Jobs
  BY Doing DEF Inv, Busy, Trying, Ending
<1>4. ASSUME NEW j \in Jobs, Given(w, j), \A i \in Jobs \ {j} : Stays(i) PROVE UInv'
  <2>1. PICK d : d = Attempt(j, job[j].generation + 1)
    OBVIOUS
  <2>2. d.at = "claimed" /\ d.job = j /\ d.generation = job[j].generation + 1
    BY <2>1 DEF Attempt
  <2>3. \A u \in units[j] : u.attempt # job[j].generation + 1
    BY <1>2 DEF Inv, Tables, Within
  <2>4. Covers(w, d)'
    BY <1>1, <2>2, <2>3 DEF Covers
  <2>5. \A v \in Agents \ {w} : SparesUnits(v)
    BY <1>1, <1>3, <1>4 DEF SparesUnits, Given, Stays, Holds
  <2>6. \A i \in Jobs : /\ job[i].generation <= job'[i].generation /\ job'[i].generation \in Nat
                        /\ job'[i].state = "succeeded" => job[i].state = "succeeded"
    BY <1>2, <1>4 DEF Given, Stays
  <2>. QED
    BY <1>1, <1>4, <2>1, <2>4, <2>5, <2>6, NothingInserted DEF Given
<1>5. ASSUME doing'[w] = Idle, \A i \in Jobs : Stays(i) PROVE UInv'
  <2>1. Covers(w, Idle)'
    BY DEF Idle, Covers, Attempting, Child
  <2>2. \A v \in Agents \ {w} : SparesUnits(v)
    BY <1>1, <1>3, <1>5 DEF SparesUnits, Stays, Holds
  <2>3. \A i \in Jobs : /\ job[i].generation <= job'[i].generation /\ job'[i].generation \in Nat
                        /\ job'[i].state = "succeeded" => job[i].state = "succeeded"
    BY <1>2, <1>5 DEF Stays
  <2>. QED
    BY <1>1, <1>5, <2>1, <2>2, <2>3, NothingInserted
<1>. QED
  BY <1>1, <1>4, <1>5

(* Steps of the owner and the clean stop of a worker: nobody's doing        *)
(* changes, and a job ends only from the queue.                             *)
LEMMA OthersKeepUnits ==
  ASSUME Inv, UInv,
         \/ \E w \in Workers : Offline(w)
         \/ \E j \in Jobs : Pause(j) \/ Resume(j) \/ Cancel(j)
  PROVE  UInv'
<1>1. UNCHANGED <<checkpoints, units, doing>>
  BY DEF Offline, Pause, Resume, Cancel
<1>2. \A i \in Jobs : /\ job'[i].generation = job[i].generation /\ job[i].generation \in Nat
                      /\ job'[i].owner = job[i].owner
                      /\ job'[i].state = "running" => job[i].state = "running"
                      /\ job'[i].state = "succeeded" => job[i].state = "succeeded"
  <2>1. \A i \in Jobs : job[i] \in JobRow
    BY DEF Inv, TypeInv
  <2>2. ASSUME NEW j \in Jobs, Cancel(j)
        PROVE  \A i \in Jobs : /\ job'[i].generation = job[i].generation
                               /\ job'[i].owner = job[i].owner
                               /\ job'[i].state \in {job[i].state, "cancelled"}
    BY <2>1, <2>2 DEF Cancel, Inv, TypeInv, JobRow
  <2>3. ASSUME NEW j \in Jobs, Resume(j)
        PROVE  \A i \in Jobs : /\ job'[i].generation = job[i].generation
                               /\ job'[i].owner = job[i].owner
                               /\ job'[i].state \in {job[i].state, "cancelled"}
    BY <2>1, <2>3 DEF Resume, Inv, TypeInv, JobRow
  <2>4. CASE UNCHANGED job
    BY <2>1, <2>4 DEF JobRow
  <2>5. \A i \in Jobs : job[i].generation \in Nat
    BY <2>1 DEF JobRow
  <2>6. CASE \E j \in Jobs : Cancel(j)
    BY <2>2, <2>5, <2>6
  <2>7. CASE \E j \in Jobs : Resume(j)
    BY <2>3, <2>5, <2>7
  <2>. QED
    BY <2>4, <2>6, <2>7 DEF Offline, Pause
<1>3. ASSUME NEW v \in Agents PROVE SparesUnits(v)
  <2>1. doing[v].at \in Busy => doing[v].job \in Jobs
    BY Doing DEF Inv, Busy, Trying, Ending
  <2>. QED
    BY <1>1, <1>2, <2>1 DEF SparesUnits, Holds
<1>4. ASSUME NEW i \in Jobs, ~CutShort(i)' PROVE Follow(i)'
  <2>1. ~CutShort(i)
    BY <1>1, <1>2, <1>4 DEF CutShort
  <2>. QED
    BY <1>1, <1>2, <2>1 DEF UInv, Follow, Total
<1>. QED
  BY <1>1, <1>3, <1>4, UnitsSpared DEF UInv

(* The ranges that the attempts of a job count follow one another from 0    *)
(* and never overlap, and reach the total once it succeeded, through every  *)
(* pause, retry, recovery and change of machine: unless an attempt died     *)
(* between storing its output and finishing the job.                        *)
THEOREM UnitsFollowOn == Spec => []UnitsContiguous
<1>1. Init => UInv
  BY DEF Init, UInv, CutShort, Follow, Covers, Idle, Attempting, Child
<1>2. Inv /\ UInv /\ [Next]_vars => UInv'
  <2>. SUFFICES ASSUME Inv, UInv, [Next]_vars PROVE UInv'
    OBVIOUS
  <2>1. ASSUME NEW w \in Agents, Claim(w) \/ Work(w) \/ Crash(w) PROVE UInv'
    BY <2>1, ClaimKeepsUnits, StartKeepsUnits, CheckpointKeepsUnits, CheckpointRejectedKeepsUnits,
       MovesKeepUnits, PublishCheckpointKeepsUnits, VerifyKeepsUnits, FinishKeepsUnits DEF Work
  <2>2. CASE UNCHANGED vars
    BY <2>2 DEF vars, UInv, CutShort, Follow, Total, Covers, Holds
  <2>3. Pausable \subseteq Jobs /\ Cancellable \subseteq Jobs
    BY ComputeAssumption
  <2>. QED
    BY <2>1, <2>2, <2>3, OthersKeepUnits DEF Next
<1>3. UInv => UnitsContiguous
  BY DEF UInv, Follow, Total, UnitsContiguous
<1>. QED
  BY <1>1, <1>2, <1>3, Invariance, PTL DEF Spec

-----------------------------------------------------------------------------
(* The compute runtime implements the promise of FencedLease.               *)

(* Evidence is there only once the job succeeded.                           *)
ShownWhenDelivered ==
  \A j \in Jobs : Standing(job[j].state) # "delivered" => ShownOf(j) = {}

(* What the promise sees of a job after a step.                             *)
Sees(j, generation, owner, cancel, standing) ==
  /\ job'[j].generation = generation /\ job'[j].owner = owner /\ job'[j].cancel = cancel
  /\ Standing(job'[j].state) = standing

SeesSame(j) ==
  /\ Sees(j, job[j].generation, job[j].owner, job[j].cancel, Standing(job[j].state))
  /\ ShownOf(j)' = ShownOf(j)

(* The five things the promise lets happen to a job.                        *)
Moves(j) ==
  LET r == job[j]
      open == Standing(r.state) = "open"
      held == open /\ r.owner # Free
  IN  \/ /\ ShownOf(j)' = ShownOf(j)
         /\ \/ /\ open /\ (r.cancel => held)
               /\ \E w \in Agents : Sees(j, r.generation + 1, w, r.cancel, "open")
            \/ held /\ Sees(j, r.generation, Free, r.cancel, "open")
            \/ held /\ Sees(j, r.generation, r.owner, TRUE, "open")
            \/ open /\ ~held /\ Sees(j, r.generation, r.owner, TRUE, "closed")
            \/ held /\ Sees(j, r.generation, Free, r.cancel, "closed")
      \/ /\ held /\ Sees(j, r.generation, Free, r.cancel, "delivered")
         /\ ShownOf(j)' = {Stamp(r.generation, r.owner)}

OneMoves == \E i : /\ i \in Jobs => SeesSame(i) \/ Moves(i)
                   /\ \A j \in Jobs : j # i => SeesSame(j)

LEMMA StandingOf ==
  /\ Standing("queued") = "open" /\ Standing("running") = "open"
  /\ Standing("failed") = "closed" /\ Standing("cancelled") = "closed"
  /\ Standing("succeeded") = "delivered"
BY DEF Standing, Ended

LEMMA RowSame ==
  ASSUME NEW j \in Jobs,
         job'[j].generation = job[j].generation, job'[j].owner = job[j].owner,
         job'[j].cancel = job[j].cancel, job'[j].state = job[j].state,
         job'[j].evidence = job[j].evidence,
         run'[j].output = run[j].output \/ job[j].evidence = 0
  PROVE  SeesSame(j)
BY DEF SeesSame, Sees, ShownOf

LEMMA ClaimMoves ==
  ASSUME Inv, NEW w \in Agents, Claim(w)
  PROVE  OneMoves
<1>1. /\ \A i \in Jobs : run'[i].output = run[i].output
      /\ \/ \E j \in Jobs : MayTake(j) /\ Given(w, j) /\ \A i \in Jobs \ {j} : Stays(i)
         \/ doing'[w] = Idle /\ \A i \in Jobs : Stays(i)
  BY ClaimGives DEF Inv
<1>2. ASSUME NEW i \in Jobs, Stays(i) PROVE SeesSame(i)
  BY <1>1, <1>2, RowSame DEF Stays
<1>3. ASSUME NEW j \in Jobs, MayTake(j), Given(w, j), \A i \in Jobs \ {j} : Stays(i)
      PROVE  OneMoves
  <2>1. job[j].owner # Free <=> job[j].state = "running"
    BY DEF Inv, TypeInv
  <2>2. Sees(j, job[j].generation + 1, w, job[j].cancel, "open") /\ ShownOf(j)' = ShownOf(j)
    BY <1>1, <1>3, StandingOf DEF Given, Sees, ShownOf
  <2>3. Moves(j)
    BY <1>3, <2>1, <2>2, StandingOf DEF MayTake, Moves
  <2>. QED
    BY <1>2, <1>3, <2>3 DEF OneMoves
<1>. QED
  BY <1>1, <1>2, <1>3 DEF OneMoves

LEMMA VerifyMoves ==
  ASSUME Inv, ShownWhenDelivered, NEW w \in Agents, Verify(w)
  PROVE  OneMoves
<1>1. Of(w) \in Jobs /\ UNCHANGED job
  BY Doing DEF Inv, Verify, Attempting, Child, Trying, Of
<1>2. ASSUME NEW i \in Jobs PROVE SeesSame(i)
  <2>1. CASE run'[i].output = run[i].output
    BY <1>1, <2>1, RowSame
  <2>2. CASE i = Of(w) /\ Fence(w)
    <3>1. ShownOf(i) = {}
      BY <2>2, StandingOf DEF ShownWhenDelivered, Fence
    <3>. QED
      BY <1>1, <3>1, RowSame DEF ShownOf
  <2>. QED
    BY <1>1, <2>1, <2>2 DEF Verify, Inv, TypeInv, RunRow
<1>. QED
  BY <1>2 DEF OneMoves

LEMMA FinishMoves ==
  ASSUME Inv, NEW w \in Agents, Finish(w)
  PROVE  OneMoves
<1>0. doing[w] \in Ending /\ Of(w) \in Jobs
  BY Doing DEF Inv, Finish, Ending, Of
<1>1. PICK j \in Jobs : j = Of(w) /\ doing[w] \in Ending /\ doing[w].at = "finishing"
  BY <1>0 DEF Finish
<1> DEFINE row == Finished(job[j], doing[w].generation, doing[w].result)
<1>2. \A i \in Jobs : run'[i].output = run[i].output
  BY <1>1 DEF Finish, Inv, TypeInv, RunRow
<1>3. CASE ~Fence(w)
  <2>1. UNCHANGED job
    BY <1>3 DEF Finish
  <2>. QED
    BY <1>2, <2>1, RowSame DEF OneMoves
<1>4. CASE Fence(w)
  <2>1. job[j] \in JobRow /\ job[j].state = "running" /\ job[j].owner = w /\ ~job[j].hold
    BY <1>1, <1>4 DEF Inv, TypeInv, Fence
  <2>2. /\ row.owner = Free /\ row.generation = job[j].generation /\ row.cancel = job[j].cancel
        /\ doing[w].result = "ok" => row.state = "succeeded" /\ row.evidence = doing[w].generation
        /\ doing[w].result # "ok" => /\ row.state \in {"queued", "failed", "cancelled"}
                                     /\ row.evidence = job[j].evidence
    BY <1>1, <2>1, FinishedRow DEF Ending
  <2>3. job' = [job EXCEPT ![j] = row]
    BY <1>1, <1>4 DEF Finish
  <2>4. /\ job[j].generation = doing[w].generation
        /\ doing[w].generation \in 1..job[j].generation
        /\ doing[w].result = "ok" => run[j].output = doing[w].generation
    BY <1>1, <1>4 DEF Inv, Carries, Holds, Fence, Of, Busy
  <2>5. doing[w].generation # 0 /\ w # Free /\ Standing(job[j].state) = "open"
    BY <2>1, <2>4, ComputeAssumption, StandingOf DEF JobRow
  <2>. HIDE DEF row
  <2>6. job'[j] = row /\ \A i \in Jobs : i # j => job'[i] = job[i]
    BY <1>1, <2>3 DEF Inv, TypeInv
  <2>7. \A i \in Jobs : i # j => SeesSame(i)
    BY <1>2, <2>6, RowSame
  <2>8. CASE doing[w].result = "ok"
    <3>1. ShownOf(j)' = {Stamp(job[j].generation, job[j].owner)}
      BY <1>1, <1>2, <2>2, <2>4, <2>5, <2>6, <2>8 DEF ShownOf, Stamp
    <3>2. Sees(j, job[j].generation, Free, job[j].cancel, "delivered")
      BY <2>2, <2>6, <2>8, StandingOf DEF Sees
    <3>3. Moves(j)
      BY <2>1, <2>5, <3>1, <3>2 DEF Moves
    <3>. QED
      BY <2>7, <3>3 DEF OneMoves
  <2>9. CASE doing[w].result # "ok"
    <3>1. ShownOf(j)' = ShownOf(j)
      BY <1>1, <1>2, <2>2, <2>6, <2>9 DEF ShownOf
    <3>2. \E s \in {"open", "closed"} : Sees(j, job[j].generation, Free, job[j].cancel, s)
      BY <2>2, <2>6, <2>9, StandingOf DEF Sees
    <3>3. Moves(j)
      BY <2>1, <2>5, <3>1, <3>2 DEF Moves
    <3>. QED
      BY <2>7, <3>3 DEF OneMoves
  <2>. QED
    BY <2>8, <2>9
<1>. QED
  BY <1>3, <1>4

LEMMA OwnerMoves ==
  ASSUME Inv, NEW j \in Jobs, Pause(j) \/ Resume(j) \/ Cancel(j)
  PROVE  OneMoves
<1>1. job \in [Jobs -> JobRow] /\ job[j] \in JobRow
  BY DEF Inv, TypeInv
<1>2. \A i \in Jobs : run'[i].output = run[i].output
  BY DEF Pause, Resume, Cancel, Inv, TypeInv, RunRow
<1>3. CASE Pause(j)
  <2>1. UNCHANGED job
    BY <1>3 DEF Pause
  <2>. QED
    BY <1>2, <2>1, RowSame DEF OneMoves
<1>4. CASE Resume(j)
  <2>1. \A i \in Jobs : /\ job'[i].generation = job[i].generation /\ job'[i].owner = job[i].owner
                         /\ job'[i].cancel = job[i].cancel /\ job'[i].state = job[i].state
                         /\ job'[i].evidence = job[i].evidence
    BY <1>1, <1>4 DEF Resume, JobRow
  <2>. QED
    BY <1>2, <2>1, RowSame DEF OneMoves
<1>5. CASE Cancel(j)
  <2>1. \A i \in Jobs : i # j => job'[i] = job[i]
    BY <1>1, <1>5 DEF Cancel
  <2>2. /\ job'[j].generation = job[j].generation /\ job'[j].owner = job[j].owner
        /\ job'[j].cancel = TRUE /\ job'[j].evidence = job[j].evidence
        /\ job'[j].state = IF job[j].state = "queued" THEN "cancelled" ELSE job[j].state
        /\ job[j].state \in {"queued", "running"}
    BY <1>1, <1>5 DEF Cancel, JobRow
  <2>3. job[j].owner # Free <=> job[j].state = "running"
    BY DEF Inv, TypeInv
  <2>4. ShownOf(j)' = ShownOf(j)
    BY <1>2, <2>2 DEF ShownOf
  <2>5. ASSUME job[j].state = "queued" PROVE Moves(j)
    <3>1. Sees(j, job[j].generation, job[j].owner, TRUE, "closed")
      BY <2>2, <2>5, StandingOf DEF Sees
    <3>. QED
      BY <2>3, <2>4, <2>5, <3>1, StandingOf DEF Moves
  <2>6. ASSUME job[j].state = "running" PROVE Moves(j)
    <3>1. Sees(j, job[j].generation, job[j].owner, TRUE, "open")
      BY <2>2, <2>6, StandingOf DEF Sees
    <3>. QED
      BY <2>3, <2>4, <2>6, <3>1, StandingOf DEF Moves
  <2>. QED
    BY <1>2, <2>1, <2>2, <2>5, <2>6, RowSame DEF OneMoves
<1>. QED
  BY <1>3, <1>4, <1>5

LEMMA NextMoves ==
  ASSUME Inv, ShownWhenDelivered, Next
  PROVE  OneMoves
<1>1. ASSUME UNCHANGED job, \A i \in Jobs : run'[i].output = run[i].output PROVE OneMoves
  BY <1>1, RowSame DEF OneMoves
<1>2. ASSUME NEW w \in Agents,
             \/ Start(w) \/ RenewRefused(w) \/ Checkpoint(w) \/ PublishCheckpoint(w)
             \/ CheckpointRejected(w) \/ Fail(w) \/ Release(w) \/ Crash(w)
      PROVE  UNCHANGED <<job, run>>
  BY <1>2 DEF Start, Starts, RenewRefused, Checkpoint, PublishCheckpoint, CheckpointRejected,
     Fail, Release, Crash
<1>3. ASSUME NEW w \in Workers, Offline(w) PROVE UNCHANGED <<job, run>>
  BY <1>3 DEF Offline
<1>4. Pausable \subseteq Jobs /\ Cancellable \subseteq Jobs
  BY ComputeAssumption
<1>. QED
  BY <1>1, <1>2, <1>3, <1>4, ClaimMoves, VerifyMoves, FinishMoves, OwnerMoves DEF Next, Work

LEMMA ShownKept ==
  ASSUME ShownWhenDelivered, OneMoves
  PROVE  ShownWhenDelivered'
<1>. SUFFICES ASSUME NEW j \in Jobs, Standing(job'[j].state) # "delivered"
              PROVE  ShownOf(j)' = {}
  BY DEF ShownWhenDelivered, Standing
<1>1. CASE SeesSame(j)
  BY <1>1 DEF SeesSame, Sees, ShownWhenDelivered
<1>2. CASE Moves(j)
  <2>1. Standing(job[j].state) = "open" /\ ShownOf(j)' = ShownOf(j)
    BY <1>2 DEF Moves, Sees
  <2>. QED
    BY <2>1 DEF ShownWhenDelivered
<1>. QED
  BY <1>1, <1>2 DEF OneMoves

(* What the promise sees of all jobs, and that a step that concerns one job *)
(* changes its entries only.                                                *)
Turns     == [j \in Jobs |-> job[j].generation]
Owners    == [j \in Jobs |-> job[j].owner]
Recalls   == [j \in Jobs |-> job[j].cancel]
Standings == [j \in Jobs |-> Standing(job[j].state)]
Shown     == [j \in Jobs |-> ShownOf(j)]

LEMMA EntriesMove ==
  ASSUME NEW i \in Jobs, \A j \in Jobs : j # i => SeesSame(j),
         NEW g, NEW o, NEW c, NEW s, NEW e, Sees(i, g, o, c, s), ShownOf(i)' = e
  PROVE  /\ Turns' = [Turns EXCEPT ![i] = g] /\ Owners' = [Owners EXCEPT ![i] = o]
         /\ Recalls' = [Recalls EXCEPT ![i] = c] /\ Standings' = [Standings EXCEPT ![i] = s]
         /\ Shown' = [Shown EXCEPT ![i] = e]
BY DEF SeesSame, Sees, Turns, Owners, Recalls, Standings, Shown

LEMMA FencedLeaseStep ==
  ASSUME OneMoves
  PROVE  [Promise!Next]_<<Turns, Owners, Recalls, Standings, Shown>>
<1>1. PICK i : /\ i \in Jobs => SeesSame(i) \/ Moves(i)
               /\ \A j \in Jobs : j # i => SeesSame(j)
  BY DEF OneMoves
<1>2. CASE i \notin Jobs \/ SeesSame(i)
  BY <1>1, <1>2 DEF SeesSame, Sees, Turns, Owners, Recalls, Standings, Shown
<1>3. CASE i \in Jobs /\ Moves(i)
  <2> DEFINE r == job[i]
             open == Standing(r.state) = "open"
             held == open /\ r.owner # Free
  <2>0. Promise!Held(i) <=> held
    BY <1>3 DEF Promise!Held
  <2>1. /\ Turns[i] = r.generation /\ Owners[i] = r.owner /\ Recalls[i] = r.cancel
        /\ Standings[i] = Standing(r.state) /\ Shown[i] = ShownOf(i)
    BY <1>3 DEF Turns, Owners, Recalls, Standings, Shown
  <2>2. ASSUME NEW g, NEW o, NEW c, NEW s, NEW e, Sees(i, g, o, c, s), ShownOf(i)' = e
        PROVE  /\ Turns' = [Turns EXCEPT ![i] = g] /\ Owners' = [Owners EXCEPT ![i] = o]
               /\ Recalls' = [Recalls EXCEPT ![i] = c] /\ Standings' = [Standings EXCEPT ![i] = s]
               /\ Shown' = [Shown EXCEPT ![i] = e]
    BY <1>1, <1>3, <2>2, EntriesMove
  <2>3. /\ Turns = [Turns EXCEPT ![i] = Turns[i]] /\ Owners = [Owners EXCEPT ![i] = Owners[i]]
        /\ Recalls = [Recalls EXCEPT ![i] = Recalls[i]]
        /\ Standings = [Standings EXCEPT ![i] = Standings[i]]
        /\ Shown = [Shown EXCEPT ![i] = Shown[i]]
    BY <1>3 DEF Turns, Owners, Recalls, Standings, Shown
  <2>4. ASSUME NEW w \in Agents, open, r.cancel => held,
               Sees(i, r.generation + 1, w, r.cancel, "open"), ShownOf(i)' = ShownOf(i)
        PROVE  Promise!Lend(i, w)
    <3>1. /\ Turns' = [Turns EXCEPT ![i] = Turns[i] + 1] /\ Owners' = [Owners EXCEPT ![i] = w]
          /\ Recalls' = Recalls /\ Standings' = Standings
          /\ Shown' = Shown
      BY <2>1, <2>2, <2>3, <2>4
    <3>. QED
      BY <2>0, <2>1, <2>4, <3>1 DEF Promise!Lend, Turns, Owners, Recalls, Standings, Shown
  <2>5. ASSUME held, Sees(i, r.generation, Free, r.cancel, "open"), ShownOf(i)' = ShownOf(i)
        PROVE  Promise!Return(i)
    <3>1. /\ Turns' = Turns /\ Owners' = [Owners EXCEPT ![i] = Free]
          /\ Recalls' = Recalls /\ Standings' = Standings
          /\ Shown' = Shown
      BY <2>1, <2>2, <2>3, <2>5
    <3>. QED
      BY <2>0, <2>1, <2>5, <3>1 DEF Promise!Return, Turns, Owners, Recalls, Standings, Shown
  <2>6. ASSUME held, Sees(i, r.generation, Free, r.cancel, "closed"), ShownOf(i)' = ShownOf(i)
        PROVE  Promise!GiveUp(i)
    <3>1. /\ Turns' = Turns /\ Owners' = [Owners EXCEPT ![i] = Free]
          /\ Recalls' = Recalls /\ Standings' = [Standings EXCEPT ![i] = "closed"]
          /\ Shown' = Shown
      BY <2>1, <2>2, <2>3, <2>6
    <3>. QED
      BY <2>0, <2>1, <2>6, <3>1 DEF Promise!GiveUp, Turns, Owners, Recalls, Standings, Shown
  <2>7. ASSUME held, Sees(i, r.generation, Free, r.cancel, "delivered"),
               ShownOf(i)' = {Stamp(r.generation, r.owner)}
        PROVE  Promise!Deliver(i)
    <3>0. PICK e : e = {Stamp(r.generation, r.owner)}
      OBVIOUS
    <3>1. Sees(i, r.generation, Free, r.cancel, "delivered") /\ ShownOf(i)' = e
      BY <2>7, <3>0
    <3>2. /\ Turns' = Turns /\ Owners' = [Owners EXCEPT ![i] = Free]
          /\ Recalls' = Recalls /\ Standings' = [Standings EXCEPT ![i] = "delivered"]
          /\ Shown' = [Shown EXCEPT ![i] = e]
      BY <2>1, <2>2, <2>3, <3>1
    <3>. QED
      BY <2>0, <2>1, <2>7, <3>0, <3>2 DEF Promise!Deliver, Turns, Owners, Recalls, Standings, Shown
  <2>8. ASSUME open, held, Sees(i, r.generation, r.owner, TRUE, "open"), ShownOf(i)' = ShownOf(i)
        PROVE  Promise!Recall(i)
    <3>0. PICK yes : yes = TRUE
      OBVIOUS
    <3>1. Sees(i, r.generation, r.owner, yes, "open")
      BY <2>8, <3>0
    <3>2. /\ Turns' = Turns /\ Owners' = Owners
          /\ Recalls' = [Recalls EXCEPT ![i] = yes] /\ Standings' = Standings
          /\ Shown' = Shown
      BY <2>1, <2>2, <2>3, <2>8, <3>1
    <3>. QED
      BY <2>0, <2>1, <2>8, <3>0, <3>2 DEF Promise!Recall, Turns, Owners, Recalls, Standings, Shown
  <2>9. ASSUME open, ~held, Sees(i, r.generation, r.owner, TRUE, "closed"), ShownOf(i)' = ShownOf(i)
        PROVE  Promise!Recall(i)
    <3>0. PICK yes : yes = TRUE
      OBVIOUS
    <3>1. Sees(i, r.generation, r.owner, yes, "closed")
      BY <2>9, <3>0
    <3>2. /\ Turns' = Turns /\ Owners' = Owners
          /\ Recalls' = [Recalls EXCEPT ![i] = yes] /\ Standings' = [Standings EXCEPT ![i] = "closed"]
          /\ Shown' = Shown
      BY <2>1, <2>2, <2>3, <2>9, <3>1
    <3>. QED
      BY <2>0, <2>1, <2>9, <3>0, <3>2 DEF Promise!Recall, Turns, Owners, Recalls, Standings, Shown
  <2>10. Promise!Next
    BY <1>3, <2>4, <2>5, <2>6, <2>7, <2>8, <2>9 DEF Moves, Promise!Next
  <2>. QED
    BY <2>10
<1>. QED
  BY <1>1, <1>2, <1>3

(* The compute runtime implements the promise of FencedLease, for any       *)
(* number of jobs, workers and nodes: over pauses, preemptions, retries,    *)
(* recoveries and crashes only the attempt of the last claim delivers, its  *)
(* output and its evidence together, and an ended job is left alone.        *)
THEOREM ComputeKeepsPromise == Spec => ImplementsFencedLease
<1>1. Init => Promise!Init /\ ShownWhenDelivered
  BY DEF Init, Promise!Init, ShownOf, ShownWhenDelivered, Standing, Ended
<1>2. Inv /\ ShownWhenDelivered /\ [Next]_vars => ShownWhenDelivered'
  <2>1. CASE UNCHANGED vars
    BY <2>1 DEF vars, ShownWhenDelivered, ShownOf
  <2>. QED
    BY <2>1, NextMoves, ShownKept
<1>3. Inv /\ ShownWhenDelivered /\ [Next]_vars
        => [Promise!Next]_<<Turns, Owners, Recalls, Standings, Shown>>
  <2>1. CASE UNCHANGED vars
    BY <2>1 DEF vars, Turns, Owners, Recalls, Standings, Shown, ShownOf
  <2>. QED
    BY <2>1, NextMoves, FencedLeaseStep
<1>. QED
  BY <1>1, <1>2, <1>3, Invariance, PTL
     DEF Spec, ImplementsFencedLease, Promise!Spec, Turns, Owners, Recalls, Standings, Shown
=============================================================================
