----------------------------- MODULE BudgetTree -----------------------------
(***************************************************************************)
(* The hierarchical budget of a workspace (budgets.py): levels (workspace  *)
(* -> workflow run or award -> workflow node), each with a ceiling, the    *)
(* units reserved by work in flight and the units committed by work that   *)
(* succeeded; and the reservations, one per reference, each made at one    *)
(* level and counted at that level and at every ancestor.                  *)
(*                                                                         *)
(* The tables are one value, a "tree", and every function of the module is *)
(* an operator from a tree to the tree it leaves: the callers (the engine  *)
(* of WorkflowEngine, the awards) use them inside transactions of their    *)
(* own.                                                                    *)
(***************************************************************************)
EXTENDS Integers, FiniteSets

CONSTANTS
  Levels,         \* budget levels: one per (kind, ref_id)
  Root,           \* the level of the workspace
  Refs            \* what a reservation is made for: (ref_type, ref_id)

ASSUME RefsAssumption == IsFiniteSet(Refs)
ASSUME RootAssumption == Root \in Levels

ClaimStates == {"none", "reserved", "committed", "released"}
Claim  == [level : Levels, amount : Nat, state : ClaimStates]
Trees  == [made : SUBSET Levels, parent : [Levels -> Levels],
           ceiling : [Levels -> Nat], reserved : [Levels -> Nat],
           committed : [Levels -> Nat], claim : [Refs -> Claim]]

(* The workspace's level with a ceiling, and nothing below it.  A level     *)
(* without a parent is its own.                                            *)
EmptyTree(ceiling) ==
  [made      |-> {Root},
   parent    |-> [l \in Levels |-> l],
   ceiling   |-> [l \in Levels |-> IF l = Root THEN ceiling ELSE 0],
   reserved  |-> [l \in Levels |-> 0],
   committed |-> [l \in Levels |-> 0],
   claim     |-> [r \in Refs |-> [level |-> Root, amount |-> 0, state |-> "none"]]]

-----------------------------------------------------------------------------
(* The level and its ancestors: a tree is at most three levels deep, since  *)
(* runs and awards hang from the workspace and nodes from either.          *)
Chain(t, l) == {l, t.parent[l], t.parent[t.parent[l]]}

Available(t, l) == t.ceiling[l] - t.reserved[l] - t.committed[l]

RefusingAlone(t, l, a) == {x \in {l} : a > Available(t, x)}       \* mutant form
(* check: the levels that refuse the amount, and the nearest of them.       *)
Refusing(t, l, a)   == {x \in Chain(t, l) : a > Available(t, x)}
Fits(t, l, a)       == Refusing(t, l, a) = {}
FirstRefusal(t, l, a) ==
  CHOOSE x \in Refusing(t, l, a) : Refusing(t, l, a) \subseteq Chain(t, x)
(* Waiting can help: the amount could fit once reservations are released.   *)
Retryable(t, l, a) ==
  LET x == FirstRefusal(t, l, a) IN t.ceiling[x] - t.committed[x] >= a

(* create_child: the level that exists already is kept as it is.            *)
Admissible(t, p, ceiling) == p \in t.made /\ ceiling <= t.ceiling[p]
CreateChild(t, l, p, ceiling) ==
  IF l \in t.made THEN t
  ELSE [t EXCEPT !.made = @ \cup {l}, !.parent[l] = p, !.ceiling[l] = ceiling]

(* reserve, when the amount fits: counted along the chain; a reference that  *)
(* was reserved once, whatever became of it, is not reserved again.         *)
Reserve(t, l, a, r) ==
  IF t.claim[r].state # "none" THEN t
  ELSE [t EXCEPT !.reserved = [x \in Levels |-> IF x \in Chain(t, l) THEN @[x] + a ELSE @[x]],
                 !.claim[r] = [level |-> l, amount |-> a, state |-> "reserved"]]

(* Mutant form: the ancestors keep what the level gives back. *)
CloseAlone(t, r, kept, amount, state) ==
  LET c == t.claim[r] IN
  IF c.state # "reserved" THEN t
  ELSE [t EXCEPT !.reserved[c.level]  = @ - c.amount,
                 !.committed[c.level] = @ + kept,
                 !.claim[r] = [c EXCEPT !.amount = amount, !.state = state]]
(* What settle and release_partial share: a reservation in flight leaves    *)
(* "reserved" at every level of its chain, and kept units of it become      *)
(* committed there.                                                        *)
Close(t, r, kept, amount, state) ==
  LET c == t.claim[r] IN
  IF c.state # "reserved" THEN t
  ELSE [t EXCEPT
         !.reserved  = [x \in Levels |-> IF x \in Chain(t, c.level) THEN @[x] - c.amount ELSE @[x]],
         !.committed = [x \in Levels |-> IF x \in Chain(t, c.level) THEN @[x] + kept ELSE @[x]],
         !.claim[r]  = [c EXCEPT !.amount = amount, !.state = state]]

Commit(t, r)  == Close(t, r, t.claim[r].amount, t.claim[r].amount, "committed")
Release(t, r) == Close(t, r, 0, t.claim[r].amount, "released")
ReleasePartial(t, r, keep) ==
  LET kept == IF keep < t.claim[r].amount THEN keep ELSE t.claim[r].amount
  IN  Close(t, r, kept, kept, "committed")

(* set_workspace_ceiling refuses a ceiling below what is in use.            *)
Lowerable(t, ceiling) == t.reserved[Root] + t.committed[Root] <= ceiling
SetCeiling(t, ceiling) == [t EXCEPT !.ceiling[Root] = ceiling]

-----------------------------------------------------------------------------
(* SUM(amount) of the reservations in a state at or below a level, as a     *)
(* number of units: a reservation of a units is the pairs <<r, 1..a>>.      *)
Under(t, l, s) == {r \in Refs : t.claim[r].state = s /\ l \in Chain(t, t.claim[r].level)}
UnitsOf(t, S)  == UNION {{r} \X (1..t.claim[r].amount) : r \in S}
Sum(t, S)      == Cardinality(UnitsOf(t, S))

(* No level is used beyond its ceiling: the two never overlap.              *)
WithinCeiling(t) == \A l \in Levels : t.reserved[l] + t.committed[l] <= t.ceiling[l]

(* The counters of a level are the reservations below it and nothing else:  *)
(* no unit is lost, counted twice or left behind at an ancestor.            *)
CountersAgree(t) ==
  \A l \in Levels : /\ t.reserved[l] = Sum(t, Under(t, l, "reserved"))
                    /\ t.committed[l] = Sum(t, Under(t, l, "committed"))
=============================================================================
