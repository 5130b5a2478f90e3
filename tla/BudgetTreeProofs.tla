-------------------------- MODULE BudgetTreeProofs --------------------------
(***************************************************************************)
(* Every function of the budget tree leaves a sound tree sound: no level   *)
(* is used beyond its ceiling and the counters of every level are the sum  *)
(* of the reservations below it.  The callers' theorems rest on these.     *)
(***************************************************************************)
EXTENDS BudgetTree, FiniteSetTheorems, FunctionTheorems, TLAPS

(* The shape create_child keeps: a level is created below one that exists,   *)
(* at most two below the workspace, and reservations are made at levels     *)
(* that exist.                                                             *)
Shaped(t) ==
  /\ Root \in t.made /\ t.parent[Root] = Root
  /\ \A l \in t.made : t.parent[l] \in t.made /\ t.parent[t.parent[l]] = Root
  /\ \A r \in Refs : t.claim[r].level \in t.made

Sound(t) == t \in Trees /\ Shaped(t) /\ WithinCeiling(t) /\ CountersAgree(t)

-----------------------------------------------------------------------------
(* Sums of reservations. *)
LEMMA UnitsFinite ==
  ASSUME NEW t \in Trees, NEW S \in SUBSET Refs
  PROVE  IsFiniteSet(UnitsOf(t, S))
<1> DEFINE Of(r) == {r} \X (1..t.claim[r].amount)
           T     == {Of(r) : r \in S}
           f     == [r \in S |-> Of(r)]
<1>1. IsFiniteSet(S)
  BY RefsAssumption, FS_Subset
<1>2. IsFiniteSet(T)
  <2>1. f \in Surjection(S, T)
    BY DEF Surjection
  <2>. QED
    BY <1>1, <2>1, FS_Surjection
<1>3. \A X \in T : IsFiniteSet(X)
  <2>. SUFFICES ASSUME NEW r \in S PROVE IsFiniteSet(Of(r))
    OBVIOUS
  <2>1. t.claim[r].amount \in Int
    BY DEF Trees, Claim
  <2>2. IsFiniteSet(1..t.claim[r].amount)
    BY <2>1, FS_Interval
  <2>3. IsFiniteSet({r})
    BY FS_Singleton
  <2>. QED
    BY <2>2, <2>3, FS_Product
<1>. HIDE DEF T
<1>4. IsFiniteSet(UNION T)
  BY <1>2, <1>3, FS_UNION
<1>. QED
  BY <1>4 DEF UnitsOf, T

LEMMA SumType ==
  ASSUME NEW t \in Trees, NEW S \in SUBSET Refs
  PROVE  Sum(t, S) \in Nat
BY UnitsFinite, FS_CardinalityType DEF Sum

LEMMA SumEmpty == ASSUME NEW t PROVE Sum(t, {}) = 0
<1>1. UnitsOf(t, {}) = {}
  BY DEF UnitsOf
<1>. QED
  BY <1>1, FS_EmptySet DEF Sum

(* The sum looks at the amounts of its members only.                        *)
LEMMA SumSame ==
  ASSUME NEW t, NEW u, NEW S,
         \A r \in S : t.claim[r].amount = u.claim[r].amount
  PROVE  Sum(t, S) = Sum(u, S)
<1>1. UnitsOf(t, S) = UnitsOf(u, S)
  BY DEF UnitsOf
<1>. QED
  BY <1>1 DEF Sum

(* A reservation that joins adds its amount.                                *)
LEMMA SumAdd ==
  ASSUME NEW t \in Trees, NEW S \in SUBSET Refs, NEW r \in Refs, r \notin S
  PROVE  Sum(t, S \cup {r}) = Sum(t, S) + t.claim[r].amount
<1> DEFINE a   == t.claim[r].amount
           Own == {r} \X (1..a)
<1>1. UnitsOf(t, S \cup {r}) = UnitsOf(t, S) \cup Own
  BY DEF UnitsOf
<1>2. UnitsOf(t, S) \cap Own = {}
  BY DEF UnitsOf
<1>3. a \in Nat
  BY DEF Trees, Claim
<1>. HIDE DEF a
<1>4. IsFiniteSet(1..a) /\ Cardinality(1..a) = a
  BY <1>3, FS_Interval
<1>5. IsFiniteSet({r}) /\ Cardinality({r}) = 1
  BY FS_Singleton
<1>6. IsFiniteSet(Own) /\ Cardinality(Own) = a
  <2>1. \A A, B : IsFiniteSet(A) /\ IsFiniteSet(B)
                   => IsFiniteSet(A \X B) /\ Cardinality(A \X B) = Cardinality(A) * Cardinality(B)
    BY FS_Product
  <2>2. IsFiniteSet(Own) /\ Cardinality(Own) = Cardinality({r}) * Cardinality(1..a)
    BY <1>4, <1>5, <2>1, Zenon
  <2>3. Cardinality(Own) = 1 * a
    BY <1>4, <1>5, <2>2, Zenon
  <2>. QED
    BY <2>2, <2>3, <1>3
<1>7. IsFiniteSet(UnitsOf(t, S))
  BY UnitsFinite
<1>8. Cardinality(UnitsOf(t, S)) \in Nat
  BY <1>7, FS_CardinalityType
<1>. HIDE DEF Own
<1>9. Cardinality(UnitsOf(t, S) \cup Own)
        = Cardinality(UnitsOf(t, S)) + Cardinality(Own) - Cardinality(UnitsOf(t, S) \cap Own)
  BY <1>6, <1>7, FS_Union
<1>10. Cardinality(UnitsOf(t, S) \cap Own) = 0
  BY <1>2, FS_EmptySet
<1>11. Cardinality(UnitsOf(t, S) \cup Own) = Cardinality(UnitsOf(t, S)) + a
  BY <1>3, <1>6, <1>8, <1>9, <1>10
<1>. QED
  BY <1>1, <1>11 DEF Sum, a

-----------------------------------------------------------------------------
(* The chain of a level that exists: levels that exist, the workspace last.  *)
LEMMA ChainExists ==
  ASSUME NEW t \in Trees, Shaped(t), NEW l \in t.made
  PROVE  Chain(t, l) \subseteq t.made /\ t.made \subseteq Levels
BY DEF Chain, Shaped, Trees

(* The empty tree is sound.                                                 *)
LEMMA EmptySound ==
  ASSUME NEW c \in Nat
  PROVE  Sound(EmptyTree(c))
<1> DEFINE t == EmptyTree(c)
<1>1. t \in Trees
  BY RootAssumption DEF EmptyTree, Trees, Claim, ClaimStates
<1>2. Shaped(t)
  BY RootAssumption DEF EmptyTree, Shaped
<1>3. WithinCeiling(t)
  BY RootAssumption DEF EmptyTree, WithinCeiling
<1>4. ASSUME NEW l \in Levels, NEW s \in {"reserved", "committed"} PROVE Under(t, l, s) = {}
  BY DEF EmptyTree, Under
<1>5. CountersAgree(t)
  <2>1. \A l \in Levels : t.reserved[l] = 0 /\ t.committed[l] = 0
    BY DEF EmptyTree
  <2>. QED
    BY <1>4, <2>1, SumEmpty DEF CountersAgree
<1>. QED
  BY <1>1, <1>2, <1>3, <1>5 DEF Sound

(* A level that does not exist is neither used nor below anything.          *)
LEMMA UnmadeUnused ==
  ASSUME NEW t, Sound(t), NEW l \in Levels \ t.made
  PROVE  /\ \A s : Under(t, l, s) = {}
         /\ t.reserved[l] = 0 /\ t.committed[l] = 0
<1>1. t \in Trees /\ Shaped(t) /\ CountersAgree(t)
  BY DEF Sound
<1>2. \A r \in Refs : l \notin Chain(t, t.claim[r].level)
  BY <1>1, ChainExists DEF Shaped
<1>3. \A s : Under(t, l, s) = {}
  BY <1>2 DEF Under
<1>. QED
  BY <1>1, <1>3, SumEmpty DEF CountersAgree

(* Levels created below existing ones, all at once.                         *)
LEMMA GrowSound ==
  ASSUME NEW t, Sound(t), NEW u \in Trees, NEW new \in SUBSET (Levels \ t.made),
         NEW p \in t.made, t.parent[p] = Root,
         u.made = t.made \cup new,
         u.parent = [l \in Levels |-> IF l \in new THEN p ELSE t.parent[l]],
         \A l \in Levels \ new : u.ceiling[l] = t.ceiling[l],
         u.reserved = t.reserved, u.committed = t.committed, u.claim = t.claim
  PROVE  Sound(u)
<1>1. t \in Trees /\ Shaped(t) /\ CountersAgree(t) /\ WithinCeiling(t)
  BY DEF Sound
<1>2. t.made \in SUBSET Levels
  BY <1>1 DEF Trees
<1>3. \A l \in t.made : u.parent[l] = t.parent[l]
  BY <1>2
<1>4. Shaped(u)
  <2>1. Root \in u.made /\ u.parent[Root] = Root
    BY <1>1, <1>3 DEF Shaped
  <2>2. ASSUME NEW l \in t.made PROVE u.parent[l] \in u.made /\ u.parent[u.parent[l]] = Root
    BY <1>1, <1>3 DEF Shaped
  <2>3. ASSUME NEW l \in new PROVE u.parent[l] \in u.made /\ u.parent[u.parent[l]] = Root
    <3>1. u.parent[l] = p
      OBVIOUS
    <3>. QED
      BY <3>1, <1>3
  <2>4. \A r \in Refs : u.claim[r].level \in u.made
    BY <1>1 DEF Shaped
  <2>. QED
    BY <2>1, <2>2, <2>3, <2>4 DEF Shaped
<1>5. WithinCeiling(u)
  <2>. SUFFICES ASSUME NEW l \in Levels PROVE u.reserved[l] + u.committed[l] <= u.ceiling[l]
    BY DEF WithinCeiling
  <2>1. CASE l \in new
    <3>1. u.reserved[l] = 0 /\ u.committed[l] = 0
      BY <2>1, UnmadeUnused
    <3>2. u.ceiling[l] \in Nat
      BY DEF Trees
    <3>. QED
      BY <3>1, <3>2
  <2>2. CASE l \notin new
    BY <1>1, <2>2 DEF WithinCeiling
  <2>. QED
    BY <2>1, <2>2
<1>6. \A r \in Refs : Chain(u, u.claim[r].level) = Chain(t, t.claim[r].level)
  BY <1>1, <1>3 DEF Chain, Shaped
<1>7. \A l, s : Under(u, l, s) = Under(t, l, s)
  BY <1>6 DEF Under
<1>8. \A S \in SUBSET Refs : Sum(u, S) = Sum(t, S)
  BY SumSame
<1>9. CountersAgree(u)
  <2>1. \A l, s : Under(t, l, s) \in SUBSET Refs
    BY DEF Under
  <2>. QED
    BY <1>1, <1>7, <1>8, <2>1 DEF CountersAgree
<1>. QED
  BY <1>4, <1>5, <1>9 DEF Sound

LEMMA CreateChildSound ==
  ASSUME NEW t, Sound(t), NEW l \in Levels, NEW p \in t.made, t.parent[p] = Root,
         NEW c \in Nat
  PROVE  Sound(CreateChild(t, l, p, c))
<1>1. t \in Trees
  BY DEF Sound
<1>2. CASE l \in t.made
  BY <1>2 DEF CreateChild
<1>3. CASE l \notin t.made
  <2> DEFINE u == CreateChild(t, l, p, c)
  <2>1. /\ u.made = t.made \cup {l}
        /\ u.parent = [x \in Levels |-> IF x \in {l} THEN p ELSE t.parent[x]]
        /\ u.ceiling = [x \in Levels |-> IF x \in {l} THEN c ELSE t.ceiling[x]]
        /\ u.reserved = t.reserved /\ u.committed = t.committed /\ u.claim = t.claim
    BY <1>1, <1>3 DEF CreateChild, Trees
  <2>2. p \in Levels
    BY <1>1 DEF Trees
  <2>3. u \in Trees
    BY <1>1, <1>3, <2>2 DEF CreateChild, Trees
  <2>. HIDE DEF u
  <2>4. {l} \in SUBSET (Levels \ t.made) /\ \A x \in Levels \ {l} : u.ceiling[x] = t.ceiling[x]
    BY <1>3, <2>1
  <2> DEFINE new == {l}
  <2>5. new \in SUBSET (Levels \ t.made) /\ u.made = t.made \cup new
        /\ u.parent = [x \in Levels |-> IF x \in new THEN p ELSE t.parent[x]]
        /\ \A x \in Levels \ new : u.ceiling[x] = t.ceiling[x]
    BY <2>1, <2>4
  <2>. HIDE DEF new
  <2>6. Sound(u)
    BY <2>1, <2>3, <2>5, GrowSound
  <2>. QED
    BY <2>6 DEF u
<1>. QED
  BY <1>2, <1>3

(* set_workspace_ceiling.                                                   *)
LEMMA SetCeilingSound ==
  ASSUME NEW t, Sound(t), NEW c \in Nat, Lowerable(t, c)
  PROVE  Sound(SetCeiling(t, c))
<1> DEFINE u == SetCeiling(t, c)
<1>1. t \in Trees /\ Shaped(t) /\ CountersAgree(t) /\ WithinCeiling(t)
  BY DEF Sound
<1>2. /\ u.made = t.made /\ u.parent = t.parent /\ u.claim = t.claim
      /\ u.reserved = t.reserved /\ u.committed = t.committed
      /\ u.ceiling = [t.ceiling EXCEPT ![Root] = c]
  BY <1>1 DEF SetCeiling, Trees
<1>3. u \in Trees
  BY <1>1 DEF SetCeiling, Trees
<1>. HIDE DEF u
<1>4. Shaped(u)
  BY <1>1, <1>2 DEF Shaped
<1>5. WithinCeiling(u)
  BY <1>1, <1>2, RootAssumption DEF WithinCeiling, Lowerable, Trees
<1>6. \A l, s : Under(u, l, s) = Under(t, l, s)
  BY <1>2 DEF Under, Chain
<1>7. \A S : Sum(u, S) = Sum(t, S)
  BY <1>2, SumSame
<1>8. CountersAgree(u)
  BY <1>1, <1>2, <1>6, <1>7 DEF CountersAgree
<1>. QED
  BY <1>3, <1>4, <1>5, <1>8 DEF Sound, u

-----------------------------------------------------------------------------
(* A reservation that fits at every level of the chain.                     *)
LEMMA ReserveSound ==
  ASSUME NEW t, Sound(t), NEW l \in t.made, NEW a \in Nat, NEW r \in Refs,
         t.claim[r].state # "none" \/ Fits(t, l, a)
  PROVE  Sound(Reserve(t, l, a, r))
<1>1. t \in Trees /\ Shaped(t) /\ CountersAgree(t) /\ WithinCeiling(t)
  BY DEF Sound
<1>2. CASE t.claim[r].state # "none"
  BY <1>2 DEF Reserve
<1>3. CASE t.claim[r].state = "none"
  <2> DEFINE u == Reserve(t, l, a, r)
  <2>1. /\ u.made = t.made /\ u.parent = t.parent
        /\ u.ceiling = t.ceiling /\ u.committed = t.committed
        /\ u.reserved = [x \in Levels |-> IF x \in Chain(t, l) THEN t.reserved[x] + a ELSE t.reserved[x]]
        /\ u.claim = [t.claim EXCEPT ![r] = [level |-> l, amount |-> a, state |-> "reserved"]]
    BY <1>1, <1>3 DEF Reserve, Trees
  <2>2. l \in Levels
    BY <1>1 DEF Trees
  <2>3. u \in Trees
    <3>1. u.reserved \in [Levels -> Nat]
      BY <1>1, <2>1 DEF Trees
    <3>2. u.claim \in [Refs -> Claim]
      BY <1>1, <2>1, <2>2 DEF Trees, Claim, ClaimStates
    <3>. QED
      BY <1>1, <1>3, <3>1, <3>2 DEF Reserve, Trees
  <2>. HIDE DEF u
  <2>4. Shaped(u)
    BY <1>1, <2>1 DEF Shaped, Trees, Claim
  <2>5. Chain(u, l) = Chain(t, l) /\ \A q \in Refs : Chain(u, t.claim[q].level) = Chain(t, t.claim[q].level)
    BY <2>1 DEF Chain
  <2>6. WithinCeiling(u)
    <3>. SUFFICES ASSUME NEW x \in Levels PROVE u.reserved[x] + u.committed[x] <= u.ceiling[x]
      BY DEF WithinCeiling
    <3>0. t.reserved[x] \in Nat /\ t.committed[x] \in Nat /\ t.ceiling[x] \in Nat
      BY <1>1 DEF Trees
    <3>1. CASE x \in Chain(t, l)
      <4>1. ~ (a > Available(t, x))
        BY <1>3, <3>1 DEF Fits, Refusing
      <4>. QED
        BY <2>1, <3>0, <3>1, <4>1 DEF Available
    <3>2. CASE x \notin Chain(t, l)
      BY <1>1, <2>1, <3>2 DEF WithinCeiling
    <3>. QED
      BY <3>1, <3>2
  <2>7. \A q \in Refs \ {r} : u.claim[q] = t.claim[q]
    BY <1>1, <2>1 DEF Trees
  <2>8. u.claim[r] = [level |-> l, amount |-> a, state |-> "reserved"]
    BY <1>1, <2>1 DEF Trees
  <2>9. CountersAgree(u)
    <3>. SUFFICES ASSUME NEW x \in Levels
                  PROVE  /\ u.reserved[x] = Sum(u, Under(u, x, "reserved"))
                         /\ u.committed[x] = Sum(u, Under(u, x, "committed"))
      BY DEF CountersAgree
    <3> DEFINE R == Under(t, x, "reserved")
    <3>0. R \in SUBSET Refs /\ r \notin R
      BY <1>3 DEF Under
    <3>1. Sum(u, R) = Sum(t, R) /\ Sum(t, R) = t.reserved[x]
      BY <1>1, <2>7, <3>0, SumSame DEF CountersAgree
    <3>2. u.reserved[x] = Sum(u, Under(u, x, "reserved"))
      <4>1. CASE x \in Chain(t, l)
        <5>1. Under(u, x, "reserved") = R \cup {r}
          BY <1>3, <2>5, <2>7, <2>8, <4>1 DEF Under
        <5>2. Sum(u, R \cup {r}) = Sum(u, R) + u.claim[r].amount
          BY <2>3, <3>0, SumAdd
        <5>3. u.reserved[x] = t.reserved[x] + a /\ u.claim[r].amount = a
          BY <2>1, <2>8, <4>1
        <5>. HIDE DEF R
        <5>. QED
          BY <3>1, <5>1, <5>2, <5>3
      <4>2. CASE x \notin Chain(t, l)
        <5>1. Under(u, x, "reserved") = R
          BY <1>3, <2>5, <2>7, <2>8, <4>2 DEF Under
        <5>. QED
          BY <2>1, <3>1, <4>2, <5>1
      <4>. QED
        BY <4>1, <4>2
    <3>3. u.committed[x] = Sum(u, Under(u, x, "committed"))
      <4>1. Under(u, x, "committed") = Under(t, x, "committed")
        BY <1>3, <2>5, <2>7, <2>8 DEF Under
      <4>2. r \notin Under(t, x, "committed")
        BY <1>3 DEF Under
      <4>3. Sum(u, Under(t, x, "committed")) = Sum(t, Under(t, x, "committed"))
        BY <2>7, <4>2, SumSame DEF Under
      <4>. QED
        BY <1>1, <2>1, <4>1, <4>3 DEF CountersAgree
    <3>. QED
      BY <3>2, <3>3
  <2>10. Sound(u)
    BY <2>3, <2>4, <2>6, <2>9 DEF Sound
  <2>. QED
    BY <2>10 DEF u
<1>. QED
  BY <1>2, <1>3

(* A reservation that ends, with the units that stay committed.             *)
LEMMA CloseSound ==
  ASSUME NEW t, Sound(t), NEW r \in Refs, NEW kept \in Nat, NEW amount \in Nat,
         NEW state \in {"committed", "released"},
         kept <= t.claim[r].amount,
         state = "committed" => amount = kept,
         state = "released" => kept = 0
  PROVE  Sound(Close(t, r, kept, amount, state))
<1>1. t \in Trees /\ Shaped(t) /\ CountersAgree(t) /\ WithinCeiling(t)
  BY DEF Sound
<1>2. CASE t.claim[r].state # "reserved"
  BY <1>2 DEF Close
<1>3. CASE t.claim[r].state = "reserved"
  <2> DEFINE u == Close(t, r, kept, amount, state)
             c == t.claim[r]
             K == Chain(t, c.level)
  <2>0. c \in Claim
    BY <1>1 DEF Trees
  <2>1. /\ u.made = t.made /\ u.parent = t.parent /\ u.ceiling = t.ceiling
        /\ u.reserved = [x \in Levels |-> IF x \in K THEN t.reserved[x] - c.amount ELSE t.reserved[x]]
        /\ u.committed = [x \in Levels |-> IF x \in K THEN t.committed[x] + kept ELSE t.committed[x]]
        /\ u.claim = [t.claim EXCEPT ![r] = [c EXCEPT !.amount = amount, !.state = state]]
    BY <1>1, <1>3 DEF Close, Trees
  <2>2. u.claim[r] = [level |-> c.level, amount |-> amount, state |-> state]
    BY <1>1, <2>0, <2>1 DEF Trees, Claim
  <2>3. \A q \in Refs \ {r} : u.claim[q] = t.claim[q]
    BY <1>1, <2>1 DEF Trees
  <2>4. u.claim \in [Refs -> Claim]
    <3>1. u.claim[r] \in Claim
      BY <2>0, <2>2 DEF Claim, ClaimStates
    <3>. QED
      BY <1>1, <2>1, <2>2, <3>1 DEF Trees
  <2>5. ASSUME NEW x \in Levels
        PROVE  /\ x \in K => c.amount + Sum(t, Under(t, x, "reserved") \ {r}) = t.reserved[x]
               /\ x \notin K => r \notin Under(t, x, "reserved")
    <3>1. ASSUME x \in K PROVE Under(t, x, "reserved") = (Under(t, x, "reserved") \ {r}) \cup {r}
      BY <1>3, <3>1 DEF Under
    <3>2. Sum(t, (Under(t, x, "reserved") \ {r}) \cup {r}) = Sum(t, Under(t, x, "reserved") \ {r}) + c.amount
      BY <1>1, SumAdd DEF Under
    <3>3. t.reserved[x] = Sum(t, Under(t, x, "reserved"))
      BY <1>1 DEF CountersAgree
    <3>4. Sum(t, Under(t, x, "reserved") \ {r}) \in Nat /\ c.amount \in Nat
      BY <1>1, <2>0, SumType DEF Under, Claim
    <3>5. x \notin K => r \notin Under(t, x, "reserved")
      BY DEF Under
    <3>. HIDE DEF K, c
    <3>. QED
      BY <3>1, <3>2, <3>3, <3>4, <3>5
  <2>6. \A x \in Levels : x \in K => t.reserved[x] - c.amount \in Nat
    <3>1. \A x \in Levels : Sum(t, Under(t, x, "reserved") \ {r}) \in Nat
      BY <1>1, SumType DEF Under
    <3>2. c.amount \in Nat
      BY <2>0 DEF Claim
    <3>3. \A x \in Levels : x \in K => c.amount + Sum(t, Under(t, x, "reserved") \ {r}) = t.reserved[x]
      BY <2>5
    <3>. SUFFICES ASSUME NEW x \in Levels, x \in K PROVE t.reserved[x] - c.amount \in Nat
      OBVIOUS
    <3>4. /\ Sum(t, Under(t, x, "reserved") \ {r}) \in Nat
          /\ c.amount + Sum(t, Under(t, x, "reserved") \ {r}) = t.reserved[x]
      BY <3>1, <3>3
    <3>. HIDE DEF K, c
    <3>. QED
      BY <3>2, <3>4
  <2>7. u \in Trees
    <3>1. u.reserved \in [Levels -> Nat]
      BY <1>1, <2>1, <2>6 DEF Trees
    <3>2. u.committed \in [Levels -> Nat]
      BY <1>1, <2>1 DEF Trees
    <3>. QED
      BY <1>1, <1>3, <2>4, <3>1, <3>2 DEF Close, Trees
  <2>. HIDE DEF u
  <2>8. Shaped(u)
    <3>1. \A q \in Refs : u.claim[q].level \in u.made
      BY <1>1, <2>1, <2>2, <2>3 DEF Shaped
    <3>. QED
      BY <1>1, <2>1, <3>1 DEF Shaped
  <2>9. \A q \in Refs : Chain(u, u.claim[q].level) = Chain(t, t.claim[q].level)
    <3>1. \A q \in Refs : u.claim[q].level = t.claim[q].level
      BY <2>2, <2>3
    <3>. QED
      BY <2>1, <3>1 DEF Chain
  <2>10. WithinCeiling(u)
    <3>. SUFFICES ASSUME NEW x \in Levels PROVE u.reserved[x] + u.committed[x] <= u.ceiling[x]
      BY DEF WithinCeiling
    <3>0. /\ t.reserved[x] \in Nat /\ t.committed[x] \in Nat /\ t.ceiling[x] \in Nat
          /\ c.amount \in Nat /\ t.reserved[x] + t.committed[x] <= t.ceiling[x]
      BY <1>1, <2>0 DEF Trees, Claim, WithinCeiling
    <3>. HIDE DEF K, c
    <3>1. CASE x \in K
      <4>1. u.reserved[x] = t.reserved[x] - c.amount /\ u.committed[x] = t.committed[x] + kept
        BY <2>1, <3>1
      <4>2. kept <= c.amount
        BY DEF c
      <4>. QED
        BY <2>1, <3>0, <4>1, <4>2
    <3>2. CASE x \notin K
      BY <2>1, <3>0, <3>2
    <3>. QED
      BY <3>1, <3>2
  <2>11. CountersAgree(u)
    <3>. SUFFICES ASSUME NEW x \in Levels
                  PROVE  /\ u.reserved[x] = Sum(u, Under(u, x, "reserved"))
                         /\ u.committed[x] = Sum(u, Under(u, x, "committed"))
      BY DEF CountersAgree
    <3> DEFINE R == Under(t, x, "reserved") \ {r}
               C == Under(t, x, "committed")
    <3>0. R \in SUBSET Refs /\ r \notin R /\ C \in SUBSET Refs /\ r \notin C
      BY <1>3 DEF Under
    <3>1. Sum(u, R) = Sum(t, R) /\ Sum(u, C) = Sum(t, C) /\ Sum(t, C) = t.committed[x]
      BY <1>1, <2>3, <3>0, SumSame DEF CountersAgree
    <3>2. Under(u, x, "reserved") = R
      BY <1>3, <2>2, <2>3, <2>9 DEF Under
    <3>3. u.reserved[x] = Sum(t, R)
      <4>0. Sum(t, R) \in Nat /\ c.amount \in Nat /\ t.reserved[x] = Sum(t, Under(t, x, "reserved"))
        BY <1>1, <2>0, <3>0, SumType DEF Claim, CountersAgree
      <4>1. CASE x \in K
        <5>1. u.reserved[x] = t.reserved[x] - c.amount
          BY <2>1, <4>1
        <5>2. c.amount + Sum(t, R) = t.reserved[x]
          BY <2>5, <4>1
        <5>. HIDE DEF R, c, K
        <5>. QED
          BY <4>0, <5>1, <5>2
      <4>2. CASE x \notin K
        <5>1. Under(t, x, "reserved") = R
          BY <2>5, <4>2
        <5>. QED
          BY <2>1, <4>0, <4>2, <5>1
      <4>. QED
        BY <4>1, <4>2
    <3>4. u.committed[x] = Sum(u, Under(u, x, "committed"))
      <4>1. CASE x \in K /\ state = "committed"
        <5>1. Under(u, x, "committed") = C \cup {r}
          BY <1>3, <2>2, <2>3, <2>9, <4>1 DEF Under
        <5>2. Sum(u, C \cup {r}) = Sum(u, C) + u.claim[r].amount
          BY <2>7, <3>0, SumAdd
        <5>3. u.committed[x] = t.committed[x] + kept /\ u.claim[r].amount = kept
          BY <2>1, <2>2, <4>1
        <5>. QED
          BY <3>1, <5>1, <5>2, <5>3
      <4>2. CASE ~ (x \in K /\ state = "committed")
        <5>1. Under(u, x, "committed") = C
          BY <1>3, <2>2, <2>3, <2>9, <4>2 DEF Under
        <5>2. t.committed[x] \in Nat
          BY <1>1 DEF Trees
        <5>3. u.committed[x] = t.committed[x]
          <6>1. CASE x \notin K
            BY <2>1, <6>1
          <6>2. CASE x \in K
            <7>1. kept = 0
              BY <4>2, <6>2
            <7>. QED
              BY <2>1, <5>2, <6>2, <7>1
          <6>. QED
            BY <6>1, <6>2
        <5>. QED
          BY <3>1, <5>1, <5>3
      <4>. QED
        BY <4>1, <4>2
    <3>. QED
      BY <3>1, <3>2, <3>3, <3>4
  <2>12. Sound(u)
    BY <2>7, <2>8, <2>10, <2>11 DEF Sound
  <2>. QED
    BY <2>12 DEF u
<1>. QED
  BY <1>2, <1>3

LEMMA SettleSound ==
  ASSUME NEW t, Sound(t), NEW r \in Refs
  PROVE  /\ Sound(Commit(t, r)) /\ Sound(Release(t, r))
         /\ \A keep \in Nat : Sound(ReleasePartial(t, r, keep))
<1>1. t.claim[r].amount \in Nat
  BY DEF Sound, Trees, Claim
<1>2. Sound(Commit(t, r))
  BY <1>1, CloseSound DEF Commit
<1>3. Sound(Release(t, r))
  BY <1>1, CloseSound DEF Release
<1>4. ASSUME NEW keep \in Nat PROVE Sound(ReleasePartial(t, r, keep))
  BY <1>1, CloseSound DEF ReleasePartial
<1>. QED
  BY <1>2, <1>3, <1>4
=============================================================================
