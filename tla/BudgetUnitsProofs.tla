------------------------- MODULE BudgetUnitsProofs --------------------------
(***************************************************************************)
(* Counting budget units behaves like SUM(amount): it is a natural number, *)
(* monotone in the set of jobs, and grows by exactly the amount of a job   *)
(* that joins.                                                             *)
(***************************************************************************)
EXTENDS BudgetUnits, FiniteSetTheorems, FunctionTheorems, TLAPS

(* The units of finitely many jobs are finitely many. *)
LEMMA UnitsFinite ==
  ASSUME NEW S \in SUBSET Jobs
  PROVE  IsFiniteSet(UnitsOf(S))
<1> DEFINE Of(j) == {j} \X (1..Amount[j])
           T     == {Of(j) : j \in S}
           f     == [j \in S |-> Of(j)]
<1>1. IsFiniteSet(S)
  BY JobsAssumption, FS_Subset
<1>2. IsFiniteSet(T)
  <2>1. f \in Surjection(S, T)
    BY DEF Surjection
  <2>. QED
    BY <1>1, <2>1, FS_Surjection
<1>3. \A X \in T : IsFiniteSet(X)
  <2>. SUFFICES ASSUME NEW j \in S PROVE IsFiniteSet(Of(j))
    OBVIOUS
  <2>1. Amount[j] \in Int
    BY AmountAssumption
  <2>2. IsFiniteSet(1..Amount[j])
    BY <2>1, FS_Interval
  <2>3. IsFiniteSet({j})
    BY FS_Singleton
  <2>. QED
    BY <2>2, <2>3, FS_Product
<1>. HIDE DEF T
<1>4. IsFiniteSet(UNION T)
  BY <1>2, <1>3, FS_UNION
<1>. QED
  BY <1>4 DEF UnitsOf, T

(* The exposure of a set of jobs is a natural number. *)
LEMMA TotalType ==
  ASSUME NEW S \in SUBSET Jobs
  PROVE  Total(S) \in Nat
BY UnitsFinite, FS_CardinalityType DEF Total

(* Dropping jobs never raises the exposure. *)
LEMMA TotalMonotone ==
  ASSUME NEW S \in SUBSET Jobs, NEW T \in SUBSET S
  PROVE  Total(T) <= Total(S)
<1>1. UnitsOf(T) \in SUBSET UnitsOf(S)
  BY DEF UnitsOf
<1>. QED
  BY <1>1, UnitsFinite, FS_Subset DEF Total

(* A job that joins adds its own amount, as in SUM(amount) over the rows. *)
LEMMA TotalAdd ==
  ASSUME NEW S \in SUBSET Jobs, NEW j \in Jobs, j \notin S
  PROVE  Total(S \cup {j}) = Total(S) + Amount[j]
<1> DEFINE Own == {j} \X (1..Amount[j])
<1>1. UnitsOf(S \cup {j}) = UnitsOf(S) \cup Own
  BY DEF UnitsOf
<1>2. UnitsOf(S) \cap Own = {}
  BY DEF UnitsOf
<1>3. Amount[j] \in Nat
  BY AmountAssumption
<1>4. IsFiniteSet(1..Amount[j]) /\ Cardinality(1..Amount[j]) = Amount[j]
  BY <1>3, FS_Interval, AmountAssumption
<1>5. IsFiniteSet({j}) /\ Cardinality({j}) = 1
  BY FS_Singleton
<1>6. IsFiniteSet(Own) /\ Cardinality(Own) = Amount[j]
  <2>1. \A A, B : IsFiniteSet(A) /\ IsFiniteSet(B)
                   => IsFiniteSet(A \X B) /\ Cardinality(A \X B) = Cardinality(A) * Cardinality(B)
    BY FS_Product
  <2>2. IsFiniteSet(Own) /\ Cardinality(Own) = Cardinality({j}) * Cardinality(1..Amount[j])
    BY <1>4, <1>5, <2>1, Zenon
  <2>3. Cardinality(Own) = 1 * Amount[j]
    BY <1>4, <1>5, <2>2, Zenon
  <2>. QED
    BY <2>2, <2>3, <1>3
<1>7. IsFiniteSet(UnitsOf(S))
  BY UnitsFinite
<1>8. Cardinality(UnitsOf(S)) \in Nat
  BY <1>7, FS_CardinalityType
<1>. HIDE DEF Own
<1>9. Cardinality(UnitsOf(S) \cup Own)
        = Cardinality(UnitsOf(S)) + Cardinality(Own) - Cardinality(UnitsOf(S) \cap Own)
  BY <1>6, <1>7, FS_Union
<1>10. Cardinality(UnitsOf(S) \cap Own) = 0
  BY <1>2, FS_EmptySet
<1>11. Cardinality(UnitsOf(S) \cup Own) = Cardinality(UnitsOf(S)) + Amount[j]
  BY <1>3, <1>6, <1>8, <1>9, <1>10
<1>. QED
  BY <1>1, <1>11 DEF Total
=============================================================================
