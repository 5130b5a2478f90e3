---------------------------- MODULE BudgetUnits -----------------------------
(***************************************************************************)
(* SUM(amount) over a set of rows, written as the number of budget units   *)
(* the rows hold: a job whose contract names an amount a holds the units   *)
(* <<job, 1>> .. <<job, a>>.  Counting units instead of folding + over the *)
(* rows keeps the sum inside what the proof system can reason about.       *)
(***************************************************************************)
EXTENDS Integers, FiniteSets

CONSTANTS
  Jobs,           \* work contracts registered with the journal
  Amount          \* the amount each contract's action spends

ASSUME JobsAssumption   == IsFiniteSet(Jobs)
ASSUME AmountAssumption == Amount \in [Jobs -> Nat \ {0}]

(* The units held by the jobs in S, and how many there are. *)
UnitsOf(S) == UNION {{j} \X (1..Amount[j]) : j \in S}
Total(S)   == Cardinality(UnitsOf(S))
=============================================================================
