------------------------- MODULE MCBuyerSettlement --------------------------
(* Instances of BuyerSettlement for TLC. *)
EXTENDS BuyerSettlement, TLC

CONSTANTS j1, j2, r1, r2, e1, c1, c2, c3

AmountOneTwo == j1 :> 1 @@ j2 :> 2
AmountOne    == j1 :> 1
SymmetricCallers == Permutations(Callers)
=============================================================================
