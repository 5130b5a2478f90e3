----------------------------- MODULE MCJobQueue -----------------------------
(* Instances of JobQueue for TLC. *)
EXTENDS JobQueue, TLC

CONSTANTS a1, a2, a3, k1, k2, k3, w1, w2, alice, bob

(* Alice may submit a batch of two beside Bob's job: the three do not fit.   *)
TwoSubmitters == k1 :> alice @@ k2 :> alice @@ k3 :> bob
OneSubmitter  == k1 :> alice
(* One job changes hands twice, the others only take room.                  *)
SomeClaims == a1 :> 3 @@ a2 :> 0 @@ a3 :> 0
ThreeClaims == a1 :> 3
(* Alice's contracts are interchangeable.                                   *)
SymmetricQueue == Permutations(Workers) \cup Permutations({k1, k2})
=============================================================================
