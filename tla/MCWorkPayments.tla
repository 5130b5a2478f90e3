--------------------------- MODULE MCWorkPayments ---------------------------
(* Instances of WorkPayments for TLC. *)
EXTENDS WorkPayments, TLC

CONSTANTS h1, h2

SymmetricHandlers == Permutations(Handlers)
=============================================================================
