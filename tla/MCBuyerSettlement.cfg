SPECIFICATION BSpec
CONSTANTS
  j1 = j1
  j2 = j2
  r1 = r1
  r2 = r2
  e1 = e1
  c1 = c1
  c2 = c2
  c3 = c3
  Jobs = {j1, j2}
  Ids = {r1, r2}
  Roots = {e1}
  Callers = {c1, c2}
  Completed = {j1, j2}
  Cap = 2
  Amount <- AmountOneTwo
  Grants = {0, 1, 2}
  References = {"transfer", "refusal"}
  Idempotent = {r1}
  NoRoot = NoRoot
  NoRow = NoRow
  NoAnswer = NoAnswer
  NoSubmission = NoSubmission
SYMMETRY SymmetricCallers
INVARIANTS
  BuyerTypeOK
  SignedAtMostOnce
  OneTransferPerRequest
  PresentedIsStored
  ConfirmedMeansSettled
  RecalledRefusalIsConclusive
  TransfersWithinCap
CHECK_DEADLOCK FALSE
