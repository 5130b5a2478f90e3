SPECIFICATION BSpec
CONSTANTS
  j1 = j1
  j2 = j2
  r1 = r1
  r2 = r2
  e1 = e1
  c1 = c1
  c2 = c2
  c3 = c3
  Jobs = {j1}
  Ids = {r1}
  Roots = {e1}
  Callers = {c1, c2}
  Completed = {j1}
  Cap = 1
  Amount <- AmountOne
  Grants = {0, 1}
  References = {"transfer", "refusal"}
  Idempotent = {}
  NoRoot = NoRoot
  NoRow = NoRow
  NoAnswer = NoAnswer
  NoSubmission = NoSubmission
INVARIANT FailedMeansNothingMoved
CHECK_DEADLOCK FALSE
