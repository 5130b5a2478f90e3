SPECIFICATION Spec
CONSTANTS
  j1 = j1
  j2 = j2
  r1 = r1
  r2 = r2
  e1 = e1
  e2 = e2
  c1 = c1
  c2 = c2
  Jobs = {j1, j2}
  Ids = {r1, r2}
  Roots = {e1, e2}
  Callers = {c1, c2}
  Completed = {j1, j2}
  Cap = 2
  Amount <- MCAmount
  Grants = {0, 1, 2}
  References = {"ref"}
  NoRoot = NoRoot
  NoRow = NoRow
  NoAnswer = NoAnswer
SYMMETRY Symmetry
INVARIANTS
  TypeOK
  ExposureWithinCap
  SubmittedAtMostOnce
  OneActionPerJob
  ActionBoundToAcceptedEvidence
  ResultIsBound
PROPERTIES
  ConcludedStaysConcluded
  ImplementsBoundedSpend
CHECK_DEADLOCK FALSE
