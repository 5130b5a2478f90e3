SPECIFICATION Spec
CONSTANTS
  big = big
  small = small
  w1 = w1
  w2 = w2
  n1 = n1
  Jobs = {big, small}
  Workers = {w1, w2}
  Nodes = {n1}
  Local = {big, small}
  Remote = {big}
  Units <- TwoUnits
  Pausable = {big}
  Cancellable = {big}
  Slots = 1
  MaxRetries = 1
  MaxClaims <- TwoClaims
  Free = Free
  MuchLarger <- BigForSmall
SYMMETRY WorkerSymmetry
PROPERTY ImplementsFencedLease
CHECK_DEADLOCK FALSE
INVARIANTS
  ComputeTypeOK
  CheckpointsAdvance
  UnitsContiguous
  ReservationBacksRun
