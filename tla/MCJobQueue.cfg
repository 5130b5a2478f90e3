SPECIFICATION Spec
CONSTANTS
  a1 = a1
  a2 = a2
  a3 = a3
  k1 = k1
  k2 = k2
  k3 = k3
  w1 = w1
  w2 = w2
  alice = alice
  bob = bob
  Jobs = {a1, a2, a3}
  Contracts = {k1, k2, k3}
  SubmitterOf <- TwoSubmitters
  Workers = {w1, w2}
  MaxRetries = 1
  MaxQueued = 2
  Quota = 2
  MaxGeneration <- SomeClaims
  MaxCrashes = 0
  LeaseOutlastsRun = FALSE
  Absent = Absent
  Nobody = Nobody
SYMMETRY SymmetricQueue
INVARIANTS
  TypeOK
  PublishedOnce
  QueueBounded
  OneLiveJobPerContract
PROPERTY ImplementsFencedLease
CHECK_DEADLOCK FALSE
