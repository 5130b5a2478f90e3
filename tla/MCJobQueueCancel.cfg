SPECIFICATION FairSpec
CONSTANTS
  a1 = a1
  a2 = a2
  a3 = a3
  k1 = k1
  k2 = k2
  k3 = k3
  w1 = w1
  w2 = w2
  alice = alice
  bob = bob
  Jobs = {a1}
  Contracts = {k1}
  SubmitterOf <- OneSubmitter
  Workers = {w1, w2}
  MaxRetries = 1
  MaxQueued = 1
  Quota = 1
  MaxGeneration <- ThreeClaims
  MaxCrashes = 1
  LeaseOutlastsRun = TRUE
  Absent = Absent
  Nobody = Nobody
PROPERTY JobsEnd
CHECK_DEADLOCK FALSE
