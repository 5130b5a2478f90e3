SPECIFICATION FairSpec
CONSTANTS
  alice = alice
  bob = bob
  r1 = r1
  r2 = r2
  data = data
  audit = audit
  gate = gate
  publish = publish
  left = left
  award = award
  Root = Root
  Runs = {r1, r2}
  Principals = {alice, bob}
  StartedBy <- TheStarters
  Nodes = {data, audit, gate, publish, left}
  Awards = {award}
  Levels <- TheLevels
  Refs <- TheRefs
  Order <- TheOrder
  Type <- TheType
  Needs <- TheNeeds
  Input <- TheInput
  Outputs <- TheOutputs
  RunCeiling <- TheRunCeiling
  NodeCeiling <- TheNodeCeiling
  Amount <- TheAmount
  RootCeiling = 2
  Ceilings = {1, 2}
  Outcomes = {"FEASIBLE", "INFEASIBLE"}
  MaxRetries = 1
  MaxLive = 2
  MaxActive = 2
  NoCeiling = NoCeiling
  NoJob = NoJob
INVARIANTS
  WorkflowTypeOK
  UseWithinCeiling
  ReservedIsHeld
  ReservationFollowsNode
  StartedAfterDependencies
  CancelledRunIsIdle
PROPERTIES
  EndsAreKept
  CancelledRunEnds
CHECK_DEADLOCK FALSE
