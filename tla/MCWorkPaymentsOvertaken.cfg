SPECIFICATION Spec
CONSTANTS
  h1 = h1
  h2 = h2
  Handlers = {h1, h2}
  MaxIntents = 2
  MaxSubmissions = 2
  MaxDecisions = 1
  Absent = Absent
INVARIANT OneTransferPerEntitlement
SYMMETRY SymmetricHandlers
CHECK_DEADLOCK FALSE
