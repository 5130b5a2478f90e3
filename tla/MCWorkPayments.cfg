SPECIFICATION Spec
CONSTANTS
  h1 = h1
  h2 = h2
  Handlers = {h1}
  MaxIntents = 2
  MaxSubmissions = 2
  MaxDecisions = 3
  Absent = Absent
INVARIANTS
  TypeOK
  OneTransferUnlessOvertaken
  TransferNeverForgotten
  ExposureIsInFlight
  PaidMeansMoved
PROPERTY NothingSubmittedBeforeOutcome
CHECK_DEADLOCK FALSE
