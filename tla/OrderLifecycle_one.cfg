\* One order in full detail. Three lots, so that an execution reported twice
\* can leave an open row that no longer loads.
SPECIFICATION Spec
CONSTANTS
  Orders = {o1}
  FillIds = {f1, f2}
  Quantity = 3
  MaxCrashes = 2
  RejectedOnlyAtGate = TRUE
  RepeatedReports = TRUE
SYMMETRY FillSymmetry
INVARIANTS TypeOK StampAgreesWithState NoFabricatedOutcome
PROPERTIES SettledIsFinal UnknownLeavesByAsking FillsOnlyGrow
PROPERTIES RecoveryBlocksWhatItCannotSee KeepsPromise
CHECK_DEADLOCK FALSE
