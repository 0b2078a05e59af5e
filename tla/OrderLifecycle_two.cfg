\* Two orders and two deaths: a recovery pass can be cut short between them.
SPECIFICATION Spec
CONSTANTS
  Orders = {o1, o2}
  FillIds = {f1}
  Quantity = 1
  MaxCrashes = 2
  RejectedOnlyAtGate = TRUE
  RepeatedReports = FALSE
PROPERTIES RecoveryFinishes
CHECK_DEADLOCK FALSE
