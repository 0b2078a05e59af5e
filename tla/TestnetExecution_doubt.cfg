\* A submission times out; the venue has the order, and says so to whoever sweeps.
SPECIFICATION SweptSpec
CONSTANTS
  Intents = {o1}
  Requests = {q1}
  Cancels = {}
  Leverages = {5}
  NoIntent = NoIntent
  Quantity = 1
  FillIds = {}
  MaxCrashes = 0
  MaxResets = 0
  Sweeping = TRUE
PROPERTIES DoubtIsSettled
CHECK_DEADLOCK FALSE
