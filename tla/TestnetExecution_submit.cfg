\* One order, requested twice, cancelled and swept, with a death; or two orders, for
\* which the sweep may suspect a reset.
SPECIFICATION MCSpec
CONSTANTS
  Intents = {o1, o2}
  Requests = {q1, q2}
  Cancels = {c1}
  Leverages = {5, 10}
  NoIntent = NoIntent
  Quantity = 2
  FillIds = {}
  MaxCrashes = 1
  MaxResets = 1
  Sweeping = TRUE
SYMMETRY Interchangeable
INVARIANTS SentAtMostOnce NothingUnaccounted BooksMatchVenue
CHECK_DEADLOCK FALSE
