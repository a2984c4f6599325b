SPECIFICATION FairSpec
CONSTANTS
  b1 = b1
  Bookings <- MCBookings
  Owners = {}
  Kinds = {"REMINDER", "CANCELLED"}
  Sweeps = {w1, w2}
  Addressless <- MCAddressless
  Lead = 1
  Starts = {2}
  MaxMoves = 1
  MaxAttempts = 2
  BackoffCap = 1
  ReclaimAfter = 0
  Patience = 0
  Limit = 1
  MaxFaults = 1
INVARIANTS
  OneHolder
  TwiceOnlyAfterLoss
PROPERTIES
  EveryJobSettles
  DeadBookingQuiet
  ReminderInTime
CHECK_DEADLOCK TRUE
