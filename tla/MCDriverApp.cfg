\* Two flushes that overlap, a batch of two, and an entry that is given up
\* after two failures.
SPECIFICATION LiveSpec
CONSTANTS
  Flushes = {f1, f2}
  Asked = {"OUT_FOR_DELIVERY", "DELIVERED"}
  StaffMoves = {"FAILED"}
  FirstStatus = "PICKED_UP"
  MAX_ATTEMPTS = 2
  Batch = 2
  MaxEntries = 2
INVARIANTS
  DriverAppTypeOK
  NotGivenUpEarly
PROPERTIES
  NoOvertaking
  NothingWaitsForever
CHECK_DEADLOCK FALSE
