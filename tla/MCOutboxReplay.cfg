\* One entry, sent again.
SPECIFICATION Spec
CONSTANTS
  Flushes = {f1}
  Asked = {"OUT_FOR_DELIVERY"}
  StaffMoves = {"FAILED", "RETRY_SCHEDULED"}
  FirstStatus = "PICKED_UP"
  MAX_ATTEMPTS = 8
  Batch = 50
  MaxEntries = 1
INVARIANTS
  AppliedOnce
CHECK_DEADLOCK FALSE
