\* One entry, and a phone that is out of reach for eight flushes.
SPECIFICATION OfflineSpec
CONSTANTS
  Flushes = {f1}
  Asked = {"OUT_FOR_DELIVERY"}
  StaffMoves = {}
  FirstStatus = "PICKED_UP"
  MAX_ATTEMPTS = 8
  Batch = 50
  MaxEntries = 1
INVARIANTS
  KeptWhileOffline
CHECK_DEADLOCK FALSE
