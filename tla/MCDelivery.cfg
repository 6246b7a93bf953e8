\* One order, two overlapping HTTP handlers and a worker.
SPECIFICATION DeliverySpec
CONSTANTS
  Orders = {o1}
  Drivers = {d1}
  Procs = {p1, p2, r1}
  Workers = {r1}
  SelfStatus = {}
  Requested = {"ACCEPTED", "EN_ROUTE_TO_PICKUP"}
  CardOrders = {}
  Windows = {w1}
  Codes = {}
  MaxAttempts = 1
  NoOrder = NoOrder
  NoDriver = NoDriver
  NoWindow = NoWindow
  NoCode = NoCode
SYMMETRY HandlerSymmetry
INVARIANTS
  DeliveryTypeOK
  AuditExplainsStatus
  AuditIsPlausible
PROPERTIES
  DriverChangesAreAssignments
  OnlyOverlapsMisnumber
  OnlyKnownCausesStrand
