\* Two orders, two drivers, two requests that never meet on one order.
SPECIFICATION CalmSpec
CONSTANTS
  Orders = {o1, o2}
  Drivers = {d1, d2}
  Procs = {p1, p2}
  SelfStatus = {"AVAILABLE"}
  Requested <- Shortened
  CardOrders = {o1, o2}
  NoOrder = NoOrder
  NoDriver = NoDriver
SYMMETRY Symmetry
INVARIANTS
  TypeOK
  ActiveOrderIsHeld
  DriverOnlyAfterAcceptance
PROPERTIES
  AuditIsAChain
  OnlyUnassignReopens
  
  OnlyRacesDoubleBook
  ImplementsMachine
