\* One order, two workers, no overlap but that of a stalled job's runs.
SPECIFICATION LiveDelivery
CONSTANTS
  Orders = {o1}
  Drivers = {d1}
  Procs = {p1, r1, r2}
  Workers = {r1, r2}
  SelfStatus = {"AVAILABLE"}
  Requested <- HappyPath
  CardOrders = {}
  Windows = {w1, w2}
  Codes = {c1}
  MaxAttempts = 2
  NoOrder = NoOrder
  NoDriver = NoDriver
  NoWindow = NoWindow
  NoCode = NoCode
PROPERTIES
  RetryHappens
  DeliveryImplementsMachine
  OnlyKnownCausesStrand
