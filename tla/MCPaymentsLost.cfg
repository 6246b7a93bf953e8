\* A webhook handler that fails once.
SPECIFICATION Spec
CONSTANTS
  CardOrders = {o1}
  CashOrders = {c1}
  Intents = {i1, i2}
  Procs = {p1, p2}
  NoOrder = NoOrder
  NoIntent = NoIntent
  MaxEvents = 3
INVARIANTS
  ProcessedTookEffect
