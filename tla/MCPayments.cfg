\* One card order and one paid in cash, two requests in flight.
SPECIFICATION Spec
CONSTANTS
  CardOrders = {o1}
  CashOrders = {c1}
  Intents = {i1, i2}
  Procs = {p1, p2}
  NoOrder = NoOrder
  NoIntent = NoIntent
  MaxEvents = 3
CONSTRAINT FewEvents
SYMMETRY Symmetry
INVARIANTS
  PaymentsTypeOK
  ChargedOnce
  RowHoldsPayableIntent
  NoFalsePayment
