\* Two requests that overlap on one order.
SPECIFICATION Spec
CONSTANTS
  Orders = {o1}
  Drivers = {d1}
  Procs = {p1, p2}
  SelfStatus = {"AVAILABLE"}
  Requested <- Status
  CardOrders = {o1}
  NoOrder = NoOrder
  NoDriver = NoDriver
SYMMETRY Symmetry
PROPERTIES
  StatusStepsAreLegal
