\* One order, one page, one handler beside the page's own; errors and crashes.
SPECIFICATION LiveDispatch
CONSTANTS
  Orders = {o1}
  Drivers = {d1, d2}
  Procs = {p1}
  Workers = {}
  SelfStatus = {}
  Requested <- Road
  CardOrders = {o1}
  Windows = {}
  Codes = {}
  MaxAttempts = 1
  Pages = {g1}
  NoOrder = NoOrder
  NoDriver = NoDriver
  NoWindow = NoWindow
  NoCode = NoCode
  NoPage = NoPage
  Off = Off
PROPERTIES
  OwnAssignmentShown
  CreditIsEarned
  BoardCatchesUp
