\* Two requests, one key, one manager, everything may fail.
SPECIFICATION Spec
CONSTANTS
  k1 = k1
  tea = tea
  near = near
  far = far
  Products = {tea}
  Zones = {z1, z2}
  Points = {near, far}
  Polygons <- Districts
  NoPolygon = NoPolygon
  NoZone = NoZone
  Editors = {e1}
  Prices = {950, 1050}
  TermsOffered <- CityTerms
  Priorities = {0}
  Opening <- OpeningDay
  MaxRules = 2
  MaxEdits = 1
  Requests = {p1, p2}
  Keys = {k1}
  NoKey = NoKey
  Bodies <- Baskets
  NoBody = NoBody
  Sent <- Traffic
  Distance <- CityDistance
  Limit = 2
  MaxOrders = 2
INVARIANTS
  CheckoutTypeOK
  TotalIsReproducible
PROPERTIES
  ImplementsOncePerKey
  OrdersStayReplayable
  AreaFollowsPolygon
  CountersKeepEnding
SYMMETRY CheckoutSymmetry
\* A counter that was left without an expiry refuses its client for ever.
CHECK_DEADLOCK FALSE
