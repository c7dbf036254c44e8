CONSTANTS
  o1 = o1
  o2 = o2
  m1 = m1
  m2 = m2
  d1 = d1
  d2 = d2
  g1 = g1
  p1 = p1
  Orders = {o1, o2}
  Masters = {m1}
  Drivers = {d1, d2}
  Customer = customer
  NoDriver = NoDriver
  Orgs = {g1}
  NoOrg = NoOrg
  Products = {p1}
  Dto <- OneOfEach
  DriverFee <- EqualFees
  DeliveryFee = 30
  InitialStock <- Shelf1
  Slots = {s1}
  CustomerSlots = {c1, c2}
  MaxInflight = 3
  MaxTokens = 2
SPECIFICATION Spec
INVARIANT ReceiptAfterArrival
SYMMETRY Symmetry
CHECK_DEADLOCK FALSE
