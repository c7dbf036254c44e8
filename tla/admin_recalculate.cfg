CONSTANTS
  o1 = o1
  o2 = o2
  m1 = m1
  m2 = m2
  d1 = d1
  Orders = {o1}
  Masters = {m1}
  Drivers = {d1}
  NoDriver = NoDriver
  Initial <- OneBegun
  Courier <- OneCourier
  Sums = {100}
  Rates = {10, 25}
  FirstRate <- AllTen
  DeliveryFee = 30
  AdminStatuses = {"working", "waiting_customer_confirmation", "completed"}
  Keep = Keep
  Slots = {s1, s2}
SPECIFICATION Spec
INVARIANTS TypeOK BalanceIsLedger
PROPERTY WageSurvives
SYMMETRY Symmetry
