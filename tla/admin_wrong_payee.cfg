CONSTANTS
  o1 = o1
  o2 = o2
  m1 = m1
  m2 = m2
  d1 = d1
  Orders = {o1}
  Masters = {m1, m2}
  Drivers = {d1}
  NoDriver = NoDriver
  Initial <- OneBegun
  Courier <- OneCourier
  Sums = {100}
  Rates = {10}
  FirstRate <- AllTen
  DeliveryFee = 30
  AdminStatuses = {"working", "waiting_customer_confirmation", "completed"}
  Keep = Keep
  Slots = {s1}
SPECIFICATION Spec
INVARIANT BalanceIsLedger
SYMMETRY Symmetry
