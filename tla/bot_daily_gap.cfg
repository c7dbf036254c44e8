CONSTANTS
  o1 = o1  o2 = o2  m = m  d1 = d1  d2 = d2  u1 = u1
  c1 = c1  c2 = c2  k1 = k1  k2 = k2  A = A  B = B
  Parts = {"reports"}
  Users = {u1}  Chats = {c1}  NoChat = NoChat  NoUser = NoUser
  MaxFail = 1  LockTime = 1  SessionTime = 1  Slots = {1}  MaxTries = 1  MaxTicks = 1
  Orders = {o1}  Delivery = {o1}  Master = m  Colleague = u1  Drivers = {d1}
  NoDriver = NoDriver  NoOrder = NoOrder  MaxLost = 1  MaxEdits = 1
  HistoryOrders = 1  Take = 1  MaxTurns = 1
  Bills <- TwoBills  BrowserAhead = 1  MaxResets = 1
  SoldOrders = {o1, o2}  Masters = {m, u1}  NoMaster = NoMaster
  CronHour = 1  WeekDays = 1  LastDay = 1
  Orgs = {A}  NoOrg = NoOrg  NoVehicle = NoVehicle  Blank = Blank  Typed = Typed
  FleetSize = 1  MaxFleet = 1  MaxPieces = 1  MaxDrafts = 1
  Cards = {k1}  NoCard = NoCard  MovedTo = {"working"}  MaxSteps = 1
  ClosedOrders = 1  PageSize = 1  MaxFetches = 1  MaxClosings = 1
  Clerks = {k1}  Sales = {c1}  Costs = {1}  SalePrices = {1}
  MaxQuantity = 1  MaxStock = 1  MaxShort = 1
  Totals = {1}  MaxPurchases = 1  MaxPaid = 1
  DebtOrders = {o1}  OrderTotal = 1  Payments = {1}  Opening = {0}
  BossTabs = {1}  MaxPayments = 1
  Amounts = {1}  Fee = 3  MaxItems = 1  MaxWriters = 1
SPECIFICATION DeskSpec
INVARIANT DayIsReported
CHECK_DEADLOCK FALSE
