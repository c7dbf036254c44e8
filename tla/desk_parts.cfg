CONSTANTS
  o1 = o1  o2 = o2  m = m  d1 = d1  d2 = d2  u1 = u1
  c1 = c1  c2 = c2  k1 = k1  k2 = k2  A = A  B = B
  Parts = {"auth", "dialogue", "history", "reports", "books", "form", "cards", "pages",
           "inventory", "suppliers", "organizations", "totals"}
  Users = {u1}  Chats = {c1, c2}  NoChat = NoChat  NoUser = NoUser
  MaxFail = 2  LockTime = 1  SessionTime = 2  Slots = {1, 2}  MaxTries = 3  MaxTicks = 1
  Orders = {o1, o2}  Delivery = {o1}  Master = m  Colleague = u1  Drivers = {d1, d2}
  NoDriver = NoDriver  NoOrder = NoOrder  MaxLost = 1  MaxEdits = 1
  HistoryOrders = 3  Take = 1  MaxTurns = 2
  Bills <- TwoBills  BrowserAhead = 1  MaxResets = 1
  SoldOrders = {o1, o2}  Masters = {m, u1}  NoMaster = NoMaster
  CronHour = 1  WeekDays = 1  LastDay = 1
  Orgs = {A, B}  NoOrg = NoOrg  NoVehicle = NoVehicle  Blank = Blank  Typed = Typed
  FleetSize = 1  MaxFleet = 2  MaxPieces = 2  MaxDrafts = 2
  Cards = {k1, k2}  NoCard = NoCard  MovedTo = {"waiting_confirmation", "accepted", "working", "cancelled"}
  MaxSteps = 2
  ClosedOrders = 2  PageSize = 1  MaxFetches = 2  MaxClosings = 1
  Clerks = {k1, k2}  Sales = {c1, c2}  Costs = {1, 2}  SalePrices = {1}
  MaxQuantity = 1  MaxStock = 1  MaxShort = 1
  Totals = {1, 2}  MaxPurchases = 3  MaxPaid = 4
  DebtOrders = {o1}  OrderTotal = 2  Payments = {1, 3}  Opening = {0, 1}
  BossTabs = {1, 2}  MaxPayments = 2
  Amounts = {1, 2}  Fee = 3  MaxItems = 2  MaxWriters = 2
SPECIFICATION DeskSpec
INVARIANTS
  DeskTypeOK LogoutHolds WaitingOrderIsAsked LastPageMeansAllSeen FiguresAddUp DraftIsTheForm
  OneDraftPerAnswer TabShowsItsOwn StockIsAccounted AgesAddUp
  DebtIsAccounted TotalIsItems
PROPERTIES ThirdFailureLocks ClosedStaysClosed CardsFollowOrders
CHECK_DEADLOCK FALSE
