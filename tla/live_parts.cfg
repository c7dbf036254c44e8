CONSTANTS
  o1 = o1
  d1 = d1
  d2 = d2
  Orders = {o1}
  Drivers = {d1, d2}
  NoRun = NoRun
  MaxCalls = 1
  MaxStalls = 1
  MaxFaults = 2
  MaxToggles = 1
  MaxPolls = 2
  MaxOpens = 2
  MaxChanges = 2
  AccessTime = 1
  RefreshTime = 2
  MaxClock = 2
  MaxBroken = 1
  MaxVisits = 2
  MaxWrites = 1
  MaxErrors = 1
SPECIFICATION LiveSpec
INVARIANTS LiveTypeOK OffersMade LostOnlyBeforeRedis ReloadsBounded RunsOnce LogoutLasts
PROPERTIES QueuedJobSettles SpinnerEnds SessionOverShown OwnWriteShows
CHECK_DEADLOCK FALSE
