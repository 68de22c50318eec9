\* Every request is answered, with logouts adding keys while a guard reads them.
SPECIFICATION FairSpec
CONSTANTS
  TicksPerSecond = 1
  Users = {u1}
  Requests = {r1, r2}
  NoUser = NoUser
  Endpoints = {"login", "refresh", "create", "logout"}
  AccessExpiresIn <- TwoSeconds
  RefreshExpiresIn <- TwoSeconds
  Configurable <- SomeLifetimes
  MaxTime = 1
  MaxArrivals = 4
  MaxEdits = 0
  MaxFailures = 0
INVARIANT
  KeptLongEnough
PROPERTIES
  StepsAdvance
  EveryRequestAnswered
