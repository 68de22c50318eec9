\* A refresh after the logout of its session was answered: the code grants it.
SPECIFICATION Spec
CONSTANTS
  TicksPerSecond = 2
  Users = {u1}
  Requests = {r1}
  NoUser = NoUser
  Endpoints = {"login", "refresh", "logout"}
  AccessExpiresIn <- OneSecond
  RefreshExpiresIn <- TwoSeconds
  Configurable <- SomeLifetimes
  MaxTime = 4
  MaxArrivals = 3
  MaxEdits = 0
  MaxFailures = 0
INVARIANT
  LogoutEndsRefresh
