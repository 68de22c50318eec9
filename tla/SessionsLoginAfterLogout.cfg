\* A login in the second of the login that was logged out: the token is dead.
SPECIFICATION Spec
CONSTANTS
  TicksPerSecond = 2
  Users = {u1}
  Requests = {r1}
  NoUser = NoUser
  Endpoints = {"login", "logout"}
  AccessExpiresIn <- OneSecond
  RefreshExpiresIn <- TwoSeconds
  Configurable <- SomeLifetimes
  MaxTime = 4
  MaxArrivals = 3
  MaxEdits = 0
  MaxFailures = 0
PROPERTY
  LoginGivesUsableToken
