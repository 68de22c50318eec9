\* Logout and the guard: concurrent logouts of one user, expiry, key collisions.
SPECIFICATION Spec
CONSTANTS
  TicksPerSecond = 2
  Users = {u1}
  Requests = {r1, r2}
  NoUser = NoUser
  Endpoints = {"login", "me", "logout"}
  AccessExpiresIn <- TwoSeconds
  RefreshExpiresIn <- ThreeSeconds
  Configurable <- SomeLifetimes
  MaxTime = 4
  MaxArrivals = 5
  MaxEdits = 0
  MaxFailures = 0
SYMMETRY RequestSymmetry
INVARIANTS
  TypeOK
  LogoutKeptUntilExpiry
  RevokedNeverServed
PROPERTY
  RefusedOnlyForCause
