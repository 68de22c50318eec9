\* Guards and refresh against operators' edits and failing calls.
SPECIFICATION Spec
CONSTANTS
  TicksPerSecond = 2
  Users = {u1}
  Requests = {r1, r2}
  NoUser = NoUser
  Endpoints = {"login", "refresh", "me", "create", "logout"}
  AccessExpiresIn <- OneSecond
  RefreshExpiresIn <- OneSecond
  Configurable <- SomeLifetimes
  MaxTime = 2
  MaxArrivals = 3
  MaxEdits = 2
  MaxFailures = 1
SYMMETRY RequestSymmetry
INVARIANTS
  AdmittedAsSeen
PROPERTIES
  RefusedOnlyForCause
  ImplementsAccess
