\* Three requests race for two usernames and two emails, with two failures.
SPECIFICATION Spec
CONSTANTS
  Requests = {q1, q2, q3}
  Usernames = {ana, bo}
  Emails = {mailA, mailB}
  Roles = {"user", "ghost"}
  KnownRoles = {"user"}
  MaxFailures = 2
SYMMETRY NameSymmetry
INVARIANTS
  TypeOK
  UniqueRows
  JobsMatchUsers
  CreatedIsThere
  RolesWithUser
  RefusedForCause
PROPERTY
  ImplementsDirectory
\* Every request ends: then nothing is left to do.
CHECK_DEADLOCK FALSE
