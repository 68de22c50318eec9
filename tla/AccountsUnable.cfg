\* A signup that fails after its insert: the user is there, the answer says no.
SPECIFICATION Spec
CONSTANTS
  Requests = {q1, q2}
  Usernames = {ana, bo}
  Emails = {mailA, mailB}
  Roles = {"user", "ghost"}
  KnownRoles = {"user"}
  MaxFailures = 1
INVARIANT
  UnableLeavesNoRow
\* Every request ends: then nothing is left to do.
CHECK_DEADLOCK FALSE
