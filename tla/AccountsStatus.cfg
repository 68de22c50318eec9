\* A create_user that the database refuses, for an unknown role or in a race, has no status.
SPECIFICATION Spec
CONSTANTS
  Requests = {q1, q2}
  Usernames = {ana, bo}
  Emails = {mailA, mailB}
  Roles = {"user", "ghost"}
  KnownRoles = {"user"}
  MaxFailures = 0
INVARIANT
  AnswerHasHttpStatus
\* Every request ends: then nothing is left to do.
CHECK_DEADLOCK FALSE
