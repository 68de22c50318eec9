\* The jobs of two created users, with crashes, lost locks and exceptions without a status.
SPECIFICATION FairJobsSpec
CONSTANTS
  Requests = {q1, q2}
  Usernames = {ana, bo}
  Emails = {mailA, mailB}
  Roles = {"user", "ghost"}
  KnownRoles = {"user"}
  MaxFailures = 2
  MaxStalledCount = 1
  NoJob = NoJob
  MaxLosses = 2
INVARIANTS
  JobsTypeOK
  StartsBounded
  FailedForCause
PROPERTIES
  CompletedWasRun
  JobIsQueued
  EveryJobEnds
\* Every request and every job ends: then nothing is left to do.
CHECK_DEADLOCK FALSE
