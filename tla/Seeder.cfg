\* Runs that break off and are started again, beside two users who sign up.
SPECIFICATION Spec
CONSTANTS
  UserNames = {"okao", "ana"}
  DefaultUser = "okao"
  StatusNames = {"active", "inactive", "deleted", "banned", "pending", "draft"}
  MaxFailures = 3
INVARIANTS
  TypeOK
  AdminIsSeeded
  SignupsAreActive
PROPERTIES
  FailsAtTakenUser
  AdminMissedForGood
