\* A run that breaks off between the default user and its roles, then reruns.
SPECIFICATION FairSpec
CONSTANTS
  UserNames = {"okao"}
  DefaultUser = "okao"
  StatusNames = {"active", "inactive"}
  MaxFailures = 1
PROPERTY
  DefaultUserGetsRoles
