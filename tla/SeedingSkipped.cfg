CONSTANTS
  Replicas = {"a", "b"}
  PERMISSIONS <- MCPermissions
  Sample = {"starter", "enterprise", "ecommerce", "delivery", "document"}
  Starts <- MCStarts
  MaxCrashes = 1
  MaxFailures = 0
  MaxEdits = 1
SPECIFICATION FairSpec
INVARIANT SkippedMeansApplied
CHECK_DEADLOCK FALSE
