CONSTANTS
  Replicas = {"a", "b"}
  PERMISSIONS <- MCPermissions
  Sample = {"starter", "enterprise", "ecommerce", "delivery", "document"}
  Starts <- MCStarts
  MaxCrashes = 1
  MaxFailures = 1
  MaxEdits = 1
SPECIFICATION FairSpec
PROPERTIES
  FinishedSeedsAreComplete
  SerialSeedsKeepChoices
  SeedCompletes
CHECK_DEADLOCK FALSE
