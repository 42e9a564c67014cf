SPECIFICATION Spec
CONSTANTS
  Apps = {"app"}
  Assessments <- TwoOf
  AppOf <- OfOneApp
  Badges <- TwoOf
  Scores = {8000}
  PageLimit = 1
  Threshold = 1
  MaxFailures = 1
CONSTRAINTS TwoOfOneKind OnAPlan
INVARIANTS
  TypeOK
  SuspendedBadgeHasANotice
  LivenessSuspensionIsRestorable
PROPERTIES
  SuspensionForCauseStaysDown
  RestoredByTheNextSuccess
CHECK_DEADLOCK FALSE
