SPECIFICATION PageSpec
CONSTANTS
  Apps = {"app"}
  Assessments <- TwoOf
  AppOf <- OfOneApp
  Badges <- OneOf
  Scores = {8000, 8004}
  PageLimit = 1
  Threshold = 1
  MaxFailures = 0
INVARIANT UnrevokedBadgeShowsTheReportScore
PROPERTIES
  NothingStandsUnsupported
  EligibleAssessmentIsAnswered
CHECK_DEADLOCK FALSE
