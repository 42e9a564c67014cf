SPECIFICATION Spec
CONSTANTS
  Apps = {"app"}
  Assessments <- OneOf
  AppOf <- OfOneApp
  Badges <- TwoOf
  Scores = {8000}
  PageLimit = 1
  Threshold = 1
  MaxFailures = 1
INVARIANT RenewsOnlyOnReassessment
CHECK_DEADLOCK FALSE
