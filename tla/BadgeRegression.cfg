SPECIFICATION RegressionSpec
CONSTANTS
  Apps = {"app"}
  Assessments <- TwoOf
  AppOf <- OfOneApp
  Badges <- OneOf
  Scores = {8000}
  PageLimit = 1
  Threshold = 1
  MaxFailures = 1
INVARIANT RegressionStaysDown
CHECK_DEADLOCK FALSE
