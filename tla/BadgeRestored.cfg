SPECIFICATION CalmSpec
CONSTANTS
  Apps = {"app"}
  Assessments <- ThreeOf
  AppOf <- OfOneApp
  Badges <- OneOf
  Scores = {8000}
  PageLimit = 1
  Threshold = 1
  MaxFailures = 1
PROPERTY RestoredWhenANewAssessmentPasses
CHECK_DEADLOCK FALSE
