SPECIFICATION AloneHungSpec
CONSTANTS
  Requests <- OneRequest
  AppOf <- OfTwoApps
  Workers = {"w1"}
  MaxAttempts = 2
  AttemptsCheck = 3
  Timely = TRUE
PROPERTY AStoppedLoopEndsTheProcess
CHECK_DEADLOCK FALSE
