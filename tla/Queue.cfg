SPECIFICATION PairSpec
CONSTANTS
  Requests <- ThreeRequests
  AppOf <- OfTwoApps
  Workers = {"w1", "w2"}
  MaxAttempts = 2
  AttemptsCheck = 3
  Timely = TRUE
INVARIANTS
  TypeOK
  OneWorkerPerRequest
  CompletedWasAssessed
PROPERTIES
  RequestsFollowTheirLifecycle
  EveryRequestIsAnswered
CHECK_DEADLOCK FALSE
