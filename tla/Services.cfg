SPECIFICATION Spec
CONSTANTS
  Subjects = {"evidence", "channels", "processes", "subscriptions", "purchases", "purchase", "workspace", "run", "intake", "authority", "entitlement", "report", "repository", "game", "exit", "spending", "session", "drift", "cadence", "desk", "public", "verdict"}
  Captures = {"r"}
  Pieces = {"p", "q"}
  Sweepers = {"a", "b"}
  MaxFaults = 1
  Alerts = {"alert"}
  Recipients = {"m"}
  AlertWorkers = {"w1", "w2"}
  Postman <- TwoChannels
  MaxAlertFaults = 1
  Subs = {"s1", "s2"}
  Purchases = {"i", "j"}
  Price = 2
  Ids = "stripe"
  Named = {"subscription"}
  InOrder = {"s1", "s2", "j"}
  Handlers = {"h1", "h2"}
  MaxEvents = 6
  MaxBillingFaults = 1
  Users = {"u1", "u2", "u3"}
  Founder = "u1"
  Invitations = {"i1", "i2"}
  ConsoleRequests = {"q1", "q2"}
  MaxSeats = 2
  MaxLosses = 1
  Targets <- Applications
  TrustPages <- SurveyedPages
  MAX_REDIRECTS = 2
  CostCeiling = 1
  CallCosts = {0, 1}
  MaxCalls = 2
  Tabs = {t1, t2}
  Screeners = {"s1", "s2"}
  Cooldown = 1
  Validity = 2
  MaxRows = 5
  MaxRuns = 2
  MaxMonths = 2
  Papers = {"p"}
  Unrenderable = {}
  Renderers = {"a", "b"}
  WindowSize = 1
  RenderAttempts = 2
  MaxEdits = 1
  MaxPlanChanges = 1
  MaxReportFaults = 2
  Entries <- RepositoryEntries
  Lockfiles <- RootLockfiles
  Affected <- AffectedBefore
  Radix = 2
  MaxFiles = 2
  MaxManifests = 1
  MaxEntries = 3
  Games <- MeasuredGames
  MaxPolls = 4
  Pages = {"f", "a", "b", "c", "d"}
  FrontDoor = "f"
  Sites <- WalkedSites
  MAX_DEPTH = 2
  MAX_PAGES = 4
  MaxLost = 2
  Spenders = {"a", "b"}
  Ceiling = 2
  MaxSpent = 2
  MaxLifts = 1
  PageRequests = {"x"}
  Ceilings <- AuthorisedCeilings
  DEFAULT_CEILING <- CeilingByDefault
  MaxTurns = 1
  MaxRedirects = 1
  MaxArtefacts = 1
  Looks <- RecordedLooks
  Queuers = {"a", "b"}
  Comparers = {"a", "b"}
  Every = 2
  Attempts = 1
  WindowRows = 1
  ScoreDrop = 8
  Threshold = 70
  Floor = 65
  MaxLooks = 3
  MaxReviews = 3
  MaxDays = 4
  MaxDriftFaults = 1
  DataRequests = {"r"}
  Appeals = {"q"}
  Staff = {"s"}
  Watchers = {"a"}
  RESPONSE_DAYS = 1
  APPEAL_RESPONSE_DAYS = 1
  LastDeskDay = 4
  KeyIds = {"k1", "k2"}
  FirstKey = "k1"
  Pastes <- PastedKeys
  Routes = {"image", "status", "offline", "list", "extension", "verify", "page"}
  ShortAge = 1
  LongAge = 2
  StaleAfter = 3
  Term = 2
  MaxPastes = 2
  LastTick = 5
  Filings <- FiledFindings
  Assignments <- AssignedRuns
  MayBeMissed <- MissedCriteria
  MaxFiled = 3
  Adjustments = {6700, 8000}
INVARIANTS
  ServicesTypeOK
  EveryRowHasItsBytes
  NothingHeldIsForgotten
  NotGivenIsTrue
  AppliedExactlyOnce
  MirrorAgrees
  TriggersKeep
  LinkLetsInOnce
  EveryQuestionIsAccountedFor
  NothingIsKeptFromAWithdrawnRun
  FreeRunsAreSpaced
  WhatIsServedIsCurrent
  SilenceWasRead
  GameVerdictsAreMeasured
  ExitIsTheNearest
  PausedWorkersStop
  AuthorisedPaceIsKept
  RegressionsDoNotAddUp
  ReassessmentsAreSpaced
  WhatIsOwedIsSaid
  PublicIsToldTheTruth
PROPERTIES
  DecisionStands
  NothingFiledHelps
CHECK_DEADLOCK FALSE
