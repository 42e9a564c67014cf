SPECIFICATION LiveSpec
CONSTANTS
  Subjects = {"evidence", "alerts", "subscriptions", "purchase", "report"}
  Captures = {"r"}
  Pieces = {"p"}
  Sweepers = {"a", "b"}
  MaxFaults = 1
  Alerts = {"alert"}
  Recipients = {"m"}
  AlertWorkers = {"w1"}
  Postman <- TwoChannels
  MaxAlertFaults = 1
  Subs = {"s1", "s2"}
  Purchases = {"i"}
  Price = 2
  Ids = "stripe"
  Named = {"subscription"}
  InOrder = {"s1", "s2", "i"}
  Handlers = {"h1", "h2"}
  MaxEvents = 4
  MaxBillingFaults = 1
  Papers = {"p", "q"}
  Unrenderable = {"q"}
  Renderers = {"a"}
  WindowSize = 1
  RenderAttempts = 2
  MaxEdits = 1
  MaxPlanChanges = 0
  MaxReportFaults = 2
PROPERTIES
  WhatIsDueIsDeleted
  EveryNoticeIsAnswered
  EveryEventIsAcknowledged
  EveryReportIsRendered
CHECK_DEADLOCK FALSE
