SPECIFICATION FairSpec
CONSTANTS
  w1 = w1
  w2 = w2
  NoRun = NoRun
  NoSchedule = NoSchedule
  Runs = {r1}
  Discovery = {osm}
  Website = site
  Companies = {co1, co2}
  Workers = {w1, w2}
  MaxAttempts = 2
  Concurrency = 1
  TargetPerRun = 1
  DailyLimit = 2
  MaxStops = 1
  Switchable = {}
  Blockable = {site}
  Schedules = {}
  Nightly = NoRun
  MaxRunning = 1
  MaxFailures = 3
  MaxTicks = 0
  MaxAsks = 1
INVARIANTS LeaseUnique ClosedRunIsSettled LeadsWithinLimits
PROPERTIES ClosedRunsStay ImplementsLedger RunEnds
CHECK_DEADLOCK FALSE
