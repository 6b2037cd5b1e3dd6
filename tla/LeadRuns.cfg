SPECIFICATION Spec
CONSTANTS
  ra = ra
  rb = rb
  NoRun = NoRun
  NoSchedule = NoSchedule
  Runs = {ra, rb, night}
  Discovery = {osm}
  Website = site
  Companies = {}
  Workers = {w1}
  MaxAttempts = 1
  Concurrency = 1
  TargetPerRun = 1
  DailyLimit = 1
  MaxStops = 0
  Switchable = {osm}
  Blockable = {}
  Schedules = {s1}
  Nightly = night
  MaxRunning = 1
  MaxFailures = 2
  MaxTicks = 2
  MaxAsks = 1
INVARIANTS TypeOK RunsWithinLimit FailuresPause
SYMMETRY Symmetry
CHECK_DEADLOCK FALSE
