SPECIFICATION Spec
CONSTANTS
  None = None
  ProviderInterval = 2
  RetryBase = 1
  TerminalDelay = 3
  MaxDoublings = 1
  RetryAfters = {3}
  Intervals = {1}
  Asks = {"run now", "worker.py"}
  MaxTime = 5
  MaxFailures = 2
  MaxCrashes = 1
INVARIANTS
  StreakMatchesOutcome
PROPERTIES
  WaitsLongEnough
