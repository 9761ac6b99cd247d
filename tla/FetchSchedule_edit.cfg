SPECIFICATION Spec
CONSTANTS
  None = None
  ProviderInterval = 3
  RetryBase = 1
  TerminalDelay = 5
  MaxDoublings = 2
  RetryAfters = {}
  Intervals = {0, 1}
  Asks = {}
  MaxTime = 10
  MaxFailures = 3
  MaxCrashes = 1
INVARIANTS
  WakesWhenDue
