SPECIFICATION Spec
CONSTANTS
  None = None
  ProviderInterval = 3
  RetryBase = 1
  TerminalDelay = 5
  MaxDoublings = 2
  RetryAfters = {}
  Intervals = {}
  Asks = {"run now"}
  MaxTime = 10
  MaxFailures = 3
  MaxCrashes = 1
INVARIANTS
  RetryIsSoon
