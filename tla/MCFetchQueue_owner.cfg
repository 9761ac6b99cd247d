SPECIFICATION Spec
CONSTANTS
  Services = {s1}
  Tokens = {t1, t2}
  NoToken = NoToken
  MaxWorkers = 1
  Editable = {s1}
  Deletable = {s1}
  MaxHung = 1
  MaxFaults = 1
SYMMETRY TokenSymmetry
INVARIANTS
  NothingLeftRunning
  GivenUpHoldsNoToken
PROPERTIES
  OutcomeStands
  SuccessIsAwaited
