SPECIFICATION Spec
CONSTANTS
  Services = {s1}
  Tokens = {t1, t2}
  NoToken = NoToken
  MaxWorkers = 1
  Editable = {s1}
  Deletable = {}
  MaxHung = 0
  MaxFaults = 0
PROPERTIES
  LateFetchChangesNothing
