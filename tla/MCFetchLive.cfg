SPECIFICATION LiveSpec
CONSTANTS
  Services = {s1}
  Tokens = {t1, t2}
  NoToken = NoToken
  MaxWorkers = 1
  Editable = {}
  Deletable = {}
  MaxHung = 1
  MaxFaults = 1
  PageServices = {s1, s2}
  MaxClicks = 1
  MaxLosses = 1
  None = None
  Jobs = {j1, j2}
  Configured <- SmallSettings
  TimesADay = 2
  DaysAMonth = 3
  DaysAWeek = 2
  Limit = 4
  MaxTime = 6
INVARIANTS
  JobsFollowCron
PROPERTIES
  ServesRequests
  RequestIsClaimed
  ClaimEnds
  ShownFetchEnds
  RefusalStands
  NeverOversleeps
  DueJobsRun
