SPECIFICATION HungSpec
CONSTANTS
  Services = {s1, s2}
  Tokens = {t1}
  NoToken = NoToken
  MaxWorkers = 1
  Editable = {}
  Deletable = {}
  MaxHung = 1
  MaxFaults = 0
  None = None
  Repos = {r1}
  Foreign = {f1}
  Kinds = {star}
  Lookback = 1
  PageSize = 1
  MaxRepos = 1
  PerRepo = 1
  MaxReleases = 2
  MaxTime = 2
  MaxEdits = 1
  MaxHides = 1
  Feeds = {feed1, feed2}
  Addresses = {x, y}
  Lease = 3
  Window = 2
  RenewEvery = 1
INVARIANTS
  PoolLimit
  DisabledAreHidden
  LeasesLast
  SidesAgree
PROPERTIES
  WaitingJobStarts
  ReleasesAreFound
