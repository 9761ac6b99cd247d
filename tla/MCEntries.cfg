SPECIFICATION SmallSpec
CONSTANTS
  None = None
  Writers = {w1}
  Readers = {r1, r2}
  MaxCommits = 1
  MaxEpochs = 2
  Imports = {i1, i2}
  Newest = 2
  MaxRows = 2
  Posts = {1, 2, 3}
  Classes = {1, 2}
  MaxPerSecond = 2
  MaxEdits = 1
  Videos = {v1, v2}
  OnVimeo = {v2}
  Upgradables = {e1, e2}
  Edited = {e1}
  Starts <- SmallStarts
  Gone = Gone
  MaxUpgrades = 2
  MaxTokens = 1
  StreamEntries = {1, 2, 3, 4}
  EntryDates = {2, 3, 4, 5, 6}
  PageSize = 2
  Continuous = 4
  MaxChanges = 1
  Tabs = {t1, t2}
  MaxAuths = 2
  MaxRest = 2
  Backoff <- Pauses
  MaxRetryAfter = 3
  Waits = {0, 3, 5}
  Feed = 2
  Sniff = 1
  Media = 3
  Longest = 4
  Services = {g1, g2}
  MaxOptions = 3
  TimelinePosts = {q1, q2}
  Named = {n1}
  Reposters = {b1}
  MaxDate = 3
  Offsets <- AroundUtc
  FullPage = 2
  ShortPage = 1
  MaxListed = 2
  Bytes = 2
  FeatureKinds = {"unsafe", "tag"}
  MaxFeatures = 2
  MaxFacets = 2
  MaxAttachments = 3
  Articles = {x1, x2}
  Changing = {x1}
CHECK_DEADLOCK FALSE
INVARIANTS
  TypesOK
  NoStaleResponse
  RacingImportsSucceed
  OwnGuids
  AnnouncedPostsAreStored
  UpgradesChain
  NothingIsSkipped
  ReadsAreBounded
  WantedEntriesStay
  TimelineIsKept
  ContentIsKept
  OnlyMayShow
PROPERTIES
  ImportsFollowRules
  OnlyAsShown
  SweepKeepsUsed
