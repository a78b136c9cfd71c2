CONSTANTS
  JournalUnits <- MCJournalUnits
  Containers = {"container"}
  Pullers = {"loop", "once"}
  OnePass = {"once"}
  Window = 1
  Second = 2
  Lookback = 0
  Blank = {2}
  NoCursor = NoCursor
  MaxLines = 3
  MaxMs = 1
  MaxLogFaults = 1
  Keeper = "loop"
  OneTimers = {"once"}
  Hour = 1
  Day = 2
  RawToHour = 1
  HourToDay = 2
  MetricsTtl = 3
  StatusTtl = 1
  LogTtl = 2
  Keep = 2
  LogCap = 1
  RetentionEvery = 1
  MaxClock = 3
  MaxWrites = 3
  MaxDeaths = 1
  Titles = {"a", "b", "c"}
  Top = 2
  Undefined = "none"
  MaxShelfChanges = 4
  MaxMediaFaults = 2
  StaleAfter = 2
  GateStale = 1
  PollTimeout = 1
  Absent = Absent
  MaxTime = 4
  MaxTurns = 1
  Browsers = {"b1", "b2"}
  Passwords = {"p", "q"}
  FirstPassword = "p"
  Ttl = 4
  NoToken = NoToken
  MaxDate = 4
  MaxSessions = 2
  MaxSettings = 1
  Limit = 2
  WindowMs = 2
  MaxAttempts = 6
  MaxMoment = 5
  Jobs = {1, 2}
  Offered = {"tdarr.set-worker-limit", "sonarr.set-quality-profile", "auto.restart-unit", "sonarr.delete-media-file"}
  Limits = {0, 2}
  NoAction = "none"
  MaxJobFaults = 2
  SafeActions = {"s"}
  OtherActions = {"o"}
  DestructiveActions = {"x"}
  NoDialog = "none"
  MaxPosts = 4
  People = {"ann", "bob"}
  Devices = {"d"}
  MaxEndpoints = 2
  MaxToggles = 1
  MaxPushes = 1
  LineTags <- MCLineTags
  Filters = {{"a", "b"}, {"a"}}
  Page = 1
  Cap = 2
  MaxLineTime = 2
  MaxFlight = 2
  Followed = {"overview", "downloads", "tdarr", "alerts"}
  RefetchEvery = 1
  InTime = 0
  FeedWindow = 1
  NoData = NoData
  MaxPageTime = 3
  MaxFetches = 2
  MaxPageFaults = 1
  Threads = {1, 2}
  Families = {{"stats"}, {"docker", "actions"}}
  CacheTtl <- MCCacheTtl
  NotYet = NotYet
  MaxSeconds = 3
  MaxRaises = 1
SPECIFICATION FairSpec
INVARIANTS PartsTypes EachLineOnce NothingKeptIsLost ToldOnceWhileListed NothingStaleShown SessionsEnd LimiterExact Accounted AloneIsExact OneAtATime PushReaches PagesTellTrue AgentTellsTrue
PROPERTY EveryLineStored
CHECK_DEADLOCK FALSE
