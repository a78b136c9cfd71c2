CONSTANTS
  agent = agent
  slow = slow
  logs = logs
  alerts = alerts
  Services = {agent, slow}
  Agent = agent
  Optional = {slow}
  Announcer = slow
  Jobs = {logs, alerts}
  Logs = logs
  Position <- MCPosition
  Interval <- MCInterval
  Backoff = 3
  Threshold = 2
  Jitter <- MCJitter
  Every <- MCEvery
  Tick = 1
  PollTimeout = 2
  PollTail = 3
  AskTime = 1
  RestartDelay = 1
  Never = Never
  MaxHung = 2
  MaxCrashes = 1
SPECIFICATION FairSpec

PROPERTY LogPullBacksOff
