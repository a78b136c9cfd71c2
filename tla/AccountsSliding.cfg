CONSTANTS
  Browsers = {"b1", "b2"}
  Passwords = {"p", "q"}
  FirstPassword = "p"
  Ttl = 3
  NoToken = NoToken
  MaxDate = 3
  MaxSessions = 2
  MaxSettings = 1
SPECIFICATION AccountSpec
INVARIANT ExtendedIsKept
CHECK_DEADLOCK FALSE
