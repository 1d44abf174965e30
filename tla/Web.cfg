\* Every component of the web side, two request threads at a time.  The bounds
\* on secrets, keys and their clock end some behaviours.
SPECIFICATION WebSpec
CONSTANTS
  Parts = {"lockout", "totp", "resets", "sessions", "keys", "layout", "geo", "stats", "server"}
  Threads = {r1, r2}  Ips = {i1, i2}
  Names = {n1, n2}  TwoFactor = {n2}  PairMax = 2  UserMax = 3  IpMax = 3  Window = 1
  MaxTries = 1  CodeCount = 1  MaxStep = 1  MaxSecrets = 2  MaxSets = 2  MaxTokens = 1
  Owners = {u1}  LinksPerUser = 2  LinksPerIp = 1  SubmitMax = 1  LinkTtl = 0
  ResetWindow = 1  MaxMails = 4
  IdleSec = 2  MaxTtl = 3  MaxClock = 5  MaxSessions = 1
  MaxApiKeys = 1  TouchSec = 2  Lifetimes = {2}  MaxKeyTime = 5  MaxIds = 2
  DeviceNames = {"x", "y"}  MaxPlaced = 2  MaxGroups = 2
  Families = {"v4", "v6"}  MaxAddr = 2  Special = {0}  Countries = {"AA", "BB"}
  Flagged = {"AA", "BB"}  MaxRanges = 2  CacheMax = 1
  Minute = 2  Bars = 2  LateMax = 2  MaxNow = 5  MaxLogged = 2
  MaxConnections = 2  ForgotWorkers = 2
SYMMETRY WebSymmetry
INVARIANTS
  TiersHold CodeGuessesHold
  RecoveryOnce TriesBounded RecoveryFits OnceInTurn
  LimitsHold
  DeadlineExact RefusedForGood
  LastUsedFresh
  ShowsEachOnce AnswersRight BarsFresh
PROPERTIES
  LayoutDurable SlotsArePools
CHECK_DEADLOCK FALSE
