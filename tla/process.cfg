SPECIFICATION MCSpec
CONSTANTS
  c1 = c1
  c2 = c2
  k1 = k1
  k2 = k2
  n1 = n1
  n2 = n2
  Callers = {c1, c2}
  SecretKeys = {k1, k2}
  Names = {n1, n2}
  DefaultName = n1
  Empty = Empty
  Garbled = Garbled
  MaxWrites = 2
  MaxTokens = 1
  MaxOptions = 3
  call1 = call1
  Lists <- MCLists
  Slack = 1
  MaxHandlers = 4
  MaxRecords = 2
  OutputModes = {"classic", "file", "hybrid"}
  MaxProviders = 4
  MaxFiles = 3
  LevelNames = {"panic", "error"}
  MaxInits = 1
  Word = 64
  Byte = 8
  CharSets = {3, 4}
  Multipliers = {1, 2, 5}
  Lengths = {2, 3}
  Salts = {0, 7}
  DefaultSalt = 1
  Numbers = {1, 2, 3, 4, 10, 26}
  MaxCodes = 3
  Components = {0, 1, 2}
  MaxLength = 4
  PreReleases <- MCPreReleases
  Readable <- MCReadable
  MaxVersions = 3
  Calls = {call1}
  Chars = {"/", "a", "*"}
  Paths <- MCPaths
  SkipPatterns <- MCPatterns
  Methods = {"GET", "POST"}
  Star = "*"
  Slash = "/"
  InjectModes = {"TraceIDOnly", "Both"}
  CustomHeaders = {"", "traceparent"}
  CaptureLimit = 3
  MaxWrite = 2
  MessageSizes = {0, 4}
  Subjects = {"u", "role", "root"}
  Objects = {"/v1/*", "/v1/users"}
  Actions = {"GET"}
  Covers <- MCCovers
  Levels = 10
  Interval = 3
  LoadTime = 1
  InitialPolicies <- MCInitialPolicies
  MaxChanges = 2
  OptionFields <- MCFields
  MaxGiven = 4
SYMMETRY Symmetry
INVARIANTS
  TokenInvariant
  SignedTogether
  HandlersKeepTheirAttributes
  OnlySharedGroupsDisturb
  FlushedBeforeClose
  ShutdownReleasesAll
  CodesDistinct
  ComparisonIsOrder
  HighestIsHighest
  LogTellsTheCall
  SkipsAsPatternsSay
  ClientsAsAsked
  BridgedRecordsArrive
  DecisionsFollowPolicy
PROPERTY
  VerdictInForce
CHECK_DEADLOCK FALSE
