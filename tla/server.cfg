SPECIFICATION MCSpec
CONSTANTS
  c1 = c1
  c2 = c2
  c3 = c3
  r1 = r1
  r2 = r2
  Conns <- MCConns
  MaxSignals = 2
  Apps <- MCApps
  Arguments <- MCArguments
  OptionKeys = 2
  Invalid <- MCInvalid
  LogKeysIn <- MCLogKeysIn
  LogKeys = 2
  MaxEdits = 1
  Unread = Unread
  Requests = {r1, r2}
  Sentinels = {"ErrBind", "ErrServiceUnavailable"}
  SentinelCode <- CodesOfSentinels
  Codes = {10003, 30201}
  NumValidators = 2
  NilValidators = {1}
  Limit = 1
  MaxBody = 3
  None = None
INVARIANTS
  LifecycleInvariant
  NothingCutOff
  HTTPStopIsClean
  AnswersAfterValidation
  NoMixedConfiguration
  RequestInvariant
  HandlerSeesValidRequest
  FirstFailureAnswered
  BodyIntact
PROPERTY
  SignalEndsProcess
CHECK_DEADLOCK FALSE
