SPECIFICATION RequestSpec
CONSTANTS
  r1 = r1
  r2 = r2
  Requests = {r1, r2}
  Sentinels = {"ErrBind"}
  SentinelCode <- CodesOfSentinels
  Codes = {30201}
  NumValidators = 1
  NilValidators = {1}
  Limit = 1
  MaxBody = 1
  None = None
CHECK_DEADLOCK FALSE
INVARIANT
  DetailsAreOwn
