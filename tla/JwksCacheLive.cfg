SPECIFICATION FairSpec
CONSTANTS
  r1 = r1
  r2 = r2
  r3 = r3
  kOld = kOld
  kNew = kNew
  Requests = {r1, r2}
  Kids <- MCKids
  Tokens <- LiveTokens
  CacheTTL = 2
  ForcedCooldown = 2
  FailureCooldown = 1
  FetchTimeout = 1
  None = None
PROPERTIES
  PublishedKeyLearned
  RequestsAnswered
