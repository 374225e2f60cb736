SPECIFICATION Spec
CONSTANTS
  r1 = r1
  r2 = r2
  r3 = r3
  kOld = kOld
  kNew = kNew
  Requests = {r1, r2, r3}
  Kids <- MCKids
  Tokens <- MCTokens
  CacheTTL = 4
  ForcedCooldown = 3
  FailureCooldown = 2
  FetchTimeout = 2
  None = None
SYMMETRY RequestSymmetry
INVARIANTS
  SingleFlight
  OutboundRateBounded
  TrustOnlyRecentKeys
  ClaimsCheckAgeBounded
  CachedKeyHonoured
  UnavailableMeansOutage
  RotatedKeyRefusedOnlyInCooldown
