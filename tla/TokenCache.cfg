SPECIFICATION Spec
CONSTANTS
  r1 = r1
  r2 = r2
  Requests = {r1, r2}
  Lifetimes = {2, 7}
  LongestLife = 7
  Margin = 3
  TokenTimeout = 1
  RequestTimeout = 2
  Absent = Absent
SYMMETRY RequestSymmetry
INVARIANTS
  CacheNeverOverstates
  TokenOutlivesRequest
  RevokedTokenUsedBriefly
