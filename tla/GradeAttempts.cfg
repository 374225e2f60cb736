SPECIFICATION Spec
CONSTANTS
  c1 = c1
  c2 = c2
  c3 = c3
  eve = eve
  sam = sam
  zoe = zoe
  Calls = {c1, c2, c3}
  Students = {eve, sam, zoe}
  Asked <- AnyRequest
  FirstPage = {eve, sam}
  MaxAttempts = 3
  None = None
SYMMETRY CallSymmetry
CHECK_DEADLOCK FALSE
INVARIANTS
  DuplicateNeedsRace
  WritesReachOwnAttempt
