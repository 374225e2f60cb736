SPECIFICATION Spec
CONSTANTS
  c1 = c1
  c2 = c2
  c3 = c3
  c4 = c4
  c5 = c5
  ann = ann
  bob = bob
  math = math
  None = None
  NaN = NaN
  Users = {ann, bob}
  Courses = {math}
  Calls = {c1, c2, c3, c4, c5}
  ToolRequests <- RateRequests
  CourseRoles = {}
  Limit <- RateLimits
  Window = 3
  Capacity = 4
  PageSizes = {1, 2}
SYMMETRY CallSymmetry
INVARIANTS
  AdmissionBounded
  PagingSkipsNothing
PROPERTIES
  RateDenialDeserved
