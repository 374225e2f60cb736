SPECIFICATION Spec
CONSTANTS
  c1 = c1
  c2 = c2
  c3 = c3
  c4 = c4
  c5 = c5
  ann = ann
  bob = bob
  math = math
  None = None
  NaN = NaN
  Users = {ann, bob}
  Courses = {math}
  Calls = {c1}
  ToolRequests <- DocumentedRequests
  CourseRoles = {"Instructor", "Student"}
  Limit <- RateLimits
  Window = 2
  Capacity = 2
  PageSizes = {}
SYMMETRY CallSymmetry
INVARIANTS
  FerpaAsDocumented
