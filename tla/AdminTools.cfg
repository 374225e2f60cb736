SPECIFICATION Spec
CONSTANTS
  c1 = c1
  c2 = c2
  k1 = k1
  u1 = u1
  u2 = u2
  w1 = w1
  r1 = r1
  r2 = r2
  None = None
  TraceCapacity = 2
  AuditCapacity = 2
  Calls <- MCCalls
  CourseIds <- MCCourseIds
  UserIds <- MCUserIds
  SubscriptionIds <- MCSubscriptionIds
  Kinds <- MCKinds
  InitialRegistries <- MCInitialRegistries
  Rank <- MCRank
  Pages <- MCPages
  AuditFilters <- MCAuditFilters
SYMMETRY Symmetric
INVARIANTS
  TypeOK
  CallsAreRecorded
  AnswersAreTrue
PROPERTIES
  WritesAreAsAsked
