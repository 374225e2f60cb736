SPECIFICATION CallSpec
CONSTANTS
  k1 = k1
  k2 = k2
  p = p
  s1 = s1
  s2 = s2
  col_a = col_a
  col_b = col_b
  col_c = col_c
  col_d = col_d
  None = None
  Unscored = Unscored
  CourseList <- MCCourseList
  UserList <- MCUserList
  ColumnList <- MCColumnList
  CourseOf <- MCCourseOf
  Due <- MCDue
  Availability <- MCAvailability
  Materials <- MCMaterials
  Matching <- MCMatching
  Authors <- MCAuthors
  Scores = {0, 5500, 5996, 8000}
  Point = 100
  Now = 10
  Day = 2
  Limit <- MCLimit
  RolesShown = TRUE
  Calls <- MCCalls
  Worlds <- MCWorlds
  MaxChanges = 2
INVARIANTS
  ShownChildrenWereObserved
  StatusIsOfTheCall
  ViewsAgree
  ReportsAddUp
