--------------------------- MODULE MCAuthorization ---------------------------
(***************************************************************************)
(* Authorization for TLC.  The gate runs use requests that reach every     *)
(* outcome of the gates; the rate runs use one caller's requests and more  *)
(* of them, next to another caller's.                                      *)
(***************************************************************************)
EXTENDS Authorization, TLC

CONSTANTS c1, c2, c3, c4, c5, ann, bob, math

Person(user, role, ferpa) ==
  [userId |-> user, role |-> role, ferpa |-> ferpa]

Ask(verified, claim, tool, course) ==
  [verified |-> verified, claim |-> claim, tool |-> tool, course |-> course]

Teacher == Person(ann, "instructor", FALSE)
TrustedTeacher == Person(ann, "instructor", TRUE)
Student == Person(bob, "student", FALSE)
Nobody == Person(None, None, FALSE)

GateRequests ==
  { \* loopback mode: the claim is the identity
    Ask(None, None, "get_grades", math),
    Ask(None, Nobody, "get_grades", math),
    Ask(None, Teacher, "get_grades", math),
    Ask(None, Student, "get_my_grades", None),
    Ask(None, Student, "list_roster", math),
    Ask(None, Teacher, "update_grade", math),
    Ask(None, Teacher, "update_grade", None),
    Ask(None, Teacher, "no_such_tool", None),
    \* OIDC mode: the signed principal decides
    Ask(Student, Person(ann, "instructor", FALSE), "update_grade", math),
    Ask(Student, Person(None, "admin", FALSE), "update_grade", math),
    Ask(Teacher, Person(None, None, TRUE), "get_grades", math),
    Ask(TrustedTeacher, Nobody, "get_grades", math),
    Ask(Person(bob, "admin", FALSE), Nobody, "update_grade", math) }

GateLimit ==
  [r \in Roles |-> IF r = "admin" THEN NaN
                   ELSE IF r = "instructor" THEN 1 ELSE 0]

RateRequests ==
  { Ask(None, Student, "get_my_courses", None),
    Ask(None, Person(ann, "student", FALSE), "get_my_courses", None) }

RateLimits == [r \in Roles |-> 2]

DocumentedRequests ==
  { Ask(None, Teacher, "update_grade", math),
    Ask(None, Teacher, "list_roster", math) }

CallSymmetry == Permutations(Calls)

=============================================================================
