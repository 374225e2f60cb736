----------------------------- MODULE MCReadTools -----------------------------
(***************************************************************************)
(* ReadTools for TLC: an observer, two students, two courses, three columns*)
(* in one and one in the other, due at the edges of the window; pages of   *)
(* two, so that rosters, columns and lists of grades do not fit.           *)
(***************************************************************************)
EXTENDS ReadTools, TLC

CONSTANTS k1, k2, p, s1, s2, col_a, col_b, col_c, col_d

MCCourseList == <<k1, k2>>
MCUserList == <<s1, p, s2>>
MCColumnList == <<col_a, col_b, col_c, col_d>>
MCCourseOf == (col_a :> k1) @@ (col_b :> k1) @@ (col_c :> k1) @@ (col_d :> k2)

\* One day is two ticks: a and b are due the same day, b first; a at the end
\* of a window of one day, c a tick after it; d now.
MCDue == (col_a :> 12) @@ (col_b :> 11) @@ (col_c :> 13) @@ (col_d :> 10)
MCAvailability == (k1 :> "Yes") @@ (k2 :> None)
MCMaterials == (k1 :> <<"syllabus", "notes">>) @@ (k2 :> <<"notes">>)
MCMatching == {"notes"}
MCAuthors == <<s1, None, s1>>
MCLimit == [resource \in Resources |-> 2]

RolesOf(inK1, inK2) == (k1 :> inK1) @@ (k2 :> inK2)
Row(x, y, z) == (p :> x) @@ (s1 :> y) @@ (s2 :> z)
Graded(x, y, z) == (p :> x) @@ (s1 :> y) @@ (s2 :> z)

\* In the first world a grade is left of the time when p was a student.
MCWorlds ==
  { [role |-> RolesOf(Row("Observer", "Student", "Student"),
                      Row("Observer", "Student", None)),
     grade |-> (col_a :> Graded(5996, 5500, 8000))
               @@ (col_b :> Graded(None, Unscored, 5996))
               @@ (col_c :> Graded(None, None, 5500))
               @@ (col_d :> Graded(None, 8000, None)),
     attempts |-> (col_a :> <<s1, s2>>) @@ (col_b :> <<>>)
                  @@ (col_c :> <<s2>>) @@ (col_d :> <<>>)],
    [role |-> RolesOf(Row("Observer", "Student", "Instructor"),
                      Row("Observer", None, "Student")),
     grade |-> (col_a :> Graded(None, None, None))
               @@ (col_b :> Graded(None, None, None))
               @@ (col_c :> Graded(None, 0, None))
               @@ (col_d :> Graded(None, None, 5996)),
     attempts |-> (col_a :> <<>>) @@ (col_b :> <<s1, s1, s2>>)
                  @@ (col_c :> <<>>) @@ (col_d :> <<s1>>)] }

Ask(tool, args) == [tool |-> tool, args |-> args]

Asked(tool, args) == {Ask(tool, x) : x \in args}

MCCalls ==
  LET one == {None, k1}
      child == [user : {p}, child : {None, s1}, course : {None}]
      childCourse == [user : {p}, child : {None, s1}, course : {None, k1}]
  IN
  Asked("get_my_courses", [user : {s1}])
  \cup Asked("get_upcoming_assignments",
             [user : {s1}, course : one, daysAhead : {1}])
  \cup Asked("get_my_grades", [user : {s1}, course : one])
  \cup Asked("get_course_content", [user : {s1}, course : {k1}, search : BOOLEAN])
  \cup Asked("get_assignment_feedback",
             [user : {s1}, course : {k1}, column : {col_a, col_b}])
  \cup Asked("get_announcements",
             [user : {s1}, course : {k1}, unreadOnly : BOOLEAN])
  \cup Asked("search_course_materials", [user : {s1}, course : one])
  \cup Asked("list_roster", [user : {None}, course : {k1}])
  \cup Asked("get_grades",
             [user : {None, s1}, course : {k1}, column : {None, col_a}])
  \cup Asked("get_submission_status",
             [user : {None}, course : {k1}, column : {col_a, col_b}])
  \cup Asked("get_grade_distribution",
             [user : {None}, course : {k1}, column : {col_a}])
  \cup Asked("get_discussion_summary", [user : {None}, course : {k1}])
  \cup Asked("get_at_risk_students",
             [user : {None}, course : {k1}, threshold : {7000}])
  \cup Asked("get_my_children", [user : {p}])
  \cup Asked("get_children_courses", child)
  \cup Asked("get_children_grades", childCourse)
  \cup Asked("get_children_upcoming_assignments",
             [user : {p}, child : {None}, course : {None}, daysAhead : {1}])
  \cup Asked("get_children_announcements",
             [user : {p}, child : {s1}, course : {k1}, unreadOnly : BOOLEAN])
  \cup Asked("create_assignment_submission",
             [user : {s1}, course : {k1}, column : {col_a}])
  \cup Asked("draft_announcement",
             [user : {None}, course : {k1}, post : BOOLEAN])
==============================================================================
