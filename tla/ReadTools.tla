------------------------------ MODULE ReadTools ------------------------------
(***************************************************************************)
(* One call of a reading tool, or of one of the two tools of the same      *)
(* files that write, while Blackboard changes under it: grades are         *)
(* entered and taken back, users enrolled, moved and dropped, attempts     *)
(* submitted and deleted.  Calls share nothing but Blackboard, so the      *)
(* others are among these changes.                                         *)
(***************************************************************************)
EXTENDS ParentTools

CONSTANTS
  Calls,       \* the calls that may be made: a tool and its arguments
  Worlds,      \* what Blackboard may hold at the start
  MaxChanges   \* bound: changes of Blackboard by others

Roles == {"Student", "Instructor", "Observer"}

VARIABLES
  call,      \* the call: how far it is, its answers so far, its result
  children,  \* history: who was a child of the caller since the call began
  span,      \* history: who was on the two pages of a submission status ever,
             \* and who always, since the call began
  changes    \* the changes so far

callVars == <<world, call, children, span, changes>>

\* A world is one Blackboard can be in; a call that writes is made by a user and
\* for what there is; a status is asked of a course and a column there are.
ASSUME WorldsAssumption == \A w \in Worlds :
  /\ w.role \in [Courses -> [Users -> Roles \cup {None}]]
  /\ w.grade \in [Columns -> [Users -> Scores \cup {None, Unscored}]]
  /\ w.attempts \in [Columns -> Seq(Users)]
ASSUME CallsAssumption == \A c \in Calls :
  /\ c.tool = "create_assignment_submission" =>
       c.args.user \in Users /\ c.args.column \in Columns
  /\ c.tool = "draft_announcement" => c.args.course \in Courses
  /\ c.tool = "get_submission_status" =>
       c.args.course \in Courses /\ c.args.column \in Columns

Handler(tool, args, got) ==
  CASE tool = "get_my_courses"                   -> GetMyCourses(args, got)
    [] tool = "get_upcoming_assignments"         -> GetUpcomingAssignments(args, got)
    [] tool = "get_my_grades"                    -> GetMyGrades(args, got)
    [] tool = "get_course_content"               -> GetCourseContent(args, got)
    [] tool = "get_assignment_feedback"          -> GetAssignmentFeedback(args, got)
    [] tool = "get_announcements"                -> GetAnnouncements(args, got)
    [] tool = "search_course_materials"          -> SearchCourseMaterials(args, got)
    [] tool = "list_roster"                      -> ListRoster(args, got)
    [] tool = "get_grades"                       -> GetGrades(args, got)
    [] tool = "get_submission_status"            -> GetSubmissionStatus(args, got)
    [] tool = "get_grade_distribution"           -> GetGradeDistribution(args, got)
    [] tool = "get_discussion_summary"           -> GetDiscussionSummary(args, got)
    [] tool = "get_at_risk_students"             -> GetAtRiskStudents(args, got)
    [] tool = "get_my_children"                  -> GetMyChildren(args, got)
    [] tool = "get_children_courses"             -> GetChildrenCourses(args, got)
    [] tool = "get_children_grades"              -> GetChildrenGrades(args, got)
    [] tool = "get_children_upcoming_assignments" ->
         GetChildrenUpcomingAssignments(args, got)
    [] tool = "get_children_announcements"       -> GetChildrenAnnouncements(args, got)

Writing == {"create_assignment_submission", "draft_announcement"}

ChildrenOf(u) ==
  {v \in Users \ {u} : \E k \in Courses : u \in Users /\
     role[k][u] = "Observer" /\ role[k][v] = "Student"}

\* Who is on the first page of the attempts, and of the roster.
Submitting(c) == ToSet(Answer(<<"attempts", c>>))
OnRoster(k) == {m.id : m \in ToSet(Answer(<<"roster", k>>))}

NotMade == [stage |-> "not made"]

CallInit ==
  /\ \E w \in Worlds :
       /\ role = w.role /\ grade = w.grade
       /\ attempts = w.attempts
  /\ announcements = [k \in Courses |-> <<"welcome">>]
  /\ call = NotMade
  /\ children = {}
  /\ span = None
  /\ changes = 0

Begin(c) ==
  /\ call = NotMade
  /\ call' = [stage |-> "running", tool |-> c.tool, args |-> c.args,
              got |-> <<>>, result |-> None]
  /\ children' = ChildrenOf(c.args.user)
  /\ span' = IF c.tool # "get_submission_status" THEN None
             ELSE LET submitting == Submitting(c.args.column)
                      enrolled == OnRoster(c.args.course)
                  IN  [everSubmitting |-> submitting, alwaysSubmitting |-> submitting,
                       everEnrolled |-> enrolled, alwaysEnrolled |-> enrolled]
  /\ UNCHANGED <<world, changes>>

\* The call ends; nobody has its answers any more.
End(stage, result) ==
  call' = [call EXCEPT !.stage = stage, !.result = result, !.got = <<>>]

\* The first wave with a read still to be answered.
Waiting(waves, got) ==
  LET open == {i \in DOMAIN waves : ~(waves[i] \subseteq DOMAIN got)}
  IN  IF open = {} THEN {} ELSE waves[Min(open)] \ DOMAIN got

Reading == call.stage = "running" /\ call.tool \notin Writing

\* get_children_announcements refuses unreadOnly before it reads anything.
Refused == call.tool = "get_children_announcements" /\ call.args.unreadOnly

\* A read is answered; after the last, the call returns.
ReadAnswered ==
  /\ Reading /\ ~Refused
  /\ \E r \in Waiting(Handler(call.tool, call.args, call.got).waves, call.got) :
       LET got == [s \in DOMAIN call.got \cup {r} |->
                     IF s = r THEN Answer(r) ELSE call.got[s]]
           handler == Handler(call.tool, call.args, got)
       IN  IF Waiting(handler.waves, got) # {}
             THEN call' = [call EXCEPT !.got = got]
             ELSE End("returned", handler.result)
  /\ UNCHANGED <<world, children, span, changes>>

\* A read that fails fails the call, whatever was read before.
CallFails ==
  /\ Reading
  /\ End("thrown", None)
  /\ UNCHANGED <<world, children, span, changes>>

\* The submission is made for the caller; its answer may be lost.
SubmitAssignment ==
  /\ call.stage = "running" /\ call.tool = "create_assignment_submission"
  /\ \/ attempts' = [attempts EXCEPT ![call.args.column] =
                       Append(@, call.args.user)]
     \/ UNCHANGED attempts
  /\ End(IF attempts' # attempts THEN "returned" ELSE "thrown", None)
     \/ End("thrown", None)
  /\ UNCHANGED <<role, grade, announcements, children, span, changes>>

\* Without post the tool only returns the prompt for a draft.
DraftAnnouncement ==
  /\ call.stage = "running" /\ call.tool = "draft_announcement"
  /\ IF call.args.post
       THEN /\ \/ announcements' =
                    [announcements EXCEPT ![call.args.course] = Append(@, "draft")]
               \/ UNCHANGED announcements
            /\ \/ announcements' # announcements /\ End("returned", "draft")
               \/ End("thrown", None)
       ELSE End("returned", None) /\ UNCHANGED announcements
  /\ UNCHANGED <<role, grade, attempts, children, span, changes>>

\* External: somebody else's change.
Change ==
  /\ changes < MaxChanges
  /\ call.stage \in {"not made", "running"}
  /\ changes' = changes + 1
  /\ UNCHANGED call
  /\ \/ /\ \E k \in Courses, u \in Users, new \in Roles \cup {None} :
             role' = [role EXCEPT ![k][u] = new]
        /\ UNCHANGED <<grade, attempts, announcements>>
     \/ /\ \E c \in Columns, u \in Users, new \in Scores \cup {Unscored, None} :
             /\ role[CourseOf[c]][u] = "Student"
             /\ grade' = [grade EXCEPT ![c][u] = new]
        /\ UNCHANGED <<role, attempts, announcements>>
     \/ /\ \E c \in Columns, u \in Users :
             /\ role[CourseOf[c]][u] = "Student"
             /\ attempts' = [attempts EXCEPT ![c] = Append(@, u)]
        /\ UNCHANGED <<role, grade, announcements>>
     \/ /\ \E c \in Columns : \E i \in DOMAIN attempts[c] :
             attempts' = [attempts EXCEPT ![c] = RemoveAt(@, i)]
        /\ UNCHANGED <<role, grade, announcements>>
  /\ children' = IF call = NotMade THEN {}
                 ELSE children \cup ChildrenOf(call.args.user)'
  /\ span' = IF call = NotMade \/ call.tool # "get_submission_status" THEN None
             ELSE LET submitting == Submitting(call.args.column)'
                      enrolled == OnRoster(call.args.course)'
                  IN  [everSubmitting |-> span.everSubmitting \cup submitting,
                       alwaysSubmitting |-> span.alwaysSubmitting \cap submitting,
                       everEnrolled |-> span.everEnrolled \cup enrolled,
                       alwaysEnrolled |-> span.alwaysEnrolled \cap enrolled]

Finished == call.stage \in {"returned", "thrown"} /\ UNCHANGED callVars

CallNext ==
  \/ \E c \in Calls : Begin(c)
  \/ ReadAnswered \/ CallFails \/ SubmitAssignment \/ DraftAnnouncement
  \/ Change \/ Finished

CallSpec == CallInit /\ [][CallNext]_callVars

-----------------------------------------------------------------------------
(* What a call under way promises.                                         *)

ShownChildren ==
  IF call.tool = "get_my_children" THEN ToSet(call.result)
  ELSE {row.child : row \in ToSet(call.result)}

Parental ==
  {"get_my_children", "get_children_courses", "get_children_grades",
   "get_children_upcoming_assignments", "get_children_announcements"}

\* A parent tool shows nobody who was not a student of a course the caller
\* observed at some moment since the call began, although rosters, courses and
\* grades are read one after the other while users are enrolled and dropped.
ShownChildrenWereObserved ==
  call.stage = "returned" /\ call.tool \in Parental =>
    ShownChildren \subseteq children

\* get_submission_status says nothing that was not so at some moment of the
\* call, although attempts and roster are read in either order while attempts
\* are made and deleted and users enrolled and dropped: it lists nobody as
\* missing whose attempt was there all along, nobody at all who never was on
\* the roster, nobody as having submitted who never had; and it leaves out
\* nobody who was enrolled all along.  All of it of the pages that are read.
StatusIsOfTheCall ==
  call.stage = "returned" /\ call.tool = "get_submission_status" =>
    LET missing == ToSet(call.result.missingUsers)
        submitted == ToSet(call.result.submittedUsers)
    IN  /\ missing \cap span.alwaysSubmitting = {}
        /\ missing \subseteq span.everEnrolled
        /\ submitted \subseteq span.everSubmitting
        /\ span.alwaysEnrolled \subseteq missing \cup submitted

-----------------------------------------------------------------------------
(* What the tools promise of one and the same Blackboard: the result of a  *)
(* call all of whose reads are answered at one moment.                     *)

Reads ==
  ({"user", "courses"} \X Users)
  \cup ({"course", "roster", "columns", "contents", "announcements", "posts"}
         \X Courses)
  \cup ({"columnGrades", "attempts"} \X Columns)
  \cup ({"grades", "columns", "announcements"} \X Courses \X Users)

AtOnce == [r \in Reads |-> Answer(r)]

\* These hold of every Blackboard; it is enough to look before the call.
EachBlackboard(P) == call = NotMade => P

StudentIn(k) == {u \in Users : role[k][u] = "Student"}

\* The columns of a course, and the courses of a user, on the page read.
ColumnsShown(k) == ToSet(Answer(<<"columns", k>>))
CoursesShown(u) == ToSet(Answer(<<"courses", u>>))

\* A page that is not full is all there is.
Whole(list, resource) == Len(list) < Limit[resource]

\* The same grades, whoever asks.  The instructor is shown of a student what
\* the student is shown, or nothing if the student is not on the page of the
\* roster; who is on it is named in the list of a column.  That list and the
\* student's own never differ in a grade they both have, and one that is whole
\* has what the other has.  The average is the same for the student and in the
\* list of students at risk.
GradeViewsAgree ==
  EachBlackboard(\A k \in Courses : \A u \in StudentIn(k) :
    LET own == Head(GetMyGrades([user |-> u, course |-> k], AtOnce).result)
        taught ==
          GetGrades([user |-> u, course |-> k, column |-> None], AtOnce).result
        perColumn(c) ==
          GetGrades([user |-> None, course |-> k, column |-> c], AtOnce).result
        mine(c) == {e \in ToSet(perColumn(c)) : e.grade.user = u}
    IN  /\ taught = IF u \in OnRoster(k)
                      THEN <<[user |-> u, grades |-> own.grades]>> ELSE <<>>
        /\ \A c \in ToSet(ColumnsOf(k)) :
             LET ofColumn == {g \in ToSet(own.grades) : g.column = c} IN
             /\ \A e \in mine(c) : /\ e.named <=> u \in OnRoster(k)
                                  /\ \A g \in ofColumn : g = e.grade
             /\ Whole(own.grades, "grades") =>
                  {e.grade : e \in mine(c)} \subseteq ofColumn
             /\ Whole(perColumn(c), "columnGrades") =>
                  ofColumn \subseteq {e.grade : e \in mine(c)}
        /\ \A row \in ToSet(
             GetAtRiskStudents([course |-> k, threshold |-> 70 * Point],
                               AtOnce).result) :
             row.user = u => row.average = own.average)

\* Everybody on the page of the roster is either missing or among those who
\* submitted, and the three counts add up unless somebody submitted who is not
\* on it.
SubmissionCountsAddUp ==
  EachBlackboard(\A c \in Columns :
    LET s == GetSubmissionStatus([course |-> CourseOf[c], column |-> c],
                                 AtOnce).result
        enrolled == OnRoster(CourseOf[c])
    IN  /\ enrolled \subseteq ToSet(s.missingUsers) \cup ToSet(s.submittedUsers)
        /\ ToSet(s.missingUsers) \cap ToSet(s.submittedUsers) = {}
        /\ ToSet(s.submittedUsers) \subseteq enrolled =>
             s.totalEnrolled = s.submitted + s.notSubmitted)

\* The bands count every score once; mean and median, which are rounded, lie
\* between the extremes as rounded the same way (59.96 alone has a mean of 60.0
\* and a maximum of 59.96).
DistributionSound ==
  EachBlackboard(\A c \in Columns :
    LET d == GetGradeDistribution([column |-> c], AtOnce).result IN
    d # None =>
      /\ LET n == d.distribution
         IN  n["A"] + n["B"] + n["C"] + n["D"] + n["F"] = d.count
      /\ Tenths(d.min, 1) <= d.median /\ d.median <= Tenths(d.max, 1)
      /\ Tenths(d.min, 1) <= d.mean /\ d.mean <= Tenths(d.max, 1))

Unscores(k, u) ==
  Cardinality({c \in ColumnsShown(k) : grade[c][u] \in {None, Unscored}})

\* The list of students at risk is in order of the averages it shows, its
\* levels follow from them (59.96 is shown as 60.0 and yet high), and everybody
\* on the page of the roster with a score whose average is below the threshold,
\* or who has more than two assignments of the page of columns without one, is
\* on it.
RiskFollowsAverage ==
  EachBlackboard(\A k \in Courses, threshold \in {50 * Point, 70 * Point} :
    LET rows == GetAtRiskStudents([course |-> k, threshold |-> threshold],
                                  AtOnce).result
        own(u) == Head(GetMyGrades([user |-> u, course |-> k], AtOnce).result)
    IN  /\ \A i, j \in DOMAIN rows : i < j => rows[i].average <= rows[j].average
        /\ \A row \in ToSet(rows) :
             /\ row.average < 600 => row.risk = "high"
             /\ row.risk = "high" => row.average <= 600
             /\ row.risk = "low" =>
                  row.missing > 2 /\ row.average >= Tenths(threshold, 1)
        /\ \A u \in OnRoster(k) :
             own(u).average # None /\ (\/ own(u).average < Tenths(threshold, 1)
                                      \/ Unscores(k, u) > 2) =>
               u \in {row.user : row \in ToSet(rows)})

\* The children that the tools of a parent find.
ChildrenShown(p) == ToSet(GetMyChildren([user |-> p], AtOnce).result)

\* An assignment, of the pages read, not yet due is listed exactly if the days
\* until it is due, as listed, are within those asked for; the soonest first;
\* and a parent is shown the same assignments for a child as the child is.
UpcomingViewsAgree ==
  EachBlackboard(\A u \in Users, daysAhead \in 1..2 :
    LET own == GetUpcomingAssignments(
                 [user |-> u, course |-> None, daysAhead |-> daysAhead],
                 AtOnce).result
    IN  /\ {row.column : row \in ToSet(own)} =
             {c \in UNION {ColumnsShown(k) : k \in CoursesShown(u)} :
                Due[c] # None /\ Due[c] >= Now /\ DaysUntil(c) <= daysAhead}
        /\ \A i, j \in DOMAIN own : i < j => Due[own[i].column] <= Due[own[j].column]
        /\ \A p \in Users : u \in ChildrenShown(p) =>
             UNION {ToSet(row.upcoming) : row \in ToSet(
               GetChildrenUpcomingAssignments(
                 [user |-> p, child |-> u, course |-> None,
                  daysAhead |-> daysAhead], AtOnce).result)}
             = {row.column : row \in ToSet(own)})

\* The children found are the students on the roster pages, of the courses on
\* the caller's page, whose observer the caller is; if the roster does not tell
\* the roles, there are none.  A parent is shown of a child what the child is
\* shown: the same courses, grades and averages, also of courses the parent
\* does not observe.
ParentSeesWhatChildSees ==
  EachBlackboard(\A p \in Users :
    /\ ChildrenShown(p) = IF ~RolesShown THEN {} ELSE
         {u \in Users \ {p} : \E k \in CoursesShown(p) :
            /\ {p, u} \subseteq OnRoster(k)
            /\ role[k][p] = "Observer" /\ role[k][u] = "Student"}
    /\ \A u \in ChildrenShown(p) :
         LET args == [user |-> p, child |-> u, course |-> None]
             own == GetMyGrades([user |-> u, course |-> None], AtOnce).result
             shown == GetChildrenGrades(args, AtOnce).result
         IN  /\ shown = ForEach(own, LAMBDA row :
                  [child |-> u, course |-> row.course, average |-> row.average,
                   grades |-> row.grades])
             /\ ForEach(GetChildrenCourses(args, AtOnce).result[1].courses,
                        LAMBDA c : c.course)
                = ForEach(GetMyCourses([user |-> u], AtOnce).result,
                          LAMBDA c : c.course))

\* The same fact about one Blackboard is the same in every tool that tells it,
\* in whichever file and for whomever it is computed.
ViewsAgree ==
  GradeViewsAgree /\ UpcomingViewsAgree /\ ParentSeesWhatChildSees

\* The numbers of the instructor's reports follow from the data they are about,
\* also at the edges of pages, bands, levels and thresholds.
ReportsAddUp ==
  SubmissionCountsAddUp /\ DistributionSound /\ RiskFollowsAverage
==============================================================================
