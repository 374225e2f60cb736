------------------------------- MODULE Reports -------------------------------
(***************************************************************************)
(* What the reading tools of src/tools/student.ts, instructor.ts and       *)
(* shared.ts ask of Blackboard and what they make of the answers.          *)
(*                                                                         *)
(* A handler is an operator of its arguments and of the answers it has so  *)
(* far (got, a function from reads to lists).  It yields the waves of its  *)
(* reads, one after the other, the reads of one wave together, and its     *)
(* result, which stands when every read is answered.  An answer still      *)
(* missing counts as the empty list.                                       *)
(*                                                                         *)
(* A read is a tuple: the resource, what identifies it and, where a call   *)
(* may make the same read again, what tells the two apart.  Blackboard is  *)
(* external: four variables hold what it knows, the constants what does    *)
(* not change.  Lists come in its order, that of the constant sequences,   *)
(* and of each list only the first page is read.                           *)
(*                                                                         *)
(* Scores are numbers of any fraction: they, their sums and the thresholds *)
(* are counted in parts, Point to a point.                                 *)
(***************************************************************************)
EXTENDS Integers, Sequences, FiniteSets, SequencesExt, FiniteSetsExt, Lists

CONSTANTS
  CourseList, UserList, ColumnList,  \* courses, users, grade columns, in order
  CourseOf,       \* the course of each column
  Due,            \* the due time of each column, or None
  Availability,   \* the availability of each course, or None where not given
  Materials,      \* the content items of each course, in order
  Matching,       \* the items whose title or body has the words searched for
  Authors,        \* the author, or None, of each post of a discussion
  Scores, Point,  \* scores of grades, and the parts of a point
  Now, Day,       \* the time of the calls, and the length of a day
  Limit,          \* the length of a page of each resource: what the client
                  \* asks for, or what Blackboard gives who does not ask
  RolesShown,     \* external: whether the user object of an enrollment, all
                  \* that the client keeps of it, carries the course role
  None,           \* an absent value
  Unscored        \* the score of a grade that has none yet

Courses == ToSet(CourseList)
Users == ToSet(UserList)
Columns == ToSet(ColumnList)

Resources ==
  {"courses", "roster", "columns", "grades", "columnGrades", "attempts",
   "contents", "announcements", "posts"}

\* An id is of one course, user or column.
NoneTwice(list) == \A i, j \in DOMAIN list : list[i] = list[j] => i = j

ASSUME ReportsAssumption ==
  /\ CourseList \in Seq(Courses) /\ UserList \in Seq(Users)
  /\ ColumnList \in Seq(Columns)
  /\ NoneTwice(CourseList) /\ NoneTwice(UserList) /\ NoneTwice(ColumnList)
  /\ None \notin Courses \cup Users \cup Columns
  /\ CourseOf \in [Columns -> Courses]
  /\ Due \in [Columns -> Nat \cup {None}]
  /\ Now \in Nat /\ Day \in Nat \ {0}
  /\ Point \in Nat \ {0} /\ Scores \subseteq 0..(100 * Point)
  /\ Limit \in [Resources -> Nat \ {0}]
  /\ RolesShown \in BOOLEAN
  /\ None \notin {"Student", "Instructor", "Observer"}

VARIABLES
  role,           \* the role of each user in each course, or None
  grade,          \* the score, Unscored or None of each column and user
  attempts,       \* the user of each attempt on a column, in order
  announcements   \* the announcements of each course, in order

world == <<role, grade, attempts, announcements>>

-----------------------------------------------------------------------------
(* External: what Blackboard answers to a read.                            *)

Member(k, u) == [id |-> u, role |-> IF RolesShown THEN role[k][u] ELSE None]

Roster(k) ==
  LET enrolled == Filter(UserList, LAMBDA u : role[k][u] # None)
  IN  [i \in DOMAIN enrolled |-> Member(k, enrolled[i])]

ColumnsOf(k) == Filter(ColumnList, LAMBDA c : CourseOf[c] = k)

GradesOf(k, u) ==
  LET graded == Filter(ColumnsOf(k), LAMBDA c : grade[c][u] # None)
  IN  [i \in DOMAIN graded |->
         [column |-> graded[i], user |-> u, score |-> grade[graded[i]][u]]]

ColumnGrades(c) ==
  LET graded == Filter(UserList, LAMBDA u : grade[c][u] # None)
  IN  [i \in DOMAIN graded |->
         [column |-> c, user |-> graded[i], score |-> grade[c][graded[i]]]]

Held(read) ==
  CASE read[1] = "course"        -> <<read[2]>>
    [] read[1] = "courses"       ->
         Filter(CourseList, LAMBDA k : role[k][read[2]] # None)
    [] read[1] = "roster"        -> Roster(read[2])
    [] read[1] = "columns"       -> ColumnsOf(read[2])
    [] read[1] = "grades"        -> GradesOf(read[2], read[3])
    [] read[1] = "columnGrades"  -> ColumnGrades(read[2])
    [] read[1] = "attempts"      -> attempts[read[2]]
    [] read[1] = "contents"      -> Materials[read[2]]
    [] read[1] = "announcements" -> announcements[read[2]]
    [] read[1] = "posts"         -> Authors
    [] OTHER                     -> <<>>

FirstPage(list, limit) ==
  IF Len(list) <= limit THEN list ELSE SubSeq(list, 1, limit)

\* The client reads one page, and no other: it follows no link to the next.
Answer(read) ==
  IF read[1] \in Resources THEN FirstPage(Held(read), Limit[read[1]])
  ELSE Held(read)

-----------------------------------------------------------------------------
(* Helpers of the handlers.                                                *)

Got(got, read) == IF read \in DOMAIN got THEN got[read] ELSE <<>>

InTurn(reads) == [i \in DOMAIN reads |-> {reads[i]}]

\* toFixed(1) of a quotient, in tenths of a point; a tie, which binary
\* fractions may break either way, goes up.
Tenths(sum, count) == (20 * sum + count * Point) \div (2 * count * Point)

Scored(grades) == Filter(grades, LAMBDA g : g.score # Unscored)
Total(grades) == Added(ForEach(Scored(grades), LAMBDA g : g.score))

\* Mutant: a grade without a score counts as 0.
AverageOfAll(grades) ==
  IF grades = <<>> THEN None ELSE Tenths(Total(grades), Len(grades))

Average(grades) ==
  IF Scored(grades) = <<>> THEN None
  ELSE Tenths(Total(grades), Len(Scored(grades)))

\* The course asked for, or the courses of the caller.
CourseRead(args) ==
  IF args.course # None THEN <<"course", args.course>>
  ELSE <<"courses", args.user>>

\* Mutant: the last moment of the window is missed.
DueBefore(c, daysAhead) ==
  Due[c] # None /\ Due[c] >= Now /\ Due[c] < Now + daysAhead * Day

DueWithin(c, daysAhead) ==
  Due[c] # None /\ Due[c] >= Now /\ Due[c] <= Now + daysAhead * Day

DaysUntil(c) == (Due[c] - Now + Day - 1) \div Day

-----------------------------------------------------------------------------
(* Student and shared tools.                                               *)

GetMyCourses(args, got) ==
  LET read == <<"courses", args.user>> IN
  [waves |-> <<{read}>>,
   result |-> ForEach(Got(got, read), LAMBDA k :
     [course |-> k, status |-> IF Availability[k] # None THEN Availability[k]
                               ELSE "Unknown"])]

GetUpcomingAssignments(args, got) ==
  LET courses == Got(got, CourseRead(args))
      reads == ForEach(courses, LAMBDA k : <<"columns", k>>)
      assignments == FlattenSeq(ForEach(reads, LAMBDA r : Got(got, r)))
      upcoming == Filter(assignments, LAMBDA c : DueWithin(c, args.daysAhead))
  IN  [waves |-> <<{CourseRead(args)}>> \o InTurn(reads),
       result |-> ForEach(SortedBy(upcoming, LAMBDA c : Due[c]), LAMBDA c :
         [column |-> c, course |-> CourseOf[c], dueIn |-> DaysUntil(c)])]

GetMyGrades(args, got) ==
  LET courses == Got(got, CourseRead(args))
      reads == ForEach(courses, LAMBDA k : <<"grades", k, args.user>>)
  IN  [waves |-> <<{CourseRead(args)}>> \o InTurn(reads),
       result |-> ForEach(courses, LAMBDA k :
         LET grades == Got(got, <<"grades", k, args.user>>) IN
         [course |-> k, average |-> Average(grades), grades |-> grades])]

GetCourseContent(args, got) ==
  LET read == <<"contents", args.course>> IN
  [waves |-> <<{read}>>,
   result |-> Filter(Got(got, read), LAMBDA i : args.search => i \in Matching)]

GetAssignmentFeedback(args, got) ==
  LET read == <<"grades", args.course, args.user>>
      found == Filter(Got(got, read), LAMBDA g : g.column = args.column)
  IN  [waves |-> <<{read}>>,
       result |-> IF found = <<>> THEN None ELSE Head(found)]

\* unreadOnly is not looked at.
GetAnnouncements(args, got) ==
  LET read == <<"announcements", args.course>> IN
  [waves |-> <<{read}>>, result |-> Got(got, read)]

SearchCourseMaterials(args, got) ==
  LET courses == Got(got, CourseRead(args))
      reads == ForEach(courses, LAMBDA k : <<"contents", k>>)
  IN  [waves |-> <<{CourseRead(args)}>> \o InTurn(reads),
       result |-> FlattenSeq(ForEach(courses, LAMBDA k :
         ForEach(Filter(Got(got, <<"contents", k>>), LAMBDA i : i \in Matching),
                 LAMBDA i : [course |-> k, item |-> i])))]

-----------------------------------------------------------------------------
(* Instructor tools.                                                       *)

ListRoster(args, got) ==
  LET read == <<"roster", args.course>> IN
  [waves |-> <<{read}>>, result |-> ForEach(Got(got, read), LAMBDA m : m.id)]

\* For one column, the grades of everybody who has one, with the name of those
\* enrolled; else the grades of the users asked for, read together.
GetGrades(args, got) ==
  LET roster == <<"roster", args.course>>
      column == <<"columnGrades", args.column>>
      enrolled == Got(got, roster)
      asked == Filter(enrolled, LAMBDA m : args.user \in {None, m.id})
      gradesRead(m) == <<"grades", args.course, m.id>>
      wanted(m) == Filter(Got(got, gradesRead(m)), LAMBDA g :
                     args.column \in {None, g.column})
  IN  IF args.column # None /\ args.user = None
      THEN [waves |-> <<{roster}, {column}>>,
            result |-> ForEach(Got(got, column), LAMBDA g :
              [grade |-> g, named |-> \E i \in DOMAIN enrolled :
                                        enrolled[i].id = g.user])]
      ELSE [waves |-> <<{roster}, {gradesRead(m) : m \in ToSet(asked)}>>,
            result |-> ForEach(asked, LAMBDA m :
              [user |-> m.id, grades |-> wanted(m)])]

\* Mutant: only the newest attempt of the column is looked at.
NewestSubmitter(list) == IF list = <<>> THEN {} ELSE {Last(list)}

Submitters(list) == ToSet(list)

GetSubmissionStatus(args, got) ==
  LET submitted == <<"attempts", args.column>>
      roster == <<"roster", args.course>>
      enrolled == Got(got, roster)
      missing == Filter(enrolled, LAMBDA m :
                   m.id \notin Submitters(Got(got, submitted)))
  IN  [waves |-> <<{submitted, roster}>>,
       result |-> [totalEnrolled |-> Len(enrolled),
                   submitted |-> Cardinality(Submitters(Got(got, submitted))),
                   notSubmitted |-> Len(missing),
                   submittedUsers |-> Got(got, submitted),
                   missingUsers |-> ForEach(missing, LAMBDA m : m.id)]]

\* Mutant: a score at the edge of two bands is in neither.
GapAtEdge(s) ==
  CASE s > 90 * Point -> "A" [] s > 80 * Point /\ s < 90 * Point -> "B"
    [] s > 70 * Point /\ s < 80 * Point -> "C"
    [] s > 60 * Point /\ s < 70 * Point -> "D"
    [] s < 60 * Point -> "F" [] OTHER -> "none"

Band(s) ==
  CASE s >= 90 * Point -> "A" [] s >= 80 * Point -> "B"
    [] s >= 70 * Point -> "C" [] s >= 60 * Point -> "D" [] OTHER -> "F"

\* Grades without a score, and scores of 0, are left out.  The mean and the
\* median are shown in tenths, the extremes as they are; the standard deviation
\* is not modelled.
GetGradeDistribution(args, got) ==
  LET read == <<"columnGrades", args.column>>
      scores == ForEach(Filter(Got(got, read), LAMBDA g :
                          g.score # Unscored /\ g.score # 0), LAMBDA g : g.score)
      sorted == SortedBy(scores, LAMBDA s : s)
      count == Len(sorted)
      mid == count \div 2
  IN  [waves |-> <<{read}>>,
       result |-> IF count = 0 THEN None ELSE
         [count |-> count,
          mean |-> Tenths(Added(sorted), count),
          median |-> IF count % 2 = 0
                       THEN Tenths(sorted[mid] + sorted[mid + 1], 2)
                       ELSE Tenths(sorted[mid + 1], 1),
          min |-> sorted[1], max |-> sorted[count],
          distribution |-> [b \in {"A", "B", "C", "D", "F"} |->
            Cardinality({i \in DOMAIN scores : Band(scores[i]) = b})]]]

GetDiscussionSummary(args, got) ==
  LET read == <<"posts", args.course>> IN
  [waves |-> <<{read}>>,
   result |-> [totalPosts |-> Len(Got(got, read)),
               uniqueParticipants |-> Cardinality(ToSet(Got(got, read)) \ {None})]]

\* Mutant: the levels are told apart the wrong way round.
RiskSwapped(sum, count, threshold) ==
  IF sum < threshold * count THEN "high"
  ELSE IF sum < 60 * Point * count THEN "medium" ELSE "low"

Risk(sum, count, threshold) ==
  IF sum < 60 * Point * count THEN "high"
  ELSE IF sum < threshold * count THEN "medium" ELSE "low"

\* A user without any score is skipped.
GetAtRiskStudents(args, got) ==
  LET roster == <<"roster", args.course>>
      columns == <<"columns", args.course>>
      enrolled == Got(got, roster)
      gradesRead(m) == <<"grades", args.course, m.id>>
      scored(m) == Scored(Got(got, gradesRead(m)))
      sum(m) == Total(Got(got, gradesRead(m)))
      missing(m) == Cardinality({c \in ToSet(Got(got, columns)) :
                      \A g \in ToSet(scored(m)) : g.column # c})
      listed == Filter(enrolled, LAMBDA m :
                  /\ scored(m) # <<>>
                  /\ \/ sum(m) < args.threshold * Len(scored(m))
                     \/ missing(m) > 2)
      rows == ForEach(listed, LAMBDA m :
                [user |-> m.id, missing |-> missing(m),
                 average |-> Tenths(sum(m), Len(scored(m))),
                 risk |-> Risk(sum(m), Len(scored(m)), args.threshold)])
  IN  [waves |-> <<{roster, columns}>> \o InTurn(ForEach(enrolled, gradesRead)),
       result |-> SortedBy(rows, LAMBDA row : row.average)]
==============================================================================
