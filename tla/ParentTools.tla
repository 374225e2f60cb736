----------------------------- MODULE ParentTools -----------------------------
(***************************************************************************)
(* The tools of src/tools/parent.ts: who the caller's children are is      *)
(* worked out anew in every call, from the rosters of the caller's courses;*)
(* what is shown of a child is read after that, one request at a time.     *)
(***************************************************************************)
EXTENDS Reports

\* Mutant: whoever is on the roster is taken for an observer.
AnyRole(members, caller) == \E m \in ToSet(members) : m.id = caller

IsObserver(members, caller) ==
  \E m \in ToSet(members) : m.id = caller /\ m.role = "Observer"

\* The reads before the children are known, and the children, each once.
ResolveChildren(caller, got) ==
  LET courses == Got(got, <<"courses", caller>>)
      reads == ForEach(courses, LAMBDA k : <<"roster", k>>)
      childrenIn(members) ==
        IF ~IsObserver(members, caller) THEN <<>>
        ELSE Filter(members, LAMBDA m : m.id # caller /\ m.role = "Student")
      found == FlattenSeq(ForEach(reads, LAMBDA r : childrenIn(Got(got, r))))
      first == Filter([i \in DOMAIN found |-> i], LAMBDA i :
                 \A j \in 1..(i - 1) : found[j].id # found[i].id)
  IN  [waves |-> <<{<<"user", caller>>}, {<<"courses", caller>>}>> \o InTurn(reads),
       result |-> ForEach(first, LAMBDA i : found[i].id)]

GetMyChildren(args, got) == ResolveChildren(args.user, got)

\* The children asked for, and the courses of each that are asked for.
Targets(args, got) ==
  Filter(ResolveChildren(args.user, got).result, LAMBDA u :
    args.child \in {None, u})

\* Mutant: the courses are those of the caller.
OwnCourses(args, got, child) ==
  Filter(Got(got, <<"courses", args.user>>), LAMBDA k :
    args.course \in {None, k})

CoursesFor(args, got, child) ==
  Filter(Got(got, <<"courses", child>>), LAMBDA k : args.course \in {None, k})

\* A present availability is a non-empty string, whatever it says.
GetChildrenCourses(args, got) ==
  LET children == Targets(args, got) IN
  [waves |-> ResolveChildren(args.user, got).waves
             \o InTurn(ForEach(children, LAMBDA u : <<"courses", u>>)),
   result |-> ForEach(children, LAMBDA u :
     [child |-> u,
      courses |-> ForEach(Got(got, <<"courses", u>>), LAMBDA k :
        [course |-> k, status |-> IF Availability[k] # None THEN "Active"
                                  ELSE "Inactive"])])]

\* The waves and the rows of a tool that shows one thing of each course of each
\* child: the courses of a child, then what Read asks of each, then the next.
PerChildCourse(args, got, Read(_, _), Row(_, _, _)) ==
  LET children == Targets(args, got)
      reads(u) == <<<<"courses", u>>>> \o
                  ForEach(CoursesFor(args, got, u), LAMBDA k : Read(u, k))
      rows(u) == ForEach(CoursesFor(args, got, u), LAMBDA k :
                   Row(u, k, Got(got, Read(u, k))))
  IN  [waves |-> ResolveChildren(args.user, got).waves
                 \o InTurn(FlattenSeq(ForEach(children, reads))),
       result |-> FlattenSeq(ForEach(children, rows))]

GetChildrenGrades(args, got) ==
  PerChildCourse(args, got, LAMBDA u, k : <<"grades", k, u>>,
    LAMBDA u, k, grades :
      [child |-> u, course |-> k, average |-> Average(grades), grades |-> grades])

\* Sorted by whole days, not by the time due.
GetChildrenUpcomingAssignments(args, got) ==
  PerChildCourse(args, got, LAMBDA u, k : <<"columns", k, u>>,
    LAMBDA u, k, columns :
      [child |-> u, course |-> k,
       upcoming |-> SortedBy(Filter(columns, LAMBDA c :
                               DueWithin(c, args.daysAhead)), DaysUntil)])

\* unreadOnly is refused before anything is read.
GetChildrenAnnouncements(args, got) ==
  PerChildCourse(args, got, LAMBDA u, k : <<"announcements", k, u>>,
    LAMBDA u, k, list : [child |-> u, course |-> k, announcements |-> list])
==============================================================================
