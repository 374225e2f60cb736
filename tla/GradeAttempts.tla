---------------------------- MODULE GradeAttempts ----------------------------
(***************************************************************************)
(* The tools that write the attempts of a grade column: update_grade,      *)
(* delete_grade and exempt_grade (src/tools/grade-writeback.ts) and        *)
(* create_assignment_submission (src/tools/student.ts).                    *)
(*                                                                         *)
(* The first three look the student's attempt up and then write, in two    *)
(* upstream calls; Blackboard serves each call at some moment between its  *)
(* dispatch and its answer, and may serve one the handler has given up.    *)
(* Columns have nothing in common, so there is one.  What a write puts     *)
(* into an attempt is kept as the call that wrote it.                      *)
(***************************************************************************)
EXTENDS Integers, FiniteSets

CONSTANTS
  Calls,        \* the tool calls of a behaviour, each made once
  Students,     \* user ids
  Asked,        \* what clients may ask: [tool, student]
  FirstPage,    \* students among the first 500 users the column lists
  MaxAttempts,  \* bound: attempts created in a behaviour
  None          \* an absent value

LookupTools == {"update_grade", "delete_grade", "exempt_grade"}
Tools == LookupTools \cup {"create_assignment_submission"}

AttemptIds == 1..MaxAttempts

ASSUME AskedAssumption == Asked \subseteq [tool : Tools, student : Students]
ASSUME PageAssumption == FirstPage \subseteq Students
ASSUME BoundAssumption == MaxAttempts \in Nat
ASSUME NoneAssumption ==
  /\ None \notin AttemptIds
  /\ None \notin [tool : Tools, student : Students]
  /\ None \notin [student : Students, creator : Calls, writers : SUBSET Calls]

VARIABLES
  attempts,  \* external: Blackboard's attempts, None if not there
  nextId,    \* external: the id of the next attempt; ids are never reused
  pc,        \* where each call stands in its handler
  args,      \* what the call asked
  found,     \* attemptId, what the look-up answered
  wire,      \* what has become of the call's write request
  seen       \* history: the student's attempts when the look-up was served

external == <<attempts, nextId>>
vars == <<external, pc, args, found, wire, seen>>

Attempt == [student : Students, creator : Calls, writers : SUBSET Calls]

TypeOK ==
  /\ attempts \in [AttemptIds -> Attempt \cup {None}]
  /\ nextId \in 1..MaxAttempts + 1
  /\ pc \in [Calls -> {"new", "refused", "lookup", "looked", "writing",
                       "done", "failed", "notFound"}]
  /\ args \in [Calls -> [tool : Tools, student : Students] \cup {None}]
  /\ found \in [Calls -> AttemptIds \cup {None}]
  /\ wire \in [Calls -> {"none", "pending", "applied", "rejected"}]
  /\ seen \in [Calls -> SUBSET AttemptIds]
  /\ \A c \in Calls :
       /\ pc[c] \notin {"new", "refused"} => args[c] \in Asked
       /\ wire[c] # "none" => pc[c] \in {"writing", "done", "failed"}

Init ==
  /\ attempts = [i \in AttemptIds |-> None]
  /\ nextId = 1
  /\ pc = [c \in Calls |-> "new"]
  /\ args = [c \in Calls |-> None]
  /\ found = [c \in Calls |-> None]
  /\ wire = [c \in Calls |-> "none"]
  /\ seen = [c \in Calls |-> {}]

-----------------------------------------------------------------------------
(* The handlers.                                                           *)

\* The gates of Authorization refuse the call: no upstream call is made.
Refuse(c) ==
  /\ pc[c] = "new"
  /\ pc' = [pc EXCEPT ![c] = "refused"]
  /\ UNCHANGED <<external, args, found, wire, seen>>

\* The gates let the call pass and its first upstream call leaves.
Begin(c, a) ==
  /\ pc[c] = "new"
  /\ args' = [args EXCEPT ![c] = a]
  /\ IF a.tool \in LookupTools
     THEN /\ pc' = [pc EXCEPT ![c] = "lookup"]
          /\ UNCHANGED wire
     ELSE /\ pc' = [pc EXCEPT ![c] = "writing"]
          /\ wire' = [wire EXCEPT ![c] = "pending"]
  /\ UNCHANGED <<external, found, seen>>

AttemptsOf(s) ==
  {i \in AttemptIds : attempts[i] # None /\ attempts[i].student = s}

\* Mutant: the first entry of the list, whoever it belongs to.
AnyListed(s) == UNION {AttemptsOf(t) : t \in FirstPage}

\* External: a user's entry in the column's list names one of the user's
\* attempts; the list holds one page of users.
Listed(s) == IF s \in FirstPage THEN AttemptsOf(s) ELSE {}

\* The look-up answers: the entry whose userId is the student's.
LookUp(c) ==
  /\ pc[c] = "lookup"
  /\ \E i \in AttemptIds \cup {None} :
       /\ IF Listed(args[c].student) = {} THEN i = None
          ELSE i \in Listed(args[c].student)
       /\ found' = [found EXCEPT ![c] = i]
  /\ seen' = [seen EXCEPT ![c] = AttemptsOf(args[c].student)]
  /\ pc' = [pc EXCEPT ![c] = "looked"]
  /\ UNCHANGED <<external, args, wire>>

\* Mutant: a failed look-up is taken for an empty one.
GoOnAfterFailure == "looked"

AfterFailedLookup == "failed"

\* The error is propagated.
LookUpFails(c) ==
  /\ pc[c] = "lookup"
  /\ seen' = [seen EXCEPT ![c] = AttemptsOf(args[c].student)]
  /\ pc' = [pc EXCEPT ![c] = AfterFailedLookup]
  /\ UNCHANGED <<external, args, found, wire>>

\* delete_grade and exempt_grade need an attempt.
NoAttempt(c) ==
  /\ pc[c] = "looked"
  /\ found[c] = None
  /\ args[c].tool # "update_grade"
  /\ pc' = [pc EXCEPT ![c] = "notFound"]
  /\ UNCHANGED <<external, args, found, wire, seen>>

\* The second upstream call leaves.
SendWrite(c) ==
  /\ pc[c] = "looked"
  /\ found[c] # None \/ args[c].tool = "update_grade"
  /\ pc' = [pc EXCEPT ![c] = "writing"]
  /\ wire' = [wire EXCEPT ![c] = "pending"]
  /\ UNCHANGED <<external, args, found, seen>>

WriteAnswered(c) ==
  /\ pc[c] = "writing"
  /\ wire[c] \in {"applied", "rejected"}
  /\ pc' = [pc EXCEPT ![c] = IF wire[c] = "applied" THEN "done" ELSE "failed"]
  /\ UNCHANGED <<external, args, found, wire, seen>>

\* The client's time-out, or a connection lost: the write may have been done,
\* or be done later.
WriteTimesOut(c) ==
  /\ pc[c] = "writing"
  /\ pc' = [pc EXCEPT ![c] = "failed"]
  /\ UNCHANGED <<external, args, found, wire, seen>>

-----------------------------------------------------------------------------
(* Blackboard serves a write.                                              *)

Applied(c) ==
  /\ wire[c] = "pending"
  /\ wire' = [wire EXCEPT ![c] = "applied"]
  /\ UNCHANGED <<pc, args, found, seen>>

\* External: POST makes a new attempt of the student.
Create(c) ==
  /\ Applied(c)
  /\ found[c] = None
  /\ nextId <= MaxAttempts
  /\ attempts' = [attempts EXCEPT ![nextId] =
       [student |-> args[c].student, creator |-> c, writers |-> {c}]]
  /\ nextId' = nextId + 1

Existing(c) == found[c] # None /\ attempts[found[c]] # None

\* External: PATCH changes an attempt that is still there.
Patch(c) ==
  /\ Applied(c)
  /\ Existing(c)
  /\ args[c].tool # "delete_grade"
  /\ attempts' = [attempts EXCEPT ![found[c]] =
       [student |-> @.student, creator |-> @.creator,
        writers |-> @.writers \cup {c}]]
  /\ UNCHANGED nextId

\* External: DELETE removes it.
Remove(c) ==
  /\ Applied(c)
  /\ Existing(c)
  /\ args[c].tool = "delete_grade"
  /\ attempts' = [attempts EXCEPT ![found[c]] = None]
  /\ UNCHANGED nextId

\* External: an error answer; a vanished attempt is a 404.
Reject(c) ==
  /\ wire[c] = "pending"
  /\ wire' = [wire EXCEPT ![c] = "rejected"]
  /\ UNCHANGED <<external, pc, args, found, seen>>

Next ==
  \E c \in Calls :
    \/ Refuse(c) \/ (\E a \in Asked : Begin(c, a))
    \/ LookUp(c) \/ LookUpFails(c) \/ NoAttempt(c) \/ SendWrite(c)
    \/ WriteAnswered(c) \/ WriteTimesOut(c)
    \/ Create(c) \/ Patch(c) \/ Remove(c) \/ Reject(c)

Spec == Init /\ [][Next]_vars

-----------------------------------------------------------------------------
(* What must hold.                                                         *)

\* If a student of the listed page has two attempts made by update_grade, then
\* neither was there when the other's call looked: only a race makes two, never
\* a failed look-up and never a retry of a write that was done unanswered
\* (updateGradeHandler).
DuplicateNeedsRace ==
  \A i, j \in AttemptIds :
    (/\ i # j /\ attempts[i] # None /\ attempts[j] # None
     /\ attempts[i].student = attempts[j].student
     /\ attempts[i].student \in FirstPage
     /\ args[attempts[i].creator].tool = "update_grade"
     /\ args[attempts[j].creator].tool = "update_grade")
    => i \notin seen[attempts[j].creator]

\* Whatever is created, deleted and written around a call, it writes no
\* attempt but one of the student it was asked for (the id found is an
\* attempt's and never a user's).
WritesReachOwnAttempt ==
  \A i \in AttemptIds : attempts[i] # None =>
    \A c \in attempts[i].writers : args[c].student = attempts[i].student

=============================================================================
