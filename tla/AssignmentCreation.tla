------------------------- MODULE AssignmentCreation --------------------------
(***************************************************************************)
(* create_assignment and create_grade_column of                            *)
(* src/tools/grade-writeback.ts: the first makes a content item and then   *)
(* the grade column linked to it, in two upstream calls; when the second   *)
(* fails the answer names the item, and create_grade_column is the         *)
(* documented way to link it.                                              *)
(*                                                                         *)
(* A call makes at most one content item, which is named after the call.   *)
(* Blackboard serves a POST at some moment after its dispatch, if at all:  *)
(* before the answer, or after the handler gave it up.                     *)
(***************************************************************************)
EXTENDS Naturals

CONSTANTS
  Calls,  \* the tool calls of a behaviour, each made once
  None    \* an absent value

ASSUME NoneAssumption == None \notin Calls \cup {"content", "column"}

VARIABLES
  contents,  \* external: the content items, by the call that made them
  columns,   \* external: how many columns each call has made
  pc,        \* where each call stands in its handler
  posting,   \* what the handler has posted last
  item,      \* the contentId the handler links the column to
  wire       \* what has become of the last POST

external == <<contents, columns>>
vars == <<external, pc, posting, item, wire>>

TypeOK ==
  /\ contents \in SUBSET Calls
  /\ columns \in [Calls -> Nat]
  /\ pc \in [Calls -> {"new", "refused", "awaiting",
                       "done", "failed", "orphan"}]
  /\ posting \in [Calls -> {"content", "column", None}]
  /\ item \in [Calls -> Calls \cup {None}]
  /\ wire \in [Calls -> {"none", "pending", "applied", "rejected"}]
  /\ \A c \in Calls :
       /\ item[c] # None => item[c] \in contents
       /\ pc[c] = "orphan" => posting[c] = "column" /\ item[c] = c
       /\ columns[c] > 0 => posting[c] = "column"

Init ==
  /\ contents = {}
  /\ columns = [c \in Calls |-> 0]
  /\ pc = [c \in Calls |-> "new"]
  /\ posting = [c \in Calls |-> None]
  /\ item = [c \in Calls |-> None]
  /\ wire = [c \in Calls |-> "none"]

-----------------------------------------------------------------------------
(* The handlers.                                                           *)

\* The gates of Authorization refuse the call: no upstream call is made.
Refuse(c) ==
  /\ pc[c] = "new"
  /\ pc' = [pc EXCEPT ![c] = "refused"]
  /\ UNCHANGED <<external, posting, item, wire>>

CreateAssignment(c) ==
  /\ pc[c] = "new"
  /\ pc' = [pc EXCEPT ![c] = "awaiting"]
  /\ posting' = [posting EXCEPT ![c] = "content"]
  /\ wire' = [wire EXCEPT ![c] = "pending"]
  /\ UNCHANGED <<external, item>>

\* External: clients name an item they were told is without a column, one
\* call at a time and until one succeeds, or none.
ToBeLinked ==
  {i \in Calls :
     /\ pc[i] = "orphan"
     /\ \A d \in Calls : item[d] = i => pc[d] \in {"orphan", "failed"}}

CreateGradeColumn(c) ==
  /\ pc[c] = "new"
  /\ \E i \in ToBeLinked \cup {None} : item' = [item EXCEPT ![c] = i]
  /\ pc' = [pc EXCEPT ![c] = "awaiting"]
  /\ posting' = [posting EXCEPT ![c] = "column"]
  /\ wire' = [wire EXCEPT ![c] = "pending"]
  /\ UNCHANGED external

\* Mutant: any answer is a success.
Answered(c) == wire[c] \in {"applied", "rejected"}

Succeeded(c) == wire[c] = "applied"

\* Step 2 of create_assignment: the column, with the new item's id.
ContentAnswered(c) ==
  /\ pc[c] = "awaiting" /\ posting[c] = "content" /\ wire[c] = "applied"
  /\ item' = [item EXCEPT ![c] = c]
  /\ posting' = [posting EXCEPT ![c] = "column"]
  /\ wire' = [wire EXCEPT ![c] = "pending"]
  /\ UNCHANGED <<external, pc>>

ColumnAnswered(c) ==
  /\ pc[c] = "awaiting" /\ posting[c] = "column" /\ Succeeded(c)
  /\ pc' = [pc EXCEPT ![c] = "done"]
  /\ UNCHANGED <<external, posting, item, wire>>

\* Mutant: the catch of step 2 is missing.
FailedAsAny(c) == "failed"

\* Only the failure of step 2 of create_assignment is told with the item.
AfterFailure(c) == IF item[c] = c THEN "orphan" ELSE "failed"

\* Mutant: the client sends again what went unanswered.
SendAgain(c) ==
  /\ pc[c] = "awaiting"
  /\ wire' = [wire EXCEPT ![c] = "pending"]
  /\ UNCHANGED <<external, pc, posting, item>>

\* An error answer, the client's time-out, or a connection lost: the POST may
\* have been done, or be done later.
PostFails(c) ==
  /\ pc[c] = "awaiting"
  /\ pc' = [pc EXCEPT ![c] = AfterFailure(c)]
  /\ UNCHANGED <<external, posting, item, wire>>

-----------------------------------------------------------------------------
(* Blackboard serves a POST.                                               *)

\* External: a new content item.
MakeContent(c) ==
  /\ wire[c] = "pending" /\ posting[c] = "content"
  /\ wire' = [wire EXCEPT ![c] = "applied"]
  /\ contents' = contents \cup {c}
  /\ UNCHANGED <<columns, pc, posting, item>>

\* External: a new column; an item may have several.
MakeColumn(c) ==
  /\ wire[c] = "pending" /\ posting[c] = "column"
  /\ wire' = [wire EXCEPT ![c] = "applied"]
  /\ columns' = [columns EXCEPT ![c] = @ + 1]
  /\ UNCHANGED <<contents, pc, posting, item>>

\* External: an error answer.
Reject(c) ==
  /\ wire[c] = "pending"
  /\ wire' = [wire EXCEPT ![c] = "rejected"]
  /\ UNCHANGED <<external, pc, posting, item>>

Next ==
  \E c \in Calls :
    \/ Refuse(c) \/ CreateAssignment(c) \/ CreateGradeColumn(c)
    \/ ContentAnswered(c) \/ ColumnAnswered(c) \/ PostFails(c)
    \/ MakeContent(c) \/ MakeColumn(c) \/ Reject(c)

Spec == Init /\ [][Next]_vars

-----------------------------------------------------------------------------
(* What must hold.                                                         *)

ColumnMakers(i) == {c \in Calls : item[c] = i /\ columns[c] > 0}

\* A content item that has no column once its create_assignment ended was
\* named in the answer, unless the answer to the item's own POST was lost
\* (createAssignmentHandler, the catch of step 2).
EveryOrphanReported ==
  \A i \in contents :
    \/ ColumnMakers(i) # {}
    \/ pc[i] \in {"awaiting", "orphan"}
    \/ posting[i] = "content"

\* A call that answers success for an item, as create_assignment or as the
\* recovery from an orphan, leaves the item with a column.
SuccessMeansLinked ==
  \A c \in Calls :
    pc[c] = "done" /\ item[c] # None => ColumnMakers(item[c]) # {}

\* If clients follow the advice of the orphan answer, an item gets two columns
\* only if some call's column was made though the call ended in an error: no
\* sequence of answered calls doubles it.
DoubleColumnNeedsLostAnswer ==
  \A i \in contents :
    (\E c, d \in ColumnMakers(i) : c # d \/ columns[c] > 1)
    => \E c \in ColumnMakers(i) : pc[c] \in {"orphan", "failed"}

=============================================================================
