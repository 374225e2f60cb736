---------------------- MODULE AssignmentCreationProofs -----------------------
(***************************************************************************)
(* Proofs about AssignmentCreation, for any set of tool calls.             *)
(***************************************************************************)
EXTENDS AssignmentCreation, TLAPS

\* A call makes its column when its column POST is served, and only then.
MadeInv ==
  \A c \in Calls :
    columns[c] = IF wire[c] = "applied" /\ posting[c] = "column" THEN 1 ELSE 0

\* What each stage of a handler has done so far.
StageInv ==
  \A c \in Calls :
    /\ pc[c] \in {"new", "refused"} =>
         wire[c] = "none" /\ posting[c] = None /\ item[c] = None
    /\ pc[c] \notin {"new", "refused"} => posting[c] # None
    /\ posting[c] = "content" =>
         item[c] = None /\ pc[c] \in {"awaiting", "failed"}
    /\ pc[c] = "done" => wire[c] = "applied" /\ posting[c] = "column"
    /\ pc[c] = "failed" => item[c] # c

\* The maker of a content item is its create_assignment, now at its column if
\* the item's answer arrived.
ItemInv ==
  \A i \in contents :
    /\ posting[i] # None
    /\ posting[i] = "column" => item[i] = i

\* Of the calls that have a content item's id at most one can still succeed
\* or did.
LinkInv ==
  \A c, d \in Calls :
    (/\ item[c] # None /\ item[c] = item[d] /\ c # d
     /\ pc[c] \in {"awaiting", "done"})
    => pc[d] \in {"orphan", "failed"}

\* Another call has a content item's id only from an orphan answer.
BorrowInv ==
  \A c \in Calls : item[c] \notin {None, c} => pc[item[c]] = "orphan"

\* A content POST that was served has made its item.
ServedInv ==
  \A c \in Calls :
    wire[c] = "applied" /\ posting[c] = "content" => c \in contents

IInv ==
  /\ TypeOK /\ MadeInv /\ StageInv /\ ItemInv /\ LinkInv /\ BorrowInv
  /\ ServedInv

\* The first state satisfies the invariant.
LEMMA InvInit == Init => IInv
  BY NoneAssumption
  DEF Init, IInv, TypeOK, MadeInv, StageInv, ItemInv, LinkInv, BorrowInv,
      ServedInv

\* A call that starts keeps the invariant.
LEMMA StartStep ==
  ASSUME IInv, NEW c \in Calls,
         Refuse(c) \/ CreateAssignment(c) \/ CreateGradeColumn(c)
  PROVE  IInv'
<1> USE NoneAssumption DEF IInv
<1>0. /\ TypeOK /\ MadeInv /\ StageInv /\ ItemInv /\ LinkInv /\ BorrowInv
      /\ ServedInv /\ pc[c] = "new" /\ wire[c] = "none" /\ posting[c] = None
      /\ item[c] = None /\ c \notin contents /\ columns[c] = 0
  <2>1. pc[c] = "new"
    BY DEF Refuse, CreateAssignment, CreateGradeColumn
  <2>2. wire[c] = "none" /\ posting[c] = None /\ item[c] = None
    BY <2>1 DEF StageInv
  <2> QED BY <2>1, <2>2 DEF ItemInv, MadeInv
<1>1. CASE Refuse(c)
  <2> USE <1>1 DEF Refuse, external
  <2>1. TypeOK' BY <1>0 DEF TypeOK
  <2>2. MadeInv' BY <1>0 DEF MadeInv
  <2>3. StageInv' BY <1>0 DEF StageInv, TypeOK
  <2>4. ItemInv' BY <1>0 DEF ItemInv
  <2>5. LinkInv' BY <1>0 DEF LinkInv, TypeOK
  <2>6. BorrowInv' BY <1>0 DEF BorrowInv, TypeOK
  <2>7. ServedInv' BY <1>0 DEF ServedInv, TypeOK
  <2> QED BY <2>1, <2>2, <2>3, <2>4, <2>5, <2>6, <2>7
<1>2. CASE CreateAssignment(c)
  <2> USE <1>2 DEF CreateAssignment, external
  <2>1. TypeOK' BY <1>0 DEF TypeOK
  <2>2. MadeInv' BY <1>0 DEF MadeInv, TypeOK
  <2>3. StageInv' BY <1>0 DEF StageInv, TypeOK
  <2>4. ItemInv' BY <1>0 DEF ItemInv, TypeOK
  <2>5. LinkInv' BY <1>0 DEF LinkInv, TypeOK
  <2>6. BorrowInv' BY <1>0 DEF BorrowInv, TypeOK
  <2>7. ServedInv' BY <1>0 DEF ServedInv, TypeOK
  <2> QED BY <2>1, <2>2, <2>3, <2>4, <2>5, <2>6, <2>7
<1>3. CASE CreateGradeColumn(c)
  <2>1. PICK i \in ToBeLinked \cup {None} : item' = [item EXCEPT ![c] = i]
    BY <1>3 DEF CreateGradeColumn
  <2> USE <1>3 DEF CreateGradeColumn, external
  <2>2. i # None =>
          /\ i \in contents /\ i # c /\ pc[i] = "orphan"
          /\ \A d \in Calls : item[d] = i => pc[d] \in {"orphan", "failed"}
    BY <1>0, <2>1 DEF ToBeLinked, TypeOK
  <2>3. TypeOK' BY <1>0, <2>1, <2>2 DEF TypeOK
  <2>4. MadeInv' BY <1>0 DEF MadeInv, TypeOK
  <2>5. StageInv' BY <1>0, <2>1, <2>2 DEF StageInv, TypeOK
  <2>6. ItemInv' BY <1>0, <2>1 DEF ItemInv, TypeOK
  <2>7. LinkInv'
    <3> SUFFICES ASSUME NEW x \in Calls, NEW y \in Calls,
                        item'[x] # None, item'[x] = item'[y], x # y,
                        pc'[x] \in {"awaiting", "done"}
                 PROVE  pc'[y] \in {"orphan", "failed"}
      BY DEF LinkInv
    <3>1. CASE x = c
      BY <1>0, <2>1, <2>2, <3>1 DEF TypeOK
    <3>2. CASE y = c
      BY <1>0, <2>1, <2>2, <3>2 DEF TypeOK
    <3>3. CASE x # c /\ y # c
      BY <1>0, <2>1, <3>3 DEF LinkInv, TypeOK
    <3> QED BY <3>1, <3>2, <3>3
  <2>8. BorrowInv' BY <1>0, <2>1, <2>2 DEF BorrowInv, TypeOK
  <2>9. ServedInv' BY <1>0 DEF ServedInv, TypeOK
  <2> QED BY <2>3, <2>4, <2>5, <2>6, <2>7, <2>8, <2>9
<1> QED BY <1>1, <1>2, <1>3

\* A call that learns an answer, or the lack of one, keeps the invariant.
LEMMA AnswerStep ==
  ASSUME IInv, NEW c \in Calls,
         ContentAnswered(c) \/ ColumnAnswered(c) \/ PostFails(c)
  PROVE  IInv'
<1> USE NoneAssumption DEF IInv
<1>0. /\ TypeOK /\ MadeInv /\ StageInv /\ ItemInv /\ LinkInv /\ BorrowInv
      /\ ServedInv /\ pc[c] = "awaiting"
  BY DEF ContentAnswered, ColumnAnswered, PostFails
<1>1. CASE ContentAnswered(c)
  <2> USE <1>1 DEF ContentAnswered, external
  <2>1. item[c] = None /\ columns[c] = 0
    BY <1>0 DEF StageInv, MadeInv
  <2>2. \A d \in Calls : item[d] # c
    BY <1>0, <2>1 DEF BorrowInv
  <2>3. c \in contents
    BY <1>0 DEF ServedInv
  <2>4. TypeOK' BY <1>0, <2>1, <2>3 DEF TypeOK
  <2>5. MadeInv' BY <1>0, <2>1 DEF MadeInv, TypeOK
  <2>6. StageInv' BY <1>0 DEF StageInv, TypeOK
  <2>7. ItemInv' BY <1>0 DEF ItemInv, TypeOK
  <2>8. LinkInv' BY <1>0, <2>2 DEF LinkInv, TypeOK
  <2>9. BorrowInv' BY <1>0 DEF BorrowInv, TypeOK
  <2>10. ServedInv' BY <1>0 DEF ServedInv, TypeOK
  <2> QED BY <2>4, <2>5, <2>6, <2>7, <2>8, <2>9, <2>10
<1>2. CASE ColumnAnswered(c)
  <2> USE <1>2 DEF ColumnAnswered, Succeeded, external
  <2>1. TypeOK' BY <1>0 DEF TypeOK
  <2>2. MadeInv' BY <1>0 DEF MadeInv
  <2>3. StageInv' BY <1>0 DEF StageInv, TypeOK
  <2>4. ItemInv' BY <1>0 DEF ItemInv
  <2>5. LinkInv' BY <1>0 DEF LinkInv, TypeOK
  <2>6. BorrowInv' BY <1>0 DEF BorrowInv, TypeOK
  <2>7. ServedInv' BY <1>0 DEF ServedInv
  <2> QED BY <2>1, <2>2, <2>3, <2>4, <2>5, <2>6, <2>7
<1>3. CASE PostFails(c)
  <2> USE <1>3 DEF PostFails, external
  <2>1. /\ pc' = [pc EXCEPT ![c] = AfterFailure(c)]
        /\ AfterFailure(c) \in {"orphan", "failed"}
        /\ AfterFailure(c) = "orphan" <=> item[c] = c
    BY DEF AfterFailure
  <2>2. item[c] = c => posting[c] = "column"
    BY <1>0 DEF StageInv, TypeOK
  <2>3. TypeOK' BY <1>0, <2>1, <2>2 DEF TypeOK
  <2>4. MadeInv' BY <1>0 DEF MadeInv
  <2>5. StageInv' BY <1>0, <2>1, <2>2 DEF StageInv, TypeOK
  <2>6. ItemInv' BY <1>0 DEF ItemInv
  <2>7. LinkInv' BY <1>0, <2>1 DEF LinkInv, TypeOK
  <2>8. BorrowInv' BY <1>0, <2>1 DEF BorrowInv, TypeOK
  <2>9. ServedInv' BY <1>0 DEF ServedInv
  <2> QED BY <2>3, <2>4, <2>5, <2>6, <2>7, <2>8, <2>9
<1> QED BY <1>1, <1>2, <1>3

\* A POST that Blackboard serves, in time or late, keeps the invariant.
LEMMA ServeStep ==
  ASSUME IInv, NEW c \in Calls,
         MakeContent(c) \/ MakeColumn(c) \/ Reject(c)
  PROVE  IInv'
<1> USE NoneAssumption DEF IInv
<1>0. /\ TypeOK /\ MadeInv /\ StageInv /\ ItemInv /\ LinkInv /\ BorrowInv
      /\ ServedInv /\ wire[c] = "pending" /\ columns[c] = 0
  BY DEF MakeContent, MakeColumn, Reject, MadeInv
<1>1. CASE MakeContent(c)
  <2> USE <1>1 DEF MakeContent
  <2>1. TypeOK' BY <1>0 DEF TypeOK
  <2>2. MadeInv' BY <1>0 DEF MadeInv, TypeOK
  <2>3. StageInv' BY <1>0 DEF StageInv, TypeOK
  <2>4. ItemInv' BY <1>0 DEF ItemInv, TypeOK
  <2>5. LinkInv' BY <1>0 DEF LinkInv
  <2>6. BorrowInv' BY <1>0 DEF BorrowInv
  <2>7. ServedInv' BY <1>0 DEF ServedInv, TypeOK
  <2> QED BY <2>1, <2>2, <2>3, <2>4, <2>5, <2>6, <2>7
<1>2. CASE MakeColumn(c)
  <2> USE <1>2 DEF MakeColumn
  <2>1. TypeOK' BY <1>0 DEF TypeOK
  <2>2. MadeInv' BY <1>0 DEF MadeInv, TypeOK
  <2>3. StageInv' BY <1>0 DEF StageInv, TypeOK
  <2>4. ItemInv' BY <1>0 DEF ItemInv
  <2>5. LinkInv' BY <1>0 DEF LinkInv
  <2>6. BorrowInv' BY <1>0 DEF BorrowInv
  <2>7. ServedInv' BY <1>0 DEF ServedInv, TypeOK
  <2> QED BY <2>1, <2>2, <2>3, <2>4, <2>5, <2>6, <2>7
<1>3. CASE Reject(c)
  <2> USE <1>3 DEF Reject, external
  <2>1. TypeOK' BY <1>0 DEF TypeOK
  <2>2. MadeInv' BY <1>0 DEF MadeInv, TypeOK
  <2>3. StageInv' BY <1>0 DEF StageInv, TypeOK
  <2>4. ItemInv' BY <1>0 DEF ItemInv
  <2>5. LinkInv' BY <1>0 DEF LinkInv
  <2>6. BorrowInv' BY <1>0 DEF BorrowInv
  <2>7. ServedInv' BY <1>0 DEF ServedInv, TypeOK
  <2> QED BY <2>1, <2>2, <2>3, <2>4, <2>5, <2>6, <2>7
<1> QED BY <1>1, <1>2, <1>3

\* Every reachable state satisfies the inductive invariant.
THEOREM Invariance == Spec => []IInv
<1>1. IInv /\ [Next]_vars => IInv'
  <2> SUFFICES ASSUME IInv, [Next]_vars PROVE IInv'
    OBVIOUS
  <2>1. CASE Next
    BY <2>1, StartStep, AnswerStep, ServeStep DEF Next
  <2>2. CASE UNCHANGED vars
    BY <2>2
    DEF vars, external, IInv, TypeOK, MadeInv, StageInv, ItemInv, LinkInv,
        BorrowInv, ServedInv
  <2> QED BY <2>1, <2>2
<1> QED BY InvInit, <1>1, PTL DEF Spec

\* Every reachable state is well typed; what an orphan answer names is the
\* call's own content item.
THEOREM TypeCorrect == Spec => []TypeOK
  BY Invariance, PTL DEF IInv

\* A content item left without a column is reported, unless the answer to its
\* own POST was lost.
THEOREM OrphansReported == Spec => []EveryOrphanReported
<1>1. IInv => EveryOrphanReported
  <2> SUFFICES ASSUME IInv, NEW i \in contents,
                      pc[i] \notin {"awaiting", "orphan"},
                      posting[i] # "content"
               PROVE  ColumnMakers(i) # {}
    BY DEF EveryOrphanReported
  <2>1. i \in Calls /\ posting[i] = "column" /\ item[i] = i
    BY DEF IInv, TypeOK, ItemInv
  <2>2. pc[i] = "done"
    BY <2>1, NoneAssumption DEF IInv, TypeOK, StageInv
  <2>3. columns[i] = 1
    BY <2>1, <2>2 DEF IInv, StageInv, MadeInv
  <2> QED BY <2>1, <2>3 DEF ColumnMakers
<1> QED BY Invariance, <1>1, PTL

\* A call that answers success for an item leaves it with a column.
THEOREM SuccessLinks == Spec => []SuccessMeansLinked
<1>1. IInv => SuccessMeansLinked
  <2> SUFFICES ASSUME IInv, NEW c \in Calls, pc[c] = "done", item[c] # None
               PROVE  ColumnMakers(item[c]) # {}
    BY DEF SuccessMeansLinked
  <2>1. columns[c] = 1
    BY DEF IInv, StageInv, MadeInv
  <2> QED BY <2>1 DEF ColumnMakers
<1> QED BY Invariance, <1>1, PTL

\* Two columns for one item take a column whose call ended in an error.
THEOREM DoubleColumnsLostAnswer == Spec => []DoubleColumnNeedsLostAnswer
<1>1. IInv => DoubleColumnNeedsLostAnswer
  <2> SUFFICES ASSUME IInv, NEW i \in contents,
                      NEW c \in ColumnMakers(i), NEW d \in ColumnMakers(i),
                      c # d \/ columns[c] > 1
               PROVE  \E e \in ColumnMakers(i) : pc[e] \in {"orphan", "failed"}
    BY DEF DoubleColumnNeedsLostAnswer
  <2>1. /\ c \in Calls /\ item[c] = i /\ columns[c] > 0
        /\ d \in Calls /\ item[d] = i /\ columns[d] > 0
    BY DEF ColumnMakers
  <2>2. c # d
    BY <2>1 DEF IInv, MadeInv
  <2>3. i # None
    BY NoneAssumption DEF IInv, TypeOK
  <2>4. CASE pc[c] \in {"awaiting", "done"}
    BY <2>1, <2>2, <2>3, <2>4 DEF IInv, LinkInv
  <2>5. CASE pc[c] \notin {"awaiting", "done"}
    <3>1. posting[c] = "column"
      BY <2>1 DEF IInv, TypeOK
    <3>2. pc[c] \in {"orphan", "failed"}
      BY <2>1, <2>5, <3>1, NoneAssumption DEF IInv, TypeOK, StageInv
    <3> QED BY <3>2
  <2> QED BY <2>4, <2>5
<1> QED BY Invariance, <1>1, PTL

=============================================================================
