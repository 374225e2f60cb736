------------------------- MODULE GradeAttemptsProofs -------------------------
(***************************************************************************)
(* Proofs about GradeAttempts, for any calls and students, any page of     *)
(* listed students and any number of attempts.                             *)
(***************************************************************************)
EXTENDS GradeAttempts, TLAPS

\* The calls that wrote an attempt, its creator among them, were asked for its
\* student and have been served; the creator had found none.
WriterInv ==
  \A i \in AttemptIds : attempts[i] # None =>
    /\ i < nextId
    /\ attempts[i].creator \in attempts[i].writers
    /\ found[attempts[i].creator] = None
    /\ \A c \in attempts[i].writers :
         wire[c] = "applied" /\ args[c].student = attempts[i].student

\* The id a call found is of its student's attempt as long as that lives.
FoundInv ==
  \A c \in Calls : found[c] # None =>
    /\ pc[c] \notin {"new", "refused", "lookup"}
    /\ found[c] < nextId
    /\ attempts[found[c]] # None =>
         attempts[found[c]].student = args[c].student

\* A call for a listed student that found none goes on only if there was none.
SeenInv ==
  \A c \in Calls :
    (/\ pc[c] = "looked" \/ wire[c] # "none"
     /\ found[c] = None
     /\ args[c].student \in FirstPage
     /\ args[c].tool \in LookupTools)
    => seen[c] = {}

IInv == TypeOK /\ WriterInv /\ FoundInv /\ SeenInv

\* The first state satisfies the invariant.
LEMMA InvInit == Init => IInv
  BY NoneAssumption, BoundAssumption
  DEF Init, IInv, TypeOK, WriterInv, FoundInv, SeenInv, AttemptIds

\* A call that has started has arguments a client may ask.
LEMMA ArgsKnown ==
  ASSUME TypeOK, NEW c \in Calls, pc[c] \notin {"new", "refused"}
  PROVE  /\ args[c] \in Asked /\ args[c] # None
         /\ args[c].tool \in Tools /\ args[c].student \in Students
  BY AskedAssumption, NoneAssumption DEF TypeOK

\* A call that starts keeps the invariant.
LEMMA StartStep ==
  ASSUME IInv, NEW c \in Calls, Refuse(c) \/ \E a \in Asked : Begin(c, a)
  PROVE  IInv'
<1> USE DEF IInv, external
<1>0. /\ TypeOK /\ WriterInv /\ FoundInv /\ SeenInv
      /\ pc[c] = "new" /\ wire[c] = "none" /\ found[c] = None
  BY DEF Refuse, Begin, TypeOK, FoundInv
<1>1. CASE Refuse(c)
  <2> USE <1>1 DEF Refuse
  <2>1. TypeOK' BY <1>0 DEF TypeOK
  <2>2. WriterInv' BY <1>0 DEF WriterInv
  <2>3. FoundInv' BY <1>0 DEF FoundInv, TypeOK
  <2>4. SeenInv' BY <1>0 DEF SeenInv, TypeOK
  <2> QED BY <2>1, <2>2, <2>3, <2>4
<1>2. ASSUME NEW a \in Asked, Begin(c, a) PROVE IInv'
  <2>1. /\ args' = [args EXCEPT ![c] = a]
        /\ UNCHANGED <<attempts, nextId, found, seen>>
        /\ \/ /\ a.tool \in LookupTools
              /\ pc' = [pc EXCEPT ![c] = "lookup"]
              /\ wire' = wire
           \/ /\ a.tool \notin LookupTools
              /\ pc' = [pc EXCEPT ![c] = "writing"]
              /\ wire' = [wire EXCEPT ![c] = "pending"]
    BY <1>2 DEF Begin
  <2>2. TypeOK'
    BY <1>0, <2>1, AskedAssumption DEF TypeOK
  <2>3. WriterInv'
    <3> SUFFICES ASSUME NEW i \in AttemptIds, attempts[i] # None
                 PROVE  WriterInv!(i)!2'
      BY <2>1 DEF WriterInv
    <3>1. attempts[i].writers \subseteq Calls /\ c \notin attempts[i].writers
      BY <1>0 DEF WriterInv, TypeOK, Attempt
    <3> QED BY <1>0, <2>1, <3>1 DEF WriterInv, TypeOK
  <2>4. FoundInv'
    BY <1>0, <2>1 DEF FoundInv, TypeOK
  <2>5. SeenInv'
    BY <1>0, <2>1 DEF SeenInv, TypeOK
  <2> QED BY <2>2, <2>3, <2>4, <2>5
<1> QED BY <1>1, <1>2

\* A look-up keeps the invariant, whatever it answers.
LEMMA LookUpStep ==
  ASSUME IInv, NEW c \in Calls, LookUp(c) \/ LookUpFails(c)
  PROVE  IInv'
<1> USE DEF IInv, external
<1>0. /\ TypeOK /\ WriterInv /\ FoundInv /\ SeenInv
      /\ pc[c] = "lookup" /\ wire[c] = "none" /\ found[c] = None
  BY DEF LookUp, LookUpFails, TypeOK, FoundInv
<1>1. seen' = [seen EXCEPT ![c] = AttemptsOf(args[c].student)]
      /\ AttemptsOf(args[c].student) \subseteq AttemptIds
  BY DEF LookUp, LookUpFails, AttemptsOf
<1>2. CASE LookUp(c)
  <2>1. PICK i \in AttemptIds \cup {None} :
          /\ IF Listed(args[c].student) = {} THEN i = None
             ELSE i \in Listed(args[c].student)
          /\ found' = [found EXCEPT ![c] = i]
    BY <1>2 DEF LookUp
  <2>2. /\ i # None => /\ i \in AttemptIds /\ attempts[i] # None
                       /\ attempts[i].student = args[c].student
        /\ i = None /\ args[c].student \in FirstPage =>
             AttemptsOf(args[c].student) = {}
    BY <2>1, NoneAssumption DEF Listed, AttemptsOf
  <2> USE <1>2 DEF LookUp
  <2>3. TypeOK' BY <1>0, <1>1, <2>1 DEF TypeOK
  <2>4. WriterInv'
    <3> SUFFICES ASSUME NEW j \in AttemptIds, attempts[j] # None
                 PROVE  WriterInv!(j)!2'
      BY DEF WriterInv
    <3>1. attempts[j].writers \subseteq Calls /\ c # attempts[j].creator
      BY <1>0 DEF WriterInv, TypeOK, Attempt
    <3> QED BY <1>0, <2>1, <3>1 DEF WriterInv, TypeOK
  <2>5. FoundInv'
    <3>1. i # None => i < nextId
      BY <1>0, <2>2 DEF WriterInv
    <3> QED BY <1>0, <2>1, <2>2, <3>1 DEF FoundInv, TypeOK
  <2>6. SeenInv' BY <1>0, <1>1, <2>1, <2>2 DEF SeenInv, TypeOK
  <2> QED BY <2>3, <2>4, <2>5, <2>6
<1>3. CASE LookUpFails(c)
  <2> USE <1>3 DEF LookUpFails, AfterFailedLookup
  <2>1. TypeOK' BY <1>0, <1>1 DEF TypeOK
  <2>2. WriterInv' BY <1>0 DEF WriterInv
  <2>3. FoundInv' BY <1>0 DEF FoundInv, TypeOK
  <2>4. SeenInv' BY <1>0, <1>1 DEF SeenInv, TypeOK
  <2> QED BY <2>1, <2>2, <2>3, <2>4
<1> QED BY <1>2, <1>3

\* The steps of a handler after its look-up keep the invariant.
LEMMA HandlerStep ==
  ASSUME IInv, NEW c \in Calls,
         NoAttempt(c) \/ SendWrite(c) \/ WriteAnswered(c) \/ WriteTimesOut(c)
  PROVE  IInv'
<1> USE DEF IInv, external
<1>0. /\ TypeOK /\ WriterInv /\ FoundInv /\ SeenInv
      /\ pc[c] \notin {"new", "refused", "lookup"}
  BY DEF NoAttempt, SendWrite, WriteAnswered, WriteTimesOut
<1>1. CASE NoAttempt(c)
  <2> USE <1>1 DEF NoAttempt
  <2>1. TypeOK' BY <1>0 DEF TypeOK
  <2>2. WriterInv' BY <1>0 DEF WriterInv
  <2>3. FoundInv' BY <1>0 DEF FoundInv, TypeOK
  <2>4. SeenInv' BY <1>0 DEF SeenInv, TypeOK
  <2> QED BY <2>1, <2>2, <2>3, <2>4
<1>2. CASE SendWrite(c)
  <2> USE <1>2 DEF SendWrite
  <2>1. TypeOK' BY <1>0 DEF TypeOK
  <2>2. WriterInv'
    <3> SUFFICES ASSUME NEW i \in AttemptIds, attempts[i] # None
                 PROVE  WriterInv!(i)!2'
      BY DEF WriterInv
    <3>1. attempts[i].writers \subseteq Calls /\ c \notin attempts[i].writers
      BY <1>0 DEF WriterInv, TypeOK, Attempt
    <3> QED BY <1>0, <3>1 DEF WriterInv, TypeOK
  <2>3. FoundInv' BY <1>0 DEF FoundInv, TypeOK
  <2>4. SeenInv' BY <1>0 DEF SeenInv, TypeOK
  <2> QED BY <2>1, <2>2, <2>3, <2>4
<1>3. CASE WriteAnswered(c) \/ WriteTimesOut(c)
  <2>1. /\ pc[c] = "writing"
        /\ \E p \in {"done", "failed"} : pc' = [pc EXCEPT ![c] = p]
        /\ UNCHANGED <<attempts, nextId, args, found, wire, seen>>
    BY <1>3 DEF WriteAnswered, WriteTimesOut
  <2>2. TypeOK' BY <1>0, <2>1 DEF TypeOK
  <2>3. WriterInv' BY <1>0, <2>1 DEF WriterInv
  <2>4. FoundInv' BY <1>0, <2>1 DEF FoundInv, TypeOK
  <2>5. SeenInv' BY <1>0, <2>1 DEF SeenInv, TypeOK
  <2> QED BY <2>2, <2>3, <2>4, <2>5
<1> QED BY <1>1, <1>2, <1>3

\* A write that Blackboard serves, in time or late, keeps the invariant.
LEMMA ServeStep ==
  ASSUME IInv, NEW c \in Calls,
         Create(c) \/ Patch(c) \/ Remove(c) \/ Reject(c)
  PROVE  IInv'
<1> USE DEF IInv, external
<1>0. /\ TypeOK /\ WriterInv /\ FoundInv /\ SeenInv /\ wire[c] = "pending"
      /\ pc[c] \in {"writing", "done", "failed"}
  BY DEF Create, Patch, Remove, Reject, Applied, TypeOK
<1>1. /\ args[c] # None /\ args[c].student \in Students
  BY <1>0, ArgsKnown
<1>2. ASSUME NEW i \in AttemptIds, attempts[i] # None
      PROVE  /\ attempts[i] \in Attempt
             /\ attempts[i].writers \subseteq Calls
             /\ c \notin attempts[i].writers /\ c # attempts[i].creator
  BY <1>0, <1>2 DEF WriterInv, TypeOK, Attempt
<1>3. ASSUME wire' \in {[wire EXCEPT ![c] = "applied"],
                        [wire EXCEPT ![c] = "rejected"]},
             UNCHANGED <<pc, args, found, seen>>
      PROVE  SeenInv'
  BY <1>0, <1>3 DEF SeenInv, TypeOK
<1>4. CASE Create(c)
  <2> DEFINE new == [student |-> args[c].student, creator |-> c,
                     writers |-> {c}]
  <2>1. /\ found[c] = None /\ nextId \in AttemptIds /\ nextId' = nextId + 1
        /\ attempts' = [attempts EXCEPT ![nextId] = new]
        /\ wire' = [wire EXCEPT ![c] = "applied"]
        /\ UNCHANGED <<pc, args, found, seen>>
    BY <1>0, <1>4, BoundAssumption
    DEF Create, Applied, TypeOK, AttemptIds
  <2>2. new \in Attempt /\ new # None
    BY <1>1, NoneAssumption DEF Attempt
  <2> HIDE DEF new
  <2>3. TypeOK'
    <3>1. nextId' \in 1..MaxAttempts + 1
      BY <2>1, BoundAssumption DEF AttemptIds
    <3> QED BY <1>0, <2>1, <2>2, <3>1 DEF TypeOK
  <2>4. WriterInv'
    <3> SUFFICES ASSUME NEW i \in AttemptIds, attempts'[i] # None
                 PROVE  WriterInv!(i)!2'
      BY DEF WriterInv
    <3>1. CASE i = nextId
      BY <1>0, <2>1, <3>1 DEF new, TypeOK, AttemptIds
    <3>2. CASE i # nextId
      <4>1. attempts'[i] = attempts[i] /\ attempts[i] # None /\ i < nextId'
        BY <1>0, <2>1, <3>2, BoundAssumption
        DEF TypeOK, WriterInv, AttemptIds
      <4> QED BY <1>0, <1>2, <2>1, <4>1 DEF WriterInv, TypeOK
    <3> QED BY <3>1, <3>2
  <2>5. FoundInv'
    <3> SUFFICES ASSUME NEW d \in Calls, found[d] # None
                 PROVE  FoundInv!(d)!2'
      BY <2>1 DEF FoundInv
    <3>1. /\ found[d] \in AttemptIds /\ found[d] # nextId
          /\ found[d] < nextId'
      BY <1>0, <2>1, BoundAssumption DEF FoundInv, TypeOK, AttemptIds
    <3> QED BY <1>0, <2>1, <3>1 DEF FoundInv, TypeOK
  <2> QED BY <1>3, <2>1, <2>3, <2>4, <2>5
<1>5. CASE Patch(c)
  <2> DEFINE f == found[c]
  <2> DEFINE new == [student |-> attempts[f].student,
                     creator |-> attempts[f].creator,
                     writers |-> attempts[f].writers \cup {c}]
  <2>1. /\ f # None /\ f \in AttemptIds /\ attempts[f] # None
        /\ nextId' = nextId
        /\ attempts' = [attempts EXCEPT ![f] = new]
        /\ wire' = [wire EXCEPT ![c] = "applied"]
        /\ UNCHANGED <<pc, args, found, seen>>
    BY <1>0, <1>5 DEF Patch, Existing, Applied, TypeOK
  <2>2. /\ new \in Attempt /\ new # None
        /\ new.student = args[c].student
    BY <1>0, <1>2, <2>1, NoneAssumption DEF Attempt, FoundInv
  <2>3. TypeOK'
    <3> HIDE DEF new, f
    <3> QED BY <1>0, <2>1, <2>2 DEF TypeOK
  <2>4. WriterInv'
    <3> SUFFICES ASSUME NEW i \in AttemptIds, attempts'[i] # None
                 PROVE  WriterInv!(i)!2'
      BY DEF WriterInv
    <3>1. CASE i = f
      <4>1. attempts'[i] = new
        BY <1>0, <2>1, <3>1 DEF TypeOK
      <4> QED BY <1>0, <1>2, <2>1, <2>2, <3>1, <4>1 DEF WriterInv, TypeOK
    <3>2. CASE i # f
      <4>1. attempts'[i] = attempts[i] /\ attempts[i] # None
        BY <1>0, <2>1, <3>2 DEF TypeOK
      <4> QED BY <1>0, <1>2, <2>1, <4>1 DEF WriterInv, TypeOK
    <3> QED BY <3>1, <3>2
  <2>5. FoundInv'
    <3> SUFFICES ASSUME NEW d \in Calls, found[d] # None
                 PROVE  FoundInv!(d)!2'
      BY <2>1 DEF FoundInv
    <3>1. CASE found[d] = f
      BY <1>0, <2>1, <3>1 DEF FoundInv, TypeOK
    <3>2. CASE found[d] # f
      BY <1>0, <2>1, <3>2 DEF FoundInv, TypeOK
    <3> QED BY <3>1, <3>2
  <2> QED BY <1>3, <2>1, <2>3, <2>4, <2>5
<1>6. CASE Remove(c)
  <2>1. /\ found[c] \in AttemptIds
        /\ nextId' = nextId
        /\ attempts' = [attempts EXCEPT ![found[c]] = None]
        /\ wire' = [wire EXCEPT ![c] = "applied"]
        /\ UNCHANGED <<pc, args, found, seen>>
    BY <1>0, <1>6 DEF Remove, Existing, Applied, TypeOK
  <2>2. TypeOK' BY <1>0, <2>1 DEF TypeOK
  <2>3. WriterInv'
    <3> SUFFICES ASSUME NEW i \in AttemptIds, attempts'[i] # None
                 PROVE  WriterInv!(i)!2'
      BY DEF WriterInv
    <3>1. attempts'[i] = attempts[i] /\ attempts[i] # None
      BY <1>0, <2>1 DEF TypeOK
    <3> QED BY <1>0, <1>2, <2>1, <3>1 DEF WriterInv, TypeOK
  <2>4. FoundInv' BY <1>0, <2>1 DEF FoundInv, TypeOK
  <2> QED BY <1>3, <2>1, <2>2, <2>3, <2>4
<1>7. CASE Reject(c)
  <2> USE <1>7 DEF Reject
  <2>1. TypeOK' BY <1>0 DEF TypeOK
  <2>2. WriterInv'
    <3> SUFFICES ASSUME NEW i \in AttemptIds, attempts[i] # None
                 PROVE  WriterInv!(i)!2'
      BY DEF WriterInv
    <3> QED BY <1>0, <1>2 DEF WriterInv, TypeOK
  <2>3. FoundInv' BY <1>0 DEF FoundInv
  <2> QED BY <1>3, <2>1, <2>2, <2>3
<1> QED BY <1>4, <1>5, <1>6, <1>7

\* Every reachable state satisfies the inductive invariant.
THEOREM Invariance == Spec => []IInv
<1>1. IInv /\ [Next]_vars => IInv'
  <2> SUFFICES ASSUME IInv, [Next]_vars PROVE IInv'
    OBVIOUS
  <2>1. CASE Next
    BY <2>1, StartStep, LookUpStep, HandlerStep, ServeStep DEF Next
  <2>2. CASE UNCHANGED vars
    BY <2>2
    DEF vars, external, IInv, TypeOK, WriterInv, FoundInv, SeenInv
  <2> QED BY <2>1, <2>2
<1> QED BY InvInit, <1>1, PTL DEF Spec

\* Every reachable state is well typed.
THEOREM TypeCorrect == Spec => []TypeOK
  BY Invariance, PTL DEF IInv

\* Two attempts of a listed student made by update_grade take a race: neither
\* was there when the other's call looked.
THEOREM DuplicatesAreRaces == Spec => []DuplicateNeedsRace
<1>1. IInv => DuplicateNeedsRace
  <2> SUFFICES ASSUME IInv, NEW i \in AttemptIds, NEW j \in AttemptIds,
                      attempts[i] # None, attempts[j] # None,
                      attempts[i].student = attempts[j].student,
                      attempts[i].student \in FirstPage,
                      args[attempts[j].creator].tool = "update_grade"
               PROVE  i \notin seen[attempts[j].creator]
    BY DEF DuplicateNeedsRace
  <2> DEFINE c == attempts[j].creator
  <2>1. c \in Calls
    BY DEF IInv, TypeOK, Attempt
  <2>2. wire[c] = "applied" /\ found[c] = None
        /\ args[c].student = attempts[j].student
    BY DEF IInv, WriterInv
  <2>3. seen[c] = {}
    BY <2>1, <2>2 DEF IInv, SeenInv, LookupTools
  <2> QED BY <2>3
<1> QED BY Invariance, <1>1, PTL

\* Every call writes attempts of the student it was asked for and no others.
THEOREM OwnAttempts == Spec => []WritesReachOwnAttempt
<1>1. IInv => WritesReachOwnAttempt
  BY DEF IInv, WriterInv, WritesReachOwnAttempt
<1> QED BY Invariance, <1>1, PTL

=============================================================================
