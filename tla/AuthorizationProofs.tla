------------------------- MODULE AuthorizationProofs -------------------------
(***************************************************************************)
(* Proofs about Authorization, for any calls, users, courses, requests and *)
(* limits, any window and any capacity of the audit buffer.                *)
(***************************************************************************)
EXTENDS Authorization, SequenceTheorems, FiniteSetTheorems, FunctionTheorems,
        WellFoundedInduction, TLAPS

-----------------------------------------------------------------------------
(* The ring buffer.                                                        *)

Kept(s) == IF Len(s) < Capacity THEN Len(s) ELSE Capacity

\* The latest entries of a sequence: how many, and which.
LEMMA LatestProperties ==
  ASSUME NEW S, NEW s \in Seq(S)
  PROVE  /\ Kept(s) \in Nat /\ Kept(s) <= Len(s)
         /\ Latest(s) \in Seq(S)
         /\ Len(Latest(s)) = Kept(s)
         /\ \A i \in 1..Kept(s) : Latest(s)[i] = s[Len(s) - Kept(s) + i]
<1>1. /\ Len(s) \in Nat /\ Kept(s) \in Nat /\ Kept(s) <= Len(s)
  BY BoundsAssumption, LenProperties DEF Kept
<1> DEFINE m == Len(s) - Kept(s) + 1
<1>0. Latest(s) = SubSeq(s, m, Len(s))
  BY DEF Latest, Kept
<1>2. m \in Int /\ m >= 1
  BY <1>1
<1>3. \A i \in m..Len(s) : s[i] \in S
  BY <1>1, <1>2, ElementOfSeq
<1>4. /\ SubSeq(s, m, Len(s)) \in Seq(S)
      /\ Len(SubSeq(s, m, Len(s))) = IF m <= Len(s) THEN Len(s) - m + 1 ELSE 0
      /\ \A i \in 1..Len(s) - m + 1 : SubSeq(s, m, Len(s))[i] = s[m + i - 1]
  BY <1>1, <1>2, <1>3, SubSeqProperties, SMTT(30)
<1>5. Len(s) - m + 1 = Kept(s)
  BY <1>1
<1>6. Len(Latest(s)) = Kept(s)
  BY <1>0, <1>1, <1>4, <1>5
<1>7. ASSUME NEW i \in 1..Kept(s)
      PROVE  Latest(s)[i] = s[Len(s) - Kept(s) + i]
  <2>1. SubSeq(s, m, Len(s))[i] = s[m + i - 1]
    BY <1>4, <1>5
  <2>2. m + i - 1 = Len(s) - Kept(s) + i
    BY <1>1
  <2> QED BY <1>0, <2>1, <2>2
<1> QED BY <1>0, <1>1, <1>4, <1>6, <1>7

\* Recording an entry in the latest of a trail gives the latest of the trail
\* with that entry.
LEMMA RecordKeepsLatest ==
  ASSUME NEW S, NEW s \in Seq(S), NEW e \in S
  PROVE  RecordAuditLogEntry(Latest(s), e) = Latest(Append(s, e))
<1> DEFINE b == Latest(s)
           t == Append(s, e)
           p == Append(b, e)
<1>1. /\ b \in Seq(S) /\ Len(b) = Kept(s)
      /\ \A i \in 1..Kept(s) : b[i] = s[Len(s) - Kept(s) + i]
      /\ Kept(s) \in Nat /\ Kept(s) <= Len(s)
  BY LatestProperties
<1>2. /\ t \in Seq(S) /\ Len(t) = Len(s) + 1
      /\ \A i \in 1..Len(s) : t[i] = s[i]
      /\ t[Len(s) + 1] = e
  BY AppendProperties
<1>3. /\ p \in Seq(S) /\ Len(p) = Kept(s) + 1
      /\ \A i \in 1..Kept(s) : p[i] = b[i]
      /\ p[Kept(s) + 1] = e
      /\ p # << >>
  BY <1>1, AppendProperties
<1>4. Len(s) \in Nat
  BY LenProperties
<1>5. /\ Latest(t) \in Seq(S) /\ Len(Latest(t)) = Kept(t)
      /\ \A i \in 1..Kept(t) : Latest(t)[i] = t[Len(t) - Kept(t) + i]
  BY <1>2, LatestProperties
<1> HIDE DEF b, t, p
<1>6. CASE Len(s) < Capacity
  <2>1. Kept(s) = Len(s) /\ Kept(t) = Len(s) + 1
    BY <1>2, <1>4, <1>6, BoundsAssumption DEF Kept
  <2>2. RecordAuditLogEntry(b, e) = p
    BY <1>3, <1>4, <1>6, <2>1, BoundsAssumption DEF RecordAuditLogEntry, p
  <2>3. ASSUME NEW i \in 1..Len(p) PROVE p[i] = Latest(t)[i]
    <3>1. Latest(t)[i] = t[i]
      BY <1>2, <1>3, <1>4, <1>5, <2>1
    <3>2. CASE i \in 1..Len(s)
      BY <1>1, <1>2, <1>3, <1>4, <2>1, <3>1, <3>2
    <3>3. CASE i = Len(s) + 1
      BY <1>2, <1>3, <2>1, <3>1, <3>3
    <3> QED BY <1>3, <1>4, <2>1, <3>2, <3>3
  <2>4. p \in Seq(S) /\ Latest(t) \in Seq(S) /\ Len(p) = Len(Latest(t))
    BY <1>3, <1>5, <2>1
  <2>5. p = Latest(t)
    BY <2>3, <2>4, SeqEqual
  <2> QED BY <2>2, <2>5 DEF b, t
<1>7. CASE ~(Len(s) < Capacity)
  <2>1. Kept(s) = Capacity /\ Kept(t) = Capacity
    BY <1>2, <1>4, <1>7, BoundsAssumption DEF Kept
  <2>2. RecordAuditLogEntry(b, e) = Tail(p)
    <3>1. RecordAuditLogEntry(b, e) = SubSeq(p, 2, Len(p))
      BY <1>3, <2>1, BoundsAssumption DEF RecordAuditLogEntry, p
    <3> QED BY <1>3, <3>1, TailIsSubSeq
  <2>3. /\ Tail(p) \in Seq(S) /\ Len(Tail(p)) = Capacity
        /\ \A i \in 1..Capacity : Tail(p)[i] = p[i + 1]
    <3>1. /\ Tail(p) \in Seq(S) /\ Len(Tail(p)) = Len(p) - 1
          /\ \A i \in 1..Len(Tail(p)) : Tail(p)[i] = p[i + 1]
      BY <1>3, HeadTailProperties
    <3>2. Len(p) - 1 = Capacity
      BY <1>3, <2>1, BoundsAssumption
    <3> QED BY <3>1, <3>2
  <2>4. ASSUME NEW i \in 1..Capacity PROVE p[i + 1] = Latest(t)[i]
    <3>1. Latest(t)[i] = t[Len(s) + 1 - Capacity + i]
      <4>1. Len(t) - Kept(t) + i = Len(s) + 1 - Capacity + i
        BY <1>2, <1>4, <2>1, BoundsAssumption
      <4> QED BY <1>5, <2>1, <4>1
    <3>2. CASE i < Capacity
      <4>0. i + 1 \in 1..Capacity
        BY <3>2, BoundsAssumption
      <4>1. p[i + 1] = s[Len(s) - Capacity + (i + 1)]
        BY <1>1, <1>3, <2>1, <4>0
      <4>2. /\ Len(s) + 1 - Capacity + i \in 1..Len(s)
            /\ Len(s) + 1 - Capacity + i = Len(s) - Capacity + (i + 1)
        BY <1>4, <1>7, <3>2, BoundsAssumption
      <4> QED BY <1>2, <3>1, <4>1, <4>2
    <3>3. CASE i = Capacity
      <4>1. Len(s) + 1 - Capacity + i = Len(s) + 1
        BY <1>4, <3>3, BoundsAssumption
      <4> QED BY <1>2, <1>3, <2>1, <3>1, <3>3, <4>1
    <3> QED BY <3>2, <3>3, BoundsAssumption
  <2>5. Latest(t) \in Seq(S) /\ Len(Tail(p)) = Len(Latest(t))
    BY <1>5, <2>1, <2>3
  <2>6. \A i \in 1..Len(Tail(p)) : Tail(p)[i] = Latest(t)[i]
    BY <2>3, <2>4
  <2>7. Tail(p) = Latest(t)
    BY <2>3, <2>5, <2>6, SeqEqual
  <2> QED BY <2>2, <2>7 DEF b, t
<1> QED BY <1>6, <1>7

-----------------------------------------------------------------------------
(* Types.                                                                  *)

\* parseIdentity returns a complete identity, the signed one if there is one.
LEMMA ParsedIsIdentity ==
  ASSUME NEW q \in ToolRequests, Acceptable(q)
  PROVE  /\ ParsedIdentity(q) \in Identity
         /\ ParsedIdentity(q) = Principal(q)
  BY RequestsAssumption
  DEF ToolRequest, Claim, Identity, Acceptable, ParsedIdentity, Principal

\* A freshly started process is well typed.
LEMMA TypeInit == Init => TypeOK
  BY BoundsAssumption, EmptySeq DEF Init, TypeOK, Parsed

\* Writing an entry keeps the trail and the buffer sequences of entries.
LEMMA AuditTypes ==
  ASSUME TypeOK, BufferIsLatestTrail, NEW c \in Calls,
         NEW event \in {"access.granted", "access.denied"},
         NEW reason \in {"rate", "ferpa", "role", "entitlement", "none"},
         AuditLog(event, c, reason)
  PROVE  /\ trail' \in Seq(Entry)
         /\ auditLogBuffer' \in Seq(Entry)
         /\ BufferIsLatestTrail'
<1> DEFINE e == [event |-> event, call |-> c, reason |-> reason]
<1>1. e \in Entry
  BY DEF Entry
<1>2. /\ trail' = Append(trail, e)
      /\ auditLogBuffer' = RecordAuditLogEntry(auditLogBuffer, e)
  BY DEF AuditLog
<1>3. trail \in Seq(Entry) /\ auditLogBuffer = Latest(trail)
  BY DEF TypeOK, BufferIsLatestTrail, Latest
<1> HIDE DEF e
<1>4. trail' \in Seq(Entry)
  BY <1>1, <1>2, <1>3, AppendProperties
<1>5. auditLogBuffer' = Latest(trail')
  BY <1>1, <1>2, <1>3, RecordKeepsLatest
<1>6. auditLogBuffer' \in Seq(Entry)
  BY <1>4, <1>5, LatestProperties
<1>7. BufferIsLatestTrail'
  BY <1>5 DEF BufferIsLatestTrail, Latest
<1> QED BY <1>4, <1>6, <1>7

\* Counting a call keeps the types of the window and of its history.
LEMMA ChargeTypes ==
  ASSUME TypeOK, NEW id \in Identity, ChargeWindow(id)
  PROVE  /\ rateWindows' \in [Keys -> [left : 0..Window, count : Nat]]
         /\ admitted' \in [Keys -> [0..Window - 1 -> Nat]]
<1> DEFINE k == KeyOf(id)
<1>1. k \in Keys
  BY DEF Identity, Keys, KeyOf
<1>2. /\ rateWindows[k] \in [left : 0..Window, count : Nat]
      /\ admitted[k] \in [0..Window - 1 -> Nat]
  BY <1>1 DEF TypeOK
<1> DEFINE w == Charged(rateWindows[k])
           a == [n \in 0..Window - 1 |-> admitted[k][n] + 1]
<1>3. rateWindows' = [rateWindows EXCEPT ![k] = w]
  BY DEF ChargeWindow
<1>a. admitted' = [admitted EXCEPT ![k] = a]
  BY DEF ChargeWindow
<1>4. w \in [left : 0..Window, count : Nat]
  BY <1>2, BoundsAssumption DEF Charged
<1>5. a \in [0..Window - 1 -> Nat]
  <2>1. admitted[k] \in [0..Window - 1 -> Nat]
    BY <1>2
  <2> HIDE DEF k
  <2>2. \A n \in 0..Window - 1 : admitted[k][n] + 1 \in Nat
    BY <2>1, BoundsAssumption
  <2> QED BY <2>2
<1> HIDE DEF k, w, a
<1> QED BY <1>1, <1>3, <1>a, <1>4, <1>5 DEF TypeOK

\* The lookup is made only with a course id: checkCourseEntitlement throws
\* before it when there is none.
LookupHasCourse == \A c \in Calls : pc[c] = "lookup" => request[c].course # None

Safe == TypeOK /\ BufferIsLatestTrail /\ LookupHasCourse

\* What checkAuthorization leaves behind, whichever gate it ends at: a call
\* that is not denied has passed all of them.
LEMMA CheckOutcome ==
  ASSUME Safe, NEW c \in Calls, NEW q \in ToolRequests, CheckAuthorization(c, q)
  PROVE  LET id == ParsedIdentity(q)
         IN  /\ id \in Identity /\ id = Principal(q)
             /\ \E p \in {"denied", AfterGrant(id, q)} :
                  /\ pc' = [pc EXCEPT ![c] = p]
                  /\ p # "denied" =>
                       ~FerpaRefused(id, q.tool) /\ ~RoleRefused(id, q.tool)
             /\ rateWindows' \in [Keys -> [left : 0..Window, count : Nat]]
             /\ admitted' \in [Keys -> [0..Window - 1 -> Nat]]
             /\ trail' \in Seq(Entry)
             /\ auditLogBuffer' \in Seq(Entry)
             /\ BufferIsLatestTrail'
<1> DEFINE id == ParsedIdentity(q)
<1>1. id \in Identity /\ id = Principal(q)
  BY ParsedIsIdentity DEF CheckAuthorization
<1>2. TypeOK /\ BufferIsLatestTrail
  BY DEF Safe
<1>3. \/ DenyRate(c, id) \/ DenyFerpa(c, q, id) \/ DenyRole(c, q, id)
      \/ Grant(c, q, id)
  BY DEF CheckAuthorization
<1> HIDE DEF id
<1>4. CASE DenyRate(c, id)
  <2>1. /\ AuditLog("access.denied", c, "rate")
        /\ pc' = [pc EXCEPT ![c] = "denied"]
        /\ UNCHANGED <<rateWindows, admitted>>
    BY <1>4 DEF DenyRate, Deny
  <2>2. /\ trail' \in Seq(Entry) /\ auditLogBuffer' \in Seq(Entry)
        /\ BufferIsLatestTrail'
    BY <1>2, <2>1, AuditTypes
  <2> QED BY <1>1, <1>2, <2>1, <2>2 DEF TypeOK, id
<1>5. CASE DenyFerpa(c, q, id)
  <2>1. /\ AuditLog("access.denied", c, "ferpa")
        /\ pc' = [pc EXCEPT ![c] = "denied"]
        /\ ChargeWindow(id)
    BY <1>5 DEF DenyFerpa, Deny
  <2>2. /\ trail' \in Seq(Entry) /\ auditLogBuffer' \in Seq(Entry)
        /\ BufferIsLatestTrail'
    BY <1>2, <2>1, AuditTypes
  <2> QED BY <1>1, <1>2, <2>1, <2>2, ChargeTypes DEF id
<1>6. CASE DenyRole(c, q, id)
  <2>1. /\ AuditLog("access.denied", c, "role")
        /\ pc' = [pc EXCEPT ![c] = "denied"]
        /\ ChargeWindow(id)
    BY <1>6 DEF DenyRole, Deny
  <2>2. /\ trail' \in Seq(Entry) /\ auditLogBuffer' \in Seq(Entry)
        /\ BufferIsLatestTrail'
    BY <1>2, <2>1, AuditTypes
  <2> QED BY <1>1, <1>2, <2>1, <2>2, ChargeTypes DEF id
<1>7. CASE Grant(c, q, id)
  <2>1. /\ AuditLog("access.granted", c, "none")
        /\ pc' = [pc EXCEPT ![c] = AfterGrant(id, q)]
        /\ ChargeWindow(id)
        /\ ~FerpaRefused(id, q.tool) /\ ~RoleRefused(id, q.tool)
    BY <1>7 DEF Grant
  <2>2. /\ trail' \in Seq(Entry) /\ auditLogBuffer' \in Seq(Entry)
        /\ BufferIsLatestTrail'
    BY <1>2, <2>1, AuditTypes
  <2> QED BY <1>1, <1>2, <2>1, <2>2, ChargeTypes DEF id
<1> QED BY <1>3, <1>4, <1>5, <1>6, <1>7

\* Every step keeps types, buffer and lookups sound.
LEMMA SafeStep == Safe /\ [Next]_vars => Safe'
<1> SUFFICES ASSUME Safe, [Next]_vars PROVE Safe'
  OBVIOUS
<1> USE DEF Safe
<1>0. TypeOK /\ BufferIsLatestTrail /\ LookupHasCourse
  OBVIOUS
<1>1. ASSUME NEW c \in Calls, NEW q \in ToolRequests, RejectIdentity(c, q)
      PROVE  Safe'
  BY <1>0, <1>1
  DEF RejectIdentity, TypeOK, authVars, Parsed, BufferIsLatestTrail,
      LookupHasCourse
<1>2. ASSUME NEW c \in Calls, NEW q \in ToolRequests, CheckAuthorization(c, q)
      PROVE  Safe'
  <2> DEFINE id == ParsedIdentity(q)
  <2>1. /\ id \in Identity
        /\ rateWindows' \in [Keys -> [left : 0..Window, count : Nat]]
        /\ admitted' \in [Keys -> [0..Window - 1 -> Nat]]
        /\ trail' \in Seq(Entry)
        /\ auditLogBuffer' \in Seq(Entry)
        /\ BufferIsLatestTrail'
    BY <1>2, CheckOutcome
  <2>2. PICK p \in {"denied", AfterGrant(id, q)} : pc' = [pc EXCEPT ![c] = p]
    BY <1>2, CheckOutcome
  <2>3. /\ request' = [request EXCEPT ![c] = q]
        /\ identity' = [identity EXCEPT ![c] = id]
        /\ UNCHANGED <<membership, enrolled>>
        /\ managed' = [managed EXCEPT ![c] =
                         /\ q.course # None
                         /\ enrolled[<<q.course, id.userId>>]
                              \in GradeManagingRoles]
    BY <1>2 DEF CheckAuthorization
  <2>4. p \in Parsed /\ (p = "lookup" => q.course # None)
    BY <2>2 DEF AfterGrant, Parsed
  <2> HIDE DEF id
  <2>5. TypeOK'
    BY <1>0, <2>1, <2>2, <2>3, <2>4 DEF TypeOK, Parsed
  <2>6. LookupHasCourse'
    BY <1>0, <2>2, <2>3, <2>4 DEF LookupHasCourse, TypeOK
  <2> QED BY <2>1, <2>5, <2>6
<1>3. ASSUME NEW c \in Calls, LookupAnswered(c)
      PROVE  Safe'
  <2>1. /\ request[c] \in ToolRequests /\ identity[c] \in Identity
        /\ request[c].course # None
    BY <1>0, <1>3 DEF LookupAnswered, TypeOK, Parsed, LookupHasCourse
  <2>2. request[c].course \in Courses /\ identity[c].userId \in Users
    BY <2>1, RequestsAssumption DEF ToolRequest, Identity
  <2>3. enrolled[<<request[c].course, identity[c].userId>>]
          \in CourseRoles \cup {None}
    BY <1>0, <2>2 DEF TypeOK
  <2>4. TypeOK'
    BY <1>0, <1>3, <2>3 DEF LookupAnswered, TypeOK, Parsed, authVars
  <2>5. BufferIsLatestTrail' /\ LookupHasCourse'
    BY <1>0, <1>3
    DEF LookupAnswered, TypeOK, authVars, BufferIsLatestTrail, LookupHasCourse
  <2> QED BY <2>4, <2>5
<1>4. ASSUME NEW c \in Calls, LookupFailed(c)
      PROVE  Safe'
  BY <1>0, <1>4
  DEF LookupFailed, TypeOK, authVars, Parsed, BufferIsLatestTrail,
      LookupHasCourse
<1>5. ASSUME NEW c \in Calls, CheckCourseEntitlement(c)
      PROVE  Safe'
  <2>1. \E p \in {"authorized", "denied"} : pc' = [pc EXCEPT ![c] = p]
    BY <1>5 DEF CheckCourseEntitlement, Deny
  <2>2. /\ trail' \in Seq(Entry) /\ auditLogBuffer' \in Seq(Entry)
        /\ BufferIsLatestTrail'
    <3>1. CASE UNCHANGED <<auditLogBuffer, trail>>
      BY <1>0, <3>1 DEF TypeOK, BufferIsLatestTrail
    <3>2. CASE AuditLog("access.denied", c, "entitlement")
      BY <1>0, <3>2, AuditTypes
    <3> QED BY <1>5, <3>1, <3>2 DEF CheckCourseEntitlement, Deny
  <2>3. /\ pc[c] = "looked"
        /\ UNCHANGED <<rateWindows, admitted, request, identity, membership,
                       enrolled, managed>>
    BY <1>5 DEF CheckCourseEntitlement
  <2>4. TypeOK'
    BY <1>0, <2>1, <2>2, <2>3 DEF TypeOK, Parsed
  <2>5. LookupHasCourse'
    BY <1>0, <2>1, <2>3 DEF LookupHasCourse, TypeOK
  <2> QED BY <2>2, <2>4, <2>5
<1>6. ASSUME NEW c \in Calls, Perform(c)
      PROVE  Safe'
  BY <1>0, <1>6
  DEF Perform, TypeOK, authVars, Parsed, BufferIsLatestTrail, LookupHasCourse
<1>7. ASSUME NEW course \in Courses, NEW user \in Users,
             NEW role \in CourseRoles \cup {None},
             ChangeEnrollment(course, user, role)
      PROVE  Safe'
  BY <1>0, <1>7
  DEF ChangeEnrollment, TypeOK, authVars, callVars, Parsed,
      BufferIsLatestTrail, LookupHasCourse
<1>8. CASE Tick
  <2>1. rateWindows' \in [Keys -> [left : 0..Window, count : Nat]]
    <3>1. ASSUME NEW k \in Keys
          PROVE  [rateWindows[k] EXCEPT !.left = Elapse(@)]
                   \in [left : 0..Window, count : Nat]
      <4>1. rateWindows[k] \in [left : 0..Window, count : Nat]
        BY <1>0 DEF TypeOK
      <4>2. Elapse(rateWindows[k].left) \in 0..Window
        BY <4>1, BoundsAssumption DEF Elapse
      <4> QED BY <4>1, <4>2
    <3> QED BY <1>8, <3>1 DEF Tick
  <2>2. admitted' \in [Keys -> [0..Window - 1 -> Nat]]
    <3>1. ASSUME NEW k \in Keys, NEW a \in 0..Window - 1
          PROVE  (IF a = 0 THEN 0 ELSE admitted[k][a - 1]) \in Nat
      <4>1. a # 0 => a - 1 \in 0..Window - 1
        BY BoundsAssumption
      <4> QED BY <1>0, <4>1 DEF TypeOK
    <3> QED BY <1>8, <3>1 DEF Tick
  <2>3. UNCHANGED <<auditLogBuffer, trail, callVars, enrolled, managed>>
    BY <1>8 DEF Tick
  <2>4. TypeOK'
    BY <1>0, <2>1, <2>2, <2>3 DEF TypeOK, callVars
  <2> QED
    BY <1>0, <2>3, <2>4 DEF callVars, BufferIsLatestTrail, LookupHasCourse
<1>9. CASE UNCHANGED vars
  BY <1>0, <1>9
  DEF vars, authVars, callVars, TypeOK, BufferIsLatestTrail, LookupHasCourse
<1> QED BY <1>1, <1>2, <1>3, <1>4, <1>5, <1>6, <1>7, <1>8, <1>9 DEF Next

\* A started process keeps the latest entries: there are none.
LEMMA SafeInit == Init => Safe
<1> SUFFICES ASSUME Init PROVE Safe
  OBVIOUS
<1>1. trail = << >> /\ auditLogBuffer = << >> /\ trail \in Seq(Entry)
  BY EmptySeq DEF Init
<1>2. Len(trail) = 0
  BY <1>1, EmptySeq
<1>3. Latest(trail) \in Seq(Entry) /\ Len(Latest(trail)) = 0
  <2>1. Kept(trail) = 0
    BY <1>2, BoundsAssumption DEF Kept
  <2>2. Latest(trail) \in Seq(Entry) /\ Len(Latest(trail)) = Kept(trail)
    BY <1>1, LatestProperties
  <2> QED BY <2>1, <2>2
<1>4. Latest(trail) = << >>
  BY <1>3, EmptySeq
<1>5. auditLogBuffer = Latest(trail)
  BY <1>1, <1>4
<1>6. BufferIsLatestTrail
  BY <1>5 DEF BufferIsLatestTrail, Latest
<1>7. LookupHasCourse
  BY DEF Init, LookupHasCourse
<1> QED BY <1>6, <1>7, TypeInit DEF Safe

\* Every reachable state is well typed.
THEOREM TypeCorrect == Spec => []TypeOK
<1>1. Safe => TypeOK
  BY DEF Safe
<1> QED BY <1>1, SafeInit, SafeStep, PTL DEF Spec

\* list_audit_logs reads back exactly the latest entries of the trail, for
\* every capacity of the buffer: recordAuditLogEntry drops only the oldest.
THEOREM BufferIsTail == Spec => []BufferIsLatestTrail
<1>1. Safe => BufferIsLatestTrail
  BY DEF Safe
<1> QED BY <1>1, SafeInit, SafeStep, PTL DEF Spec

-----------------------------------------------------------------------------
(* The gates.                                                              *)

\* A call that got past checkAuthorization carries its principal's identity,
\* and that identity passes the role gate and the FERPA gate.
GatesPassed ==
  \A c \in Calls :
    pc[c] \in {"lookup", "looked", "authorized", "performed"} =>
      /\ identity[c] = Principal(request[c])
      /\ identity[c].role \in AllowedRolesForTool(request[c].tool)
      /\ request[c].tool \in RestrictedTools => identity[c].ferpa

\* No step takes a call past a gate it does not pass.
LEMMA GatesStep == Safe /\ GatesPassed /\ [Next]_vars => GatesPassed'
<1> SUFFICES ASSUME Safe, GatesPassed, [Next]_vars PROVE GatesPassed'
  OBVIOUS
<1>0. TypeOK
  BY DEF Safe
<1>1. ASSUME NEW c \in Calls, NEW q \in ToolRequests, CheckAuthorization(c, q)
      PROVE  GatesPassed'
  <2> DEFINE id == ParsedIdentity(q)
  <2>1. /\ id = Principal(q)
        /\ \E p \in {"denied", AfterGrant(id, q)} :
             /\ pc' = [pc EXCEPT ![c] = p]
             /\ p # "denied" =>
                  ~FerpaRefused(id, q.tool) /\ ~RoleRefused(id, q.tool)
    BY <1>1, CheckOutcome
  <2>2. request' = [request EXCEPT ![c] = q]
        /\ identity' = [identity EXCEPT ![c] = id]
    BY <1>1 DEF CheckAuthorization
  <2> HIDE DEF id
  <2>3. PICK p : /\ pc' = [pc EXCEPT ![c] = p]
                 /\ p # "denied" =>
                      /\ q.tool \in RestrictedTools => id.ferpa
                      /\ id.role \in AllowedRolesForTool(q.tool)
    BY <2>1 DEF FerpaRefused, RoleRefused
  <2>4. /\ pc' = [pc EXCEPT ![c] = p]
        /\ request' = [request EXCEPT ![c] = q]
        /\ identity' = [identity EXCEPT ![c] = id]
        /\ id = Principal(q)
    BY <2>1, <2>2, <2>3
  <2>5. \A d \in Calls \ {c} :
          /\ pc'[d] = pc[d] /\ request'[d] = request[d]
          /\ identity'[d] = identity[d]
    BY <1>0, <2>4 DEF TypeOK
  <2>6. pc'[c] = p /\ request'[c] = q /\ identity'[c] = id
    BY <1>0, <2>4 DEF TypeOK
  <2>7. ASSUME NEW d \in Calls,
               pc'[d] \in {"lookup", "looked", "authorized", "performed"}
        PROVE  /\ identity'[d] = Principal(request'[d])
               /\ identity'[d].role \in AllowedRolesForTool(request'[d].tool)
               /\ request'[d].tool \in RestrictedTools => identity'[d].ferpa
    <3>1. CASE d = c
      BY <2>3, <2>4, <2>6, <2>7, <3>1
    <3>2. CASE d # c
      BY <2>5, <2>7, <3>2 DEF GatesPassed
    <3> QED BY <3>1, <3>2
  <2> QED BY <2>7 DEF GatesPassed, Principal
<1>2. CASE UNCHANGED <<request, identity>>
           /\ \A c \in Calls :
                pc'[c] \in {"lookup", "looked", "authorized", "performed"} =>
                  pc[c] \in {"lookup", "looked", "authorized"} \/ pc'[c] = pc[c]
  BY <1>2 DEF GatesPassed, Principal
<1>3. ASSUME NEW c \in Calls, NEW q \in ToolRequests, RejectIdentity(c, q)
      PROVE  GatesPassed'
  BY <1>0, <1>2, <1>3 DEF RejectIdentity, TypeOK
<1>4. ASSUME NEW c \in Calls,
             \/ LookupAnswered(c) \/ LookupFailed(c)
             \/ CheckCourseEntitlement(c) \/ Perform(c)
      PROVE  GatesPassed'
  <2>1. /\ pc[c] \in {"lookup", "looked", "authorized"}
        /\ \E p : pc' = [pc EXCEPT ![c] = p]
        /\ UNCHANGED <<request, identity>>
    BY <1>4 DEF LookupAnswered, LookupFailed, CheckCourseEntitlement, Deny,
                Perform
  <2> QED BY <1>0, <1>2, <2>1 DEF TypeOK
<1>5. ASSUME NEW course \in Courses, NEW user \in Users,
             NEW role \in CourseRoles \cup {None},
             ChangeEnrollment(course, user, role)
      PROVE  GatesPassed'
  BY <1>2, <1>5 DEF ChangeEnrollment, callVars
<1>6. CASE Tick \/ UNCHANGED vars
  BY <1>2, <1>6 DEF Tick, vars, callVars
<1> QED BY <1>1, <1>3, <1>4, <1>5, <1>6 DEF Next

-----------------------------------------------------------------------------
(* The entitlement.                                                        *)

\* At each stage of a call the history remembers what lets it go on: that the
\* caller manages the course now, that the lookup said so, or that the check
\* has passed.
EntitlementKnown ==
  \A c \in Calls :
    /\ (/\ pc[c] = "lookup"
        /\ Manages(enrolled[<<request[c].course, identity[c].userId>>]))
       => managed[c]
    /\ pc[c] = "looked" /\ Manages(membership[c]) => managed[c]
    /\ (/\ pc[c] \in {"authorized", "performed"}
        /\ request[c].tool \in EntitlementTools
        /\ identity[c].role # "admin")
       => managed[c]

\* No step, and no change of enrollment between two steps, lets a call go on
\* whose caller did not manage the course at some moment of it.
LEMMA EntitlementStep ==
  Safe /\ EntitlementKnown /\ [Next]_vars => EntitlementKnown'
<1> SUFFICES ASSUME Safe, EntitlementKnown, [Next]_vars
             PROVE  EntitlementKnown'
  OBVIOUS
<1>0. TypeOK /\ LookupHasCourse
  BY DEF Safe
<1>1. ASSUME NEW c \in Calls, NEW q \in ToolRequests, CheckAuthorization(c, q)
      PROVE  EntitlementKnown'
  <2> DEFINE id == ParsedIdentity(q)
             m == /\ q.course # None
                  /\ enrolled[<<q.course, id.userId>>] \in GradeManagingRoles
  <2>1. PICK p \in {"denied", AfterGrant(id, q)} : pc' = [pc EXCEPT ![c] = p]
    BY <1>1, CheckOutcome
  <2>2. /\ request' = [request EXCEPT ![c] = q]
        /\ identity' = [identity EXCEPT ![c] = id]
        /\ managed' = [managed EXCEPT ![c] = m]
        /\ UNCHANGED <<membership, enrolled>>
    BY <1>1 DEF CheckAuthorization
  <2>3. /\ p # "looked" /\ p # "performed"
        /\ p = "lookup" => q.course # None
        /\ p = "authorized" =>
             q.tool \notin EntitlementTools \/ id.role = "admin"
    BY <2>1 DEF AfterGrant
  <2>4. p = "lookup" /\ Manages(enrolled[<<q.course, id.userId>>]) => m
    BY <2>3 DEF Manages
  <2> HIDE DEF id, m
  <2>5. /\ pc'[c] = p /\ request'[c] = q /\ identity'[c] = id
        /\ managed'[c] = m
    BY <1>0, <2>1, <2>2 DEF TypeOK
  <2>6. \A d \in Calls \ {c} :
          /\ pc'[d] = pc[d] /\ request'[d] = request[d]
          /\ identity'[d] = identity[d] /\ managed'[d] = managed[d]
    BY <1>0, <2>1, <2>2 DEF TypeOK
  <2> QED BY <2>2, <2>3, <2>4, <2>5, <2>6 DEF EntitlementKnown, Manages
<1>2. ASSUME NEW c \in Calls, NEW q \in ToolRequests, RejectIdentity(c, q)
      PROVE  EntitlementKnown'
  BY <1>0, <1>2 DEF RejectIdentity, TypeOK, EntitlementKnown, Manages
<1>3. ASSUME NEW c \in Calls, LookupAnswered(c)
      PROVE  EntitlementKnown'
  BY <1>0, <1>3 DEF LookupAnswered, TypeOK, EntitlementKnown, Manages
<1>4. ASSUME NEW c \in Calls, LookupFailed(c)
      PROVE  EntitlementKnown'
  BY <1>0, <1>4 DEF LookupFailed, TypeOK, EntitlementKnown, Manages
<1>5. ASSUME NEW c \in Calls, CheckCourseEntitlement(c)
      PROVE  EntitlementKnown'
  <2>1. \/ Manages(membership[c]) /\ pc' = [pc EXCEPT ![c] = "authorized"]
        \/ pc' = [pc EXCEPT ![c] = "denied"]
    BY <1>5 DEF CheckCourseEntitlement, Deny
  <2>2. /\ pc[c] = "looked"
        /\ UNCHANGED <<request, identity, membership, enrolled, managed>>
    BY <1>5 DEF CheckCourseEntitlement
  <2> QED BY <1>0, <2>1, <2>2 DEF TypeOK, EntitlementKnown, Manages
<1>6. ASSUME NEW c \in Calls, Perform(c)
      PROVE  EntitlementKnown'
  BY <1>0, <1>6 DEF Perform, TypeOK, EntitlementKnown, Manages
<1>7. ASSUME NEW course \in Courses, NEW user \in Users,
             NEW role \in CourseRoles \cup {None},
             ChangeEnrollment(course, user, role)
      PROVE  EntitlementKnown'
  <2>1. /\ enrolled' = [enrolled EXCEPT ![<<course, user>>] = role]
        /\ managed' = [c \in Calls |->
             \/ managed[c]
             \/ /\ pc[c] \in Pending
                /\ request[c].course = course
                /\ identity[c].userId = user
                /\ role \in GradeManagingRoles]
        /\ UNCHANGED <<pc, request, identity, membership>>
    BY <1>7 DEF ChangeEnrollment, callVars
  <2>2. \A c \in Calls : managed[c] => managed'[c]
    BY <2>1
  <2>3. ASSUME NEW c \in Calls, pc[c] = "lookup",
               Manages(enrolled'[<<request[c].course, identity[c].userId>>])
        PROVE  managed'[c]
    <3>1. CASE request[c].course = course /\ identity[c].userId = user
      <4>1. enrolled'[<<course, user>>] = role
        BY <1>0, <2>1 DEF TypeOK
      <4> QED BY <2>1, <2>3, <3>1, <4>1 DEF Manages, Pending
    <3>2. CASE ~(request[c].course = course /\ identity[c].userId = user)
      <4>1. /\ request[c] \in ToolRequests /\ identity[c] \in Identity
            /\ request[c].course # None
        BY <1>0, <2>3 DEF TypeOK, Parsed, LookupHasCourse
      <4>2. request[c].course \in Courses /\ identity[c].userId \in Users
        BY <4>1, RequestsAssumption DEF ToolRequest, Identity
      <4>3. enrolled'[<<request[c].course, identity[c].userId>>]
              = enrolled[<<request[c].course, identity[c].userId>>]
        BY <1>0, <2>1, <3>2, <4>2 DEF TypeOK
      <4> QED BY <2>2, <2>3, <4>3 DEF EntitlementKnown
    <3> QED BY <3>1, <3>2
  <2> QED BY <2>1, <2>2, <2>3 DEF EntitlementKnown, Manages
<1>8. CASE Tick \/ UNCHANGED vars
  BY <1>8 DEF Tick, vars, callVars, EntitlementKnown, Manages
<1> QED
  BY <1>1, <1>2, <1>3, <1>4, <1>5, <1>6, <1>7, <1>8 DEF Next

\* A grade tool works for a non-admin only if the caller managed the course
\* at some moment of the call, however enrollments change around the lookup
\* (checkCourseEntitlement).
THEOREM EntitlementHolds == Spec => []GradeWorkWasEntitled
<1>1. Init => EntitlementKnown
  BY DEF Init, EntitlementKnown
<1>2. GatesPassed /\ EntitlementKnown => GradeWorkWasEntitled
  BY DEF GatesPassed, EntitlementKnown, GradeWorkWasEntitled
<1>3. Init => GatesPassed
  BY DEF Init, GatesPassed
<1> QED
  BY <1>1, <1>2, <1>3, GatesStep, EntitlementStep, SafeInit, SafeStep, PTL
  DEF Spec

-----------------------------------------------------------------------------
(* The trail tells what became of each call.                               *)

\* AuditMatchesOutcome, of one call.
Told(c) ==
  /\ pc[c] \in {"new", "rejected"} => Entries(c) = {}
  /\ pc[c] \in Parsed \ {"denied"} =>
       \E i \in DOMAIN trail :
         Entries(c) = {i} /\ trail[i].event = "access.granted"
  /\ pc[c] = "denied" =>
       \E i \in Entries(c) :
         /\ trail[i].event = "access.denied"
         /\ \A j \in Entries(c) \ {i} :
              /\ j < i /\ trail[j].event = "access.granted"
              /\ Entries(c) = {i, j}

\* The step writes one entry, of this event, for call c.
Writes(c, event) ==
  \E e \in Entry : e.call = c /\ e.event = event /\ trail' = Append(trail, e)

\* What auditLog writes.
LEMMA AuditWrites ==
  ASSUME NEW c \in Calls, NEW event \in {"access.granted", "access.denied"},
         NEW reason \in {"rate", "ferpa", "role", "entitlement", "none"},
         AuditLog(event, c, reason)
  PROVE  Writes(c, event)
<1> DEFINE e == [event |-> event, call |-> c, reason |-> reason]
<1>1. e \in Entry /\ e.call = c /\ e.event = event
  BY DEF Entry
<1>2. trail' = Append(trail, e)
  BY DEF AuditLog
<1> HIDE DEF e
<1> QED BY <1>1, <1>2 DEF Writes

\* A new entry comes last, belongs to its call, and leaves the others as they
\* were.
LEMMA NewEntry ==
  ASSUME TypeOK, NEW c \in Calls, NEW event, Writes(c, event)
  PROVE  \E n \in DOMAIN trail' :
           /\ \A i \in DOMAIN trail : i < n /\ trail'[i] = trail[i]
           /\ trail'[n].event = event
           /\ DOMAIN trail' = DOMAIN trail \cup {n}
           /\ Entries(c)' = Entries(c) \cup {n}
           /\ \A d \in Calls \ {c} : Entries(d)' = Entries(d)
<1> DEFINE n == Len(trail) + 1
<1>1. PICK e \in Entry :
        e.call = c /\ e.event = event /\ trail' = Append(trail, e)
  BY DEF Writes
<1>2. trail \in Seq(Entry)
  BY DEF TypeOK
<1>3. /\ trail' \in Seq(Entry) /\ Len(trail') = n /\ trail'[n] = e
      /\ \A i \in 1..Len(trail) : trail'[i] = trail[i]
  BY <1>1, <1>2, AppendProperties
<1>4. /\ Len(trail) \in Nat /\ DOMAIN trail = 1..Len(trail)
      /\ DOMAIN trail' = 1..Len(trail')
  BY <1>2, <1>3, LenProperties
<1>5. DOMAIN trail' = DOMAIN trail \cup {n} /\ n \in DOMAIN trail'
  BY <1>3, <1>4
<1>6. \A i \in DOMAIN trail : i < n /\ trail'[i] = trail[i]
  BY <1>3, <1>4
<1> HIDE DEF n
<1>7. Entries(c)' = Entries(c) \cup {n}
  BY <1>1, <1>3, <1>5, <1>6 DEF Entries
<1>8. ASSUME NEW d \in Calls \ {c} PROVE Entries(d)' = Entries(d)
  BY <1>1, <1>3, <1>5, <1>6 DEF Entries
<1> QED BY <1>1, <1>3, <1>5, <1>6, <1>7, <1>8

\* A call is told of as long as neither it nor its entries change.
LEMMA ToldAsBefore ==
  ASSUME TypeOK, NEW d \in Calls, Told(d), pc'[d] = pc[d],
         Entries(d)' = Entries(d),
         \A i \in DOMAIN trail : i \in DOMAIN trail' /\ trail'[i] = trail[i]
  PROVE  Told(d)'
<1>1. Entries(d) \subseteq DOMAIN trail
  BY DEF Entries
<1>2. pc[d] \in {"new", "rejected"} => Entries(d)' = {}
  BY DEF Told
<1>3. pc[d] \in Parsed \ {"denied"} =>
        \E i \in DOMAIN trail' :
          Entries(d)' = {i} /\ trail'[i].event = "access.granted"
  BY DEF Told
<1>4. ASSUME pc[d] = "denied"
      PROVE  \E i \in Entries(d)' :
               /\ trail'[i].event = "access.denied"
               /\ \A j \in Entries(d)' \ {i} :
                    /\ j < i /\ trail'[j].event = "access.granted"
                    /\ Entries(d)' = {i, j}
  BY <1>1, <1>4 DEF Told
<1> QED BY <1>2, <1>3, <1>4 DEF Told, Parsed

\* What checkAuthorization writes, whichever gate a call ends at.
LEMMA CheckWrites ==
  ASSUME NEW c \in Calls, NEW q \in ToolRequests, CheckAuthorization(c, q)
  PROVE  \/ /\ pc' = [pc EXCEPT ![c] = "denied"]
            /\ Writes(c, "access.denied")
         \/ /\ \E p \in {"lookup", "authorized", "failed"} :
                 pc' = [pc EXCEPT ![c] = p]
            /\ Writes(c, "access.granted")
<1> DEFINE id == ParsedIdentity(q)
<1>1. \/ DenyRate(c, id) \/ DenyFerpa(c, q, id) \/ DenyRole(c, q, id)
      \/ Grant(c, q, id)
  BY DEF CheckAuthorization
<1>2. AfterGrant(id, q) \in {"lookup", "authorized", "failed"}
  BY DEF AfterGrant
<1> HIDE DEF id
<1>3. CASE DenyRate(c, id)
  BY <1>3, AuditWrites DEF DenyRate, Deny
<1>4. CASE DenyFerpa(c, q, id)
  BY <1>4, AuditWrites DEF DenyFerpa, Deny
<1>5. CASE DenyRole(c, q, id)
  BY <1>5, AuditWrites DEF DenyRole, Deny
<1>6. CASE Grant(c, q, id)
  BY <1>2, <1>6, AuditWrites DEF Grant
<1> QED BY <1>1, <1>3, <1>4, <1>5, <1>6

\* Each gate writes its entry in the step that decides the call, and nothing
\* else writes.
LEMMA AuditStep ==
  Safe /\ AuditMatchesOutcome /\ [Next]_vars => AuditMatchesOutcome'
<1> SUFFICES ASSUME Safe, AuditMatchesOutcome, [Next]_vars,
                    NEW d \in Calls
             PROVE  Told(d)'
  BY DEF AuditMatchesOutcome, Told
<1>0. TypeOK /\ Told(d)
  BY DEF Safe, AuditMatchesOutcome, Told
<1>1. CASE trail' = trail /\ pc'[d] = pc[d]
  BY <1>0, <1>1, ToldAsBefore DEF Entries
<1>2. ASSUME NEW c \in Calls, NEW q \in ToolRequests, CheckAuthorization(c, q)
      PROVE  Told(d)'
  <2>1. pc[c] = "new"
    BY <1>2 DEF CheckAuthorization
  <2>2. CASE d = c /\ pc' = [pc EXCEPT ![c] = "denied"]
    <3>1. Writes(c, "access.denied")
      BY <1>0, <1>2, <2>1, <2>2, CheckWrites DEF TypeOK
    <3>2. PICK n \in DOMAIN trail' :
            /\ trail'[n].event = "access.denied"
            /\ Entries(c)' = Entries(c) \cup {n}
      BY <1>0, <3>1, NewEntry
    <3>3. Entries(d)' = {n} /\ trail'[n].event = "access.denied"
      BY <1>0, <2>1, <2>2, <3>2 DEF Told
    <3>4. pc'[d] = "denied"
      BY <1>0, <2>2 DEF TypeOK
    <3> QED BY <3>3, <3>4 DEF Told
  <2>3. CASE d = c /\ pc' # [pc EXCEPT ![c] = "denied"]
    <3>1. /\ \E p \in {"lookup", "authorized", "failed"} :
               pc' = [pc EXCEPT ![c] = p]
          /\ Writes(c, "access.granted")
      BY <1>2, <2>3, CheckWrites
    <3>2. PICK n \in DOMAIN trail' :
            /\ trail'[n].event = "access.granted"
            /\ Entries(c)' = Entries(c) \cup {n}
      BY <1>0, <3>1, NewEntry
    <3>3. Entries(d)' = {n} /\ trail'[n].event = "access.granted"
      BY <1>0, <2>1, <2>3, <3>2 DEF Told
    <3>4. pc'[d] \in {"lookup", "authorized", "failed"}
      BY <1>0, <2>3, <3>1 DEF TypeOK
    <3> QED BY <3>2, <3>3, <3>4 DEF Told, Parsed
  <2>4. CASE d # c
    <3>1. pc'[d] = pc[d]
      BY <1>0, <1>2, <2>4, CheckWrites DEF TypeOK
    <3>2. Writes(c, "access.denied") \/ Writes(c, "access.granted")
      BY <1>2, CheckWrites
    <3>3. PICK n \in DOMAIN trail' :
            /\ \A i \in DOMAIN trail : i < n /\ trail'[i] = trail[i]
            /\ DOMAIN trail' = DOMAIN trail \cup {n}
            /\ \A b \in Calls \ {c} : Entries(b)' = Entries(b)
      BY <1>0, <3>2, NewEntry
    <3> QED BY <1>0, <2>4, <3>1, <3>3, ToldAsBefore
  <2> QED BY <2>2, <2>3, <2>4
<1>3. ASSUME NEW c \in Calls, NEW q \in ToolRequests, RejectIdentity(c, q)
      PROVE  Told(d)'
  <2>1. /\ pc[c] = "new" /\ trail' = trail
        /\ pc' = [pc EXCEPT ![c] = "rejected"]
    BY <1>3 DEF RejectIdentity, authVars
  <2>2. Entries(d)' = Entries(d)
    BY <2>1 DEF Entries
  <2>3. CASE d = c
    <3>1. Entries(d)' = {} /\ pc'[d] = "rejected"
      BY <1>0, <2>1, <2>2, <2>3 DEF Told, TypeOK
    <3> QED BY <3>1 DEF Told, Parsed
  <2>4. CASE d # c
    BY <1>0, <1>1, <2>1, <2>4 DEF TypeOK
  <2> QED BY <2>3, <2>4
<1>4. ASSUME NEW c \in Calls,
             NEW p \in Parsed \ {"denied"}, pc[c] \in Parsed \ {"denied"},
             pc' = [pc EXCEPT ![c] = p], trail' = trail
      PROVE  Told(d)'
  <2>1. CASE d = c
    <3>1. Entries(d)' = Entries(d) /\ pc'[d] = p
      BY <1>0, <1>4, <2>1 DEF Entries, TypeOK
    <3>2. \E i \in DOMAIN trail' :
            Entries(d)' = {i} /\ trail'[i].event = "access.granted"
      BY <1>0, <1>4, <2>1, <3>1 DEF Told
    <3> QED BY <1>4, <3>1, <3>2 DEF Told, Parsed
  <2>2. CASE d # c
    BY <1>0, <1>1, <1>4, <2>2 DEF TypeOK
  <2> QED BY <2>1, <2>2
<1>5. ASSUME NEW c \in Calls, LookupAnswered(c) \/ LookupFailed(c) \/ Perform(c)
      PROVE  Told(d)'
  BY <1>4, <1>5 DEF LookupAnswered, LookupFailed, Perform, Parsed, authVars
<1>6. ASSUME NEW c \in Calls, CheckCourseEntitlement(c)
      PROVE  Told(d)'
  <2>1. pc[c] = "looked"
    BY <1>6 DEF CheckCourseEntitlement
  <2>2. CASE pc' = [pc EXCEPT ![c] = "authorized"] /\ trail' = trail
    BY <1>4, <2>1, <2>2 DEF Parsed
  <2>3. CASE Deny(c, "entitlement")
    <3>1. PICK n \in DOMAIN trail' :
            /\ \A i \in DOMAIN trail : i < n /\ trail'[i] = trail[i]
            /\ trail'[n].event = "access.denied"
            /\ DOMAIN trail' = DOMAIN trail \cup {n}
            /\ Entries(c)' = Entries(c) \cup {n}
            /\ \A b \in Calls \ {c} : Entries(b)' = Entries(b)
      <4>1. Writes(c, "access.denied")
        BY <2>3, AuditWrites DEF Deny
      <4> QED BY <1>0, <4>1, NewEntry
    <3>2. CASE d = c
      <4>1. PICK i \in DOMAIN trail :
              Entries(c) = {i} /\ trail[i].event = "access.granted"
        BY <1>0, <2>1, <3>2 DEF Told, Parsed
      <4>2. Entries(d)' = {i, n} /\ i < n /\ trail'[i].event = "access.granted"
        BY <3>1, <3>2, <4>1
      <4>3. trail'[n].event = "access.denied" /\ pc'[d] = "denied"
        BY <1>0, <2>3, <3>1, <3>2 DEF Deny, TypeOK
      <4> QED BY <4>2, <4>3 DEF Told
    <3>3. CASE d # c
      <4>1. pc'[d] = pc[d]
        BY <1>0, <2>3, <3>3 DEF Deny, TypeOK
      <4> QED BY <1>0, <3>1, <3>3, <4>1, ToldAsBefore
    <3> QED BY <3>2, <3>3
  <2> QED BY <1>6, <2>2, <2>3 DEF CheckCourseEntitlement
<1>7. ASSUME NEW course \in Courses, NEW user \in Users,
             NEW role \in CourseRoles \cup {None},
             ChangeEnrollment(course, user, role)
      PROVE  Told(d)'
  BY <1>1, <1>7 DEF ChangeEnrollment, authVars, callVars
<1>8. CASE Tick \/ UNCHANGED vars
  BY <1>1, <1>8 DEF Tick, vars, authVars, callVars
<1> QED BY <1>2, <1>3, <1>5, <1>6, <1>7, <1>8 DEF Next

\* Every call that was parsed has exactly the audit entries of its outcome:
\* none is lost, doubled or contradicted, however calls interleave
\* (checkAuthorization, checkCourseEntitlement, auditLog).
THEOREM AuditTells == Spec => []AuditMatchesOutcome
<1>1. Init => AuditMatchesOutcome
  <2> SUFFICES ASSUME Init, NEW c \in Calls PROVE Told(c)
    BY DEF AuditMatchesOutcome, Told
  <2>1. pc[c] = "new" /\ DOMAIN trail = {}
    BY DEF Init
  <2> QED BY <2>1 DEF Told, Entries, Parsed
<1> QED BY <1>1, AuditStep, SafeInit, SafeStep, PTL DEF Spec
-----------------------------------------------------------------------------
(* The rate windows against the calls they admitted.                       *)

\* The most that one window admits.
Share(limit) == IF limit = 0 THEN 1 ELSE limit

\* What a window w knows of the calls admitted lately: while it runs, its
\* count is of the calls since it started, and what was admitted before it
\* is less than a window's share; when it is over, all that is still recent
\* was admitted after its first call.
CountsAgree(w, recent, limit) ==
  /\ w.left > 0 =>
       /\ w.count >= 1 /\ (limit # NaN => w.count <= Share(limit))
       /\ \A a \in 0..Window - 1 :
            /\ a < Window - w.left => recent[a] <= w.count - 1
            /\ a >= Window - w.left =>
                 /\ recent[a] >= w.count
                 /\ limit # NaN => recent[a] <= w.count + Share(limit) - 1
  /\ w.left = 0 /\ limit # NaN =>
       \A a \in 0..Window - 1 : recent[a] <= Share(limit) - 1

WindowInv ==
  \A k \in Keys : CountsAgree(rateWindows[k], admitted[k], Limit[k[1]])

\* Counting an admitted call in its window keeps the two in agreement.
LEMMA ChargeAgrees ==
  ASSUME NEW w \in [left : 0..Window, count : Nat],
         NEW recent \in [0..Window - 1 -> Nat],
         NEW limit \in Nat \cup {NaN},
         CountsAgree(w, recent, limit),
         ~(w.left > 0 /\ LimitReached(w.count, limit))
  PROVE  CountsAgree(Charged(w), [a \in 0..Window - 1 |-> recent[a] + 1], limit)
<1> DEFINE r == [a \in 0..Window - 1 |-> recent[a] + 1]
<1>1. /\ w.left \in 0..Window /\ w.count \in Nat
      /\ Window \in Nat /\ Window > 0
  BY BoundsAssumption
<1>2. \A a \in 0..Window - 1 : recent[a] \in Nat /\ r[a] = recent[a] + 1
  BY <1>1
<1>3. limit # NaN => /\ limit \in Nat /\ Share(limit) \in Nat
                     /\ Share(limit) >= 1 /\ Share(limit) >= limit
  BY DEF Share
<1> HIDE DEF r
<1>4. CASE w.left = 0
  <2>1. Charged(w).left = Window /\ Charged(w).count = 1
    BY <1>4 DEF Charged
  <2>2. \A a \in 0..Window - 1 :
          r[a] >= 1 /\ (limit # NaN => r[a] <= Share(limit))
    BY <1>2, <1>3, <1>4 DEF CountsAgree
  <2>3. \A a \in 0..Window - 1 :
          /\ a >= 0 /\ ~(a < 0)
          /\ r[a] >= 1 /\ (limit # NaN => r[a] <= 1 + Share(limit) - 1)
    BY <1>1, <1>3, <2>2
  <2>4. Window - Window = 0 /\ Window > 0 /\ Window # 0 /\ 1 >= 1
    BY <1>1
  <2> QED BY <1>3, <2>1, <2>3, <2>4 DEF CountsAgree, r
<1>5. CASE w.left # 0
  <2>1. Charged(w).left = w.left /\ Charged(w).count = w.count + 1
    BY <1>5 DEF Charged
  <2>2. w.left > 0
    BY <1>1, <1>5
  <2>3. limit # NaN => w.count + 1 <= Share(limit)
    BY <1>1, <1>3, <2>2 DEF LimitReached
  <2>4. ASSUME NEW a \in 0..Window - 1
        PROVE  /\ a < Window - w.left => r[a] <= w.count + 1 - 1
               /\ a >= Window - w.left =>
                    /\ r[a] >= w.count + 1
                    /\ limit # NaN => r[a] <= w.count + 1 + Share(limit) - 1
    <3>1. recent[a] \in Nat /\ r[a] = recent[a] + 1
      BY <1>2
    <3>2. /\ a < Window - w.left => recent[a] <= w.count - 1
          /\ a >= Window - w.left =>
               /\ recent[a] >= w.count
               /\ limit # NaN => recent[a] <= w.count + Share(limit) - 1
      BY <2>2 DEF CountsAgree
    <3>3. a < Window - w.left => r[a] <= w.count + 1 - 1
      BY <1>1, <3>1, <3>2
    <3>4. a >= Window - w.left => r[a] >= w.count + 1
      BY <1>1, <3>1, <3>2
    <3>5. a >= Window - w.left /\ limit # NaN =>
            r[a] <= w.count + 1 + Share(limit) - 1
      BY <1>1, <1>3, <3>1, <3>2
    <3> QED BY <3>3, <3>4, <3>5
  <2> QED BY <1>1, <2>1, <2>2, <2>3, <2>4 DEF CountsAgree, r
<1> QED BY <1>4, <1>5

\* So does the passing of time, at which the recent calls grow older.
LEMMA TickAgrees ==
  ASSUME NEW w \in [left : 0..Window, count : Nat],
         NEW recent \in [0..Window - 1 -> Nat],
         NEW limit \in Nat \cup {NaN},
         CountsAgree(w, recent, limit)
  PROVE  CountsAgree([w EXCEPT !.left = Elapse(@)],
                     [a \in 0..Window - 1 |->
                        IF a = 0 THEN 0 ELSE recent[a - 1]], limit)
<1> DEFINE r == [a \in 0..Window - 1 |-> IF a = 0 THEN 0 ELSE recent[a - 1]]
           v == [w EXCEPT !.left = Elapse(@)]
<1>1. /\ w.left \in 0..Window /\ w.count \in Nat
      /\ Window \in Nat /\ Window > 0
  BY BoundsAssumption
<1>2. \A a \in 0..Window - 1 :
        /\ recent[a] \in Nat
        /\ a = 0 => r[a] = 0
        /\ a # 0 => a - 1 \in 0..Window - 1 /\ r[a] = recent[a - 1]
  BY <1>1
<1>3. limit # NaN => Share(limit) \in Nat /\ Share(limit) >= 1
  BY DEF Share
<1>4. v.left = Elapse(w.left) /\ v.count = w.count
  OBVIOUS
<1> HIDE DEF r, v
<1>5. CASE w.left = 0
  <2>1. v.left = 0
    BY <1>4, <1>5 DEF Elapse
  <2>2. limit # NaN => \A a \in 0..Window - 1 : r[a] <= Share(limit) - 1
    BY <1>2, <1>3, <1>5 DEF CountsAgree
  <2>3. CountsAgree(v, r, limit)
    BY <2>1, <2>2 DEF CountsAgree
  <2> QED BY <2>3 DEF v, r
<1>6. CASE w.left # 0
  <2>1. w.left > 0 /\ v.left = w.left - 1
    BY <1>1, <1>4, <1>6 DEF Elapse
  <2>2. w.count >= 1 /\ (limit # NaN => w.count <= Share(limit))
    BY <2>1 DEF CountsAgree
  <2>3. ASSUME NEW a \in 0..Window - 1
        PROVE  /\ a < Window - v.left => r[a] <= w.count - 1
               /\ a >= Window - v.left =>
                    /\ r[a] >= w.count
                    /\ limit # NaN => r[a] <= w.count + Share(limit) - 1
    <3>1. CASE a = 0
      BY <1>1, <1>2, <2>1, <2>2, <3>1
    <3>2. CASE a # 0
      <4>1. a - 1 \in 0..Window - 1 /\ r[a] = recent[a - 1]
        BY <1>2, <3>2
      <4>2. /\ a - 1 < Window - w.left => recent[a - 1] <= w.count - 1
            /\ a - 1 >= Window - w.left =>
                 /\ recent[a - 1] >= w.count
                 /\ limit # NaN => recent[a - 1] <= w.count + Share(limit) - 1
        BY <2>1, <4>1 DEF CountsAgree
      <4>3. /\ a < Window - v.left <=> a - 1 < Window - w.left
            /\ a >= Window - v.left <=> a - 1 >= Window - w.left
        BY <1>1, <2>1
      <4> QED BY <4>1, <4>2, <4>3
    <3> QED BY <3>1, <3>2
  <2>4. ASSUME v.left = 0, limit # NaN, NEW a \in 0..Window - 1
        PROVE  r[a] <= Share(limit) - 1
    <3>1. a < Window - v.left /\ r[a] \in Nat
      BY <1>1, <1>2, <2>4
    <3> QED BY <1>1, <1>3, <2>2, <2>3, <2>4, <3>1
  <2>5. CountsAgree(v, r, limit)
    BY <1>4, <2>2, <2>3, <2>4 DEF CountsAgree
  <2> QED BY <2>5 DEF v, r
<1> QED BY <1>5, <1>6

\* No step lets a window and what it admitted disagree.
LEMMA WindowStep == TypeOK /\ WindowInv /\ [Next]_vars => WindowInv'
<1> SUFFICES ASSUME TypeOK, WindowInv, [Next]_vars, NEW k \in Keys
             PROVE  CountsAgree(rateWindows'[k], admitted'[k], Limit[k[1]])
  BY DEF WindowInv, CountsAgree
<1>0. /\ rateWindows[k] \in [left : 0..Window, count : Nat]
      /\ admitted[k] \in [0..Window - 1 -> Nat]
      /\ Limit[k[1]] \in Nat \cup {NaN}
      /\ CountsAgree(rateWindows[k], admitted[k], Limit[k[1]])
  <2>1. k[1] \in Roles
    BY DEF Keys
  <2> QED BY <2>1, LimitAssumption DEF TypeOK, WindowInv
<1>1. CASE UNCHANGED <<rateWindows, admitted>>
  BY <1>0, <1>1
<1>2. ASSUME NEW id \in Identity, ~RateLimited(id), ChargeWindow(id)
      PROVE  CountsAgree(rateWindows'[k], admitted'[k], Limit[k[1]])
  <2>1. CASE k = KeyOf(id)
    <3>1. /\ rateWindows'[k] = Charged(rateWindows[k])
          /\ admitted'[k] = [a \in 0..Window - 1 |-> admitted[k][a] + 1]
      BY <1>2, <2>1 DEF ChargeWindow, TypeOK
    <3>2. ~(/\ rateWindows[k].left > 0
            /\ LimitReached(rateWindows[k].count, Limit[k[1]]))
      BY <1>2, <2>1 DEF RateLimited, KeyOf
    <3> QED BY <1>0, <3>1, <3>2, ChargeAgrees
  <2>2. CASE k # KeyOf(id)
    <3>1. rateWindows'[k] = rateWindows[k] /\ admitted'[k] = admitted[k]
      BY <1>2, <2>2 DEF ChargeWindow, TypeOK
    <3> QED BY <1>0, <3>1
  <2> QED BY <2>1, <2>2
<1>3. ASSUME NEW c \in Calls, NEW q \in ToolRequests, CheckAuthorization(c, q)
      PROVE  CountsAgree(rateWindows'[k], admitted'[k], Limit[k[1]])
  <2> DEFINE id == ParsedIdentity(q)
  <2>1. id \in Identity
    BY <1>3, ParsedIsIdentity DEF CheckAuthorization
  <2>2. \/ DenyRate(c, id) \/ DenyFerpa(c, q, id) \/ DenyRole(c, q, id)
        \/ Grant(c, q, id)
    BY <1>3 DEF CheckAuthorization
  <2> HIDE DEF id
  <2> QED BY <1>1, <1>2, <2>1, <2>2 DEF DenyRate, DenyFerpa, DenyRole, Grant
<1>4. ASSUME NEW c \in Calls, NEW q \in ToolRequests, RejectIdentity(c, q)
      PROVE  UNCHANGED <<rateWindows, admitted>>
  BY <1>4 DEF RejectIdentity, authVars
<1>5. ASSUME NEW c \in Calls,
             \/ LookupAnswered(c) \/ LookupFailed(c)
             \/ CheckCourseEntitlement(c) \/ Perform(c)
      PROVE  UNCHANGED <<rateWindows, admitted>>
  BY <1>5 DEF LookupAnswered, LookupFailed, CheckCourseEntitlement, Perform,
              authVars
<1>6. ASSUME NEW course \in Courses, NEW user \in Users,
             NEW role \in CourseRoles \cup {None},
             ChangeEnrollment(course, user, role)
      PROVE  UNCHANGED <<rateWindows, admitted>>
  BY <1>6 DEF ChangeEnrollment, authVars
<1>7. CASE Tick
  <2>1. /\ rateWindows'[k] = [rateWindows[k] EXCEPT !.left = Elapse(@)]
        /\ admitted'[k] = [a \in 0..Window - 1 |->
                             IF a = 0 THEN 0 ELSE admitted[k][a - 1]]
    BY <1>7 DEF Tick
  <2> QED BY <1>0, <2>1, TickAgrees
<1>8. CASE UNCHANGED vars
  BY <1>1, <1>8 DEF vars, authVars
<1> QED BY <1>1, <1>3, <1>4, <1>5, <1>6, <1>7, <1>8 DEF Next

\* Every window agrees with what it admitted in every reachable state.
THEOREM WindowsAgree == Spec => [](TypeOK /\ WindowInv)
<1>1. Init => WindowInv
  <2> SUFFICES ASSUME Init, NEW k \in Keys
               PROVE  CountsAgree(rateWindows[k], admitted[k], Limit[k[1]])
    BY DEF WindowInv
  <2>1. /\ rateWindows[k].left = 0
        /\ \A a \in 0..Window - 1 : admitted[k][a] = 0
    BY DEF Init
  <2>2. Limit[k[1]] # NaN =>
          Share(Limit[k[1]]) \in Nat /\ Share(Limit[k[1]]) >= 1
    BY LimitAssumption DEF Keys, Share
  <2> QED BY <2>1, <2>2 DEF CountsAgree
<1>2. Safe => TypeOK
  BY DEF Safe
<1> QED BY <1>1, <1>2, WindowStep, SafeInit, SafeStep, PTL DEF Spec

\* However calls are timed, fewer than twice the limit are admitted within
\* any span of one window (assertWithinRateLimit).
THEOREM AdmissionHolds == Spec => []AdmissionBounded
<1>1. TypeOK /\ WindowInv => AdmissionBounded
  <2> SUFFICES ASSUME TypeOK, WindowInv, NEW role \in Roles, NEW user \in Users,
                      Limit[role] # NaN
               PROVE  AdmittedLately(<<role, user>>) <=
                        (IF Limit[role] = 0 THEN 1 ELSE 2 * Limit[role] - 1)
    BY DEF AdmissionBounded
  <2> DEFINE k == <<role, user>>
             limit == Limit[role]
             w == rateWindows[k]
             last == Window - 1
  <2>1. /\ k \in Keys /\ k[1] = role
        /\ limit \in Nat
    BY LimitAssumption DEF Keys
  <2>2. /\ w \in [left : 0..Window, count : Nat]
        /\ admitted[k] \in [0..last -> Nat]
        /\ CountsAgree(w, admitted[k], limit)
    BY <2>1 DEF TypeOK, WindowInv
  <2>3. /\ last \in 0..last /\ Window \in Nat /\ last = Window - 1
        /\ limit # NaN
    BY BoundsAssumption
  <2> HIDE DEF k, limit, w, last
  <2>4. /\ w.left \in 0..Window /\ w.count \in Nat
        /\ admitted[k][last] \in Nat
    BY <2>2, <2>3
  <2>5. Share(limit) = IF limit = 0 THEN 1 ELSE limit
    BY DEF Share
  <2>6. CASE w.left = 0
    <3>1. admitted[k][last] <= Share(limit) - 1
      BY <2>2, <2>3, <2>6 DEF CountsAgree
    <3> QED BY <2>1, <2>4, <2>5, <3>1 DEF AdmittedLately, k, limit, last
  <2>7. CASE w.left # 0
    <3>1. w.left > 0 /\ last >= Window - w.left
      BY <2>3, <2>4, <2>7
    <3>2. /\ w.count <= Share(limit)
          /\ admitted[k][last] <= w.count + Share(limit) - 1
      BY <2>2, <2>3, <3>1 DEF CountsAgree
    <3> QED BY <2>1, <2>4, <2>5, <3>2 DEF AdmittedLately, k, limit, last
  <2> QED BY <2>6, <2>7
<1> QED BY <1>1, WindowsAgree, PTL
\* Of the steps that refuse a call, only the one the rate limit takes writes
\* "rate", and only while the caller's window has counted up to its limit.
LEMMA RateDenial ==
  ASSUME TypeOK, [Next]_vars, NEW c \in Calls, pc[c] = "new",
         pc'[c] = "denied", trail'[Len(trail')].reason = "rate"
  PROVE  identity'[c] \in Identity /\ RateLimited(identity'[c])
<1>1. ASSUME NEW d \in Calls, NEW q \in ToolRequests, CheckAuthorization(d, q)
      PROVE  identity'[c] \in Identity /\ RateLimited(identity'[c])
  <2> DEFINE id == ParsedIdentity(q)
  <2>1. \/ DenyRate(d, id) \/ DenyFerpa(d, q, id) \/ DenyRole(d, q, id)
        \/ Grant(d, q, id)
    BY <1>1 DEF CheckAuthorization
  <2>2. id \in Identity /\ identity' = [identity EXCEPT ![d] = id]
    BY <1>1, ParsedIsIdentity DEF CheckAuthorization
  <2>3. c = d
    <3>1. \E p : pc' = [pc EXCEPT ![d] = p]
      BY <1>1, CheckWrites
    <3> QED BY <3>1 DEF TypeOK
  <2> HIDE DEF id
  <2>4. ASSUME NEW event, NEW reason \in {"ferpa", "role", "none"},
               AuditLog(event, d, reason)
        PROVE  FALSE
    <3> DEFINE e == [event |-> event, call |-> d, reason |-> reason]
    <3>1. trail' = Append(trail, e) /\ e.reason # "rate"
      BY <2>4 DEF AuditLog
    <3>2. trail \in Seq(Entry \cup {e}) /\ e \in Entry \cup {e}
      BY DEF TypeOK
    <3> HIDE DEF e
    <3>3. trail'[Len(trail')] = e
      BY <3>1, <3>2, AppendProperties
    <3> QED BY <3>1, <3>3
  <2>5. RateLimited(id)
    BY <2>1, <2>4 DEF DenyRate, DenyFerpa, DenyRole, Grant, Deny
  <2> QED BY <2>2, <2>3, <2>5 DEF TypeOK
<1>2. ASSUME NEW d \in Calls, NEW q \in ToolRequests, RejectIdentity(d, q)
      PROVE  FALSE
  BY <1>2 DEF RejectIdentity, TypeOK
<1>3. ASSUME NEW d \in Calls,
             \/ LookupAnswered(d) \/ LookupFailed(d)
             \/ CheckCourseEntitlement(d) \/ Perform(d)
      PROVE  FALSE
  <2>1. pc[d] # "new" /\ \E p : pc' = [pc EXCEPT ![d] = p]
    BY <1>3 DEF LookupAnswered, LookupFailed, CheckCourseEntitlement, Deny,
                Perform
  <2> QED BY <2>1 DEF TypeOK
<1>4. ASSUME NEW course \in Courses, NEW user \in Users,
             NEW role \in CourseRoles \cup {None},
             ChangeEnrollment(course, user, role)
      PROVE  FALSE
  BY <1>4 DEF ChangeEnrollment, callVars
<1>5. CASE Tick \/ UNCHANGED vars
  BY <1>5 DEF Tick, vars, callVars
<1> QED BY <1>1, <1>2, <1>3, <1>4, <1>5 DEF Next

\* A caller is refused for its rate only after its own admitted calls used up
\* the limit within one window (assertWithinRateLimit).
THEOREM RateDenialsDeserved == Spec => RateDenialDeserved
<1>1. ASSUME TypeOK /\ WindowInv, [Next]_vars
      PROVE  [\A c \in Calls :
                (/\ pc[c] = "new" /\ pc'[c] = "denied"
                 /\ trail'[Len(trail')].reason = "rate")
                => AdmittedLately(KeyOf(identity'[c]))
                     >= Limit[identity'[c].role]]_vars
  <2> SUFFICES ASSUME NEW c \in Calls, pc[c] = "new", pc'[c] = "denied",
                      trail'[Len(trail')].reason = "rate"
               PROVE  AdmittedLately(KeyOf(identity'[c]))
                        >= Limit[identity'[c].role]
    OBVIOUS
  <2>1. PICK id \in Identity : id = identity'[c] /\ RateLimited(id)
    BY <1>1, RateDenial
  <2> DEFINE k == KeyOf(id)
             w == rateWindows[k]
             limit == Limit[id.role]
             last == Window - 1
  <2>2. k \in Keys /\ k[1] = id.role
    BY DEF KeyOf, Keys, Identity
  <2>3. /\ w \in [left : 0..Window, count : Nat]
        /\ admitted[k] \in [0..last -> Nat]
        /\ CountsAgree(w, admitted[k], limit)
        /\ limit \in Nat \cup {NaN}
    BY <1>1, <2>2, LimitAssumption DEF TypeOK, WindowInv, Identity
  <2>4. w.left > 0 /\ limit # NaN /\ w.count >= limit
    BY <2>1 DEF RateLimited, LimitReached
  <2>5. last \in 0..last /\ Window \in Nat /\ last = Window - 1
    BY BoundsAssumption
  <2>6. AdmittedLately(k) = admitted[k][last]
    BY DEF AdmittedLately
  <2> HIDE DEF k, w, limit, last
  <2>7. w.left \in 0..Window /\ w.count \in Nat /\ admitted[k][last] \in Nat
    BY <2>3, <2>5
  <2>8. last >= Window - w.left
    BY <2>4, <2>5, <2>7
  <2>9. admitted[k][last] >= w.count
    BY <2>3, <2>4, <2>5, <2>8 DEF CountsAgree
  <2>10. admitted[k][last] >= limit
    BY <2>3, <2>4, <2>7, <2>9
  <2> QED BY <2>1, <2>6, <2>10 DEF k, limit
<1> QED BY <1>1, WindowsAgree, PTL DEF Spec, RateDenialDeserved

-----------------------------------------------------------------------------
(* Paging through the trail.                                               *)

After(S, i) == {j \in S : j > i}

\* The fewer elements of a set come after an element the later it is.
LEMMA AfterOrder ==
  ASSUME NEW S \in SUBSET Nat, IsFiniteSet(S), NEW i \in Nat, NEW j \in Nat
  PROVE  /\ IsFiniteSet(After(S, i)) /\ Cardinality(After(S, i)) \in Nat
         /\ i <= j => Cardinality(After(S, j)) <= Cardinality(After(S, i))
         /\ i < j /\ j \in S => Cardinality(After(S, j)) < Cardinality(After(S, i))
<1>1. \A n \in Nat : /\ After(S, n) \in SUBSET S
                     /\ IsFiniteSet(After(S, n))
                     /\ Cardinality(After(S, n)) \in Nat
  <2> SUFFICES ASSUME NEW n \in Nat
               PROVE  /\ After(S, n) \in SUBSET S
                      /\ IsFiniteSet(After(S, n))
                      /\ Cardinality(After(S, n)) \in Nat
    OBVIOUS
  <2>1. After(S, n) \in SUBSET S
    BY DEF After
  <2> QED BY <2>1, FS_Subset, FS_CardinalityType
<1>2. ASSUME i <= j
      PROVE  Cardinality(After(S, j)) <= Cardinality(After(S, i))
  <2>1. \A k \in S : k > j => k > i
    BY <1>2
  <2>2. After(S, j) \in SUBSET After(S, i)
    BY <2>1 DEF After
  <2> QED BY <1>1, <2>2, FS_Subset
<1>3. ASSUME i < j, j \in S
      PROVE  Cardinality(After(S, j)) < Cardinality(After(S, i))
  <2>0. ~(j > j) /\ \A k \in S : k > j => k > i
    BY <1>3
  <2>1. /\ After(S, j) \in SUBSET After(S, i)
        /\ j \in After(S, i) /\ j \notin After(S, j)
    BY <1>3, <2>0 DEF After
  <2>2. /\ Cardinality(After(S, j)) <= Cardinality(After(S, i))
        /\ Cardinality(After(S, j)) # Cardinality(After(S, i))
    BY <1>1, <2>1, FS_Subset
  <2> QED BY <1>1, <2>2
<1> QED BY <1>1, <1>2, <1>3

\* Moving a set of numbers does not change how many come after one.
LEMMA AfterShift ==
  ASSUME NEW S \in SUBSET Nat, NEW T \in SUBSET Nat, IsFiniteSet(S),
         NEW i \in Nat, NEW d \in Nat,
         \A n \in Nat : n > i => (n \in S <=> n + d \in T)
  PROVE  Cardinality(After(T, i + d)) = Cardinality(After(S, i))
<1> DEFINE A == After(S, i)
           B == After(T, i + d)
           f == [n \in A |-> n + d]
<1>1. IsFiniteSet(A)
  BY AfterOrder
<1>2. f \in [A -> B]
  <2>1. \A n \in S : n > i => n + d \in T /\ n + d > i + d
    OBVIOUS
  <2> QED BY <2>1 DEF After
<1>3. \A m, n \in A : f[m] = f[n] => m = n
  BY DEF After
<1>4. \A m \in B : \E n \in A : f[n] = m
  <2> SUFFICES ASSUME NEW m \in B PROVE \E n \in A : f[n] = m
    OBVIOUS
  <2>1. m - d \in Nat /\ m - d > i /\ (m - d) + d = m /\ m \in T
    BY DEF After
  <2>2. m - d \in A
    BY <2>1 DEF After
  <2> QED BY <2>1, <2>2
<1> HIDE DEF A, B, f
<1>5. f \in Bijection(A, B)
  BY <1>2, <1>3, <1>4, Fun_IsBij
<1> QED BY <1>1, <1>5, FS_Bijection DEF ExistsBijection, A, B

\* Where a sequence has an element of M.
Where(s, M) == {p \in DOMAIN s : s[p] \in M}

\* How many elements of M come after place p.
Place(s, M, p) == Cardinality(After(Where(s, M), p))

\* One page of the elements of M that lie beyond place first.
OnPage(s, first, M, offset, limit, p) ==
  p > first /\ Place(s, M, p) \in offset..(offset + limit - 1)

Page(s, first, M, offset, limit) ==
  {s[p] : p \in {p \in Where(s, M) : OnPage(s, first, M, offset, limit, p)}}

LEMMA WhereTypes ==
  ASSUME NEW S, NEW s \in Seq(S), NEW M
  PROVE  Where(s, M) \in SUBSET Nat /\ IsFiniteSet(Where(s, M))
<1>1. DOMAIN s = 1..Len(s) /\ Len(s) \in Nat
  BY LenProperties
<1>2. IsFiniteSet(1..Len(s))
  BY <1>1, FS_Interval
<1>3. Where(s, M) \in SUBSET (1..Len(s))
  BY <1>1 DEF Where
<1> QED BY <1>2, <1>3, FS_Subset

\* A page of the latest entries is a page of all of them.
LEMMA PageOfLatest ==
  ASSUME NEW S, NEW s \in Seq(S), NEW M, NEW offset, NEW limit
  PROVE  Page(Latest(s), 0, M, offset, limit)
           = Page(s, Len(s) - Kept(s), M, offset, limit)
<1> DEFINE b == Latest(s)
           d == Len(s) - Kept(s)
<1>1. /\ b \in Seq(S) /\ Len(b) = Kept(s) /\ Kept(s) \in Nat
      /\ d \in Nat /\ Len(s) \in Nat /\ Len(s) = d + Kept(s)
      /\ \A i \in 1..Kept(s) : b[i] = s[d + i]
  <2>1. /\ Kept(s) \in Nat /\ Kept(s) <= Len(s) /\ Len(s) \in Nat
        /\ b \in Seq(S) /\ Len(b) = Kept(s)
        /\ \A i \in 1..Kept(s) : b[i] = s[d + i]
    BY LatestProperties, LenProperties
  <2>2. d \in Nat /\ Len(s) = d + Kept(s)
    BY <2>1
  <2> QED BY <2>1, <2>2
<1>2. DOMAIN b = 1..Kept(s) /\ DOMAIN s = 1..Len(s)
  BY <1>1, LenProperties
<1> HIDE DEF b, d
<1>3. ASSUME NEW n \in Nat, n > 0
      PROVE  /\ n \in Where(b, M) <=> n + d \in Where(s, M)
             /\ n \in DOMAIN b => b[n] = s[n + d]
  <2>1. n \in 1..Kept(s) <=> n + d \in 1..Len(s)
    BY <1>1, <1>3
  <2>2. n \in 1..Kept(s) => b[n] = s[n + d]
    <3>1. d + n = n + d
      BY <1>1
    <3> QED BY <1>1, <3>1
  <2> QED BY <1>2, <2>1, <2>2 DEF Where
<1>4. ASSUME NEW n \in Nat, n > 0
      PROVE  Place(s, M, n + d) = Place(b, M, n)
  <2>1. \A k \in Nat : k > n => (k \in Where(b, M) <=> k + d \in Where(s, M))
    <3> SUFFICES ASSUME NEW k \in Nat, k > n
                 PROVE  k \in Where(b, M) <=> k + d \in Where(s, M)
      OBVIOUS
    <3>1. k > 0
      BY <1>4
    <3> QED BY <1>3, <3>1
  <2>2. /\ Where(b, M) \in SUBSET Nat /\ IsFiniteSet(Where(b, M))
        /\ Where(s, M) \in SUBSET Nat
    BY <1>1, WhereTypes
  <2>3. d \in Nat
    BY <1>1
  <2>4. Cardinality(After(Where(s, M), n + d)) = Cardinality(After(Where(b, M), n))
    BY <2>1, <2>2, <2>3, AfterShift
  <2> QED BY <2>4 DEF Place
<1>5. \A n \in Where(b, M) :
        /\ n \in Nat /\ n > 0 /\ n + d \in Where(s, M) /\ n + d > d
        /\ b[n] = s[n + d] /\ Place(s, M, n + d) = Place(b, M, n)
  <2> SUFFICES ASSUME NEW n \in Where(b, M)
               PROVE  /\ n \in Nat /\ n > 0 /\ n + d \in Where(s, M) /\ n + d > d
                      /\ b[n] = s[n + d] /\ Place(s, M, n + d) = Place(b, M, n)
    OBVIOUS
  <2>1. n \in DOMAIN b /\ n \in Nat /\ n > 0
    BY <1>1, <1>2 DEF Where
  <2>2. n + d \in Where(s, M) /\ b[n] = s[n + d]
    BY <1>3, <2>1
  <2>3. Place(s, M, n + d) = Place(b, M, n)
    BY <1>4, <2>1
  <2>4. n + d > d
    BY <1>1, <2>1
  <2> QED BY <2>1, <2>2, <2>3, <2>4
<1>6. \A p \in Where(s, M) : p > d => \E n \in Where(b, M) : p = n + d
  <2> SUFFICES ASSUME NEW p \in Where(s, M), p > d
               PROVE  \E n \in Where(b, M) : p = n + d
    OBVIOUS
  <2>1. p \in Nat
    BY <1>1, <1>2 DEF Where
  <2>2. p - d \in Nat /\ p - d > 0 /\ p = (p - d) + d
    BY <1>1, <2>1
  <2> QED BY <1>3, <2>2
<1>7. Page(b, 0, M, offset, limit) = Page(s, d, M, offset, limit)
  BY <1>5, <1>6 DEF Page, OnPage
<1> QED BY <1>7 DEF b, d

\* More elements move all older ones of M by the same number of places.
LEMMA PlacesMove ==
  ASSUME NEW S, NEW s \in Seq(S), NEW t \in Seq(S), NEW M,
         Len(s) <= Len(t), \A p \in 1..Len(s) : s[p] = t[p]
  PROVE  /\ Where(s, M) = {p \in Where(t, M) : p <= Len(s)}
         /\ \E d \in Nat : \A p \in Where(s, M) :
              Place(t, M, p) = Place(s, M, p) + d
<1> DEFINE n == Len(s)
           F == Where(s, M)
           G == Where(t, M)
           d == Cardinality(After(G, n))
<1>1. /\ DOMAIN s = 1..n /\ DOMAIN t = 1..Len(t) /\ n \in Nat
      /\ Len(t) \in Nat /\ n <= Len(t)
  BY LenProperties
<1>2. /\ F \in SUBSET Nat /\ IsFiniteSet(F)
      /\ G \in SUBSET Nat /\ IsFiniteSet(G)
  BY WhereTypes
<1>3. F = {p \in G : p <= n}
  <2>1. \A p : p \in 1..n <=> p \in 1..Len(t) /\ p <= n
    BY <1>1
  <2> QED BY <1>1, <2>1 DEF Where
<1> HIDE DEF F, G
<1>4. d \in Nat /\ IsFiniteSet(After(G, n))
  BY <1>1, <1>2, AfterOrder
<1>5. ASSUME NEW p \in F
      PROVE  Cardinality(After(G, p)) = Cardinality(After(F, p)) + d
  <2>1. p \in Nat /\ p <= n
    BY <1>2, <1>3
  <2>2. /\ IsFiniteSet(After(F, p)) /\ Cardinality(After(F, p)) \in Nat
    BY <1>2, <2>1, AfterOrder
  <2>3. \A q \in G : q > p <=> (q <= n /\ q > p) \/ q > n
    BY <1>1, <1>2, <2>1
  <2>4. \A q \in G : ~(q <= n /\ q > n)
    BY <1>1, <1>2
  <2>5. After(G, p) = After(F, p) \cup After(G, n)
    BY <1>3, <2>3 DEF After
  <2>6. After(F, p) \cap After(G, n) = {}
    BY <1>3, <2>4 DEF After
  <2>7. Cardinality(After(F, p) \cup After(G, n))
          = Cardinality(After(F, p)) + Cardinality(After(G, n)) - 0
    BY <1>4, <2>2, <2>6, FS_Union, FS_EmptySet
  <2> QED BY <1>4, <2>2, <2>5, <2>7
<1>6. \E e \in Nat : \A p \in F :
        Cardinality(After(G, p)) = Cardinality(After(F, p)) + e
  BY <1>4, <1>5
<1> QED BY <1>3, <1>6 DEF Place, F, G

\* A set of numbers has a least one.
LEMMA LeastNumber ==
  ASSUME NEW T \in SUBSET Nat, T # {}
  PROVE  \E x \in T : \A y \in T : x <= y
<1> DEFINE R == OpToRel(<, Nat)
<1>1. IsWellFoundedOn(R, Nat)
  BY NatLessThanWellFounded
<1>2. \A x, y \in Nat : x < y => <<x, y>> \in R
  BY DEF OpToRel
<1> HIDE DEF R
<1>3. PICK x \in T : \A y \in T : ~(<<y, x>> \in R)
  BY <1>1, WFMin
<1>4. \A y \in T : x \in Nat /\ y \in Nat /\ ~(y < x)
  BY <1>2, <1>3
<1> QED BY <1>4

\* If at least n elements of a set come after j, exactly n come after one of
\* its elements that is not before j.
LEMMA PlaceReached ==
  ASSUME NEW S \in SUBSET Nat, IsFiniteSet(S), NEW j \in S, NEW n \in Nat,
         Cardinality(After(S, j)) >= n
  PROVE  \E r \in S : r >= j /\ Cardinality(After(S, r)) = n
<1> DEFINE C(p) == Cardinality(After(S, p))
           A == {p \in S : p >= j /\ C(p) >= n}
           V == {C(p) : p \in A}
<1>1. \A p \in S : p \in Nat /\ C(p) \in Nat /\ IsFiniteSet(After(S, p))
  BY AfterOrder
<1>2. j \in A
  BY <1>1
<1>3. V \in SUBSET Nat /\ V # {}
  BY <1>1, <1>2
<1> HIDE DEF V
<1>4. PICK v \in V : \A w \in V : v <= w
  BY <1>3, LeastNumber
<1>5. PICK r \in A : v = C(r)
  BY <1>4 DEF V
<1>6. r \in S /\ r >= j /\ C(r) >= n /\ r \in Nat
  BY <1>1
<1>7. ASSUME C(r) > n PROVE FALSE
  <2>1. After(S, r) # {}
    BY <1>7, FS_EmptySet, <1>1, <1>6
  <2>2. After(S, r) \in SUBSET Nat
    BY DEF After
  <2>3. PICK q \in After(S, r) : \A p \in After(S, r) : q <= p
    BY <2>1, <2>2, LeastNumber
  <2>4. q \in S /\ q > r /\ q \in Nat
    BY <2>2 DEF After
  <2>5. After(S, q) = After(S, r) \ {q}
    <3>1. \A p \in S : p > q <=> p > r /\ p # q
      <4> SUFFICES ASSUME NEW p \in S PROVE p > q <=> p > r /\ p # q
        OBVIOUS
      <4>1. p > r => q <= p
        BY <2>3 DEF After
      <4> QED BY <1>1, <1>6, <2>4, <4>1
    <3> QED BY <3>1 DEF After
  <2>6. C(q) = C(r) - 1
    <3>1. IsFiniteSet(After(S, r)) /\ q \in After(S, r)
      BY <1>1, <1>6
    <3>2. Cardinality(After(S, r) \ {q}) = Cardinality(After(S, r)) - 1
      BY <3>1, FS_RemoveElement
    <3> QED BY <2>5, <3>2
  <2>7. C(q) \in Nat /\ C(q) >= n /\ q >= j /\ C(q) < C(r)
    BY <1>1, <1>6, <1>7, <2>4, <2>6
  <2>8. C(q) \in V
    BY <2>4, <2>7 DEF V
  <2> HIDE DEF C
  <2>9. v <= C(q) /\ v = C(r) /\ C(r) \in Nat
    BY <1>1, <1>4, <1>5, <1>6, <2>8
  <2> QED BY <2>7, <2>9
<1> HIDE DEF C
<1>8. C(r) = n
  BY <1>1, <1>6, <1>7
<1> QED BY <1>6, <1>8 DEF C

\* A page is full if an element of M comes after its last place.
LEMMA PageFull ==
  ASSUME NEW S, NEW t \in Seq(S), NEW M,
         \A p, q \in DOMAIN t : t[p] = t[q] => p = q,
         NEW first \in Nat, NEW next \in Nat, NEW limit \in Nat,
         NEW j \in Where(t, M), j > first, Place(t, M, j) >= next + limit
  PROVE  ~(Cardinality(Page(t, first, M, next, limit)) < limit)
<1> DEFINE G == Where(t, M)
           Q(p) == Place(t, M, p)
<1>1. G \in SUBSET Nat /\ IsFiniteSet(G)
  BY WhereTypes
<1>2. \A p \in G : p \in Nat /\ Q(p) \in Nat /\ IsFiniteSet(After(G, p))
  BY <1>1, AfterOrder DEF Place
<1>3. \A p, q \in G : (p <= q => Q(q) <= Q(p)) /\ (p < q => Q(q) < Q(p))
  BY <1>1, <1>2, AfterOrder DEF Place
<1>4. next + limit \in Nat /\ next <= next + limit
  OBVIOUS
<1>5. PICK r \in G : r >= j /\ Q(r) = next
  <2>1. Cardinality(After(G, j)) >= next
    BY <1>2, <1>4 DEF Place
  <2> QED BY <1>1, <2>1, PlaceReached DEF Place
<1>6. PICK p \in G : p >= j /\ Q(p) = next + limit
  <2>1. Cardinality(After(G, j)) >= next + limit
    BY DEF Place
  <2> QED BY <1>1, <1>4, <2>1, PlaceReached DEF Place
<1> HIDE DEF Q
<1>7. p <= r
  BY <1>2, <1>3, <1>4, <1>5, <1>6
<1> DEFINE Mid == {q \in G : p < q /\ q <= r}
           P == Page(t, first, M, next, limit)
           f == [q \in Mid |-> t[q]]
<1>8. IsFiniteSet(Mid) /\ Cardinality(Mid) = limit
  <2>1. \A q \in G : q > p <=> (p < q /\ q <= r) \/ q > r
    BY <1>2, <1>7
  <2>2. After(G, p) = Mid \cup After(G, r)
    BY <2>1 DEF After
  <2>3. \A q \in G : ~(q <= r /\ q > r)
    BY <1>2
  <2>4. Mid \cap After(G, r) = {}
    BY <2>3 DEF After
  <2>5. IsFiniteSet(Mid) /\ Cardinality(Mid) \in Nat
    BY <1>1, FS_Subset, FS_CardinalityType
  <2>6. Cardinality(Mid \cup After(G, r))
          = Cardinality(Mid) + Cardinality(After(G, r)) - 0
    <3>1. IsFiniteSet(After(G, r)) /\ Cardinality(Mid \cap After(G, r)) = 0
      BY <1>2, <2>4, FS_EmptySet
    <3> HIDE DEF Mid
    <3> QED BY <2>5, <3>1, FS_Union
  <2>7. Cardinality(After(G, p)) = next + limit /\ Cardinality(After(G, r)) = next
    BY <1>5, <1>6 DEF Q, Place
  <2> HIDE DEF Mid
  <2> QED BY <2>2, <2>5, <2>6, <2>7
<1>9. \A q \in Mid : q \in G /\ OnPage(t, first, M, next, limit, q)
  <2> SUFFICES ASSUME NEW q \in Mid
               PROVE  q \in G /\ OnPage(t, first, M, next, limit, q)
    OBVIOUS
  <2>1. q \in G /\ p < q /\ q <= r
    OBVIOUS
  <2>2. Q(q) < next + limit /\ next <= Q(q) /\ Q(q) \in Nat
    BY <1>2, <1>3, <1>5, <1>6, <2>1
  <2>3. Q(q) \in next..(next + limit - 1)
    BY <2>2
  <2>4. q > first
    <3>1. q \in Nat /\ p \in Nat /\ j \in Nat
      BY <1>2, <2>1
    <3> QED BY <1>6, <2>1, <3>1
  <2> QED BY <2>1, <2>3, <2>4 DEF OnPage, Q
<1>10. \A q \in Mid : q \in DOMAIN t
  BY DEF Where
<1> HIDE DEF Mid
<1>11. f \in Injection(Mid, P)
  <2>1. f \in [Mid -> P]
    BY <1>9 DEF Page
  <2>2. \A q, u \in Mid : f[q] = f[u] => q = u
    BY <1>10
  <2> HIDE DEF f, P
  <2> QED BY <2>1, <2>2, Fun_IsInj
<1>12. IsFiniteSet(P) /\ Cardinality(P) \in Nat
  <2>1. IsFiniteSet({q \in G : OnPage(t, first, M, next, limit, q)})
    BY <1>1, FS_Subset
  <2> DEFINE D == {q \in G : OnPage(t, first, M, next, limit, q)}
             g == [q \in D |-> t[q]]
  <2>2. g \in Surjection(D, P)
    <3>1. g \in [D -> P]
      BY DEF Page
    <3>2. \A y \in P : \E x \in D : g[x] = y
      BY DEF Page
    <3> HIDE DEF g, D, P
    <3> QED BY <3>1, <3>2, Fun_IsSurj
  <2>3. IsFiniteSet(D)
    BY <2>1
  <2> HIDE DEF g, D, P
  <2> QED BY <2>2, <2>3, FS_Surjection, FS_CardinalityType
<1>13. Cardinality(Mid) <= Cardinality(P)
  <2> HIDE DEF f, P
  <2> QED BY <1>8, <1>11, <1>12, FS_Injection
<1> QED
  <2> HIDE DEF P
  <2>1. ~(Cardinality(P) < limit)
    BY <1>8, <1>12, <1>13
  <2> QED BY <2>1 DEF P

\* The next page, read after more elements came, meets the page before it.
LEMMA PagesMeet ==
  ASSUME NEW S, NEW s \in Seq(S), NEW t \in Seq(S), NEW M,
         Len(s) <= Len(t), \A p \in 1..Len(s) : s[p] = t[p],
         \A p, q \in DOMAIN t : t[p] = t[q] => p = q,
         NEW first \in Nat, NEW later \in Nat, first <= later,
         NEW offset \in Nat, NEW limit \in Nat \ {0},
         NEW next, next = offset + limit,
         NEW k \in Where(s, M), OnPage(s, first, M, offset, limit, k),
         NEW j \in Where(t, M), j <= k,
         \/ \E i \in Where(t, M) : i <= j /\ OnPage(t, later, M, next, limit, i)
         \/ /\ Cardinality(Page(t, later, M, next, limit)) < limit
            /\ j > later
  PROVE  \/ j \in Where(s, M) /\ OnPage(s, first, M, offset, limit, j)
         \/ OnPage(t, later, M, next, limit, j)
<1> DEFINE P(p) == Place(s, M, p)
           Q(p) == Place(t, M, p)
<1>1. Where(s, M) = {p \in Where(t, M) : p <= Len(s)}
  BY PlacesMove
<1>2. PICK d \in Nat : \A p \in Where(s, M) : Q(p) = P(p) + d
  BY PlacesMove
<1>3. /\ Where(s, M) \in SUBSET Nat /\ IsFiniteSet(Where(s, M))
      /\ Where(t, M) \in SUBSET Nat /\ IsFiniteSet(Where(t, M))
      /\ Len(s) \in Nat
  BY WhereTypes, LenProperties
<1>4. \A p \in Where(t, M) : p \in Nat /\ Q(p) \in Nat
  BY <1>3, AfterOrder DEF Place
<1>5. \A p \in Where(s, M) : p \in Nat /\ P(p) \in Nat
  BY <1>3, AfterOrder DEF Place
<1>6. \A p, q \in Where(t, M) : p <= q => Q(q) <= Q(p)
  BY <1>3, <1>4, AfterOrder DEF Place
<1>7. \A p, q \in Where(s, M) : p <= q => P(q) <= P(p)
  BY <1>3, <1>5, AfterOrder DEF Place
<1>8. k > first /\ P(k) \in offset..(offset + limit - 1)
  BY DEF OnPage
<1>9. j \in Where(s, M)
  BY <1>1, <1>3, <1>4
<1>10. /\ offset <= P(j) /\ Q(j) = P(j) + d
       /\ j \in Nat /\ P(j) \in Nat /\ Q(j) \in Nat
  BY <1>2, <1>4, <1>5, <1>7, <1>8, <1>9
<1>11. j > later
  <2>1. ASSUME NEW i \in Where(t, M), i <= j,
               OnPage(t, later, M, next, limit, i)
        PROVE  j > later
    <3>1. i > later /\ i \in Nat
      BY <1>4, <2>1 DEF OnPage
    <3> QED BY <1>10, <2>1, <3>1
  <2> QED BY <2>1
<1>12. Q(j) < next + limit
  <2>1. ASSUME NEW i \in Where(t, M), i <= j,
               OnPage(t, later, M, next, limit, i)
        PROVE  Q(j) < next + limit
    <3>1. Q(i) \in next..(next + limit - 1)
      BY <2>1 DEF OnPage
    <3>2. Q(j) <= Q(i) /\ Q(i) \in Nat
      BY <1>4, <1>6, <2>1
    <3> HIDE DEF Q
    <3> QED BY <1>10, <3>1, <3>2
  <2>2. ASSUME Cardinality(Page(t, later, M, next, limit)) < limit,
               Q(j) >= next + limit
        PROVE  FALSE
    <3>1. next \in Nat /\ limit \in Nat
      OBVIOUS
    <3> QED BY <1>11, <2>2, <3>1, PageFull
  <2>3. next + limit \in Nat
    OBVIOUS
  <2> HIDE DEF Q
  <2> QED BY <1>10, <2>1, <2>2, <2>3
<1>13. j > first
  BY <1>10, <1>11
<1> HIDE DEF P, Q
<1>14. CASE P(j) < next
  <2>1. P(j) \in offset..(offset + limit - 1)
    BY <1>10, <1>14
  <2> QED BY <1>9, <1>13, <2>1 DEF P, OnPage
<1>15. CASE ~(P(j) < next)
  <2>1. Q(j) \in next..(next + limit - 1)
    BY <1>10, <1>12, <1>15
  <2> QED BY <1>11, <2>1 DEF Q, OnPage
<1> QED BY <1>14, <1>15

\* The entries that a query matches.
Matching(query) == {e \in Entry : Matches(e, query)}

\* A page read from the latest of some entries is a page of them all.
LEMMA PageOfEntries ==
  ASSUME NEW s \in Seq(Entry), NEW query \in AuditQuery,
         NEW offset \in Nat, NEW limit \in Nat
  PROVE  LocalAuditLogEntries(Latest(s), query, offset, limit)
           = Page(s, Len(s) - Kept(s), Matching(query), offset, limit)
<1> DEFINE M == Matching(query)
           b == Latest(s)
<1>1. b \in Seq(Entry)
  BY LatestProperties
<1>2. Page(b, 0, M, offset, limit) = Page(s, Len(s) - Kept(s), M, offset, limit)
  BY PageOfLatest
<1> HIDE DEF b
<1>3. Filtered(b, query) = Where(b, M)
  <2>1. \A i \in DOMAIN b : b[i] \in Entry
    BY <1>1, ElementOfSeq, LenProperties
  <2> QED BY <2>1 DEF Filtered, Where, Matching
<1>4. \A i \in Filtered(b, query) : i > 0
  <2>1. DOMAIN b = 1..Len(b)
    BY <1>1, LenProperties
  <2> QED BY <2>1 DEF Filtered
<1>5. LocalAuditLogEntries(b, query, offset, limit) = Page(b, 0, M, offset, limit)
  <2>1. LocalAuditLogEntries(b, query, offset, limit)
          = {b[i] : i \in {i \in Filtered(b, query) :
               Cardinality(After(Filtered(b, query), i))
                 \in offset..(offset + limit - 1)}}
    BY DEF LocalAuditLogEntries, After
  <2> HIDE DEF M
  <2> QED BY <1>3, <1>4, <2>1 DEF Page, OnPage, Place
<1> QED BY <1>2, <1>5 DEF b

\* No two entries of the trail are the same.
AllDiffer ==
  \A i, j \in DOMAIN trail : trail[i] = trail[j] => i = j

LEMMA EntriesDiffer == TypeOK /\ AuditMatchesOutcome => AllDiffer
<1> SUFFICES ASSUME TypeOK, AuditMatchesOutcome, NEW i \in DOMAIN trail,
                    NEW j \in DOMAIN trail, trail[i] = trail[j]
             PROVE  i = j
  BY DEF AllDiffer
<1> DEFINE c == trail[i].call
<1>1. c \in Calls
  <2>1. trail[i] \in Entry
    BY ElementOfSeq, LenProperties DEF TypeOK
  <2> QED BY <2>1 DEF Entry
<1>2. i \in Entries(c) /\ j \in Entries(c)
  BY DEF Entries
<1> HIDE DEF c
<1>3. Told(c) /\ pc[c] \in {"new", "rejected"} \cup Parsed
  BY <1>1 DEF AuditMatchesOutcome, Told, TypeOK
<1>4. CASE pc[c] = "denied"
  BY <1>2, <1>3, <1>4 DEF Told
<1>5. CASE pc[c] # "denied"
  BY <1>2, <1>3, <1>5 DEF Told
<1> QED BY <1>4, <1>5

\* Paging through the audit trail skips no entry between two pages, however
\* many entries were recorded between the two readings
\* (getLocalAuditLogEntries, recordAuditLogEntry).
LEMMA PagesOfTrail == Safe /\ AuditMatchesOutcome => PagingSkipsNothing
<1> SUFFICES ASSUME Safe, AuditMatchesOutcome,
                    NEW m \in DOMAIN trail, NEW query \in AuditQuery,
                    NEW offset \in 0..(Len(BufferAt(m)) - 1),
                    NEW limit \in PageSizes,
                    NEW k \in DOMAIN trail, NEW j \in 1..k,
                    trail[k] \in
                      LocalAuditLogEntries(BufferAt(m), query, offset, limit),
                    Matches(trail[j], query),
                    LET next == LocalAuditLogEntries(auditLogBuffer, query,
                                                     offset + limit, limit)
                    IN  \/ \E i \in 1..j : trail[i] \in next
                        \/ /\ Cardinality(next) < limit
                           /\ j > Len(trail) - Len(auditLogBuffer)
             PROVE  \/ trail[j] \in
                         LocalAuditLogEntries(BufferAt(m), query, offset, limit)
                    \/ trail[j] \in
                         LocalAuditLogEntries(auditLogBuffer, query,
                                              offset + limit, limit)
  BY DEF PagingSkipsNothing
<1> DEFINE t == trail
           s == SubSeq(t, 1, m)
           M == Matching(query)
           next == offset + limit
           first == Len(s) - Kept(s)
           later == Len(t) - Kept(t)
<1>1. /\ t \in Seq(Entry) /\ auditLogBuffer = Latest(t)
      /\ DOMAIN t = 1..Len(t) /\ Len(t) \in Nat
      /\ m \in 1..Len(t) /\ k \in 1..Len(t) /\ j \in 1..Len(t)
      /\ \A p \in 1..Len(t) : t[p] \in Entry
  <2>1. t \in Seq(Entry) /\ auditLogBuffer = Latest(t)
    BY DEF Safe, TypeOK, BufferIsLatestTrail
  <2>2. /\ DOMAIN t = 1..Len(t) /\ Len(t) \in Nat
        /\ \A p \in 1..Len(t) : t[p] \in Entry
    BY <2>1, LenProperties, ElementOfSeq
  <2> QED BY <2>1, <2>2
<1>2. \A p, q \in DOMAIN t : t[p] = t[q] => p = q
  BY EntriesDiffer DEF AllDiffer, Safe
<1> HIDE DEF t
<1>3. /\ s \in Seq(Entry) /\ Len(s) = m
      /\ \A p \in 1..Len(s) : s[p] = t[p]
  <2>1. /\ s \in Seq(Entry)
        /\ Len(s) = IF 1 <= m THEN m - 1 + 1 ELSE 0
        /\ \A p \in 1..m - 1 + 1 : s[p] = t[1 + p - 1]
    <3>1. m \in Int /\ 1 \in Int /\ \A i \in 1..m : t[i] \in Entry
      BY <1>1
    <3> QED BY <1>1, <3>1, SubSeqProperties
  <2>2. Len(s) = m
    BY <1>1, <2>1
  <2>3. \A p \in 1..m : s[p] = t[p]
    <3> SUFFICES ASSUME NEW p \in 1..m PROVE s[p] = t[p]
      OBVIOUS
    <3>1. p \in 1..m - 1 + 1 /\ 1 + p - 1 = p
      BY <1>1
    <3> QED BY <2>1, <3>1
  <2> QED BY <2>1, <2>2, <2>3
<1>4. /\ offset \in Nat /\ limit \in Nat \ {0} /\ next \in Nat
  <2>1. Len(BufferAt(m)) \in Nat
    BY <1>3, LatestProperties, LenProperties DEF BufferAt, t
  <2> QED BY <2>1, BoundsAssumption
<1>5. first \in Nat /\ later \in Nat /\ first <= later
  <2>1. /\ Kept(s) = IF m < Capacity THEN m ELSE Capacity
        /\ Kept(t) = IF Len(t) < Capacity THEN Len(t) ELSE Capacity
    BY <1>3 DEF Kept
  <2>2. Capacity \in Nat /\ m \in Nat /\ m <= Len(t) /\ Len(s) = m
    BY <1>1, <1>3, BoundsAssumption
  <2> QED BY <1>1, <2>1, <2>2
<1> DEFINE read == Page(s, first, M, offset, limit)
           new == Page(t, later, M, next, limit)
<1>6. /\ LocalAuditLogEntries(BufferAt(m), query, offset, limit) = read
      /\ LocalAuditLogEntries(auditLogBuffer, query, next, limit) = new
  <2>1. BufferAt(m) = Latest(s)
    BY DEF BufferAt, t
  <2>2. limit \in Nat
    BY <1>4
  <2>3. LocalAuditLogEntries(Latest(s), query, offset, limit) = read
    <3> HIDE DEF s
    <3> QED BY <1>3, <2>2, PageOfEntries
  <2>4. LocalAuditLogEntries(Latest(t), query, next, limit) = new
    <3> HIDE DEF next
    <3> QED BY <1>1, <1>4, <2>2, PageOfEntries
  <2> QED BY <1>1, <2>1, <2>3, <2>4
<1>7. Len(t) - Len(auditLogBuffer) = later
  BY <1>1, LatestProperties
<1> HIDE DEF s, M, next, first, later
<1>8. Where(s, M) \in SUBSET Where(t, M)
  BY <1>1, <1>3, PlacesMove
<1>9. k \in Where(s, M) /\ OnPage(s, first, M, offset, limit, k)
  <2>1. t[k] \in read
    BY <1>6 DEF t
  <2>2. PICK p \in Where(s, M) :
          t[k] = s[p] /\ OnPage(s, first, M, offset, limit, p)
    BY <2>1 DEF Page
  <2>3. p \in DOMAIN t /\ t[p] = s[p]
    <3>1. p \in DOMAIN s /\ DOMAIN s = 1..Len(s)
      BY <1>3, LenProperties DEF Where
    <3> QED BY <1>3, <1>8, <3>1 DEF Where
  <2>4. k = p
    BY <1>1, <1>2, <2>2, <2>3
  <2> QED BY <2>2, <2>4
<1>10. j \in Where(t, M) /\ j <= k
  BY <1>1 DEF Where, M, Matching, t
<1>11. \/ \E i \in Where(t, M) : i <= j /\ OnPage(t, later, M, next, limit, i)
       \/ Cardinality(new) < limit /\ j > later
  <2>1. \/ \E i \in 1..j : t[i] \in new
        \/ Cardinality(new) < limit /\ j > later
    <3> HIDE DEF new
    <3> QED BY <1>6, <1>7 DEF next, t
  <2>2. ASSUME NEW i \in 1..j, t[i] \in new
        PROVE  \E h \in Where(t, M) :
                 h <= j /\ OnPage(t, later, M, next, limit, h)
    <3>1. PICK p \in Where(t, M) :
            t[i] = t[p] /\ OnPage(t, later, M, next, limit, p)
      BY <2>2 DEF Page
    <3>2. i \in DOMAIN t /\ p \in DOMAIN t
      BY <1>1 DEF Where
    <3>3. i = p
      BY <1>2, <3>1, <3>2
    <3> QED BY <3>1, <3>3
  <2> HIDE DEF new
  <2> QED BY <2>1, <2>2
<1>12. \/ j \in Where(s, M) /\ OnPage(s, first, M, offset, limit, j)
       \/ OnPage(t, later, M, next, limit, j)
  <2>1. Len(s) <= Len(t) /\ next = offset + limit
    BY <1>1, <1>3 DEF next
  <2> QED BY <1>1, <1>2, <1>3, <1>4, <1>5, <1>9, <1>10, <1>11, <2>1, PagesMeet
<1>13. j \in Where(s, M) => s[j] = t[j]
  <2>1. DOMAIN s = 1..Len(s)
    BY <1>3, LenProperties
  <2> QED BY <1>3, <2>1 DEF Where
<1>14. t[j] \in read \/ t[j] \in new
  BY <1>10, <1>12, <1>13 DEF Page
<1> HIDE DEF read, new
<1> QED BY <1>6, <1>14 DEF t, next

\* An administrator who pages through the audit trail misses nothing that is
\* still there, however many entries came in between (PagingSkipsNothing).
THEOREM PagingHolds == Spec => []PagingSkipsNothing
<1> QED
  BY AuditTells, SafeInit, SafeStep, PagesOfTrail, PTL DEF Spec

=============================================================================
