---------------------------- MODULE Authorization ----------------------------
(***************************************************************************)
(* The authorization layer every tool handler goes through (src/auth.ts):  *)
(* parseIdentity, checkAuthorization (rate window, FERPA gate, role gate), *)
(* checkCourseEntitlement and the audit trail.                             *)
(*                                                                         *)
(* parseIdentity and checkAuthorization run without an await, so a call is *)
(* parsed, rate-limited, gated and logged in one step.  The entitlement    *)
(* check awaits a membership lookup, and the handler's work follows in     *)
(* later steps; other calls and changes of enrollment come in between.     *)
(*                                                                         *)
(* The code compares a window's startedAt only with Date.now(); a window   *)
(* is kept here as the time left until it is over, and an absent window as *)
(* one that is over.  Windows are never removed from the map.              *)
(***************************************************************************)
EXTENDS Integers, Sequences, FiniteSets, ToolPolicy

CONSTANTS
  Calls,          \* the tool calls of a behaviour, each made once
  Users,          \* user ids
  Courses,        \* course ids
  ToolRequests,   \* what clients may ask: [verified, claim, tool, course]
  CourseRoles,    \* Blackboard course-membership roles
  Limit,          \* config.security.rateLimitPerMinute, by role
  Window,         \* RATE_WINDOW_MS, in ticks
  Capacity,       \* AUDIT_LOG_CAPACITY
  PageSizes,      \* the limits with which clients read the audit trail
  None,           \* an absent value
  NaN             \* what parseInt makes of a limit that is not a number

Identity == [userId : Users, role : Roles, ferpa : BOOLEAN]
Claim == [userId : Users \cup {None}, role : Roles \cup {None},
          ferpa : BOOLEAN]
ToolRequest ==
  [verified : Identity \cup {None}, claim : Claim \cup {None},
   tool : STRING, course : Courses \cup {None}]

ASSUME RequestsAssumption == ToolRequests \subseteq ToolRequest
ASSUME LimitAssumption == NaN \notin Nat /\ Limit \in [Roles -> Nat \cup {NaN}]
ASSUME BoundsAssumption ==
  Window \in Nat \ {0} /\ Capacity \in Nat \ {0} /\ PageSizes \subseteq Nat \ {0}
ASSUME NoneAssumption ==
  /\ None \notin Users /\ None \notin Roles /\ None \notin Courses
  /\ None \notin Identity /\ None \notin Claim /\ None \notin CourseRoles
  /\ None \notin ToolRequest

Keys == Roles \X Users      \* the rate-window key `${role}:${userId}`

VARIABLES
  rateWindows,     \* rateWindows: time left and calls counted, by key
  auditLogBuffer,  \* auditLogBuffer: the ring buffer of audit entries
  pc,              \* where each call stands in its handler
  request,         \* what the call asked
  identity,        \* the CallerIdentity parseIdentity returned
  membership,      \* the course role the entitlement lookup answered
  enrolled,        \* external: Blackboard's course memberships
  trail,           \* history: every audit entry written to stdout
  managed,         \* history: the caller managed the course during the call
  admitted         \* history: calls admitted per key since a ticks ago, for each a

authVars == <<rateWindows, auditLogBuffer, trail, admitted>>
callVars == <<pc, request, identity, membership>>
vars == <<authVars, callVars, enrolled, managed>>

\* The entry's tool, subject, role, courseId and clientApp are the call's.
Entry == [event : {"access.granted", "access.denied"}, call : Calls,
          reason : {"rate", "ferpa", "role", "entitlement", "none"}]

Parsed == {"lookup", "looked", "authorized", "performed", "failed", "denied"}

TypeOK ==
  /\ rateWindows \in [Keys -> [left : 0..Window, count : Nat]]
  /\ auditLogBuffer \in Seq(Entry)
  /\ pc \in [Calls -> {"new", "rejected"} \cup Parsed]
  /\ request \in [Calls -> ToolRequests \cup {None}]
  /\ identity \in [Calls -> Identity \cup {None}]
  /\ membership \in [Calls -> CourseRoles \cup {None}]
  /\ enrolled \in [Courses \X Users -> CourseRoles \cup {None}]
  /\ trail \in Seq(Entry)
  /\ managed \in [Calls -> BOOLEAN]
  /\ admitted \in [Keys -> [0..Window - 1 -> Nat]]
  /\ \A c \in Calls : pc[c] \in Parsed =>
       request[c] \in ToolRequests /\ identity[c] \in Identity

Init ==
  /\ rateWindows = [k \in Keys |-> [left |-> 0, count |-> 0]]
  /\ auditLogBuffer = <<>>
  /\ pc = [c \in Calls |-> "new"]
  /\ request = [c \in Calls |-> None]
  /\ identity = [c \in Calls |-> None]
  /\ membership = [c \in Calls |-> None]
  /\ enrolled \in [Courses \X Users -> CourseRoles \cup {None}]
  /\ trail = <<>>
  /\ managed = [c \in Calls |-> FALSE]
  /\ admitted = [k \in Keys |-> [a \in 0..Window - 1 |-> 0]]

-----------------------------------------------------------------------------
(* parseIdentity                                                           *)

\* Only the fields a client sends can contradict the verified principal.
Contradicts(claim, verified) ==
  \/ claim.userId \notin {None, verified.userId}
  \/ claim.role \notin {None, verified.role}
  \/ claim.ferpa /\ ~verified.ferpa

Acceptable(q) ==
  /\ q.claim # None
  /\ IF q.verified # None
     THEN ~Contradicts(q.claim, q.verified)
     ELSE q.claim.userId # None /\ q.claim.role # None

ParsedIdentity(q) == IF q.verified # None THEN q.verified ELSE q.claim

-----------------------------------------------------------------------------
(* The audit trail.                                                        *)

\* Mutant: a full buffer drops the new entry instead of the oldest.
DropNewest(buffer, entry) ==
  IF Len(buffer) < Capacity THEN Append(buffer, entry) ELSE buffer

\* Every entry goes to stdout; the ring buffer keeps the latest Capacity.
RecordAuditLogEntry(buffer, entry) ==
  LET pushed == Append(buffer, entry)
  IN  IF Len(pushed) > Capacity
      THEN SubSeq(pushed, Len(pushed) - Capacity + 1, Len(pushed))
      ELSE pushed

AuditLog(event, c, reason) ==
  LET entry == [event |-> event, call |-> c, reason |-> reason]
  IN  /\ trail' = Append(trail, entry)
      /\ auditLogBuffer' = RecordAuditLogEntry(auditLogBuffer, entry)

\* What an administrator may ask of the trail.  The course, compared like the
\* user, and the dates, a range of the trail, are left out.
AuditQuery ==
  [event : {"access.granted", "access.denied", None}, user : Users \cup {None}]

Matches(entry, query) ==
  /\ query.event \in {None, entry.event}
  /\ query.user \in {None, identity[entry.call].userId}

\* Where a buffer has an entry that matches.
Filtered(buffer, query) == {i \in DOMAIN buffer : Matches(buffer[i], query)}

\* Mutant: slice(offset, limit), the end taken for a length.
SliceToLimit(buffer, query, offset, limit) ==
  LET filtered == Filtered(buffer, query)
      newer(i) == Cardinality({j \in filtered : j > i})
  IN  {buffer[i] : i \in {i \in filtered : newer(i) \in offset..(limit - 1)}}

\* The entries of one page of a buffer: an entry's place is the number of
\* matching entries that are newer than it.
LocalAuditLogEntries(buffer, query, offset, limit) ==
  LET filtered == Filtered(buffer, query)
      newer(i) == Cardinality({j \in filtered : j > i})
  IN  {buffer[i] : i \in
         {i \in filtered : newer(i) \in offset..(offset + limit - 1)}}

\* Mutant: a refusal is thrown without an audit entry.
DenyUnlogged(c, reason) ==
  /\ pc' = [pc EXCEPT ![c] = "denied"]
  /\ UNCHANGED <<auditLogBuffer, trail>>

Deny(c, reason) ==
  /\ AuditLog("access.denied", c, reason)
  /\ pc' = [pc EXCEPT ![c] = "denied"]

-----------------------------------------------------------------------------
(* assertWithinRateLimit                                                   *)

KeyOf(id) == <<id.role, id.userId>>

\* Mutant: one call more than the limit.
LimitExceeded(count, limit) == limit # NaN /\ count > limit

\* A comparison with NaN is false: such a limit is never reached.
LimitReached(count, limit) == limit # NaN /\ count >= limit

RateLimited(id) ==
  LET window == rateWindows[KeyOf(id)]
  IN  window.left > 0 /\ LimitReached(window.count, Limit[id.role])

\* Mutant: a new window starts with the count of the old one.
ChargeWithoutReset(window) ==
  [left |-> IF window.left = 0 THEN Window ELSE window.left,
   count |-> window.count + 1]

\* The first call of a window is admitted whatever the limit is.
Charged(window) ==
  IF window.left = 0 THEN [left |-> Window, count |-> 1]
  ELSE [window EXCEPT !.count = @ + 1]

ChargeWindow(id) ==
  /\ rateWindows' =
       [rateWindows EXCEPT ![KeyOf(id)] = Charged(rateWindows[KeyOf(id)])]
  /\ admitted' = [admitted EXCEPT ![KeyOf(id)] =
                    [a \in 0..Window - 1 |-> @[a] + 1]]

-----------------------------------------------------------------------------
(* One tool call.                                                          *)

FerpaRefused(id, tool) == tool \in RestrictedTools /\ ~id.ferpa

RoleRefused(id, tool) == id.role \notin AllowedRolesForTool(tool)

\* A handler that checks entitlement throws at once when the course id is
\* empty; role admin is exempt.
AfterGrant(id, q) ==
  IF q.tool \notin EntitlementTools \/ id.role = "admin" THEN "authorized"
  ELSE IF q.course = None THEN "failed" ELSE "lookup"

\* parseIdentity throws: nothing is counted and nothing is logged.
RejectIdentity(c, q) ==
  /\ pc[c] = "new"
  /\ ~Acceptable(q)
  /\ pc' = [pc EXCEPT ![c] = "rejected"]
  /\ UNCHANGED <<authVars, request, identity, membership, enrolled, managed>>

DenyRate(c, id) ==
  /\ RateLimited(id)
  /\ Deny(c, "rate")
  /\ UNCHANGED <<rateWindows, admitted>>

DenyFerpa(c, q, id) ==
  /\ ~RateLimited(id)
  /\ ChargeWindow(id)
  /\ FerpaRefused(id, q.tool)
  /\ Deny(c, "ferpa")

DenyRole(c, q, id) ==
  /\ ~RateLimited(id)
  /\ ChargeWindow(id)
  /\ ~FerpaRefused(id, q.tool)
  /\ RoleRefused(id, q.tool)
  /\ Deny(c, "role")

Grant(c, q, id) ==
  /\ ~RateLimited(id)
  /\ ChargeWindow(id)
  /\ ~FerpaRefused(id, q.tool)
  /\ ~RoleRefused(id, q.tool)
  /\ AuditLog("access.granted", c, "none")
  /\ pc' = [pc EXCEPT ![c] = AfterGrant(id, q)]

\* Mutant: any membership of the course will do.
AnyMember(role) == role # None

Manages(role) == role \in GradeManagingRoles

CheckAuthorization(c, q) ==
  LET id == ParsedIdentity(q)
  IN  /\ pc[c] = "new"
      /\ Acceptable(q)
      /\ request' = [request EXCEPT ![c] = q]
      /\ identity' = [identity EXCEPT ![c] = id]
      /\ \/ DenyRate(c, id)
         \/ DenyFerpa(c, q, id)
         \/ DenyRole(c, q, id)
         \/ Grant(c, q, id)
      /\ managed' = [managed EXCEPT ![c] =
                       /\ q.course # None
                       /\ enrolled[<<q.course, id.userId>>]
                            \in GradeManagingRoles]
      /\ UNCHANGED <<membership, enrolled>>

\* External: Blackboard answers the membership lookup (404 is "none") ...
LookupAnswered(c) ==
  /\ pc[c] = "lookup"
  /\ membership' = [membership EXCEPT ![c] =
                      enrolled[<<request[c].course, identity[c].userId>>]]
  /\ pc' = [pc EXCEPT ![c] = "looked"]
  /\ UNCHANGED <<authVars, request, identity, enrolled, managed>>

\* ... or fails; the error leaves the handler without an audit entry.
LookupFailed(c) ==
  /\ pc[c] = "lookup"
  /\ pc' = [pc EXCEPT ![c] = "failed"]
  /\ UNCHANGED <<authVars, request, identity, membership, enrolled, managed>>

CheckCourseEntitlement(c) ==
  /\ pc[c] = "looked"
  /\ IF Manages(membership[c])
     THEN /\ pc' = [pc EXCEPT ![c] = "authorized"]
          /\ UNCHANGED <<auditLogBuffer, trail>>
     ELSE Deny(c, "entitlement")
  /\ UNCHANGED <<rateWindows, admitted, request, identity, membership,
                 enrolled, managed>>

\* The handler's own work, with the data or the effect the tool is for.
Perform(c) ==
  /\ pc[c] = "authorized"
  /\ pc' = [pc EXCEPT ![c] = "performed"]
  /\ UNCHANGED <<authVars, request, identity, membership, enrolled, managed>>

-----------------------------------------------------------------------------
(* The world.                                                              *)

Pending == {"lookup", "looked", "authorized"}

\* External: an enrollment is created, changed or removed.
ChangeEnrollment(course, user, role) ==
  /\ enrolled[<<course, user>>] # role
  /\ enrolled' = [enrolled EXCEPT ![<<course, user>>] = role]
  /\ managed' = [c \in Calls |->
       \/ managed[c]
       \/ /\ pc[c] \in Pending
          /\ request[c].course = course
          /\ identity[c].userId = user
          /\ role \in GradeManagingRoles]
  /\ UNCHANGED <<authVars, callVars>>

Elapse(left) == IF left > 0 THEN left - 1 ELSE 0

Tick ==
  /\ rateWindows' = [k \in Keys |->
                       [rateWindows[k] EXCEPT !.left = Elapse(@)]]
  /\ admitted' = [k \in Keys |-> [a \in 0..Window - 1 |->
                    IF a = 0 THEN 0 ELSE admitted[k][a - 1]]]
  /\ UNCHANGED <<auditLogBuffer, trail, callVars, enrolled, managed>>

Next ==
  \/ \E c \in Calls, q \in ToolRequests :
       RejectIdentity(c, q) \/ CheckAuthorization(c, q)
  \/ \E c \in Calls :
       \/ LookupAnswered(c) \/ LookupFailed(c)
       \/ CheckCourseEntitlement(c) \/ Perform(c)
  \/ \E course \in Courses, user \in Users, role \in CourseRoles \cup {None} :
       ChangeEnrollment(course, user, role)
  \/ Tick

Spec == Init /\ [][Next]_vars

-----------------------------------------------------------------------------
(* What must hold.                                                         *)

\* The signed principal in OIDC mode, the claimed one otherwise.
Principal(q) == IF q.verified # None THEN q.verified ELSE q.claim

Entries(c) == {i \in DOMAIN trail : trail[i].call = c}

\* A grade tool works for a non-admin only if the caller managed the course
\* at some moment of the call: a membership that changes while the lookup is
\* under way never lets in a caller who had none (checkCourseEntitlement).
GradeWorkWasEntitled ==
  \A c \in Calls :
    (/\ pc[c] = "performed"
     /\ request[c].tool \in EntitlementTools
     /\ Principal(request[c]).role # "admin")
    => managed[c]

\* The trail tells what became of every call that was parsed: one granted
\* entry for a call that went on, one denied entry and no other for a call
\* that a gate refused, granted then denied for a refused entitlement.
AuditMatchesOutcome ==
  \A c \in Calls :
    /\ pc[c] \in {"new", "rejected"} => Entries(c) = {}
    /\ pc[c] \in Parsed \ {"denied"} =>
         \E i \in DOMAIN trail :
           Entries(c) = {i} /\ trail[i].event = "access.granted"
    /\ pc[c] = "denied" =>
         \E i \in Entries(c) :
           /\ trail[i].event = "access.denied"
           /\ \A j \in Entries(c) \ {i} :
                /\ j < i /\ trail[j].event = "access.granted"
                /\ Entries(c) = {i, j}

\* The latest Capacity entries of a trail.
Latest(entries) ==
  LET kept == IF Len(entries) < Capacity THEN Len(entries) ELSE Capacity
  IN  SubSeq(entries, Len(entries) - kept + 1, Len(entries))

\* What list_audit_logs can read back is exactly the latest entries written
\* to stdout, in order, none lost before the buffer is full.
BufferIsLatestTrail == auditLogBuffer = Latest(trail)

\* The buffer when m entries had been written (BufferIsLatestTrail).
BufferAt(m) == Latest(SubSeq(trail, 1, m))

\* An administrator who reads the trail page by page misses nothing, however
\* many entries were added and dropped between the two readings (and
\* list_audit_logs adds one itself).  Of the entries no newer than one on the
\* first page, those that match are on that page or the next: all down to the
\* oldest of the next page or, if that is not full, all that the buffer still
\* has.  Entries may come twice (getLocalAuditLogEntries).
PagingSkipsNothing ==
  \A m \in DOMAIN trail, query \in AuditQuery :
    LET then == BufferAt(m) IN
    \A offset \in 0..(Len(then) - 1), limit \in PageSizes :
      LET read == LocalAuditLogEntries(then, query, offset, limit)
          next == LocalAuditLogEntries(auditLogBuffer, query, offset + limit,
                                       limit)
          reached(j) == \/ \E i \in 1..j : trail[i] \in next
                        \/ /\ Cardinality(next) < limit
                           /\ j > Len(trail) - Len(auditLogBuffer)
      IN  \A k \in DOMAIN trail : trail[k] \in read =>
            \A j \in 1..k :
              Matches(trail[j], query) /\ reached(j) =>
                trail[j] \in read \cup next

\* The calls admitted within the Window ticks that end now.
AdmittedLately(key) == admitted[key][Window - 1]

\* However calls are timed, fewer than twice the limit are admitted within
\* any span of one window (one call if the limit is 0 or 1): the worst that
\* back-to-back fixed windows can do (assertWithinRateLimit).
AdmissionBounded ==
  \A role \in Roles, user \in Users :
    Limit[role] # NaN =>
      AdmittedLately(<<role, user>>) <=
        (IF Limit[role] = 0 THEN 1 ELSE 2 * Limit[role] - 1)

\* A caller is refused for its rate only after the limit was really used up
\* by its own admitted calls within one window: refused calls, other callers
\* and earlier windows never count against it.
RateDenialDeserved ==
  [][\A c \in Calls :
       (/\ pc[c] = "new" /\ pc'[c] = "denied"
        /\ trail'[Len(trail')].reason = "rate")
       => AdmittedLately(KeyOf(identity'[c])) >= Limit[identity'[c].role]]_vars

-----------------------------------------------------------------------------
(* What the repository's documents say and the code does not do.           *)

\* src/config.ts: every tool that returns another person's PII requires the
\* FERPA flag; list_roster returns names and user ids.  The headers of
\* grade-writeback.ts, admin.ts, parent.ts and webhook-tools.ts: each of their
\* tools requires it.  RestrictedTools, which decides, has eight of them.
FerpaDocumented ==
  RestrictedTools \cup {"list_roster"} \cup GradeWriteTools \cup AdminTools
  \cup ParentTools \cup WebhookTools

\* A tool that is said to require the FERPA flag works only for callers who
\* carry it (checkAuthorization).
FerpaAsDocumented ==
  \A c \in Calls :
    pc[c] = "performed" /\ request[c].tool \in FerpaDocumented =>
      identity[c].ferpa

=============================================================================
