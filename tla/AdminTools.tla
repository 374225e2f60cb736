----------------------------- MODULE AdminTools ------------------------------
(***************************************************************************)
(* The tools of src/tools/admin.ts and src/tools/webhook-tools.ts, with an *)
(* aliased tool and a tool that sends requests together, as calls under    *)
(* way at the same time over one Blackboard.                               *)
(*                                                                         *)
(* Enrollments and webhook subscriptions are resources with two fields:    *)
(* kind (the role, the url) and on (available, active).  Blackboard is     *)
(* external: it serves a request some time after it is sent, or refuses    *)
(* it; its answer may be lost, and a request the tool no longer waits for  *)
(* may still be served.                                                    *)
(***************************************************************************)
EXTENDS ToolCalls

CONSTANTS
  CourseIds, UserIds,  \* an enrollment is identified by its course and user
  SubscriptionIds,     \* identifiers of webhook subscriptions
  Kinds,               \* roles, and urls
  InitialRegistries,   \* what Blackboard may hold at the start
  Rank,                \* external: the order of Blackboard's lists
  Pages,               \* the pages that are asked for: offset and limit
  AuditFilters,        \* the filters of list_audit_logs: an event or None, and
                       \* the calls that the user, course and dates leave
  AuditCapacity        \* AUDIT_LOG_CAPACITY

EnrollmentIds == CourseIds \X UserIds
ResourceIds == EnrollmentIds \cup SubscriptionIds
Resource == [kind : Kinds, on : BOOLEAN]

ASSUME AdminToolsAssumption ==
  /\ AuditCapacity \in Nat \ {0}
  /\ InitialRegistries \subseteq [ResourceIds -> Resource \cup {None}]
  /\ Rank \in [ResourceIds -> Nat]
  /\ \A a, b \in ResourceIds : Rank[a] = Rank[b] => a = b
  /\ Pages \subseteq [offset : Nat, limit : Nat \ {0}]
  /\ AuditFilters \subseteq
       [event : {None, "access.granted", "access.denied"}, calls : SUBSET Calls]

\* The optional arguments of an update: some of the fields, or none.
Changes == {<<>>} \cup [kind : Kinds] \cup [on : BOOLEAN] \cup Resource

VARIABLES
  registry,       \* external: the resources of Blackboard, None where absent
  auditLogBuffer  \* auditLogBuffer

vars == <<toolVars, registry, auditLogBuffer>>

TypeOK ==
  /\ ToolTypeOK
  /\ \A id \in ResourceIds : registry[id] \in Resource \cup {None}
  /\ auditLogBuffer \in
       Seq([call : Calls, event : {"access.granted", "access.denied"}])
  /\ Len(auditLogBuffer) <= AuditCapacity
  /\ \A c \in Made : call[c].reply.status \in
       {"none", "done", "refused", "unavailable"}

Init ==
  /\ ToolInit
  /\ registry \in InitialRegistries
  /\ auditLogBuffer = <<>>

-----------------------------------------------------------------------------
(* Entering a tool: parseIdentity, checkAuthorization and the code before  *)
(* the first await.                                                        *)

\* one: the endpoint of a resource, not of a list.  ids: the resources it is
\* about; of a POST to a list, those it may create.  body: of a GET, the page
\* among its parameters.
Asks(method, one, ids, body) ==
  [method |-> method, one |-> one, ids |-> ids, body |-> body]

NoRequest == Asks("GET", FALSE, {}, <<>>)
NoReply == [status |-> "none", shape |-> "none", items |-> {}]

\* request: what the call asks of Blackboard; reply: what Blackboard made of
\* it; items: what the tool returns of the reply; trail: the page of the local
\* audit trail a list_audit_logs call returns; readAt: history, the registry
\* the reply shows.
Record(tool, args, batches, request, trail) ==
  Completed(NewCall(tool, args, batches),
            [request |-> request, reply |-> NoReply, items |-> {},
             trail |-> trail, readAt |-> None])

RecordAuditLogEntry(entry) ==
  LET pushed == Append(auditLogBuffer, entry) IN
  IF Len(pushed) > AuditCapacity
    THEN SubSeq(pushed, Len(pushed) - AuditCapacity + 1, Len(pushed))
    ELSE pushed

AuditEntry(c, event) == [call |-> c, event |-> event]

Denied(c, tool, args) ==
  /\ auditLogBuffer' = RecordAuditLogEntry(AuditEntry(c, "access.denied"))
  /\ Settle(c, Record(tool, args, <<0>>, NoRequest, {}), "thrown")

\* The code between the grant and the first await may throw.
Granted(c, tool, args, batches, request, throws) ==
  /\ auditLogBuffer' = RecordAuditLogEntry(AuditEntry(c, "access.granted"))
  /\ LET record == Record(tool, args, batches, request, {}) IN
     IF throws THEN Settle(c, [record EXCEPT !.waiting = 0], "thrown")
     ELSE Continue(c, record)

\* A tool with one request.
CallTool(c, tool, args, request, throws) ==
  /\ call[c] = Unused
  /\ \/ Denied(c, tool, args)
     \/ Granted(c, tool, args, <<1>>, request, throws)
  /\ UNCHANGED registry

CreateEnrollment(c) ==
  \E id \in EnrollmentIds, fields \in Resource :
    CallTool(c, "create_enrollment", [id |-> id, fields |-> fields],
             Asks("POST", TRUE, {id}, fields), FALSE)

\* Mutant: the tests are for truth, which an argument of false fails.
TruthyPayload(fields) ==
  [f \in {g \in DOMAIN fields : fields[g] # FALSE} |-> fields[f]]

\* The payload has the arguments given, and only those.
UpdatePayload(fields) == [f \in DOMAIN fields |-> fields[f]]

Update(c, tool, ids) ==
  \E id \in ids, fields \in Changes :
    CallTool(c, tool, [id |-> id, fields |-> fields],
             Asks("PATCH", TRUE, {id}, UpdatePayload(fields)),
             DOMAIN UpdatePayload(fields) = {})

UpdateEnrollment(c) == Update(c, "update_enrollment", EnrollmentIds)

DeleteEnrollment(c) ==
  \E id \in EnrollmentIds :
    CallTool(c, "delete_enrollment", [id |-> id],
             Asks("DELETE", TRUE, {id}, <<>>), FALSE)

CreateWebhookSubscription(c) ==
  \E k \in Kinds :
    CallTool(c, "create_webhook_subscription", [fields |-> [kind |-> k]],
             Asks("POST", FALSE, SubscriptionIds, [kind |-> k, on |-> TRUE]), FALSE)

UpdateWebhookSubscription(c) ==
  Update(c, "update_webhook_subscription", SubscriptionIds)

DeleteWebhookSubscription(c) ==
  \E id \in SubscriptionIds :
    CallTool(c, "delete_webhook_subscription", [id |-> id],
             Asks("DELETE", TRUE, {id}, <<>>), FALSE)

GetWebhookSubscription(c) ==
  \E id \in SubscriptionIds :
    CallTool(c, "get_webhook_subscription", [id |-> id],
             Asks("GET", TRUE, {id}, <<>>), FALSE)

ListWebhookSubscriptions(c) ==
  \E page \in Pages :
    CallTool(c, "list_webhook_subscriptions", [page |-> page],
             Asks("GET", FALSE, SubscriptionIds, page), FALSE)

\* The endpoint follows from the filters given: one enrollment, those of a
\* course, those of a user, or all.
ListEnrollments(c) ==
  \E course \in CourseIds \cup {None}, user \in UserIds \cup {None},
     page \in Pages :
    CallTool(c, "list_enrollments",
             [course |-> course, user |-> user, page |-> page],
             Asks("GET", course # None /\ user # None,
                  {id \in EnrollmentIds : /\ course \in {None, id[1]}
                                          /\ user \in {None, id[2]}}, page),
             FALSE)

\* The users are not among the resources: these requests only read.
ListUsers(c) == CallTool(c, "list_users", <<>>, NoRequest, FALSE)
GetUser(c) == CallTool(c, "get_user", <<>>, NoRequest, FALSE)

\* The entries, newest first, that the filters leave and the page shows.
AuditPage(buffer, query) ==
  LET found == {i \in DOMAIN buffer : /\ query.event \in {None, buffer[i].event}
                                      /\ buffer[i].call \in query.calls}
      place(i) == Cardinality({j \in found : j > i})
      page == query.page
  IN  {buffer[i] :
         i \in {k \in found :
                  place(k) \in page.offset..(page.offset + page.limit - 1)}}

\* Mutant: the trail is the one before the call's own grant.
TrailBefore(query) == AuditPage(auditLogBuffer, query)

\* getLocalAuditLogEntries, called after the grant and before the request.
LocalAuditTrail(query) == AuditPage(auditLogBuffer', query)

ListAuditLogs(c) ==
  /\ call[c] = Unused
  /\ \E page \in Pages, filter \in AuditFilters :
       LET query == [page |-> page, event |-> filter.event,
                     calls |-> filter.calls]
       IN  \/ Denied(c, "list_audit_logs", query)
           \/ /\ auditLogBuffer' =
                   RecordAuditLogEntry(AuditEntry(c, "access.granted"))
              /\ Continue(c, Record("list_audit_logs", query, <<1>>, NoRequest,
                                    LocalAuditTrail(query)))
  /\ UNCHANGED registry

\* get_grades: the roster, then the grades of its users together.
\* list_courses: the alias, with the one request of the tool it calls.
OtherTool(c) ==
  /\ call[c] = Unused
  /\ \E t \in {[tool |-> "get_grades", batches |-> <<1, 2>>],
               [tool |-> "list_courses", batches |-> <<1>>]} :
       Denied(c, t.tool, <<>>)
       \/ Granted(c, t.tool, <<>>, t.batches, NoRequest, FALSE)
  /\ UNCHANGED registry

-----------------------------------------------------------------------------
(* External: Blackboard.                                                   *)

Item(id) == [id |-> id, resource |-> registry[id]]
Present(ids) == {id \in ids : registry[id] # None}

\* The resources of a list on one of its pages.
OnPage(ids, page) ==
  {id \in ids : Cardinality({i \in ids : Rank[i] < Rank[id]})
                  \in page.offset..(page.offset + page.limit - 1)}

Served(c, status, shape, items) ==
  /\ call' = [call EXCEPT ![c].reply =
                [status |-> status, shape |-> shape, items |-> items],
                          ![c].readAt = registry]
  /\ UNCHANGED <<stats, traceBuffer, traced, auditLogBuffer>>

ServeRead(c) ==
  LET q == call[c].request IN
  /\ q.method = "GET"
  /\ q.one => Present(q.ids) # {}
  /\ Served(c, "done", IF q.one THEN "one" ELSE "envelope",
            {Item(id) : id \in IF q.one THEN Present(q.ids)
                               ELSE OnPage(Present(q.ids), q.body)})
  /\ UNCHANGED registry

Write(c, id, resource) ==
  /\ registry' = [registry EXCEPT ![id] = resource]
  /\ Served(c, "done", "one", {[id |-> id, resource |-> resource]})

ServeWrite(c) ==
  LET q == call[c].request IN
  \/ /\ q.method = "POST"
     /\ \E id \in q.ids : registry[id] = None /\ Write(c, id, q.body)
  \/ /\ q.method = "PATCH"
     /\ \E id \in Present(q.ids) : Write(c, id, Completed(q.body, registry[id]))
  \/ /\ q.method = "DELETE"
     /\ \E id \in Present(q.ids) : Write(c, id, None)

\* The endpoint may be missing, the resource too, or the request unwelcome.
Refuse(c) ==
  /\ \E status \in {"refused", "unavailable"} : Served(c, status, "none", {})
  /\ UNCHANGED registry

\* The requests of the tools with more than one are answered without this.
BlackboardServes(c) ==
  /\ c \in Made /\ call[c].tool # "get_grades"
  /\ call[c].sent > 0 /\ call[c].reply = NoReply
  /\ ServeRead(c) \/ ServeWrite(c) \/ Refuse(c)

-----------------------------------------------------------------------------
(* What the tools make of an answer.                                       *)

WebhookTools ==
  {"list_webhook_subscriptions", "get_webhook_subscription",
   "create_webhook_subscription", "update_webhook_subscription",
   "delete_webhook_subscription"}

\* Mutant: only the envelope of a list is read.
EnvelopeItems(reply) == IF reply.shape = "envelope" THEN reply.items ELSE {}

\* One resource, or the envelope of a list.
MapItems(reply) == IF reply.shape # "none" THEN reply.items ELSE {}

\* Mutant: a failed update or deletion is not looked at.
Lenient(tool, status) ==
  IF tool \in {"delete_enrollment", "delete_webhook_subscription"} THEN "ok"
  ELSE IF tool \in WebhookTools THEN "reported" ELSE "thrown"

\* The webhook tools turn every failure into a result: the list into an empty
\* one with a note that the endpoint is not there, the others into an error.
\* list_audit_logs falls back to the local trail where the endpoint is missing.
AnswerToFailure(tool, status) ==
  IF tool = "list_webhook_subscriptions" THEN "empty"
  ELSE IF tool \in WebhookTools THEN "reported"
  ELSE IF tool = "list_audit_logs" /\ status = "unavailable" THEN "ok"
  ELSE "thrown"

NoToken(c) ==
  /\ c \in Made /\ call[c].waiting > 0
  /\ \E status \in {"refused", "unavailable"} :
       RequestFailed(c, WithoutToken(c), AnswerToFailure(call[c].tool, status))
  /\ UNCHANGED <<registry, auditLogBuffer>>

Send(c) == RequestSent(c) /\ UNCHANGED <<registry, auditLogBuffer>>

AnswerArrives(c) ==
  LET reply == call[c].reply IN
  /\ c \in Made /\ call[c].out > 0
  /\ call[c].tool = "get_grades" \/ reply # NoReply
  /\ \/ /\ reply.status \in {"none", "done"}
        /\ RequestAnswered(c, [call[c] EXCEPT !.items = MapItems(reply)])
     \/ /\ reply.status \in {"refused", "unavailable"}
        /\ RequestFailed(c, WithoutAnswer(c),
                         AnswerToFailure(call[c].tool, reply.status))
  /\ UNCHANGED <<registry, auditLogBuffer>>

\* The request times out or its connection breaks: status 0.
AnswerLost(c) ==
  /\ c \in Made /\ call[c].out > 0
  /\ RequestFailed(c, WithoutAnswer(c), AnswerToFailure(call[c].tool, "refused"))
  /\ UNCHANGED <<registry, auditLogBuffer>>

Finished ==
  /\ \A c \in Calls : c \in Over /\ call[c].waiting = 0 /\ call[c].out = 0
  /\ UNCHANGED vars

Next ==
  \/ \E c \in Calls :
       \/ CreateEnrollment(c) \/ UpdateEnrollment(c) \/ DeleteEnrollment(c)
       \/ CreateWebhookSubscription(c) \/ UpdateWebhookSubscription(c)
       \/ DeleteWebhookSubscription(c) \/ GetWebhookSubscription(c)
       \/ ListWebhookSubscriptions(c) \/ ListEnrollments(c)
       \/ ListUsers(c) \/ GetUser(c) \/ ListAuditLogs(c) \/ OtherTool(c)
       \/ BlackboardServes(c)
       \/ NoToken(c) \/ Send(c) \/ AnswerArrives(c) \/ AnswerLost(c)
  \/ Finished

Spec == Init /\ [][Next]_vars

-----------------------------------------------------------------------------
(* Properties.                                                             *)

UpdateTools == {"update_enrollment", "update_webhook_subscription"}
WriteTools ==
  UpdateTools \cup
  {"create_enrollment", "delete_enrollment",
   "create_webhook_subscription", "delete_webhook_subscription"}

\* A write tool that answers with success made its change: no error, lost
\* answer or missing token is ever taken for one, although the webhook tools
\* turn every failure into a result.
SuccessMeansDone ==
  \A c \in Over :
    call[c].tool \in WriteTools /\ call[c].answer = "ok" =>
      call[c].reply.status = "done"

\* The resource a call names, with the fields it names changed to what it says.
AsAsked(c, id) ==
  LET args == call[c].args IN
  CASE call[c].tool = "create_enrollment" -> args.fields
    [] call[c].tool = "create_webhook_subscription" ->
         [kind |-> args.fields.kind, on |-> TRUE]
    [] call[c].tool \in UpdateTools ->
         [f \in {"kind", "on"} |-> IF f \in DOMAIN args.fields
                                    THEN args.fields[f] ELSE registry[id][f]]
    [] OTHER -> None

\* Whatever changes in Blackboard is what the arguments of one call ask for:
\* no other resource, no field left out, and none that the call did not name,
\* with updates, deletions and late requests of other calls in between.
WritesAreAsAsked ==
  [][\A id \in ResourceIds :
       registry'[id] # registry[id] =>
         \E c \in Made :
           /\ call[c].tool \in WriteTools
           /\ "id" \in DOMAIN call[c].args => call[c].args.id = id
           /\ "id" \notin DOMAIN call[c].args => id \in SubscriptionIds
           /\ call[c].tool \in UpdateTools => registry[id] # None
           /\ registry'[id] = AsAsked(c, id)]_registry

ListTools == {"list_enrollments", "list_webhook_subscriptions"}

\* The resources that the arguments of a listing describe.
Described(c) ==
  IF call[c].tool = "list_webhook_subscriptions" THEN SubscriptionIds
  ELSE {id \in EnrollmentIds : /\ call[c].args.course \in {None, id[1]}
                               /\ call[c].args.user \in {None, id[2]}}

\* The arguments name one enrollment, which has no page.
NamesOne(c) ==
  /\ call[c].tool = "list_enrollments"
  /\ call[c].args.course # None /\ call[c].args.user # None

\* list_enrollments and list_webhook_subscriptions, unless they say that
\* Blackboard did not answer, return the page asked for of what the filters
\* describe, neither more nor fewer, as it was at one moment: the
\* single-enrollment endpoint, which answers without an envelope, included.
ListingsAreExact ==
  \A c \in Over :
    call[c].tool \in ListTools /\ call[c].answer = "ok" =>
      LET held == {id \in Described(c) : call[c].readAt[id] # None} IN
      call[c].items =
        {[id |-> id, resource |-> call[c].readAt[id]] :
           id \in IF NamesOne(c) THEN held ELSE OnPage(held, call[c].args.page)}

\* The page of the trail that list_audit_logs returns has the grant of that
\* very call if it is the first page and the filters leave the grant, and only
\* then, whether Blackboard's own log is there or not and whatever other calls
\* were granted or denied while its answer was awaited.
OwnGrantOnFirstPage ==
  \A c \in Over :
    call[c].tool = "list_audit_logs" /\ call[c].answer = "ok" =>
      LET query == call[c].args IN
      AuditEntry(c, "access.granted") \in call[c].trail <=>
        /\ query.page.offset = 0
        /\ query.event \in {None, "access.granted"}
        /\ c \in query.calls

\* What a tool answers with success is true: the write was done, the listing
\* is the page asked for, the trail is the one that ends in this very call.
AnswersAreTrue ==
  SuccessMeansDone /\ ListingsAreExact /\ OwnGrantOnFirstPage
==============================================================================
