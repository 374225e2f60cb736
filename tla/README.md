# bb-mcp in TLA+

A verification project kept beside the bb-mcp server: TLA+ modules that model
its stateful parts, TLC configurations that check them on small instances, and
theorems about them checked by TLAPS. All line references are to the files of
the repository (`src/oidc-auth.ts` is the TypeScript file of that name).

    tlc -config JwksCache.cfg MCJwksCache        # and so on, see "Runs"
    tlapm JwksCacheProofs.tla                    # and so on, see "Theorems"

## 1. The system

bb-mcp exposes Blackboard Learn to MCP clients. It is one Node process, one
event loop, and keeps all of its state in memory; nothing survives a restart.
A request arrives over HTTP (or stdio), is authenticated at the transport,
reaches an MCP session, and becomes a tool call. Every tool handler parses the
caller's identity, passes the authorization gates, and then reads or writes
Blackboard through one client with one app-level token.

    client -> index.ts (HTTP, sessions) -> oidc-auth.ts (verified principal)
           -> request-identity.ts (AsyncLocalStorage)
           -> metrics.ts / trace.ts (withMetrics around every handler)
           -> tools/*.ts -> auth.ts (identity, rate, FERPA, role, entitlement)
                         -> bb-client.ts (token cache) -> Blackboard
           -> output-scrub.ts -> client

| Component | State | Operations | What is hard about it | What makes it correct |
|---|---|---|---|---|
| OIDC verifier `oidc-auth.ts` | cached keys and their expiry, the fetch in flight, two cooldown stamps | `getJwks`, `authenticateOidcRequest` | requests interleave at two awaits; slow, failing, timed-out fetches; key rotation; three timers | one fetch at a time, bounded fetch rate, no trust in withdrawn keys, no cached key refused, 401/503 told apart, new keys learned |
| Authorization `auth.ts`, `rbac.ts`, `request-identity.ts` | rate windows, audit ring buffer | `parseIdentity`, `checkAuthorization`, `checkCourseEntitlement`, `getLocalAuditLogEntries` | body and signed identity together; fixed windows; the entitlement lookup is awaited | no work past a gate, deserved and bounded rate limits, a truthful audit trail |
| Grade write-back `tools/grade-writeback.ts` | none (Blackboard's gradebook) | six handlers of several upstream calls each | check-then-act across awaits, partial failure, retries | no double attempt but by a race, no write to another's attempt, no unreported orphan |
| Blackboard client `bb-client.ts` | access token and its expiry | `getAccessToken`, one method per endpoint | concurrent misses, a slow old answer, revocation | a used token is not expired; failures are categorised |
| OAuth flow `oauth.ts` | pending flows, sessions | start, complete, refresh | single use of `state`, flow expiry, concurrent refreshes | a state completes at most once; no refresh is lost |
| Sessions and routes `index.ts`, `mcp-auth.ts` | the `transports` map | POST, GET, DELETE on `/mcp`, `/sse`, start-up checks | close, delete and requests under way | no route past its gate; map and transports agree |
| Metrics and traces `metrics.ts`, `trace.ts` | counters, trace ring buffer | `withMetrics`, `withTrace`, `pushMetrics` | nesting, failures after the trace is written | one record per call, metrics and trace agree |
| Admin, student, instructor, parent, webhook tools | none | some thirty handlers | per-item failures, writes that are not idempotent | what is returned belongs to whom it should |
| Scrubbing `output-scrub.ts`, `privacy.ts` | none | pure functions on results and text | which parts of a tree are reached | no e-mail address in an output |
| `config.ts`, `cli.ts`, `manifest.ts`, `schemas.ts`, `types.ts` | none | start-up and text | - | - |

Components meet in three ways. *Calls*: a route authenticates with the
verifier, hands the message to a session's transport, and the transport calls a
tool handler, wrapped in metrics and traces, which passes the gates and uses the
client. *Shared memory*: the session map, the key cache, the token cache, the
rate windows, the trace and audit buffers are shared by all calls of the
process; only `AsyncLocalStorage` keeps a request's identity and a call's trace
apart. *Blackboard*: everything the tools read or write is shared with other
calls and with everybody else who uses Blackboard. There are no locks; what runs
between two awaits is atomic, and everything else interleaves.

`PROJECT.json` lists, under `hazards`, the places in the code where these
difficulties bite, each with the properties that watch it or the reason why
there is none.

## 2. Modules

| Module | Role |
|---|---|
| `JwksCache` | the signing-key cache and the requests that wait for it |
| `MCJwksCache` | its instances for TLC: two keys, genuine, forged and refused tokens |
| `JwksCacheProofs` | its inductive invariant and theorems |
| `ToolPolicy` | the tables of roles, restricted tools and entitlement checks |
| `Authorization` | identity parsing, gates, entitlement, rate windows, audit trail |
| `MCAuthorization` | its instances for TLC |
| `AuthorizationProofs` | its inductive invariants and theorems |
| `TokenCache` | the Blackboard client's access token and the requests that use it |
| `MCTokenCache` | its instance for TLC |
| `GradeAttempts` | the tools that look an attempt up and then write one |
| `MCGradeAttempts` | its instances for TLC |
| `GradeAttemptsProofs` | its inductive invariant and theorems |
| `AssignmentCreation` | the tools that make content items and grade columns |
| `MCAssignmentCreation` | its instances for TLC |
| `AssignmentCreationProofs` | its inductive invariant and theorems |
| `OneTimeTickets` | abstract: what a store of one-time tickets promises |
| `OAuthFlow` | pending flows and sessions of the authorization-code flow; its flows implement `OneTimeTickets` |
| `MCOAuthFlow` | its instance for TLC |
| `OAuthFlowProofs` | that it implements `OneTimeTickets` and keeps sessions refreshable, for every instance |
| `Startup` | which environments the server starts in, and what it then is |
| `HttpServer` | the gates and the session map of the `/mcp` and search routes, in every configuration of `Startup` |
| `MCHttpServer` | its instance for TLC |
| `HttpServerProofs` | its inductive invariant and theorems |
| `ToolCalls` | what wraps every tool call: metrics, traces, counted requests |
| `AdminTools` | the admin and webhook tools as such calls, over one Blackboard |
| `MCAdminTools` | its instance for TLC |
| `AdminToolsProofs` | the inductive invariant and theorems of `AdminTools` with `ToolCalls` |
| `Lists` | the array methods the reading tools use, by the places of elements |
| `Reports` | the reading tools of students and instructors, as reads and results |
| `ParentTools` | the parent tools, in the same form |
| `ReadTools` | one call of any of them while Blackboard changes |
| `MCReadTools` | its instance for TLC |
| `BlackboardProofs` | the inductive invariants and theorems of `TokenCache` and of `ReadTools` |

`OAuthFlow` uses `OneTimeTickets` through a refinement mapping, `HttpServer`
extends `Startup`, `AdminTools` extends `ToolCalls`, `ReadTools` extends
`ParentTools`, which extends `Reports`, which extends `Lists`, and
`Authorization` extends `ToolPolicy`.

A definition whose comment starts with "Mutant" is a deliberately wrong variant
of the definition that follows it. No specification uses it; putting it in the
other's place makes a run fail, which shows that the property it is aimed at
depends on that line of the code.

### JwksCache (`src/oidc-auth.ts`)

*Time.* The code keeps deadlines (`expiresAt`, `jwksFetchFailureUntil`, a stamp
plus a cooldown) and only ever compares them with `Date.now()`. The model keeps
the time left until each, counting down to 0. That loses nothing the code can
see, and it keeps the state space finite. A tick is the clock's granularity.

*The event loop.* A request runs without interruption up to an `await`. When the
promise it awaits settles, its continuation becomes a microtask, and Node
drains the microtask queue before it takes another event. Requests in the
states `Queued` are that queue; `Drained` guards every event (a new request, a
settled fetch, a tick). The order within the queue is left open, which covers
the different number of microtask hops of the request that created a fetch and
of those that joined it.

| Model | Code |
|---|---|
| `cached`, `inFlight`, `forcedLeft`, `failLeft` | `cachedJwks`, `jwksFetchInFlight`, `lastForcedRefreshAt` with its cooldown, `jwksFetchFailureUntil` (65-71) |
| `RejectClaims` | the checks before any key is needed fail (249-297) |
| `Begin` = `BeginFromCache`, `BeginMiss`, `BeginCoolingDown` | those checks pass and the first `getJwks` is called (299, 110-134) |
| `ForceRefresh` | no key with that id, a refresh is allowed: stamp, then `getJwks(uri, true)` (306-317) |
| `KeyNotFound` | still no key: 503 within the failure cooldown, else 401 (318-325) |
| `VerifyToken` | signature, subject, role (327-387) |
| `FetchSucceeds`, `FetchFails` with `Settle` | the two ends of the fetch and of the creator's `try/catch/finally` (128-180); all waiters become runnable |
| `NoFetchOverdue` in `Tick` | `AbortSignal.timeout(5_000)` (133) |
| `ProviderAnswers`, `Publish`, `Withdraw` | external: the provider and its rotations |

A token is a record: the key id it names, whether the early checks pass, and
whether everything after the key lookup passes. `withdrawn`, `age`, `starts`
and `lastFetch` are history variables that no action reads. `withdrawn` is
capped at `Staleness`, beyond which no property tells values apart. `starts`
holds the ticks since each of the last three fetches started, capped at
`FailureCooldown`: the third is at the cap exactly if at most two of them lie
within one failure cooldown.

Left out: a change of the configured `jwksUri` (it is fixed for a process), and
a provider that answers with JSON `null` (line 157 then throws a `TypeError`,
which is answered 401 where every other bad document is answered 503).

### Authorization (`src/auth.ts`, `src/rbac.ts`, `src/config.ts`)

`parseIdentity` and `checkAuthorization` contain no `await`, so a call is
parsed, counted, gated and logged in one step, `CheckAuthorization`, whose four
disjuncts are the four ways out in the order of the code: rate (which counts
nothing when it refuses), FERPA, role (both after the call was counted), grant.
`RejectIdentity` is `parseIdentity` throwing, before anything is counted or
logged. A grade tool then looks up the caller's membership (`LookupAnswered`,
`LookupFailed`) and decides in a later step (`CheckCourseEntitlement`);
`ChangeEnrollment` and other calls may come between any two of these. `Perform`
stands for the rest of the handler.

A rate window is kept as the time left and the calls counted; a window never
opened is one with no time left, as the code treats both alike. `Limit` may be
`NaN`, what `parseInt` makes of an ill-formed setting; no count ever reaches it.
`trail` is the sequence of lines written to stdout, `auditLogBuffer` the ring
buffer. Entries keep the call, the event and the kind of reason; the hash of the
subject and the wording are abstracted. `managed` and `admitted` are history
variables; `admitted[k][a]` counts the calls of key `k` admitted since `a` ticks
ago, for each `a` within a window. Each call slot is used once, which bounds the trail.
`LocalAuditLogEntries` is how the buffer is read back: filtered by event and
user, newest first, one page. Filter, reversal and slice of the code become one
condition: an entry's place is the number of matching entries newer than it. The
filters by course and date are left out. A reading changes nothing, so it is no
action: `PagingSkipsNothing` takes any moment of the past (the buffer is the end
of the trail as it then was, `BufferAt`) and the present one as the two
readings, with every entry added and dropped in between.

`ToolPolicy` writes the table of `rbac.ts` by groups of tools with the same
roles; a tool in no group has no role, as in `getAllowedRolesForTool`.

### TokenCache (`src/bb-client.ts`)

Every upstream request first awaits `getAccessToken` (the request interceptor).
`SendCached` is its early return and `FetchToken` the dispatch of the token
request; as nothing coalesces, several may be out at once. `GrantToken` is
Blackboard granting a token, and only `StoreToken`, later and in any order, is
its answer reaching the client and overwriting the cache. `TokenFails` is every
rejected promise of the token request; `RequestEnds` every end of the request
itself, which never touches the cache. Two clocks matter: the token's own life
runs from the grant, and the life the code notes runs from the `Date.now()`
before the fetch. Both are kept as time left. `InTime` is what the time-outs of
10 s and 15 s guarantee, as a condition on `Tick`.

Blackboard may be asked twice and answer with the same token with less life
left; such a token is one of a shorter life here.

### GradeAttempts (`src/tools/grade-writeback.ts`, `src/tools/student.ts`)

A call passes the gates (`Begin`, or `Refuse`: see `Authorization`), looks the
student up in the column's list (`LookUp`, `LookUpFails`), gives up
(`NoAttempt`) or sends its write (`SendWrite`), and ends with the answer
(`WriteAnswered`) or without one (`WriteTimesOut`).
`create_assignment_submission` sends its write at once. Blackboard serves a
write (`Create`, `Patch`, `Remove`, `Reject`) at some moment after it left, also
after the handler gave it up. The list is one page (`limit: 500`), which is what
`FirstPage` stands for: a student beyond it is told "No existing grade attempt
found" (`grade-writeback.ts:431`) whether there is one or not, and gets a new
attempt from every `update_grade`, so the properties speak of listed students.
What is written into an attempt is kept as the set of calls that wrote it.
`seen`, what was there when the look-up was served, is a history variable.

### AssignmentCreation (`src/tools/grade-writeback.ts`)

`create_assignment` posts a content item and, with the id in its answer, a
column; a failure of the second POST is answered with the item's id ("orphan"),
a failure of the first like any other. `create_grade_column` posts a column
alone, linked to an item if the client names one. Which items clients name is
external: `ToBeLinked` is a client that does what the orphan answer says, once
at a time and until it succeeds. Deletions of items and columns in Blackboard
are not modelled: they would make an item lose its column behind every call's
back.

### OAuthFlow and OneTimeTickets (`src/oauth.ts`, the two routes in `src/index.ts`)

| Model | Code |
|---|---|
| `pendingFlows`, `oauthSessions` | the two maps; a flow's value is its age, a session's key its position |
| `StartAuthorizationCodeFlow` | sweeps what has expired, then stores the new flow |
| `RefuseState`, `BeginExchange` | `completeAuthorizationCodeFlow` up to its first await: sweep, look the state up, delete it, request the exchange |
| `StoreSession`, `CallFails` | its answer, or the refusal, loss or time-out of the request |
| `BeginRefresh`, `StoreRefreshed` | `refreshOAuthSession` before and after its await: the record read first is written back with the new tokens |
| `Approve`, `ProviderGrants` | external: the provider redeems a code once and for its own flow's verifier, and accepts a refresh token while it is the valid one; it may replace it or return none |

A flow is named by its random `state`, which is never drawn twice; code
verifier and challenge belong to it and are named by it. A callback may carry
any state and the code of any flow. `disturbed` marks the sessions whose
refreshes overlapped or lost an answer: for these the code cannot promise a
valid refresh token, as the provider may have replaced it meanwhile. A session
whose token was lost stays in the map until the process ends, like every other
session; nothing removes one. Nothing in the repository calls
`refreshOAuthSession` (`oauth.ts:183`), which `oauth.ts` exports: `BeginRefresh`
and `StillRefreshable` are about that function and a future caller, not about
anything the server does today.

`OneTimeTickets` is what the pending flows are for: a ticket is issued once and
is then redeemed at most once, or lapses. `FlowTickets` maps `issued` to the
flows started, `open` to those in the map that have not expired, and `redeemed`
to the exchanges requested.

### Startup and HttpServer (`src/config.ts`, `src/mcp-auth.ts`, `src/index.ts`)

`Config` is the environment as present and absent settings, and `Starts` the
conjunction of the checks of four places: loading (`Loads`), the mTLS settings
(`MtlsSettingsComplete`), complete OIDC settings, and
`assertSafeMcpAuthConfig` (`SafeMcpAuthConfig`). `Init` of `HttpServer` takes
every environment that starts, so the run covers all of them.

| Model | Code |
|---|---|
| `Reaches` | external: what can come to the listener, given its host, proxy and TLS settings |
| `CertificateAccepted`, `KeyAccepted` | `assertMtls` with the gate of the optional mode, and the shared key |
| `ReceiveUnverified` | a request to a server without OIDC: dispatched in the turn it arrives in |
| `Receive`, `Authenticated`, `Refused` | with OIDC: the token is verified, which awaits the keys, and the request is dispatched when that is done |
| `Dispatch` and its six disjuncts | GET, DELETE, POST to a registered session, POST without one, search, and GET or DELETE of an unknown session |
| `Connected` | `await server.connect(transport)` and the first message: `onsessioninitialized` registers the session; any other first message is refused by the SDK |
| `TransportCloses` | `onclose` |
| `actsAs` | what `runWithIdentity` binds in `AsyncLocalStorage` |

The session map is looked at after authentication, in the turn that uses it;
this is what `OnlyLiveSessionsGetMessages` depends on. Nothing ties a session to
the user who opened it: a request that knows another session's id is served by
its transport, with the identity of its own token (`ActsAsItsOwnBearer`).
Answers that change nothing (400, 401, 404, 405 and the printing routes) are not
actions.

### ToolCalls and AdminTools (`src/metrics.ts`, `src/trace.ts`, `src/tools/admin.ts`, `src/tools/webhook-tools.ts`)

A handler is a sequence of batches of requests; the requests of a batch are sent
together and the next batch follows when all are answered. The first to fail
ends the handler, and the others still go out afterwards. A request is counted
by the interceptor once it has a token (`RequestSent`), against the call whose
`AsyncLocalStorage` scope it runs in; an answer ends it (`RequestAnswered`,
`RequestFailed`). `Settle` is the way out through `withTrace` and `withMetrics`:
one trace entry and one count for each scope, innermost first (the two aliases
have two scopes).

`AdminTools` makes each tool an action that enters it: the gate (`Denied`,
`Granted`, each writing its audit entry), the checks before the first await,
and the request (`Asks`: method, one resource or a list, which ones, body).
Blackboard serves it later (`ServeRead`, `ServeWrite`), refuses it or has no
such endpoint (`Refuse`); the answer arrives or is lost. `AnswerToFailure` is
what each tool makes of a failure: the webhook tools a result (an error, but
`list_webhook_subscriptions` an empty list with a note, whatever went wrong),
`list_audit_logs` its local trail where Blackboard has none, the others an error.
A listing names a page, `offset` and `limit`, which Blackboard applies to the
resources in its own order (`OnPage`, `Rank`, both external); one enrollment,
asked for by course and user, has no page. `list_audit_logs` passes its page and
filters to `getLocalAuditLogEntries` (`LocalAuditTrail`, `AuditPage`); what the
filters by user, course and dates leave is a set of calls, and the `total` it
reports beside the page is left out. Enrollments and
subscriptions are resources of two fields; an update may name either, both or
none, and `false` is a value. A create of an enrollment finds its id, that of
its course and user; a create of a subscription gets one from Blackboard.
Requests of the readers of users and of `get_grades` and the alias are there for
the counters and traces and read nothing.

### Reports, ParentTools and ReadTools (`src/tools/student.ts`, `instructor.ts`, `shared.ts`, `parent.ts`)

These handlers share no memory with other calls: all that can go wrong lies in
what they read, in which order, and what they make of it. Each is an operator of
its arguments and of the answers it has so far, and yields the *waves* of its
reads (one wave after the other, the reads of a wave together, as `Promise.all`
does) and its *result*. `ReadTools` runs one call: `ReadAnswered` answers one
read of the first unfinished wave with what Blackboard holds at that moment,
`Change` changes Blackboard in between, `CallFails` is a failing read. The two
tools of these files that write are `SubmitAssignment` and `DraftAnnouncement`.

`Average`, `Tenths`, `DueWithin`, `DaysUntil`, `Band` and `Risk` are the code's
arithmetic. Scores, sums and thresholds are whole numbers of parts, `Point` of
them to a point, so a score has any fraction; sums and quotients are exact, where
the code's are binary. What is shown with `toFixed(1)`, averages, means and
medians, is in tenths of a point; a tie goes up, which a binary fraction may make
go down. Minimum and maximum are shown unrounded.

Everything Blackboard is asked for is answered by `Answer`: what there is
(`Held`), as far as the first page goes (`FirstPage`). The client asks for 100
courses, 200 columns, 500 grades of a column, 500 attempts, 50 announcements, 100
content items and 1000 users, of a student's grades it takes the page Blackboard
gives, and it never reads a second one (`bb-client.ts:184-310`). `Limit` has a
length for each, so a list may be cut, and every property of these tools says of
which page it speaks.

`RolesShown` says whether a user in a course's list carries its course role.
`parent.ts:51` and `59` compare `e.role`, while the client asks for
`fields: "userId,user"` and returns the `user` of each entry, or its id where
there is none (`bb-client.ts:301-310`). If Blackboard answers just that, no caller
is ever an observer and every parent tool shows nothing, to a parent of a child
who is shown everything. `ParentSeesWhatChildSees` states both cases and is proved
for both; the run takes the one with roles, as the other needs no run.

## 3. Runs

| Run | Configuration | Instance | Shows |
|---|---|---|---|
| `jwks_cache` | `JwksCache.cfg` | 3 interchangeable requests, 2 keys, cache 4, forced cooldown 3, failure cooldown 2, timeout 2 | all safety properties of the verifier |
| `jwks_live` | `JwksCacheLive.cfg` | 2 requests, genuine tokens of 2 keys, cache 2, cooldowns 2 and 1, timeout 1 | `RequestsAnswered`, `PublishedKeyLearned` |
| `gates` | `AuthorizationGates.cfg` | 2 calls out of 13 requests, 2 users, 1 course, window 2, buffer of 2 | entitlement, audit trail and buffer |
| `rate` | `AuthorizationRate.cfg` | 5 calls of 2 students, limit 2, window 3, buffer of 4, pages of 1 and 2 | `AdmissionBounded`, `RateDenialDeserved`, `PagingSkipsNothing` |
| `token_cache` | `TokenCache.cfg` | 2 requests, lives of 2 and 7, margin 3, time-outs 1 and 2 | the cache is never optimistic, tokens outlive their requests, revocation |
| `grade_attempts` | `GradeAttempts.cfg` | 3 calls of any tool, 2 listed students and 1 beyond the page, 3 attempts | what races and failures can do to attempts |
| `assignment_creation` | `AssignmentCreation.cfg` | 4 calls | orphans are reported, recovery links them, columns are not doubled |
| `oauth_flow` | `OAuthFlow.cfg` | 2 flows, 2 calls at a time, flows of 1 tick, 3 grants per flow | `FlowsAreOneTimeTickets` (the refinement) and what refreshes leave behind |
| `http_server` | `HttpServer.cfg` | every configuration that starts, 2 requests at a time, 2 users, 2 sessions | the gates, the bound identity, the session map |
| `admin_tools` | `AdminTools.cfg` | 2 calls of any of the tools, 2 enrollments, 1 subscription, buffers of 2, pages of 1 and 2 | writes, listings and the audit view over one Blackboard; counters and traces |
| `read_tools` | `ReadTools.cfg` | 1 call of any of 20 tools, 2 starting states, 2 changes by others, pages of 2 | what a result promises while Blackboard changes, and that the tools agree |
| `ferpa_documented` | `FerpaDocumented.cfg` | 1 call of `list_roster` or `update_grade` | a documented property the code does not have: violated |

*Why the bounds are enough.* In `jwks_cache` three requests are the least with
a creator, a joiner and a request that arrives after the fetch settled; two keys
are the one in use and the one rotated to. The timers keep the order of the real
ones that matters (timeout = failure cooldown < forced cooldown < cache
lifetime, 5 s, 5 s, 30 s, 300 s), each long enough that something can happen
strictly inside it. The forged token and the one refused early each name one of
the keys; an unknown key id is a token whose key is not published. In `gates`
two calls fill the buffer of two beyond its capacity (a refused entitlement
writes two entries) and one instructor call uses up the limit of 1; the requests
reach every way through `parseIdentity` in both identity modes. In `rate` five
calls are one more than the most that may be admitted within a window, and
the window of three ticks leaves room before, in and after it; the same five
calls push an entry out of the buffer of four and put up to four entries, or
none, between two readings of it.

`token_cache`: two requests give an older and a newer answer; a life of 7 is
longer than the margin and both time-outs together, one of 2 shorter than the
margin, so that such a token is used once and never from the cache; time-outs of
1 and 2 ticks keep the order 10 s, 15 s, 30 s. In `grade_attempts` three calls
make a race of two with a third that deletes or retries, and three attempts are
one for each, so `Create` is never held back by the bound. In
`assignment_creation` four calls are an orphan, its recovery, a second recovery
after a failure, and one call beside them.

`oauth_flow`: two calls make two callbacks of one state, two exchanges that
overlap and two refreshes of one session; two flows give a callback with
another flow's code; three grants are the first tokens and both refreshes.
`http_server`: two requests are one that is being authenticated or connected
while the other deletes, closes or uses its session; two users and two sessions
let one user name the other's session. A session id that is known to be drawn
can never be drawn again, so sessions that come and go more often repeat these
cases. `admin_tools`: two calls are an update that races another, a deletion or
a late create; the buffer of traces is smaller than what the two calls of an
alias add (4 entries); that of the audit trail is filled by the two grants.
The two pages are a first one that cuts the list and a second one, the filters
of the trail leave all, the denials, or the entries of one of the calls.
Blackboard starts empty or with every resource. `read_tools`: calls share nothing but
Blackboard, so one call with the changes of others is the general case; two
changes come before, between or after its reads. The two starting states have
due dates at both ends of the window and on one day, scores below, between and
above the two levels, 59.96, none and 0, a grade without a score, one left of
the time when its user was a student, and users with different roles in the two
courses. Three users, three columns of a course, three grades of a column and
three attempts are one more than a page, so every list is also cut. The calls are
those a user of each kind makes.

*Deadlock.* Checked wherever a clock runs: it can always tick or a fetch can
settle. In `http_server` a slot can always take or finish a request. `AdminTools`
and `ReadTools` have an action `Finished` that is enabled only when all calls
are over, so that a call that is stuck before its end is a deadlock TLC reports.
The runs of `GradeAttempts` and `AssignmentCreation` have `CHECK_DEADLOCK
FALSE`: each of their calls is made once, and when all have ended and all writes
are served nothing is left to happen.

*Fairness* (`jwks_live` only). `WF` on `Continue` and `SF` on the timeout and
on `Tick`: Node runs every queued microtask, fires the abort signal, and its
clock advances (strongly fair because other events keep disabling them for a
moment). The other conjuncts are assumptions on the environment: genuine tokens
keep arriving, the provider answers again and again, and some answers arrive in
time. Without them no key can be learned; nothing is assumed about which
request or which token comes.

### What the properties say

- `SingleFlight`, `OutboundRateBounded`: coalescing and the two cooldowns
  together bound the outbound traffic that any pattern of requests can cause, to
  one fetch at a time and two within one failure cooldown.
- `TrustOnlyRecentKeys`: tokens of a withdrawn key are refused after at most the
  cache's lifetime and one fetch timeout, through every path a key takes.
- `ClaimsCheckAgeBounded`: the clock is read once, before up to two awaited
  fetches; the verdict on `exp` is at most two timeouts old.
- `CachedKeyHonoured`: neither unknown key ids nor a failing refresh disturb
  genuine tokens of keys in the live cache.
- `UnavailableMeansOutage`, `RotatedKeyRefusedOnlyInCooldown`: 503 and 401 are
  told apart; a genuine token is refused as invalid only in the shadow of a
  forced refresh less than its cooldown ago.
- `GradeWorkWasEntitled`: a grade tool works for a signed principal, whatever the
  body says, only if the caller managed the course at some moment of the call
  (the code cannot promise more: the lookup is a snapshot).
- `AuditMatchesOutcome`, `BufferIsLatestTrail`: the trail is complete for parsed
  calls and the buffer is its tail.
- `AdmissionBounded`, `RateDenialDeserved`: the exact worst case of fixed
  windows, and the converse.
- `PagingSkipsNothing`: a client that reads one page of the audit trail and later
  the next misses no matching entry that is still in the buffer, however many
  entries were added and dropped in between: everything from what it saw on the
  first page down to the oldest of the second (or, if that is not full, down to
  the oldest still held) is on one of the two. Pages may repeat entries.
- `CacheNeverOverstates`, `TokenOutlivesRequest`: why reading the clock before
  the fetch and a margin above the request's time-out are both needed, and that
  overwriting a newer token by an older one does no harm.
- `RevokedTokenUsedBriefly`: how long a revoked token is still sent; nothing
  but time empties the cache.
- `DuplicateNeedsRace`, `WritesReachOwnAttempt`: a double attempt needs two
  look-ups before either write; late writes, retries and deletions never reach
  another student's attempt.
- `EveryOrphanReported`, `SuccessMeansLinked`, `DoubleColumnNeedsLostAnswer`:
  the error path of `create_assignment` and the recovery it advises.

- `FlowsAreOneTimeTickets`: of all callbacks with one state at most one reaches
  the token endpoint, and none after the flow expired, however callbacks,
  exchanges and sweeps interleave.
- `StillRefreshable`: what a refresh leaves in the session, in the orderly case
  and in every case.
- `RemoteRequestsAreVerified`: the start-up checks, which lie in four files, and
  the gates of the routes leave no configuration and no route in which a request
  from elsewhere is handled without a verified user, TLS and, where it is on, a
  trusted certificate.
- `ActsAsItsOwnBearer`, `RegistryIsExact`, `OnlyLiveSessionsGetMessages`: whose
  identity a call has, what the map holds, and who gets messages, across
  awaits, deletions and closings.
- `CallsAreRecorded` (`MetricsAgreeWithTraces`, `TraceBufferIsNewest`,
  `TraceCountsOwnRequests`): the two records of each call agree, the ring buffer
  holds the newest entries, and a call is never charged with the requests of
  another.
- `AnswersAreTrue` (`SuccessMeansDone`, `ListingsAreExact`,
  `OwnGrantOnFirstPage`): no failure of a write is taken for success; the two
  listings, unless they say that Blackboard did not answer, return the page asked
  for of what the filters describe, as it was at one moment; and the audit view
  has the caller's own grant exactly if it is the first page and the filters
  leave it.
- `WritesAreAsAsked`: every change of Blackboard is what one call asked for,
  field by field, also when it is served after the call is over.
- `ShownChildrenWereObserved`, `StatusIsOfTheCall`: what a result built from
  several reads still promises when Blackboard changes between them. The second
  is about `get_submission_status`, whose two reads may be answered in either
  order while attempts are made and deleted (`delete_grade` is one way) and users
  enrolled and dropped: whom it lists as missing was on the roster at some moment
  of the call and was not on the page of attempts all along; whom it lists as
  having submitted had at some moment; and who was enrolled all along is on one
  of its lists. No more can be promised: it may list as missing somebody whose
  attempt was there before and after.
- `ViewsAgree` (`GradeViewsAgree`, `ParentSeesWhatChildSees`,
  `UpcomingViewsAgree`): the same fact computed in different files is the same
  for student, instructor and parent, as far as the pages read show it. A list of
  a column's grades and a student's own list never contradict each other, but
  one may lack what the other has if it is a full page.
- `ReportsAddUp` (`SubmissionCountsAddUp`, `DistributionSound`,
  `RiskFollowsAverage`): the arithmetic at its edges. Mean and median lie between
  the extremes only as rounded the same way. This, and the views above, are stated
  of a call all of whose reads are answered at one moment, for every Blackboard
  that the changes of the run lead to.

TLAPS proves the type invariant of every component (`TypeCorrect` in each module
of proofs, `TokenTypeCorrect` and `CallTypeCorrect` in `BlackboardProofs`). The
runs repeat it where it says more than types: in `OAuthFlow` (a refresh under way holds a session that exists and
a token), `HttpServer` (a request under way is handled in one place, with a
session that was drawn) and `AdminTools` (buffers within their capacities).
`StillRefreshable` is about a function that nothing calls yet (see `OAuthFlow`).

### Disagreements with the documentation

One is a run, `ferpa_documented`. `config.ts:124` and `.env.example:75` say every
tool that returns another person's PII asks for the FERPA assertion;
`list_roster` does not. The headers of `grade-writeback.ts:3`, `admin.ts:3`,
`webhook-tools.ts:3` and `parent.ts:3`, and the descriptions of the tools in the
first three (`grade-writeback.ts:253`, `admin.ts:396`, `webhook-tools.ts:106` and
others), say every tool of these files requires `ferpa_authorized=true`;
`restrictedTools` (`config.ts:131`), which alone decides, has eight tools, among
them none of the write-back, parent and webhook tools and none of the tools that
create, change or delete enrollments. The tables of `README.md` (from line 285)
show the tools that ask for it as they are. For those eight
the gate holds (`GatesPassed` in `AuthorizationProofs`); no property of a run
promises it of any other tool.

The others were met while modelling and are stated here only. Where a property
says what does hold instead, it is named.

- `.env.example:80` promises limits "per rolling minute window"; the windows are
  fixed (`auth.ts:151`), and nearly twice the limit passes across a boundary:
  `AdmissionBounded`.
- `README.md:373` promises an entry for "every access attempt"; a call refused
  by `parseIdentity` (`auth.ts:304`) leaves none: `AuditMatchesOutcome`.
- `grade-writeback.ts:306` looks "if there's an existing attempt" before it
  makes one; two concurrent calls make two: `DuplicateNeedsRace`.
- `grade-writeback.ts:92` and the answer at 115 say that after a failed second
  POST the item "has no grade column yet"; it may have one if only the answer
  was lost, and the advice then makes a second: `DoubleColumnNeedsLostAnswer`.
- `README.md:362` says the mTLS mode `optional` "permits OIDC without a
  certificate"; the gate at `index.ts:769` answers 401 without one, as its own
  comment says: `RemoteRequestsAreVerified`.
- The comment at `mcp-auth.ts:50` says `MCP_API_KEY` is required beyond the
  machine; the code requires OIDC and TLS and not the key.
- The tool description at `instructor.ts:481` and `README.md:288` promise
  students with many missing assignments; a student without any score is
  skipped, however many are missing: `RiskFollowsAverage`.
- `parent.ts:3` and the descriptions of the parent tools promise what belongs to
  the caller's children; with the client as written (`bb-client.ts:301-310`) and a
  Blackboard that answers the fields asked for, they return nothing:
  `ParentSeesWhatChildSees` with `RolesShown` false.
- `list_users`, `list_enrollments` and the resource lists page on request; the
  other tools read one page of each list and do not say that there is more
  (`bb-client.ts:188`, `212`, `232`, `240`, `268`, `294`, `305`): `ViewsAgree` and
  `ReportsAddUp` hold of those pages.
- `list_webhook_subscriptions` answers any failure, a time-out as well as a
  refusal, with an empty list and a note that the endpoint is not available
  (`webhook-tools.ts:79-98`): `ListingsAreExact` excepts it.
- A distribution of one score of 59.96 shows mean and median 60.0 and maximum
  59.96 (`instructor.ts:322-323`): `DistributionSound`.
- `parent.ts:422` sorts "by due date", by whole days in fact;
  `get_children_courses` says `Active` of every course with an availability,
  whatever it says; `get_announcements` takes `unreadOnly` and does not look at
  it.
- `trace.ts:63` says the count of upstream calls is always captured; the outer
  entry of an alias counts none, and requests still waiting for a token when
  another of their batch fails are sent after the entry is recorded:
  `TraceCountsOwnRequests`.
- The resource `course://{courseId}` (`index.ts:583`) reads the path of the
  URI, where the id is the authority, and so asks for a course without an id.

## 4. Theorems

Proved by TLAPS for every value of the constants that the named assumptions of
the modules admit; TLC evaluates those assumptions in the runs. Every safety
property and action property that a passing run checks is proved, and so is the
refinement; only the two liveness properties are not.

**`JwksCacheProofs`** assumes `TimersAssumption`: positive timers, the fetch
timeout shorter than the forced-refresh cooldown (5 s and 30 s in the code), and
the failure cooldown (5 s) no longer than that one or the cache's lifetime
(300 s). The safety properties of `JwksCache` are not inductive. `IInv` adds what ties a
waiting request to the rest:

- `FlightInv`: the fetch in flight is the only one outstanding, and every
  waiting request waits for it;
- `KeyInv`: a key in an answer under way left the document no longer ago than
  the fetch is old, a cached key no longer ago than the cache has lived plus one
  timeout, and so on for the keys handed to a request;
- `AgeInv`: a request that waits is no older than its fetch, plus one timeout if
  it waits for the second time;
- `StampInv`: the forced refresh a request waits for was stamped while its fetch
  ran; as fetches time out sooner than the cooldown ends, the cooldown still
  runs when the request resumes;
- `CacheInv`: a request waits for its first fetch only while the cache is not
  live, a resumed one holds what the cache holds, and one that waits for a
  forced refresh names a key the live cache does not have;
- `RateInv`: when no fetch is in flight, the last one that started lies a
  failure cooldown back, or what is left of the failure cooldown, or of the live
  cache it filled, covers the difference; and two fetches within a failure
  cooldown are there only by a forced refresh, whose own cooldown then still
  runs. So a third fetch finds one of the three doors shut;
- `OutageInv`, `TokenInv`.

Each part is preserved by every action (one lemma per part, one step per
action); `AnswerCases` lists what may be answered in which state, and the
theorems about answers follow from it: `ClaimsCheckAgeCorrect`, `TrustCorrect`,
`CachedKeyCorrect`, `UnavailableCorrect`, `RotatedKeyCorrect`. `FlightInv` gives
`SingleFlightCorrect`, and `RateInv` gives `OutboundRateCorrect`.

**`AuthorizationProofs`** assumes only that requests, limits and bounds have
their types and that `None` and `NaN` are none of the values they stand apart
from. Five invariants, each preserved by every action (one step per action):

- `Safe` = `TypeOK`, `BufferIsLatestTrail` and `LookupHasCourse` (a lookup is
  made only with a course id, without which the membership it reads would have
  no type). The types need the buffer's property and the reverse. Its one hard
  step is `RecordKeepsLatest`, a lemma about sequences: recording an entry in
  the latest `Capacity` entries of a trail, by cutting off what is too much at
  the front, gives the latest of the longer trail. Hence `TypeCorrect` and
  `BufferIsTail`.
- `GatesPassed`: past `checkAuthorization` the call carries its principal's
  identity, which passes both gates. It rests on `CheckOutcome`, what the four
  ways out of `checkAuthorization` have in common.
- `EntitlementKnown`: for each stage of a call, why `managed` holds if the call
  can still go on: the caller manages the course now (while the lookup is under
  way; a change of enrollment keeps it, as `managed` sees every change), the
  answer says so, or the check has passed. Hence `EntitlementHolds`.
- `AuditMatchesOutcome` itself, which is inductive once the types are known. A
  step that writes the trail adds one entry, of one call (`NewEntry`), and
  leaves what the trail tells of the others (`ToldAsBefore`). Hence
  `AuditTells`, and, with `Safe`, `PagingHolds` (`PagesOfTrail`). Then no two
  entries are the same (`EntriesDiffer`), so an entry has one place among those
  that match, and a page of the buffer is the page of the trail so far as the
  buffer reaches (`PageOfLatest`). However many entries come, all older matching
  ones move by the same number of places (`PlacesMove`); so what was just past
  the first page is on the next or before it, every place in between is taken by
  some entry (`PlaceReached`), a page that does not reach the oldest is full
  (`PageFull`), and the two pages meet or overlap (`PagesMeet`).
- `WindowInv`: `CountsAgree` of each key's window and of what was admitted
  lately. While a window runs, its count is that of the calls admitted since it
  opened, and fewer than the limit of those admitted before are still recent;
  when it is over, fewer than the limit are recent at all. This is stated for
  every age and not for the window's full length alone, as the clock moves each
  count to the next age. Hence `WindowsAgree`,
  `AdmissionHolds` and the action property `RateDenialsDeserved`.

**`BlackboardProofs`**, about `TokenCache`, assumes that the time-out of a
request is shorter than the margin (15 s and 30 s in the code). `TokenInv` = the
type invariant, `CacheNeverOverstates` and: `GrantInv` (a granted token's life is
short of its full length by at most the time its fetch has waited, and if it is
revoked this happened meanwhile), `SentInv` (what is left of a sent token covers
what is left of its request), `CacheInv` (a revoked token in the cache has used
up the time since its revocation) and `RevokedInv`. Hence `TokenTypeCorrect`,
`CacheCorrect`, `TokenOutlives`, `RevokedBriefly`.

**`BlackboardProofs`**, about `ReadTools`, assumes that the constants have their
types, that an id is of one course, user or column, and that the starting worlds
and the calls are such as there can be (`ReportsAssumption`,
`WorldsAssumption`, `CallsAssumption`). It holds for any users, courses, columns,
scores of any fraction, due dates, lengths of pages, calls and numbers of
changes, and whether the roster tells roles or not. It goes in four steps.

- *Lists.* What `Filter`, `SortedBy`, `FlattenSeq` and `Added` return is proved
  for lists of every length: the same elements in their order (`Selected`), the
  same elements each as often and in the order of their keys (`Sorted`), the
  elements of all lists (`Flattened`), a sum between the bounds of its terms
  (`AddedBounds`). The provers cannot instantiate an induction theorem, as it
  takes an operator; `InductionOnSet` states induction for a set of numbers
  instead and proves it by counting: were a number missed, adding 1 would map a
  finite set one to one into a smaller one. `InOrder` and `SortOrder` are defined
  by counting for the same reason: `Places` says that the elements of a finite
  total order have each its own place.
- *A call under way.* `CallInv` = the type invariant and: `ParentInv` (each roster
  read so far that has the caller as an observer shows only students who were the
  caller's children at some moment since the call began, and everybody who is a
  child now is in that history) and `StatusInv`, with `span`, the history of who
  was on the two pages ever, and who always, since the call began: what is on
  them now lies between the two (`StatusNow`), and so does what has been read of
  them (`StatusReads`). A change moves the bounds apart at most, and an answer is
  that of its moment; so nothing rests on what changes there can be, and
  deletions and enrollments are as good as additions. `ParentResults` and
  `StatusResult` say what the results show if these hold when the last read is
  answered. Hence `ShownChildrenObserved` and `StatusCorrect`.
- *Views of one moment.* `AtOnceAnswers` gives the answers to all reads at one
  moment, and one lemma per tool what it makes of them: `OwnGrades`,
  `GradesAsked`, `ColumnAsked`, `AtRiskRows`, `OwnUpcoming`, `ChildsGrades`,
  `ChildsCourses`, `ChildsUpcoming`. Three ideas carry the rest. A page is the
  whole list or a full beginning of it (`PageOf`), so two views of one list agree
  in what both show, and a view that is not full has everything (`OwnPageFacts`,
  `ColumnPageFacts`). The children found are those `Kin` to the caller, each once,
  as a found child is kept at its first place only (`ChildrenResolved`), so what a
  parent asks about one child is about that child alone. And the days until an
  assignment is due, rounded up, are within those asked for exactly if its time
  is in the window (`DueFacts`). Hence `ViewsCorrect`.
- *Reports of one moment.* `CountsSound` counts a roster in two parts, those who
  submitted and those who did not; `BandsCount` counts the scores band by band;
  `MiddleFacts` bounds mean and median by the first and last score in order, and
  as rounding keeps order, for scores and counts of any size (`TenthsGrow`), the
  rounded ones by the rounded extremes; and `RiskSound` compares the exact sum
  with the rounded average: 59.95 and more is shown as 60.0 and can be high
  still, anything less cannot be anything else. Hence `ReportsCorrect`.

**`GradeAttemptsProofs`** assumes nothing but the types of the constants.
`WriterInv`: the calls that wrote an attempt were asked for its student, and its
creator had found none. `FoundInv`: a found id is of the student's attempt as
long as that lives, and ids are not reused. `SeenInv`: a call for a listed
student that goes on without an id saw no attempt. Hence `DuplicatesAreRaces`
and `OwnAttempts`.

**`AssignmentCreationProofs`** assumes nothing but that `None` is none of the
values it stands apart from. `MadeInv` and `ServedInv` say what Blackboard has
made of each POST, `StageInv` what each stage of a handler has done, `ItemInv`
that an item's maker holds its id, `BorrowInv` that others have it from an
orphan answer only, and `LinkInv` that of the calls holding an id at most one
can still succeed or did. Hence `OrphansReported`, `SuccessLinks` and
`DoubleColumnsLostAnswer`.

**`OAuthFlowProofs`** assumes only that the lifetime of a flow is a natural
number. The tickets that are open are the flows no older than that; the map may
still hold expired ones, so `FlowInv` (the map is of started flows, with their
ages) is needed to tell what a sweep takes. One lemma per action says which
step of `OneTimeTickets` it is: a start issues a ticket (`StartIssues`), a
callback redeems one before its exchange (`ExchangeRedeems`) or is refused and
takes none (`RefusalStutters`), the clock lets some lapse (`TickLapses`), and
nothing else touches them. Hence `FlowsImplementTickets`, the refinement, and,
with `OnceInv` (a flow not started was never exchanged), `StatesExchangedOnce`.

For the sessions, `SessionsInv` adds to the types: `OwnerInv` (a flow that has a
grant belongs to one session, or to one exchange that was answered and will
store it, and the refresh token in that answer is the one the provider
accepts), `RefreshInv` (a refresh under way holds a copy of its session; if
nothing disturbed the session the copy is true, no other refresh is under way,
and the provider accepts what this one will store) and `TokenInv`, which is
`StillRefreshable` with its sets spelled out. Hence `TypeCorrect` and
`StaysRefreshable`.

**`HttpServerProofs`** assumes nothing but that `None` is none of the values it
stands apart from, so it holds for any number of requests, users and sessions
and in every environment of `Startup`. `IInv` is `DeploymentInv` (who can be
reached from another machine verifies users, over TLS; who asks for
certificates verifies users), `GateInv` (a request under way has passed the
gates that its deployment has, and is handled under its own bearer) and
`SessionInv` (registered, connecting and removed sessions are disjoint, and no
session is connected twice). `StartedSafely` proves the first from the start-up
checks alone; after that no step changes the deployment. One lemma per way a
step can touch the slots and one per way it can touch the sessions carry the
rest. Hence `TypeCorrect`, `RemoteVerified`, `OwnBearer`, `RegistryExact` and
the action property `LiveSessionsOnly`.

**`AdminToolsProofs`** assumes capacities above 0 of both buffers, well-typed
starting states of Blackboard, an order of its lists that tells all resources
apart, pages with a limit above 0, and that `None` is none of the kinds of answer.
`IInv` has three parts:

- `Calling`: `RecordsInv` (the trace buffer is the newest of all entries ever
  recorded, and the counters of each tool are the cardinalities of its entries
  and of its failed ones), `CallsInv` (every record of a call is `Good`: its
  counts, what it asks for as its arguments say, what its reply holds, and what
  its answer means) and `TraceInv` (an entry is of a call that is over, and says
  of its requests what the record says);
- `AuditInv`, the audit buffer's type and bound;
- the type of what Blackboard holds.

The steps fall into few shapes: a call that continues (`ContinueStep`) and one
that settles (`SettleStep`, which rests on `RecordKeepsNewest` for the buffer
and on `CountsAppend` for the counters, both lemmas about sequences); each tool
and each answer is one of the two. `WriteIsAsAsked` says that what Blackboard
does with a request is what its call asked for. `NewestOnPage` is the audit view: the
newest entry of the buffer, which the call has just added and no other equals,
is on a page exactly if that is the first and the filters leave it. Hence `TypeCorrect`,
`Records`, `Answers` and the action property `Writes`.

Only model-checked: `RequestsAnswered` and `PublishedKeyLearned`, as liveness
under fairness is out of the prover's reach. That the run `ferpa_documented` is
violated is TLC's finding alone.

## 5. Plan

Every component with state of its own is modelled, and every safety property is
proved. What could be added: abstract specifications for two more components,
with the refinement proved, a rate limiter that admits at most a number of calls
per span of time, above `Authorization`, and a token store that yields only
tokens with life left, above `TokenCache`.

### Not modelled

- Wording and layout of outputs; the categories and texts of errors.
- `output-scrub.ts`, `privacy.ts`: what is scrubbed is decided by regular
  expressions over characters, without state.
- `cli.ts`, `manifest.ts`, `schemas.ts`, `types.ts`: text and declarations.
- The health, metrics and manifest routes, the course resource, and stdio mode,
  which has one client and no gate of its own.
- The standard deviation of a grade distribution, the date filter of the audit
  trail where it is paged, the total beside a page of it, pushing metrics to a
  gateway.
- What `list_users` and `get_user` return: in `AdminTools` they are there for the
  gate, the records and the traces only.
- Rounding in binary fractions: sums and quotients of scores are exact.
- TLS and JWT cryptography (a verdict in the model), Express and the MCP SDK
  (external, as far as `HttpServer` states).
