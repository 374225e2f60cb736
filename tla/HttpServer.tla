----------------------------- MODULE HttpServer ------------------------------
(***************************************************************************)
(* The /mcp and /sse/search-course-materials routes of src/index.ts: the   *)
(* gates a request passes, the map of MCP sessions, and the identity tool  *)
(* handlers run under.                                                     *)
(*                                                                         *)
(* Authenticating a request awaits the key cache, connecting a new server  *)
(* object awaits too, and handling a message lasts as long as its tool: in *)
(* between, other requests run.  The MCP SDK behind a transport is         *)
(* external: it accepts one initialize message as the first of a session   *)
(* and refuses every other first message.  Responses that change nothing   *)
(* (the other routes, 400, 401, 404, 405) are not actions.                 *)
(***************************************************************************)
EXTENDS Startup

CONSTANTS
  Slots,     \* requests being handled at the same time
  Users,     \* verified identities
  Sessions,  \* session identifiers, each drawn at most once
  None       \* no user, no session

ASSUME NoneAssumption == None \notin Users \cup Sessions

Methods == {"GET", "DELETE", "POST", "SEARCH"}

\* cert: a trusted client certificate, seen by the server or by its proxy.
\* bearer: the user the bearer token speaks for.  key: the request carries
\* the shared key, in the header where it belongs.  session: the id a POST
\* gives in its query or its header, and GET and DELETE in their query only.
Request ==
  {q \in [origin : {"local", "proxied", "remote"}, cert : BOOLEAN,
          bearer : Users \cup {None}, key : BOOLEAN, method : Methods,
          session : Sessions \cup {None}, initialize : BOOLEAN] :
     /\ q.initialize => q.method = "POST"
     /\ q.method = "SEARCH" => q.session = None}

VARIABLES
  deployment,  \* the configuration of the running server
  transports,  \* transports: the ids of the registered sessions
  pc,          \* where each request stands
  request,     \* the request in each slot; once a transport handles it, with
               \* the session of that transport
  actsAs,      \* the identity bound to the handlers the request runs
  drawn,       \* history: the session ids drawn
  live,        \* history: the sessions initialized, neither deleted nor closed
  removed      \* history: the sessions deleted or closed

sessionVars == <<transports, drawn, live, removed>>
slotVars == <<pc, request, actsAs>>
vars == <<deployment, sessionVars, slotVars>>

Handling == {"connecting", "calling", "streaming", "searching"}

TypeOK ==
  /\ deployment \in Deployment
  /\ transports \in SUBSET Sessions
  /\ pc \in [Slots -> {"idle", "authenticating"} \cup Handling]
  /\ \A r \in Slots : request[r] \in Request \cup {None}
  /\ \A r \in Slots : pc[r] # "idle" => request[r] \in Request
  /\ \A r \in Slots :
       pc[r] \in {"connecting", "calling", "streaming"} =>
         request[r].session \in drawn
  /\ actsAs \in [Slots -> Users \cup {None}]
  /\ drawn \in SUBSET Sessions
  /\ live \in SUBSET drawn /\ removed \in SUBSET drawn

Init ==
  /\ deployment \in {Deployed(c) : c \in {d \in Config : Starts(d)}}
  /\ transports = {}
  /\ pc = [r \in Slots |-> "idle"]
  /\ request = [r \in Slots |-> None]
  /\ actsAs = [r \in Slots |-> None]
  /\ drawn = {}
  /\ live = {}
  /\ removed = {}

-----------------------------------------------------------------------------
(* The gates.                                                              *)

\* External: how a request can come to the listener.  A certificate is sent
\* only where one is asked for, the shared key only where one is set; a
\* handshake that requires a trusted certificate fails without it.
Reaches(q) ==
  /\ q.origin = "remote" => deployment.listen = "network"
  /\ q.origin = "proxied" => deployment.proxied
  /\ q.cert => deployment.mtlsMode # "disabled"
  /\ q.key => deployment.mcpApiKey
  /\ deployment.mtlsMode = "required" => q.cert
  /\ q.bearer # None => deployment.oidc

\* Mutant: the certificate is asked for but not looked at.
AnyCertificate(q) == TRUE

\* assertMtls, and the gate of the optional mode in front of all routes.
CertificateAccepted(q) == deployment.mtlsMode # "disabled" => q.cert

KeyAccepted(q) == deployment.mcpApiKey => q.key

Free(r) ==
  /\ pc' = [pc EXCEPT ![r] = "idle"]
  /\ request' = [request EXCEPT ![r] = None]
  /\ actsAs' = [actsAs EXCEPT ![r] = None]

\* Mutant: the identity is kept in one place for all requests being handled.
SharedIdentity(identity) ==
  IF \E r \in Slots : actsAs[r] # None
    THEN CHOOSE u \in Users : \E r \in Slots : actsAs[r] = u
    ELSE identity

BoundIdentity(identity) == identity

\* The transport of session s handles the request, bound to its identity.
Handle(r, q, where, s, identity) ==
  /\ pc' = [pc EXCEPT ![r] = where]
  /\ request' = [request EXCEPT ![r] = [q EXCEPT !.session = s]]
  /\ actsAs' = [actsAs EXCEPT ![r] = BoundIdentity(identity)]

-----------------------------------------------------------------------------
(* The routes, once the request is admitted.                               *)

\* Mutant: the session is looked up before the request is authenticated, so
\* one that is deleted meanwhile is still found.
EverRegistered(s) == s \in transports \cup removed

\* Mutant: a request that names a session is taken to have one.
SessionNamed(s) == s # None

Registered(s) == s \in transports

OpenStream(r, q, identity) ==
  /\ q.method = "GET"
  /\ Registered(q.session)
  /\ Handle(r, q, "streaming", q.session, identity)
  /\ UNCHANGED sessionVars

\* The session is forgotten; its transport is not closed, and requests it is
\* handling go on.
DeleteSession(r, q) ==
  /\ q.method = "DELETE"
  /\ Registered(q.session)
  /\ transports' = transports \ {q.session}
  /\ live' = live \ {q.session}
  /\ removed' = removed \cup {q.session}
  /\ Free(r)
  /\ UNCHANGED drawn

PostToSession(r, q, identity) ==
  /\ q.method = "POST"
  /\ Registered(q.session)
  /\ Handle(r, q, "calling", q.session, identity)
  /\ UNCHANGED sessionVars

\* Mutant: the new transport is registered before it is initialized.
RegisterAtOnce(s) == transports' = transports \cup {s}

NotYetRegistered(s) == UNCHANGED transports

\* Without a registered session the request gets a transport of its own, with
\* a random id and a server object of its own.
PostNewSession(r, q, identity) ==
  /\ q.method = "POST"
  /\ ~Registered(q.session)
  /\ \E s \in Sessions \ drawn :
       /\ drawn' = drawn \cup {s}
       /\ NotYetRegistered(s)
       /\ Handle(r, q, "connecting", s, identity)
  /\ UNCHANGED <<live, removed>>

SearchMaterials(r, q, identity) ==
  /\ q.method = "SEARCH"
  /\ Handle(r, q, "searching", None, identity)
  /\ UNCHANGED sessionVars

\* A GET or DELETE of a session that is not registered.
Unknown(r, q) ==
  /\ q.method \in {"GET", "DELETE"}
  /\ ~Registered(q.session)
  /\ Free(r)
  /\ UNCHANGED sessionVars

Dispatch(r, q, identity) ==
  \/ OpenStream(r, q, identity)
  \/ DeleteSession(r, q)
  \/ PostToSession(r, q, identity)
  \/ PostNewSession(r, q, identity)
  \/ SearchMaterials(r, q, identity)
  \/ Unknown(r, q)

-----------------------------------------------------------------------------
(* Requests.                                                               *)

\* Without OIDC the request is dispatched in the turn it arrives in, with no
\* verified identity, if it carries the shared key a server may have.
ReceiveUnverified(r) ==
  /\ pc[r] = "idle"
  /\ ~deployment.oidc
  /\ \E q \in Request :
       /\ Reaches(q)
       /\ KeyAccepted(q)
       /\ Dispatch(r, q, None)
  /\ UNCHANGED deployment

\* With OIDC its token is verified first, which awaits the keys.
Receive(r) ==
  /\ pc[r] = "idle"
  /\ deployment.oidc
  /\ \E q \in Request :
       /\ Reaches(q)
       /\ CertificateAccepted(q)
       /\ q.bearer # None
       /\ request' = [request EXCEPT ![r] = q]
  /\ pc' = [pc EXCEPT ![r] = "authenticating"]
  /\ UNCHANGED actsAs
  /\ UNCHANGED <<deployment, sessionVars>>

Authenticated(r) ==
  /\ pc[r] = "authenticating"
  /\ KeyAccepted(request[r])
  /\ Dispatch(r, request[r], request[r].bearer)
  /\ UNCHANGED deployment

\* The token is invalid, the provider is down or the shared key is wrong.
Refused(r) ==
  /\ pc[r] = "authenticating"
  /\ Free(r)
  /\ UNCHANGED <<deployment, sessionVars>>

\* The server object is connected and the transport handles the message: an
\* initialize message registers the session (onsessioninitialized), any other
\* one is refused and the transport is dropped.
Connected(r) ==
  /\ pc[r] = "connecting"
  /\ IF request[r].initialize
       THEN /\ transports' = transports \cup {request[r].session}
            /\ live' = live \cup {request[r].session}
       ELSE UNCHANGED <<transports, live>>
  /\ Free(r)
  /\ UNCHANGED <<deployment, drawn, removed>>

\* The tool call or the search is answered, or the client leaves the stream.
Ends(r) ==
  /\ pc[r] \in {"calling", "streaming", "searching"}
  /\ Free(r)
  /\ UNCHANGED <<deployment, sessionVars>>

\* The transport closes: onclose forgets its session.
TransportCloses(s) ==
  /\ s \in live
  /\ transports' = transports \ {s}
  /\ live' = live \ {s}
  /\ removed' = removed \cup {s}
  /\ UNCHANGED <<deployment, slotVars, drawn>>

Next ==
  \/ \E r \in Slots :
       \/ ReceiveUnverified(r) \/ Receive(r)
       \/ Authenticated(r) \/ Refused(r) \/ Connected(r) \/ Ends(r)
  \/ \E s \in Sessions : TransportCloses(s)

Spec == Init /\ [][Next]_vars

-----------------------------------------------------------------------------
(* Properties.                                                             *)

\* In every configuration the server starts in, whatever comes from another
\* machine, directly or through the proxy, is handled only for a verified
\* user and over TLS, and with a trusted certificate where mTLS is on: the
\* start-up checks and the gates of both routes leave no gap between them.
RemoteRequestsAreVerified ==
  \A r \in Slots : pc[r] \in Handling =>
    /\ request[r].origin # "local" => actsAs[r] \in Users
    /\ request[r].origin = "remote" => deployment.tls
    /\ deployment.mtlsMode # "disabled" => request[r].cert

\* Whoever opened the session it uses, a request acts with the identity of its
\* own token and no other.
ActsAsItsOwnBearer ==
  \A r \in Slots : pc[r] \in Handling => actsAs[r] = request[r].bearer

\* The map holds the sessions that were initialized and neither deleted nor
\* closed: no half-made session is ever found in it and none comes back.
RegistryIsExact == transports = live /\ live \cap removed = {}

\* A request is handed to a session's transport only while the session is
\* registered: one that was deleted while the request was being authenticated
\* gets no new message, although its transport still exists.
OnlyLiveSessionsGetMessages ==
  [][\A r \in Slots :
       pc'[r] \in {"calling", "streaming"} /\ pc[r] # pc'[r] =>
         request'[r].session \in live]_vars
==============================================================================
