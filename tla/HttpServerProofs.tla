-------------------------- MODULE HttpServerProofs ---------------------------
(***************************************************************************)
(* The properties of HttpServer for any number of requests, users and      *)
(* sessions, in every configuration that Startup lets the server start in. *)
(***************************************************************************)
EXTENDS HttpServer, TLAPS

USE NoneAssumption

Ids == Sessions \cup {None}
Identities == Users \cup {None}

-----------------------------------------------------------------------------
(* The inductive invariant.                                                *)

\* The start-up checks, as the gates need them: whoever can be reached from
\* another machine verifies its users, over TLS, and so does whoever asks for
\* certificates.
DeploymentInv ==
  /\ deployment \in Deployment
  /\ deployment.listen = "network" => deployment.oidc /\ deployment.tls
  /\ deployment.proxied => deployment.oidc
  /\ deployment.mtlsMode # "disabled" => deployment.oidc

SlotTypes ==
  /\ pc \in [Slots -> {"idle", "authenticating"} \cup Handling]
  /\ request \in [Slots -> Request \cup {None}]
  /\ actsAs \in [Slots -> Identities]
  /\ \A r \in Slots : pc[r] # "idle" => request[r] \in Request

\* What a request has passed when it is let in.
Admitted(q) ==
  /\ Reaches(q)
  /\ deployment.oidc => CertificateAccepted(q) /\ q.bearer \in Users

\* A request under way was let in, and its handlers run under its bearer.
GateInv ==
  \A r \in Slots :
    /\ pc[r] # "idle" => Admitted(request[r])
    /\ pc[r] \in Handling => actsAs[r] = request[r].bearer

Connecting(r, s) == pc[r] = "connecting" /\ request[r].session = s

\* A session is registered from its initialization until it is deleted or
\* closed.  One whose transport still connects is neither registered nor
\* removed, and no other request connects it.
SessionInv ==
  /\ drawn \in SUBSET Sessions
  /\ live \in SUBSET drawn /\ removed \in SUBSET drawn
  /\ RegistryIsExact
  /\ \A r \in Slots :
       pc[r] \in {"connecting", "calling", "streaming"} =>
         request[r].session \in drawn
  /\ \A r \in Slots : pc[r] = "connecting" =>
       /\ request[r].session \notin live \cup removed
       /\ \A o \in Slots : Connecting(o, request[r].session) => o = r

IInv == DeploymentInv /\ SlotTypes /\ GateInv /\ SessionInv

-----------------------------------------------------------------------------
(* The deployments of the servers that start.                              *)

LEMMA StartedSafely ==
  ASSUME NEW c \in Config, Starts(c), deployment = Deployed(c)
  PROVE  DeploymentInv
<1>1. deployment \in Deployment
  BY DEF Deployment, Deployed, Config, ResolveListenHost, IsOidcEnabled
<1>2. /\ deployment.listen = ResolveListenHost(c)
      /\ deployment.proxied = c.trustProxyTls
      /\ deployment.tls = c.certAndKey
      /\ deployment.oidc = IsOidcEnabled(c)
      /\ deployment.mtlsMode = c.mtlsMode
  BY DEF Deployed
<1>3. OidcConfigured(c) => IsOidcEnabled(c)
  BY DEF OidcConfigured, IsOidcEnabled, OidcSettings
<1>4. c.trustProxyTls => ResolveListenHost(c) # "network"
  BY DEF ResolveListenHost
<1>. QED
  BY <1>1, <1>2, <1>3, <1>4
     DEF DeploymentInv, Starts, SafeMcpAuthConfig, MtlsSettingsComplete

-----------------------------------------------------------------------------
(* What a step does to the slots.                                          *)

\* A slot is emptied.
LEMMA FreeKeeps ==
  ASSUME IInv, NEW r \in Slots, Free(r), UNCHANGED deployment
  PROVE  /\ SlotTypes' /\ GateInv'
         /\ pc'[r] = "idle"
         /\ \A o \in Slots \ {r} : pc'[o] = pc[o] /\ request'[o] = request[o]
<1>1. /\ pc'[r] = "idle" /\ request'[r] = None /\ actsAs'[r] = None
      /\ \A o \in Slots \ {r} : /\ pc'[o] = pc[o]
                                /\ request'[o] = request[o]
                                /\ actsAs'[o] = actsAs[o]
  BY DEF Free, IInv, SlotTypes
<1>2. SlotTypes'
  BY <1>1 DEF Free, IInv, SlotTypes, Identities
<1>3. GateInv'
  BY <1>1 DEF IInv, GateInv, Admitted, Reaches, CertificateAccepted, Handling
<1>. QED
  BY <1>1, <1>2, <1>3

\* A request that was admitted is handled by the transport of a session.
LEMMA HandleKeeps ==
  ASSUME IInv, NEW r \in Slots, NEW q \in Request, Admitted(q),
         NEW where \in Handling, NEW s \in Ids, NEW identity \in Identities,
         identity = q.bearer, q.method = "SEARCH" => s = None,
         Handle(r, q, where, s, identity), UNCHANGED deployment
  PROVE  /\ SlotTypes' /\ GateInv'
         /\ pc'[r] = where /\ request'[r].session = s
         /\ \A o \in Slots \ {r} : pc'[o] = pc[o] /\ request'[o] = request[o]
<1>. DEFINE h == [q EXCEPT !.session = s]
<1>1. /\ h \in Request
      /\ h.session = s /\ h.origin = q.origin /\ h.cert = q.cert
      /\ h.bearer = q.bearer /\ h.key = q.key
  BY DEF Request, Ids
<1>2. /\ pc'[r] = where /\ request'[r] = h /\ actsAs'[r] = identity
      /\ \A o \in Slots \ {r} : /\ pc'[o] = pc[o]
                                /\ request'[o] = request[o]
                                /\ actsAs'[o] = actsAs[o]
  BY DEF Handle, BoundIdentity, IInv, SlotTypes
<1>3. SlotTypes'
  BY <1>1, <1>2 DEF Handle, BoundIdentity, IInv, SlotTypes, Identities
<1>4. Admitted(h)'
  BY <1>1 DEF Admitted, Reaches, CertificateAccepted
<1>5. GateInv'
  <2>. SUFFICES ASSUME NEW o \in Slots
                PROVE  /\ pc'[o] # "idle" => Admitted(request[o])'
                       /\ pc'[o] \in Handling => actsAs'[o] = request'[o].bearer
    BY DEF GateInv
  <2>1. CASE o = r
    BY <1>1, <1>2, <1>4, <2>1 DEF Admitted, Reaches, CertificateAccepted
  <2>2. CASE o # r
    BY <1>2, <2>2 DEF IInv, GateInv, Admitted, Reaches, CertificateAccepted
  <2>. QED
    BY <2>1, <2>2
<1>. QED
  BY <1>1, <1>2, <1>3, <1>5

-----------------------------------------------------------------------------
(* What a step does to the sessions: the four ways it can touch them, with  *)
(* one slot r at most leaving its place.                                    *)

\* The slots other than r stay as they are.
OthersKept(r) ==
  \A o \in Slots \ {r} : pc'[o] = pc[o] /\ request'[o] = request[o]

\* No session changes; a transport that handles the request is of a drawn one.
LEMMA SessionsKept ==
  ASSUME IInv, NEW r \in Slots, OthersKept(r), UNCHANGED sessionVars,
         pc'[r] # "connecting",
         pc'[r] \in {"calling", "streaming"} => request'[r].session \in drawn
  PROVE  SessionInv'
BY DEF IInv, SessionInv, RegistryIsExact, OthersKept, Connecting, sessionVars

\* A session is drawn for the request that connects it.
LEMMA SessionDrawn ==
  ASSUME IInv, NEW r \in Slots, OthersKept(r), NEW s \in Sessions \ drawn,
         drawn' = drawn \cup {s}, UNCHANGED <<transports, live, removed>>,
         pc'[r] = "connecting", request'[r].session = s
  PROVE  SessionInv'
BY DEF IInv, SessionInv, RegistryIsExact, OthersKept, Connecting

\* The session of the request that connects it is registered.
LEMMA SessionInitialized ==
  ASSUME IInv, NEW r \in Slots, OthersKept(r), pc[r] = "connecting",
         pc'[r] = "idle",
         transports' = transports \cup {request[r].session},
         live' = live \cup {request[r].session},
         UNCHANGED <<drawn, removed>>
  PROVE  SessionInv'
BY DEF IInv, SessionInv, RegistryIsExact, OthersKept, Connecting

\* A registered session is deleted or closed.
LEMMA SessionRemoved ==
  ASSUME IInv, NEW s \in live,
         transports' = transports \ {s}, live' = live \ {s},
         removed' = removed \cup {s}, UNCHANGED drawn,
         \A o \in Slots : /\ pc'[o] \in {pc[o], "idle"}
                          /\ pc'[o] # "idle" => request'[o] = request[o]
  PROVE  SessionInv'
BY DEF IInv, SessionInv, RegistryIsExact, Connecting

-----------------------------------------------------------------------------
(* A dispatched request.                                                   *)

\* What every step keeps, and what it never does: hand a request to the
\* transport of a session that is not live.
Kept ==
  /\ IInv'
  /\ \A r \in Slots :
       pc'[r] \in {"calling", "streaming"} /\ pc[r] # pc'[r] =>
         request'[r].session \in live

LEMMA DispatchKeeps ==
  ASSUME IInv, NEW r \in Slots, pc[r] \in {"idle", "authenticating"},
         NEW q \in Request, Admitted(q), NEW identity \in Identities,
         identity = q.bearer, Dispatch(r, q, identity), UNCHANGED deployment
  PROVE  Kept
<1>. DeploymentInv'
  BY DEF IInv, DeploymentInv
<1>. live \subseteq drawn /\ transports = live /\ live \in SUBSET Sessions
  BY DEF IInv, SessionInv, RegistryIsExact
<1>. {"connecting", "calling", "streaming", "searching"} = Handling
  BY DEF Handling
<1>1. ASSUME NEW where \in {"calling", "streaming"}, Registered(q.session),
             Handle(r, q, where, q.session, identity), UNCHANGED sessionVars,
             q.method # "SEARCH"
      PROVE  Kept
  <2>1. q.session \in live
    BY <1>1 DEF Registered
  <2>2. /\ SlotTypes' /\ GateInv' /\ OthersKept(r)
        /\ pc'[r] = where /\ request'[r].session = q.session
    BY <1>1, <2>1, HandleKeeps DEF Ids, OthersKept
  <2>3. SessionInv'
    BY <1>1, <2>1, <2>2, SessionsKept
  <2>. QED
    BY <2>1, <2>2, <2>3 DEF Kept, IInv, OthersKept
<1>2. CASE OpenStream(r, q, identity)
  BY <1>1, <1>2 DEF OpenStream
<1>3. CASE PostToSession(r, q, identity)
  BY <1>1, <1>3 DEF PostToSession
<1>4. CASE DeleteSession(r, q)
  <2>1. q.session \in live /\ Free(r)
    BY <1>4 DEF DeleteSession, Registered
  <2>2. SlotTypes' /\ GateInv' /\ OthersKept(r) /\ pc'[r] = "idle"
    BY <2>1, FreeKeeps DEF OthersKept
  <2>3. SessionInv'
    BY <1>4, <2>1, <2>2, SessionRemoved DEF DeleteSession, OthersKept
  <2>. QED
    BY <2>2, <2>3 DEF Kept, IInv, OthersKept
<1>5. CASE PostNewSession(r, q, identity)
  <2>1. PICK s \in Sessions \ drawn :
          /\ drawn' = drawn \cup {s}
          /\ NotYetRegistered(s)
          /\ Handle(r, q, "connecting", s, identity)
    BY <1>5 DEF PostNewSession
  <2>2. /\ SlotTypes' /\ GateInv' /\ OthersKept(r)
        /\ pc'[r] = "connecting" /\ request'[r].session = s
    BY <1>5, <2>1, HandleKeeps DEF Ids, OthersKept, PostNewSession
  <2>3. SessionInv'
    BY <1>5, <2>1, <2>2, SessionDrawn DEF PostNewSession, NotYetRegistered
  <2>. QED
    BY <2>2, <2>3 DEF Kept, IInv, OthersKept
<1>6. CASE SearchMaterials(r, q, identity)
  <2>1. /\ SlotTypes' /\ GateInv' /\ OthersKept(r) /\ pc'[r] = "searching"
    BY <1>6, HandleKeeps DEF Ids, OthersKept, SearchMaterials
  <2>2. SessionInv'
    BY <1>6, <2>1, SessionsKept DEF SearchMaterials
  <2>. QED
    BY <2>1, <2>2 DEF Kept, IInv, OthersKept
<1>7. CASE Unknown(r, q)
  <2>1. SlotTypes' /\ GateInv' /\ OthersKept(r) /\ pc'[r] = "idle"
    BY <1>7, FreeKeeps DEF OthersKept, Unknown
  <2>2. SessionInv'
    BY <1>7, <2>1, SessionsKept DEF Unknown
  <2>. QED
    BY <2>1, <2>2 DEF Kept, IInv, OthersKept
<1>. QED
  BY <1>2, <1>3, <1>4, <1>5, <1>6, <1>7 DEF Dispatch

-----------------------------------------------------------------------------
(* The other actions.                                                      *)

LEMMA ReceiveUnverifiedKeeps ==
  ASSUME IInv, NEW r \in Slots, ReceiveUnverified(r)
  PROVE  Kept
<1>1. PICK q \in Request : Reaches(q) /\ Dispatch(r, q, None)
  BY DEF ReceiveUnverified
<1>2. /\ pc[r] = "idle" /\ UNCHANGED deployment
      /\ Admitted(q) /\ q.bearer = None
  BY <1>1 DEF ReceiveUnverified, Admitted, Reaches
<1>. QED
  BY <1>1, <1>2, DispatchKeeps DEF Identities

LEMMA ReceiveKeeps ==
  ASSUME IInv, NEW r \in Slots, Receive(r)
  PROVE  Kept
<1>1. PICK q \in Request : /\ Reaches(q) /\ CertificateAccepted(q)
                           /\ q.bearer # None
                           /\ request' = [request EXCEPT ![r] = q]
  BY DEF Receive
<1>2. q.bearer \in Users /\ Admitted(q)
  BY <1>1 DEF Request, Admitted
<1>3. /\ pc'[r] = "authenticating" /\ request'[r] = q
      /\ OthersKept(r) /\ UNCHANGED <<deployment, sessionVars, actsAs>>
  BY <1>1 DEF Receive, IInv, SlotTypes, OthersKept
<1>4. SlotTypes'
  BY <1>1 DEF Receive, IInv, SlotTypes
<1>5. GateInv'
  BY <1>2, <1>3 DEF IInv, GateInv, Admitted, Reaches, CertificateAccepted,
                    OthersKept, Handling
<1>6. SessionInv'
  BY <1>3, SessionsKept
<1>7. DeploymentInv'
  BY <1>3 DEF IInv, DeploymentInv
<1>. QED
  BY <1>3, <1>4, <1>5, <1>6, <1>7 DEF Kept, IInv, OthersKept

LEMMA AuthenticatedKeeps ==
  ASSUME IInv, NEW r \in Slots, Authenticated(r)
  PROVE  Kept
<1>1. /\ pc[r] = "authenticating" /\ UNCHANGED deployment
      /\ Dispatch(r, request[r], request[r].bearer)
      /\ request[r] \in Request /\ Admitted(request[r])
  BY DEF Authenticated, IInv, SlotTypes, GateInv
<1>2. request[r].bearer \in Identities
  BY <1>1 DEF Request, Identities
<1>. QED
  BY <1>1, <1>2, DispatchKeeps

\* A request is refused, or its handler ends: its slot is emptied.
LEMMA EndKeeps ==
  ASSUME IInv, NEW r \in Slots, Free(r), UNCHANGED <<deployment, sessionVars>>
  PROVE  Kept
<1>1. SlotTypes' /\ GateInv' /\ OthersKept(r) /\ pc'[r] = "idle"
  BY FreeKeeps DEF OthersKept
<1>2. SessionInv'
  BY <1>1, SessionsKept
<1>3. DeploymentInv'
  BY DEF IInv, DeploymentInv
<1>. QED
  BY <1>1, <1>2, <1>3 DEF Kept, IInv, OthersKept

LEMMA ConnectedKeeps ==
  ASSUME IInv, NEW r \in Slots, Connected(r)
  PROVE  Kept
<1>1. CASE request[r].initialize
  <2>1. SlotTypes' /\ GateInv' /\ OthersKept(r) /\ pc'[r] = "idle"
    BY FreeKeeps DEF OthersKept, Connected
  <2>2. SessionInv'
    BY <1>1, <2>1, SessionInitialized DEF Connected
  <2>3. DeploymentInv'
    BY DEF IInv, DeploymentInv, Connected
  <2>. QED
    BY <2>1, <2>2, <2>3 DEF Kept, IInv, OthersKept
<1>2. CASE ~request[r].initialize
  BY <1>2, EndKeeps DEF Connected, sessionVars
<1>. QED
  BY <1>1, <1>2

LEMMA TransportClosesKeeps ==
  ASSUME IInv, NEW s \in Sessions, TransportCloses(s)
  PROVE  Kept
<1>1. UNCHANGED <<deployment, pc, request, actsAs>>
  BY DEF TransportCloses, slotVars
<1>2. DeploymentInv' /\ SlotTypes' /\ GateInv'
  BY <1>1 DEF IInv, DeploymentInv, SlotTypes, GateInv, Admitted, Reaches,
              CertificateAccepted
<1>3. SessionInv'
  BY <1>1, SessionRemoved DEF TransportCloses
<1>. QED
  BY <1>1, <1>2, <1>3 DEF Kept, IInv

LEMMA StutteringKeeps ==
  ASSUME IInv, UNCHANGED vars
  PROVE  Kept
<1>1. UNCHANGED <<deployment, pc, request, actsAs>> /\ UNCHANGED sessionVars
  BY DEF vars, slotVars
<1>2. DeploymentInv' /\ SlotTypes' /\ GateInv'
  BY <1>1 DEF IInv, DeploymentInv, SlotTypes, GateInv, Admitted, Reaches,
              CertificateAccepted
<1>3. SessionInv'
  BY <1>1 DEF IInv, SessionInv, RegistryIsExact, sessionVars, Connecting
<1>. QED
  BY <1>1, <1>2, <1>3 DEF Kept, IInv

LEMMA StepKeeps ==
  ASSUME IInv, [Next]_vars
  PROVE  Kept
<1>1. ASSUME NEW r \in Slots, Refused(r) \/ Ends(r)
      PROVE  Kept
  BY <1>1, EndKeeps DEF Refused, Ends
<1>. QED
  BY <1>1, ReceiveUnverifiedKeeps, ReceiveKeeps, AuthenticatedKeeps,
     ConnectedKeeps, TransportClosesKeeps, StutteringKeeps DEF Next

-----------------------------------------------------------------------------
(* The theorems.                                                           *)

\* The inductive invariant holds.
THEOREM Invariance == Spec => []IInv
<1>1. Init => IInv
  <2>1. SUFFICES ASSUME Init PROVE IInv
    OBVIOUS
  <2>2. PICK c \in Config : Starts(c) /\ deployment = Deployed(c)
    BY <2>1 DEF Init
  <2>3. DeploymentInv
    BY <2>2, StartedSafely
  <2>4. SlotTypes /\ GateInv /\ SessionInv
    BY <2>1 DEF Init, SlotTypes, Identities, GateInv, SessionInv, Handling,
                RegistryIsExact
  <2>. QED
    BY <2>3, <2>4 DEF IInv
<1>2. IInv /\ [Next]_vars => IInv'
  BY StepKeeps DEF Kept
<1>. QED
  BY <1>1, <1>2, PTL DEF Spec

\* Every reachable state of the routes and of the session map is well typed.
THEOREM TypeCorrect == Spec => []TypeOK
<1>1. IInv => TypeOK
  BY DEF IInv, DeploymentInv, SlotTypes, SessionInv, RegistryIsExact, TypeOK,
         Identities
<1>. QED
  BY <1>1, Invariance, PTL

\* In every configuration the server starts in, a request from another machine
\* is handled only for a verified user and over TLS, and any request with a
\* trusted certificate where mTLS is on (startHttpServer, assertSafeMcpAuthConfig
\* and the gates of the /mcp and search routes).
THEOREM RemoteVerified == Spec => []RemoteRequestsAreVerified
<1>1. IInv => RemoteRequestsAreVerified
  <2>1. SUFFICES ASSUME IInv, NEW r \in Slots, pc[r] \in Handling
                 PROVE  /\ request[r].origin # "local" => actsAs[r] \in Users
                        /\ request[r].origin = "remote" => deployment.tls
                        /\ deployment.mtlsMode # "disabled" => request[r].cert
    BY DEF RemoteRequestsAreVerified
  <2>2. /\ Admitted(request[r]) /\ actsAs[r] = request[r].bearer
        /\ request[r] \in Request
    BY <2>1 DEF IInv, GateInv, SlotTypes, Handling
  <2>3. request[r].origin \in {"local", "proxied", "remote"}
    BY <2>2 DEF Request
  <2>. QED
    BY <2>1, <2>2, <2>3 DEF Admitted, Reaches, CertificateAccepted, IInv,
                            DeploymentInv
<1>. QED
  BY <1>1, Invariance, PTL

\* A request acts with the identity of its own bearer token, whoever opened
\* the session it uses (authContext.run around handleRequest).
THEOREM OwnBearer == Spec => []ActsAsItsOwnBearer
<1>1. IInv => ActsAsItsOwnBearer
  BY DEF IInv, GateInv, ActsAsItsOwnBearer
<1>. QED
  BY <1>1, Invariance, PTL

\* The map of transports holds exactly the sessions that were initialized and
\* neither deleted nor closed.
THEOREM RegistryExact == Spec => []RegistryIsExact
<1>1. IInv => RegistryIsExact
  BY DEF IInv, SessionInv
<1>. QED
  BY <1>1, Invariance, PTL

\* No message is handed to the transport of a session that was deleted or
\* closed, also if this happened while the request was being authenticated.
THEOREM LiveSessionsOnly == Spec => OnlyLiveSessionsGetMessages
<1>1. IInv /\ [Next]_vars =>
        [\A r \in Slots :
           pc'[r] \in {"calling", "streaming"} /\ pc[r] # pc'[r] =>
             request'[r].session \in live]_vars
  BY StepKeeps DEF Kept
<1>. QED
  BY <1>1, Invariance, PTL DEF Spec, OnlyLiveSessionsGetMessages
==============================================================================
