------------------------------ MODULE OAuthFlow ------------------------------
(***************************************************************************)
(* The OAuth authorization-code flow of src/oauth.ts, its two routes in    *)
(* src/index.ts, and the refresh of a session.                             *)
(*                                                                         *)
(* A flow is named by its random state parameter, which is never drawn     *)
(* twice.  The code verifier and the code challenge belong to the flow and *)
(* are named by it too.  Between a request to the token endpoint and its   *)
(* answer the event loop runs other calls: pendingFlows and oauthSessions  *)
(* may have changed when a call resumes.                                   *)
(*                                                                         *)
(* Tokens are numbered by the grant of their flow that made them.          *)
(***************************************************************************)
EXTENDS Naturals, Sequences, FiniteSets, Functions

CONSTANTS
  Flows,      \* the state parameters
  Calls,      \* slots for calls that wait for the token endpoint
  TTL,        \* AUTH_FLOW_TTL_MS, in ticks
  MaxGrants,  \* a bound on the grants made for one flow
  None        \* an absent refresh token, an answer not there yet

ASSUME TTLAssumption == TTL \in Nat
ASSUME MaxGrantsAssumption == MaxGrants \in Nat \ {0}

Grants == 1..MaxGrants

\* A token response, with or without a refresh token; a stored session.
Grant == [access : Grants, refresh : Grants \cup {None}]
Session == [flow : Flows, access : Grants, refresh : Grants \cup {None}]

ASSUME NoneAssumption == None \notin Nat \cup Flows \cup Grant

\* The query of a callback; the codes are those the provider handed out.
Query == [error : BOOLEAN, code : Flows \cup {None},
          state : Flows \cup {None}]

IdleCall == [pc |-> "idle"]
ExchangeCall == [pc : {"exchanging"}, flow : Flows, code : Flows,
                 answer : Grant \cup {None}]
RefreshCall == [pc : {"refreshing"}, session : Nat, held : Session,
                answer : Grant \cup {None}]

VARIABLES
  pendingFlows,   \* pendingFlows: the age of each flow kept in the map
  oauthSessions,  \* oauthSessions, in the order they were stored
  call,           \* what each call waits for, and its answer once it is there
  approved,       \* external: the flows whose code the provider handed out
  granted,        \* external: the token grants made for each flow
  valid,          \* external: the refresh token of each flow now accepted
  started,        \* history: the flows ever started
  exchanges,      \* history: the code exchanges requested for each flow
  disturbed       \* history: the sessions whose refreshes overlapped or
                  \* lost an answer

providerVars == <<approved, granted, valid>>
vars == <<pendingFlows, oauthSessions, call, providerVars, started, exchanges,
          disturbed>>

TypeOK ==
  /\ DOMAIN pendingFlows \in SUBSET started
  /\ pendingFlows \in [DOMAIN pendingFlows -> 0..TTL + 1]
  /\ oauthSessions \in Seq(Session)
  /\ call \in [Calls -> {IdleCall} \cup ExchangeCall \cup RefreshCall]
  /\ \A c \in Calls : call[c].pc = "refreshing" =>
       /\ call[c].session \in DOMAIN oauthSessions
       /\ call[c].held.refresh # None
  /\ approved \in SUBSET started
  /\ granted \in [Flows -> 0..MaxGrants]
  /\ valid \in [Flows -> Grants \cup {None}]
  /\ started \in SUBSET Flows
  /\ exchanges \in [Flows -> Nat]
  /\ disturbed \in SUBSET DOMAIN oauthSessions

Init ==
  /\ pendingFlows = <<>>
  /\ oauthSessions = <<>>
  /\ call = [c \in Calls |-> IdleCall]
  /\ approved = {}
  /\ granted = [f \in Flows |-> 0]
  /\ valid = [f \in Flows |-> None]
  /\ started = {}
  /\ exchanges = [f \in Flows |-> 0]
  /\ disturbed = {}

-----------------------------------------------------------------------------
(* The pending flows.                                                      *)

\* Mutant: a flow's age is not looked at.
NothingExpires(flows) == flows

Unexpired(flows) == Restrict(flows, {f \in DOMAIN flows : flows[f] <= TTL})

\* Mutant: the state is forgotten only once the exchange has succeeded.
KeptUntilAnswered(flows, f) == flows

Without(flows, f) == Restrict(flows, DOMAIN flows \ {f})

StartAuthorizationCodeFlow(f) ==
  /\ f \notin started
  /\ pendingFlows' = [g \in DOMAIN Unexpired(pendingFlows) \cup {f} |->
                        IF g = f THEN 0 ELSE pendingFlows[g]]
  /\ started' = started \cup {f}
  /\ UNCHANGED <<oauthSessions, call, providerVars, exchanges, disturbed>>

\* The callback of a state that is unknown, used or expired: it is refused,
\* but the expired flows are swept.
RefuseState(f) ==
  /\ f \notin DOMAIN Unexpired(pendingFlows)
  /\ pendingFlows' = Unexpired(pendingFlows)
  /\ UNCHANGED <<oauthSessions, call, providerVars, started, exchanges,
                 disturbed>>

\* The callback of a pending state, with whatever code it came with.
BeginExchange(c, f, code) ==
  /\ call[c] = IdleCall
  /\ code \in approved
  /\ f \in DOMAIN Unexpired(pendingFlows)
  /\ pendingFlows' = Without(Unexpired(pendingFlows), f)
  /\ call' = [call EXCEPT ![c] = [pc |-> "exchanging", flow |-> f,
                                  code |-> code, answer |-> None]]
  /\ exchanges' = [exchanges EXCEPT ![f] = @ + 1]
  /\ UNCHANGED <<oauthSessions, providerVars, started, disturbed>>

CompleteAuthorizationCodeFlow(c, f, code) ==
  RefuseState(f) \/ BeginExchange(c, f, code)

\* The route: a denial by the provider, and a query without code or state, are
\* answered at once and change nothing.
CallbackRoute(c, query) ==
  /\ ~query.error
  /\ query.code # None /\ query.state # None
  /\ CompleteAuthorizationCodeFlow(c, query.state, query.code)

StoreSession(c) ==
  /\ call[c].pc = "exchanging"
  /\ call[c].answer # None
  /\ oauthSessions' = Append(oauthSessions,
       [flow |-> call[c].flow, access |-> call[c].answer.access,
        refresh |-> call[c].answer.refresh])
  /\ call' = [call EXCEPT ![c] = IdleCall]
  /\ UNCHANGED <<pendingFlows, providerVars, started, exchanges, disturbed>>

-----------------------------------------------------------------------------
(* The refresh of a session.                                               *)

Refreshing(s) ==
  {c \in Calls : call[c].pc = "refreshing" /\ call[c].session = s}

\* Mutant: the presence of a refresh token is not checked.
AlwaysRefreshable(session) == TRUE

Refreshable(session) == session.refresh # None

BeginRefresh(c, s) ==
  /\ call[c] = IdleCall
  /\ Refreshable(oauthSessions[s])
  /\ call' = [call EXCEPT ![c] = [pc |-> "refreshing", session |-> s,
                                  held |-> oauthSessions[s], answer |-> None]]
  /\ disturbed' = IF Refreshing(s) = {} THEN disturbed
                  ELSE disturbed \cup {s}
  /\ UNCHANGED <<pendingFlows, oauthSessions, providerVars, started, exchanges>>

\* Mutants: a rotated refresh token is dropped for the old one; the old one is
\* not kept when none is returned.
OldRefreshToken(held, answer) == held.refresh
OnlyReturnedRefreshToken(held, answer) == answer.refresh

NextRefreshToken(held, answer) ==
  IF answer.refresh # None THEN answer.refresh ELSE held.refresh

\* The record read before the await is written back with the new tokens,
\* whatever the map holds by now.
StoreRefreshed(c) ==
  /\ call[c].pc = "refreshing"
  /\ call[c].answer # None
  /\ oauthSessions' = [oauthSessions EXCEPT ![call[c].session] =
       [flow |-> call[c].held.flow, access |-> call[c].answer.access,
        refresh |-> NextRefreshToken(call[c].held, call[c].answer)]]
  /\ call' = [call EXCEPT ![c] = IdleCall]
  /\ UNCHANGED <<pendingFlows, providerVars, started, exchanges, disturbed>>

\* A refusal, a lost answer or the time-out: the call throws, nothing is
\* stored and a used state stays used.
CallFails(c) ==
  /\ call[c] # IdleCall
  /\ call' = [call EXCEPT ![c] = IdleCall]
  /\ disturbed' =
       IF call[c].pc = "refreshing" /\ call[c].answer # None
         THEN disturbed \cup {call[c].session} ELSE disturbed
  /\ UNCHANGED <<pendingFlows, oauthSessions, providerVars, started, exchanges>>

-----------------------------------------------------------------------------
(* The provider, the user and the clock.                                   *)

Approve(f) ==
  /\ f \in started
  /\ approved' = approved \cup {f}
  /\ UNCHANGED <<pendingFlows, oauthSessions, call, granted, valid, started,
                 exchanges, disturbed>>

\* A code is redeemed once, and only with the verifier of its own flow; a
\* refresh token is accepted while it is the valid one of its flow.
Acceptable(request) ==
  \/ /\ request.pc = "exchanging"
     /\ request.code = request.flow
     /\ granted[request.flow] = 0
  \/ /\ request.pc = "refreshing"
     /\ valid[request.held.flow] = request.held.refresh

\* The tokens of the flow's next grant; a refresh may keep the refresh token
\* it was sent (none is returned) or replace it.
ProviderGrants(c, f) ==
  \E refresh \in {granted[f] + 1, None} :
    /\ call[c] # IdleCall
    /\ call[c].answer = None
    /\ Acceptable(call[c])
    /\ granted[f] < MaxGrants
    /\ granted' = [granted EXCEPT ![f] = @ + 1]
    /\ valid' = [valid EXCEPT ![f] = IF refresh = None THEN @ ELSE refresh]
    /\ call' = [call EXCEPT ![c] = [@ EXCEPT !.answer =
                  [access |-> granted[f] + 1, refresh |-> refresh]]]
    /\ UNCHANGED <<pendingFlows, oauthSessions, approved, started, exchanges,
                   disturbed>>

FlowOf(request) ==
  IF request.pc = "exchanging" THEN request.flow ELSE request.held.flow

Tick ==
  /\ pendingFlows' = [f \in DOMAIN pendingFlows |->
       IF pendingFlows[f] <= TTL THEN pendingFlows[f] + 1 ELSE TTL + 1]
  /\ UNCHANGED <<oauthSessions, call, providerVars, started, exchanges,
                 disturbed>>

Next ==
  \/ \E f \in Flows : StartAuthorizationCodeFlow(f) \/ Approve(f)
  \/ \E c \in Calls, query \in Query : CallbackRoute(c, query)
  \/ \E c \in Calls :
       \/ StoreSession(c)
       \/ \E s \in DOMAIN oauthSessions : BeginRefresh(c, s)
       \/ StoreRefreshed(c)
       \/ CallFails(c)
       \/ call[c] # IdleCall /\ ProviderGrants(c, FlowOf(call[c]))
  \/ Tick

Spec == Init /\ [][Next]_vars

-----------------------------------------------------------------------------
(* Properties.                                                             *)

\* The pending flows are one-time tickets (completeAuthorizationCodeFlow
\* deletes the state before it awaits the exchange, and sweeps before it
\* looks): of all callbacks with one state, however they interleave, at most
\* one reaches the token endpoint, and none does after the flow has expired.
FlowTickets ==
  INSTANCE OneTimeTickets WITH
    Tickets <- Flows,
    issued <- started,
    open <- {f \in DOMAIN pendingFlows : pendingFlows[f] <= TTL},
    redeemed <- exchanges

FlowsAreOneTimeTickets == FlowTickets!Spec

\* refreshOAuthSession leaves the session with the refresh token the provider
\* accepts, whether the provider replaces it or returns none, as long as no
\* two refreshes of the session overlapped and no answer was lost; and even
\* then it never leaves a session without one that had one.
StillRefreshable ==
  \A s \in DOMAIN oauthSessions :
    LET accepted == valid[oauthSessions[s].flow] IN
    /\ oauthSessions[s].refresh = None <=> accepted = None
    /\ s \notin disturbed /\ Refreshing(s) = {} =>
         oauthSessions[s].refresh = accepted
==============================================================================
