--------------------------- MODULE OAuthFlowProofs ---------------------------
(***************************************************************************)
(* The pending flows of OAuthFlow implement one-time tickets, for any      *)
(* flows, calls, lifetime and bound: each state is redeemed at most once.  *)
(* And its sessions stay refreshable, whatever the provider does with the  *)
(* refresh tokens it accepts.                                              *)
(***************************************************************************)
EXTENDS OAuthFlow, TLAPS

Open == {f \in DOMAIN pendingFlows : pendingFlows[f] <= TTL}

\* What the refinement needs to know of the flows.
FlowInv ==
  /\ started \in SUBSET Flows
  /\ DOMAIN pendingFlows \in SUBSET started
  /\ pendingFlows \in [DOMAIN pendingFlows -> Nat]
  /\ exchanges \in [Flows -> Nat]

USE TTLAssumption

-----------------------------------------------------------------------------
(* The open flows and the two operators on the map.                        *)

LEMMA UnexpiredOpen ==
  ASSUME FlowInv
  PROVE  /\ DOMAIN Unexpired(pendingFlows) = Open
         /\ \A f \in Open : Unexpired(pendingFlows)[f] = pendingFlows[f]
         /\ Unexpired(pendingFlows) \in [Open -> Nat]
BY DEF Unexpired, Restrict, Open, FlowInv

LEMMA WithoutOpen ==
  ASSUME FlowInv, NEW f
  PROVE  /\ DOMAIN Without(Unexpired(pendingFlows), f) = Open \ {f}
         /\ \A g \in Open \ {f} :
              Without(Unexpired(pendingFlows), f)[g] = pendingFlows[g]
         /\ Without(Unexpired(pendingFlows), f) \in [Open \ {f} -> Nat]
BY UnexpiredOpen DEF Without, Restrict

-----------------------------------------------------------------------------
(* Each action, in terms of the tickets.                                   *)

\* A flow that starts is issued a ticket; the sweep takes no open one.
LEMMA StartIssues ==
  ASSUME FlowInv, NEW f \in Flows, StartAuthorizationCodeFlow(f)
  PROVE  FlowInv' /\ FlowTickets!Issue(f)
<1>1. /\ DOMAIN pendingFlows' = Open \cup {f}
      /\ pendingFlows'[f] = 0
      /\ \A g \in Open \ {f} : pendingFlows'[g] = pendingFlows[g]
      /\ pendingFlows' \in [Open \cup {f} -> Nat]
  BY UnexpiredOpen DEF StartAuthorizationCodeFlow, FlowInv, Open
<1>2. f \notin started /\ started' = started \cup {f} /\ UNCHANGED exchanges
  BY DEF StartAuthorizationCodeFlow
<1>3. FlowInv'
  BY <1>1, <1>2 DEF FlowInv, Open
<1>4. Open' = Open \cup {f}
  BY <1>1 DEF Open, FlowInv
<1>. QED
  BY <1>2, <1>3, <1>4 DEF FlowTickets!Issue, Open

\* A refused callback changes no open flow.
LEMMA RefusalStutters ==
  ASSUME FlowInv, NEW f \in Flows, RefuseState(f)
  PROVE  FlowInv' /\ UNCHANGED <<started, Open, exchanges>>
<1>1. /\ pendingFlows' = Unexpired(pendingFlows)
      /\ UNCHANGED <<started, exchanges>>
  BY DEF RefuseState
<1>2. /\ DOMAIN pendingFlows' = Open
      /\ \A g \in Open : pendingFlows'[g] = pendingFlows[g]
      /\ pendingFlows' \in [Open -> Nat]
  BY <1>1, UnexpiredOpen
<1>3. FlowInv'
  BY <1>1, <1>2 DEF FlowInv, Open
<1>4. Open' = Open
  BY <1>2 DEF Open
<1>. QED
  BY <1>1, <1>3, <1>4

\* A callback that is let through redeems the ticket of its state.
LEMMA ExchangeRedeems ==
  ASSUME FlowInv, NEW c, NEW f \in Flows, NEW code, BeginExchange(c, f, code)
  PROVE  FlowInv' /\ FlowTickets!Redeem(f)
<1>1. /\ f \in Open
      /\ pendingFlows' = Without(Unexpired(pendingFlows), f)
      /\ exchanges' = [exchanges EXCEPT ![f] = @ + 1]
      /\ UNCHANGED started
  BY UnexpiredOpen DEF BeginExchange
<1>2. /\ DOMAIN pendingFlows' = Open \ {f}
      /\ \A g \in Open \ {f} : pendingFlows'[g] = pendingFlows[g]
      /\ pendingFlows' \in [Open \ {f} -> Nat]
  BY <1>1, WithoutOpen
<1>3. FlowInv'
  BY <1>1, <1>2 DEF FlowInv, Open
<1>4. Open' = Open \ {f}
  BY <1>2 DEF Open
<1>. QED
  BY <1>1, <1>3, <1>4 DEF FlowTickets!Redeem, Open

\* The clock lets tickets lapse.
LEMMA TickLapses ==
  ASSUME FlowInv, Tick
  PROVE  FlowInv' /\ FlowTickets!Next
<1>1. /\ pendingFlows' = [f \in DOMAIN pendingFlows |->
            IF pendingFlows[f] <= TTL THEN pendingFlows[f] + 1 ELSE TTL + 1]
      /\ UNCHANGED <<started, exchanges>>
  BY DEF Tick
<1>2. FlowInv'
  BY <1>1 DEF FlowInv
<1>3. Open' \subseteq Open
  BY <1>1 DEF Open, FlowInv
<1>4. \E T \in SUBSET Open : Open' = Open \ T
  <2>1. Open \ Open' \in SUBSET Open /\ Open' = Open \ (Open \ Open')
    BY <1>3
  <2>. QED
    BY <2>1
<1>. QED
  BY <1>1, <1>2, <1>4 DEF FlowTickets!Next, FlowTickets!Lapse, Open

LEMMA OthersStutter ==
  ASSUME FlowInv, UNCHANGED <<pendingFlows, started, exchanges>>
  PROVE  FlowInv' /\ UNCHANGED <<started, Open, exchanges>>
BY DEF FlowInv, Open

LEMMA StepRefines ==
  ASSUME FlowInv, [Next]_vars
  PROVE  FlowInv' /\ [FlowTickets!Next]_(FlowTickets!vars)
<1>1. ASSUME UNCHANGED <<started, Open, exchanges>>
      PROVE  UNCHANGED FlowTickets!vars
  BY <1>1 DEF FlowTickets!vars, Open
<1>2. ASSUME NEW f \in Flows, StartAuthorizationCodeFlow(f)
      PROVE  FlowInv' /\ FlowTickets!Next
  BY <1>2, StartIssues DEF FlowTickets!Next
<1>3. ASSUME NEW c \in Calls, NEW query \in Query, CallbackRoute(c, query)
      PROVE  FlowInv' /\ [FlowTickets!Next]_(FlowTickets!vars)
  <2>1. query.state \in Flows
    BY <1>3 DEF CallbackRoute, Query
  <2>2. CASE RefuseState(query.state)
    BY <2>1, <2>2, <1>1, RefusalStutters
  <2>3. CASE BeginExchange(c, query.state, query.code)
    BY <2>1, <2>3, ExchangeRedeems DEF FlowTickets!Next
  <2>. QED
    BY <1>3, <2>2, <2>3 DEF CallbackRoute, CompleteAuthorizationCodeFlow
<1>4. ASSUME Tick
      PROVE  FlowInv' /\ FlowTickets!Next
  BY <1>4, TickLapses
<1>5. ASSUME UNCHANGED <<pendingFlows, started, exchanges>>
      PROVE  FlowInv' /\ [FlowTickets!Next]_(FlowTickets!vars)
  BY <1>1, <1>5, OthersStutter
<1>6. CASE Next
  <2>1. ASSUME NEW f \in Flows, Approve(f)
        PROVE  UNCHANGED <<pendingFlows, started, exchanges>>
    BY <2>1 DEF Approve
  <2>2. ASSUME NEW c \in Calls,
               \/ StoreSession(c)
               \/ \E s \in DOMAIN oauthSessions : BeginRefresh(c, s)
               \/ StoreRefreshed(c)
               \/ CallFails(c)
               \/ ProviderGrants(c, FlowOf(call[c]))
        PROVE  UNCHANGED <<pendingFlows, started, exchanges>>
    BY <2>2 DEF StoreSession, BeginRefresh, StoreRefreshed, CallFails,
                ProviderGrants
  <2>. QED
    BY <1>2, <1>3, <1>4, <1>5, <1>6, <2>1, <2>2 DEF Next
<1>7. CASE UNCHANGED vars
  BY <1>5, <1>7 DEF vars
<1>. QED
  BY <1>6, <1>7

\* A flow not started yet was never exchanged, which keeps the promise when
\* its ticket is issued.
OnceInv ==
  \A f \in Flows :
    /\ exchanges[f] <= 1
    /\ f \in Open \/ f \notin started => exchanges[f] = 0

LEMMA TicketsStepOnce ==
  ASSUME FlowInv, OnceInv, [FlowTickets!Next]_(FlowTickets!vars)
  PROVE  OnceInv'
<1>1. exchanges \in [Flows -> Nat] /\ Open \subseteq started
  BY DEF FlowInv, Open
<1>2. ASSUME NEW t \in Flows, FlowTickets!Issue(t)
      PROVE  OnceInv'
  <2>1. /\ t \notin started /\ started' = started \cup {t}
        /\ Open' = Open \cup {t} /\ exchanges' = exchanges
    BY <1>2 DEF FlowTickets!Issue, Open
  <2>. QED
    BY <2>1 DEF OnceInv
<1>3. ASSUME NEW t \in Flows, FlowTickets!Redeem(t)
      PROVE  OnceInv'
  <2>1. /\ t \in Open /\ Open' = Open \ {t} /\ started' = started
        /\ exchanges' = [exchanges EXCEPT ![t] = @ + 1]
    BY <1>3 DEF FlowTickets!Redeem, Open
  <2>. QED
    BY <1>1, <2>1 DEF OnceInv
<1>4. ASSUME Open' \subseteq Open, UNCHANGED <<started, exchanges>>
      PROVE  OnceInv'
  BY <1>1, <1>4 DEF OnceInv
<1>5. ASSUME NEW T, FlowTickets!Lapse(T)
      PROVE  Open' \subseteq Open /\ UNCHANGED <<started, exchanges>>
  BY <1>5 DEF FlowTickets!Lapse, Open
<1>6. ASSUME UNCHANGED FlowTickets!vars
      PROVE  Open' \subseteq Open /\ UNCHANGED <<started, exchanges>>
  BY <1>6 DEF FlowTickets!vars, Open
<1>. QED
  BY <1>2, <1>3, <1>4, <1>5, <1>6 DEF FlowTickets!Next, Open

-----------------------------------------------------------------------------
(* The theorems.                                                           *)

\* The pending flows are one-time tickets (completeAuthorizationCodeFlow
\* sweeps, looks the state up and deletes it before it awaits the exchange).
THEOREM FlowsImplementTickets == Spec => FlowsAreOneTimeTickets
<1>1. Init => FlowInv /\ FlowTickets!Init
  BY DEF Init, FlowInv, FlowTickets!Init
<1>2. FlowInv /\ [Next]_vars => FlowInv' /\ [FlowTickets!Next]_(FlowTickets!vars)
  BY StepRefines
<1>. QED
  BY <1>1, <1>2, PTL DEF Spec, FlowTickets!Spec, FlowsAreOneTimeTickets

\* Of all callbacks with one state at most one reaches the token endpoint, and
\* none had while the flow can still be exchanged (the same code).
THEOREM StatesExchangedOnce == Spec => []FlowTickets!RedeemedOnce
<1>1. Init => FlowInv /\ OnceInv
  BY DEF Init, FlowInv, OnceInv, Open
<1>2. FlowInv /\ OnceInv /\ [Next]_vars => FlowInv' /\ OnceInv'
  BY StepRefines, TicketsStepOnce
<1>3. OnceInv => FlowTickets!RedeemedOnce
  BY DEF OnceInv, Open, FlowTickets!RedeemedOnce
<1>. QED
  BY <1>1, <1>2, <1>3, PTL DEF Spec

-----------------------------------------------------------------------------
(* Types.                                                                  *)

USE MaxGrantsAssumption, NoneAssumption

\* The parts of the type invariant.
FlowTypes ==
  /\ DOMAIN pendingFlows \in SUBSET started
  /\ pendingFlows \in [DOMAIN pendingFlows -> 0..TTL + 1]
  /\ approved \in SUBSET started
  /\ started \in SUBSET Flows
  /\ exchanges \in [Flows -> Nat]

ProviderTypes ==
  /\ granted \in [Flows -> 0..MaxGrants]
  /\ valid \in [Flows -> Grants \cup {None}]

CallTypes ==
  /\ oauthSessions \in Seq(Session)
  /\ call \in [Calls -> {IdleCall} \cup ExchangeCall \cup RefreshCall]
  /\ \A c \in Calls : call[c].pc = "refreshing" =>
       /\ call[c].session \in DOMAIN oauthSessions
       /\ call[c].held.refresh # None
  /\ disturbed \in SUBSET DOMAIN oauthSessions

LEMMA TypeParts == TypeOK <=> FlowTypes /\ ProviderTypes /\ CallTypes
BY DEF TypeOK, FlowTypes, ProviderTypes, CallTypes

\* A call that does not wait for the token endpoint is idle, and no other is.
LEMMA CallCases ==
  ASSUME CallTypes, NEW c \in Calls
  PROVE  \/ call[c] = IdleCall /\ call[c].pc = "idle"
         \/ call[c] \in ExchangeCall /\ call[c].pc = "exchanging"
         \/ call[c] \in RefreshCall /\ call[c].pc = "refreshing"
BY DEF CallTypes, IdleCall, ExchangeCall, RefreshCall

LEMMA FlowTypesKept ==
  ASSUME TypeOK, [Next]_vars
  PROVE  FlowTypes'
<1>. FlowTypes /\ FlowInv
  BY TypeParts DEF FlowTypes, FlowInv
<1>. USE DEF FlowTypes
<1>1. ASSUME NEW f \in Flows, StartAuthorizationCodeFlow(f)
      PROVE  FlowTypes'
  <2>1. /\ DOMAIN pendingFlows' = Open \cup {f}
        /\ pendingFlows' \in [Open \cup {f} -> 0..TTL + 1]
    BY <1>1, UnexpiredOpen DEF StartAuthorizationCodeFlow, Open
  <2>. QED
    BY <1>1, <2>1 DEF StartAuthorizationCodeFlow, Open, providerVars
<1>2. ASSUME NEW f, RefuseState(f)
      PROVE  FlowTypes'
  <2>1. /\ DOMAIN pendingFlows' = Open
        /\ pendingFlows' \in [Open -> 0..TTL + 1]
    BY <1>2, UnexpiredOpen DEF RefuseState, Open
  <2>. QED
    BY <1>2, <2>1 DEF RefuseState, Open, providerVars
<1>3. ASSUME NEW c, NEW f \in Flows, NEW code, BeginExchange(c, f, code)
      PROVE  FlowTypes'
  <2>1. /\ DOMAIN pendingFlows' = Open \ {f}
        /\ pendingFlows' \in [Open \ {f} -> 0..TTL + 1]
    BY <1>3, WithoutOpen DEF BeginExchange, Open
  <2>2. exchanges' \in [Flows -> Nat]
    BY <1>3 DEF BeginExchange
  <2>. QED
    BY <1>3, <2>1, <2>2 DEF BeginExchange, Open, providerVars
<1>4. ASSUME Tick
      PROVE  FlowTypes'
  BY <1>4 DEF Tick, providerVars
<1>5. ASSUME NEW f \in Flows, Approve(f)
      PROVE  FlowTypes'
  BY <1>5 DEF Approve
<1>6. ASSUME UNCHANGED <<pendingFlows, approved, started, exchanges>>
      PROVE  FlowTypes'
  BY <1>6
<1>7. ASSUME NEW c \in Calls,
             \/ StoreSession(c)
             \/ \E s \in DOMAIN oauthSessions : BeginRefresh(c, s)
             \/ StoreRefreshed(c)
             \/ CallFails(c)
             \/ ProviderGrants(c, FlowOf(call[c]))
      PROVE  UNCHANGED <<pendingFlows, approved, started, exchanges>>
  BY <1>7 DEF StoreSession, BeginRefresh, StoreRefreshed, CallFails,
              ProviderGrants, providerVars
<1>8. UNCHANGED vars => UNCHANGED <<pendingFlows, approved, started, exchanges>>
  BY DEF vars, providerVars
<1>9. ASSUME NEW c \in Calls, NEW query \in Query, CallbackRoute(c, query)
      PROVE  FlowTypes'
  <2>1. query.state \in Flows
    BY <1>9 DEF CallbackRoute, Query
  <2>. QED
    BY <1>2, <1>3, <1>9, <2>1 DEF CallbackRoute, CompleteAuthorizationCodeFlow
<1>. QED
  BY <1>1, <1>4, <1>5, <1>6, <1>7, <1>8, <1>9 DEF Next

-----------------------------------------------------------------------------
(* Sessions and their refreshes.                                           *)

\* The answer to the exchange of flow f is there and not stored yet.
Answered(c, f) ==
  call[c].pc = "exchanging" /\ call[c].answer # None /\ call[c].flow = f

SessionOf(s, f) == s \in DOMAIN oauthSessions /\ oauthSessions[s].flow = f

\* A code is redeemed once: of all sessions and answers not stored yet, a flow
\* has at most one, and the answer has the refresh token the provider accepts.
OwnerInv ==
  \A f \in Flows :
    /\ granted[f] = 0 =>
         /\ valid[f] = None
         /\ \A s : ~SessionOf(s, f)
         /\ \A c \in Calls : ~Answered(c, f)
    /\ \A s, t : SessionOf(s, f) /\ SessionOf(t, f) => s = t
    /\ \A c \in Calls : Answered(c, f) =>
         /\ valid[f] = call[c].answer.refresh
         /\ \A s : ~SessionOf(s, f)
         /\ \A d \in Calls : Answered(d, f) => d = c

RefreshOf(c, s) == call[c].pc = "refreshing" /\ call[c].session = s

\* The refresh token the provider accepts once the request of c is answered.
Accepted(c) ==
  IF call[c].answer = None THEN call[c].held.refresh
  ELSE NextRefreshToken(call[c].held, call[c].answer)

\* A refresh holds a copy of its session; where nothing disturbed the session
\* the copy is true, it is the only one, and what the refresh will store is
\* what the provider accepts.
RefreshInv ==
  \A s \in DOMAIN oauthSessions : \A c \in Calls : RefreshOf(c, s) =>
    /\ call[c].held.flow = oauthSessions[s].flow
    /\ oauthSessions[s].refresh # None
    /\ s \notin disturbed =>
         /\ call[c].held = oauthSessions[s]
         /\ valid[oauthSessions[s].flow] = Accepted(c)
         /\ \A d \in Calls : RefreshOf(d, s) => d = c

\* StillRefreshable, apart from the sets it is stated with.
TokenInv ==
  \A s \in DOMAIN oauthSessions :
    /\ oauthSessions[s].refresh = None <=> valid[oauthSessions[s].flow] = None
    /\ s \notin disturbed /\ (\A c \in Calls : ~RefreshOf(c, s)) =>
         oauthSessions[s].refresh = valid[oauthSessions[s].flow]

SessionsInv ==
  CallTypes /\ ProviderTypes /\ OwnerInv /\ RefreshInv /\ TokenInv

LEMMA TokenInvSuffices ==
  ASSUME TokenInv
  PROVE  StillRefreshable
BY DEF TokenInv, StillRefreshable, Refreshing, RefreshOf

\* A code exchange begins.
LEMMA BeginExchangeKeepsSessions ==
  ASSUME SessionsInv, NEW c \in Calls, NEW f \in Flows, NEW code \in Flows,
         BeginExchange(c, f, code)
  PROVE  SessionsInv'
<1>. DEFINE new == [pc |-> "exchanging", flow |-> f, code |-> code, answer |-> None]
<1>1. /\ UNCHANGED <<oauthSessions, granted, valid, disturbed>>
      /\ call[c].pc = "idle"
      /\ call' = [call EXCEPT ![c] = new]
  BY DEF BeginExchange, providerVars, IdleCall
<1>2. /\ call'[c] = new /\ \A d \in Calls \ {c} : call'[d] = call[d]
      /\ new \in ExchangeCall
  BY <1>1 DEF SessionsInv, CallTypes, ExchangeCall
<1>. HIDE DEF new
<1>3. new.pc = "exchanging" /\ new.answer = None
  BY DEF new
<1>4. CallTypes' /\ ProviderTypes'
  BY <1>1, <1>2, <1>3 DEF SessionsInv, CallTypes, ProviderTypes
<1>5. OwnerInv'
  BY <1>1, <1>2, <1>3 DEF SessionsInv, OwnerInv, Answered, SessionOf
<1>6. RefreshInv'
  BY <1>1, <1>2, <1>3 DEF SessionsInv, RefreshInv, RefreshOf, Accepted
<1>7. TokenInv'
  BY <1>1, <1>2, <1>3 DEF SessionsInv, TokenInv, RefreshOf
<1>. QED
  BY <1>4, <1>5, <1>6, <1>7 DEF SessionsInv

\* The exchange's answer is stored as a new session.
LEMMA StoreSessionKeepsSessions ==
  ASSUME SessionsInv, NEW c \in Calls, StoreSession(c)
  PROVE  SessionsInv'
<1>. DEFINE f == call[c].flow
            n == Len(oauthSessions) + 1
            new == [flow |-> f, access |-> call[c].answer.access,
                    refresh |-> call[c].answer.refresh]
<1>1. /\ call[c].pc = "exchanging" /\ call[c].answer # None
      /\ call' = [call EXCEPT ![c] = IdleCall]
      /\ oauthSessions' = Append(oauthSessions, new)
      /\ UNCHANGED <<granted, valid, disturbed>>
  BY DEF StoreSession, providerVars
<1>2. call[c] \in ExchangeCall
  BY <1>1, CallCases DEF SessionsInv
<1>3. f \in Flows /\ call[c].answer \in Grant
  BY <1>1, <1>2 DEF ExchangeCall
<1>4. new \in Session /\ new.flow = f /\ new.refresh = valid[f]
  BY <1>1, <1>3 DEF Session, Grant, SessionsInv, OwnerInv, Answered
<1>5. /\ call'[c].pc = "idle" /\ \A d \in Calls \ {c} : call'[d] = call[d]
      /\ call' \in [Calls -> {IdleCall} \cup ExchangeCall \cup RefreshCall]
  BY <1>1 DEF SessionsInv, CallTypes, IdleCall
<1>6. /\ n \notin DOMAIN oauthSessions
      /\ DOMAIN oauthSessions' = DOMAIN oauthSessions \cup {n}
      /\ oauthSessions'[n] = new
      /\ \A s \in DOMAIN oauthSessions : oauthSessions'[s] = oauthSessions[s]
      /\ oauthSessions' \in Seq(Session)
  BY <1>1, <1>4 DEF SessionsInv, CallTypes
<1>. HIDE DEF n, new, f
<1>7. \A s : ~SessionOf(s, f)
  BY <1>1, <1>3 DEF f, SessionsInv, OwnerInv, Answered
<1>8. CallTypes' /\ ProviderTypes'
  BY <1>1, <1>5, <1>6 DEF SessionsInv, CallTypes, ProviderTypes
<1>9. OwnerInv'
  BY <1>1, <1>3, <1>4, <1>5, <1>6, <1>7
     DEF SessionsInv, OwnerInv, Answered, SessionOf, f
<1>10. RefreshInv'
  BY <1>1, <1>5, <1>6 DEF SessionsInv, RefreshInv, RefreshOf, Accepted, CallTypes
<1>11. TokenInv'
  BY <1>1, <1>4, <1>5, <1>6 DEF SessionsInv, TokenInv, RefreshOf, CallTypes
<1>. QED
  BY <1>8, <1>9, <1>10, <1>11 DEF SessionsInv

\* A refresh begins, with a copy of the session.
LEMMA BeginRefreshKeepsSessions ==
  ASSUME SessionsInv, NEW c \in Calls, NEW s \in DOMAIN oauthSessions,
         BeginRefresh(c, s)
  PROVE  SessionsInv'
<1>. DEFINE new == [pc |-> "refreshing", session |-> s,
                    held |-> oauthSessions[s], answer |-> None]
<1>1. /\ UNCHANGED <<oauthSessions, granted, valid>>
      /\ call[c].pc = "idle" /\ oauthSessions[s].refresh # None
      /\ call' = [call EXCEPT ![c] = new]
      /\ disturbed' \in {disturbed, disturbed \cup {s}}
      /\ (\E d \in Calls : RefreshOf(d, s)) => s \in disturbed'
  BY DEF BeginRefresh, providerVars, IdleCall, Refreshable, Refreshing, RefreshOf
<1>2. s \in Nat /\ oauthSessions[s] \in Session
  BY DEF SessionsInv, CallTypes
<1>3. /\ call'[c] = new /\ \A d \in Calls \ {c} : call'[d] = call[d]
      /\ new \in RefreshCall
  BY <1>1, <1>2 DEF SessionsInv, CallTypes, RefreshCall
<1>4. /\ new.pc = "refreshing" /\ new.session = s
      /\ new.held = oauthSessions[s] /\ new.answer = None
  OBVIOUS
<1>. HIDE DEF new
<1>5. CallTypes' /\ ProviderTypes'
  BY <1>1, <1>3, <1>4 DEF SessionsInv, CallTypes, ProviderTypes
<1>6. OwnerInv'
  BY <1>1, <1>3, <1>4 DEF SessionsInv, OwnerInv, Answered, SessionOf
<1>7. RefreshInv'
  BY <1>1, <1>3, <1>4
     DEF SessionsInv, RefreshInv, TokenInv, RefreshOf, Accepted
<1>8. TokenInv'
  BY <1>1, <1>3, <1>4 DEF SessionsInv, TokenInv, RefreshOf
<1>. QED
  BY <1>5, <1>6, <1>7, <1>8 DEF SessionsInv

\* The refresh's answer is written over the session.
LEMMA StoreRefreshedKeepsSessions ==
  ASSUME SessionsInv, NEW c \in Calls, StoreRefreshed(c)
  PROVE  SessionsInv'
<1>. DEFINE s == call[c].session
            new == [flow |-> call[c].held.flow, access |-> call[c].answer.access,
                    refresh |-> NextRefreshToken(call[c].held, call[c].answer)]
<1>1. /\ call[c].pc = "refreshing" /\ call[c].answer # None
      /\ call' = [call EXCEPT ![c] = IdleCall]
      /\ oauthSessions' = [oauthSessions EXCEPT ![s] = new]
      /\ UNCHANGED <<granted, valid, disturbed>>
  BY DEF StoreRefreshed, providerVars
<1>2. call[c] \in RefreshCall
  BY <1>1, CallCases DEF SessionsInv
<1>3. /\ call[c].answer \in Grant /\ call[c].held \in Session
      /\ s \in DOMAIN oauthSessions /\ call[c].held.refresh # None
  BY <1>1, <1>2 DEF RefreshCall, SessionsInv, CallTypes
<1>4. /\ new \in Session /\ new.refresh # None
      /\ new.flow = oauthSessions[s].flow
      /\ s \notin disturbed => new.refresh = valid[oauthSessions[s].flow]
  BY <1>1, <1>3 DEF Session, Grant, NextRefreshToken, SessionsInv, RefreshInv,
                    RefreshOf, Accepted
<1>5. /\ call'[c].pc = "idle" /\ \A d \in Calls \ {c} : call'[d] = call[d]
      /\ call' \in [Calls -> {IdleCall} \cup ExchangeCall \cup RefreshCall]
  BY <1>1 DEF SessionsInv, CallTypes, IdleCall
<1>6. /\ DOMAIN oauthSessions' = DOMAIN oauthSessions
      /\ oauthSessions'[s] = new
      /\ \A t \in DOMAIN oauthSessions \ {s} : oauthSessions'[t] = oauthSessions[t]
      /\ oauthSessions' \in Seq(Session)
  BY <1>1, <1>3, <1>4 DEF SessionsInv, CallTypes
<1>7. /\ oauthSessions[s].refresh # None
      /\ s \notin disturbed => \A d \in Calls \ {c} : ~RefreshOf(d, s)
  BY <1>1, <1>3 DEF SessionsInv, RefreshInv, RefreshOf
<1>. HIDE DEF s, new
<1>8. CallTypes' /\ ProviderTypes'
  BY <1>1, <1>5, <1>6 DEF SessionsInv, CallTypes, ProviderTypes
<1>9. OwnerInv'
  BY <1>1, <1>3, <1>4, <1>5, <1>6
     DEF SessionsInv, OwnerInv, Answered, SessionOf
<1>10. RefreshInv'
  BY <1>1, <1>3, <1>4, <1>5, <1>6, <1>7
     DEF SessionsInv, RefreshInv, RefreshOf, Accepted
<1>11. TokenInv'
  BY <1>1, <1>3, <1>4, <1>5, <1>6, <1>7 DEF SessionsInv, TokenInv, RefreshOf, s
<1>. QED
  BY <1>8, <1>9, <1>10, <1>11 DEF SessionsInv

\* A call fails; an answer it had is lost, which disturbs the session.
LEMMA CallFailsKeepsSessions ==
  ASSUME SessionsInv, NEW c \in Calls, CallFails(c)
  PROVE  SessionsInv'
<1>1. /\ call' = [call EXCEPT ![c] = IdleCall]
      /\ UNCHANGED <<oauthSessions, granted, valid>>
      /\ disturbed' = IF call[c].pc = "refreshing" /\ call[c].answer # None
                        THEN disturbed \cup {call[c].session} ELSE disturbed
  BY DEF CallFails, providerVars
<1>2. /\ call'[c].pc = "idle" /\ \A d \in Calls \ {c} : call'[d] = call[d]
      /\ call' \in [Calls -> {IdleCall} \cup ExchangeCall \cup RefreshCall]
  BY <1>1 DEF SessionsInv, CallTypes, IdleCall
<1>3. CallTypes' /\ ProviderTypes'
  BY <1>1, <1>2 DEF SessionsInv, CallTypes, ProviderTypes
<1>4. OwnerInv'
  BY <1>1, <1>2 DEF SessionsInv, OwnerInv, Answered, SessionOf
<1>5. RefreshInv'
  BY <1>1, <1>2 DEF SessionsInv, RefreshInv, RefreshOf, Accepted
<1>6. TokenInv'
  BY <1>1, <1>2 DEF SessionsInv, TokenInv, RefreshInv, RefreshOf, Accepted
<1>. QED
  BY <1>3, <1>4, <1>5, <1>6 DEF SessionsInv

LEMMA SessionFlows ==
  ASSUME CallTypes, NEW s \in DOMAIN oauthSessions
  PROVE  oauthSessions[s].flow \in Flows
<1>1. oauthSessions[s] \in Session
  BY DEF CallTypes
<1>. QED
  BY <1>1 DEF Session

\* The provider grants tokens to a request.
LEMMA ProviderGrantsKeepsSessions ==
  ASSUME SessionsInv, NEW c \in Calls, ProviderGrants(c, FlowOf(call[c]))
  PROVE  SessionsInv'
<1>. DEFINE f == FlowOf(call[c])
<1>1. PICK refresh \in {granted[f] + 1, None} :
        /\ call[c] # IdleCall /\ call[c].answer = None
        /\ Acceptable(call[c])
        /\ granted[f] < MaxGrants
        /\ granted' = [granted EXCEPT ![f] = @ + 1]
        /\ valid' = [valid EXCEPT ![f] = IF refresh = None THEN @ ELSE refresh]
        /\ call' = [call EXCEPT ![c] = [@ EXCEPT !.answer =
                      [access |-> granted[f] + 1, refresh |-> refresh]]]
        /\ UNCHANGED <<oauthSessions, disturbed>>
  BY DEF ProviderGrants
<1>. DEFINE answer == [access |-> granted[f] + 1, refresh |-> refresh]
            new == [call[c] EXCEPT !.answer = answer]
<1>2. /\ f \in Flows /\ granted[f] \in Nat
      /\ call[c] \in ExchangeCall \cup RefreshCall
      /\ call[c].pc \in {"exchanging", "refreshing"}
  BY <1>1, CallCases DEF SessionsInv, FlowOf, ExchangeCall, RefreshCall, Session,
                         ProviderTypes
<1>3. answer \in Grant /\ answer.refresh = refresh /\ answer # None
  BY <1>1, <1>2 DEF Grant, Grants
<1>. HIDE DEF answer
<1>4. /\ new \in ExchangeCall \cup RefreshCall
      /\ new.answer = answer /\ new.pc = call[c].pc
      /\ new.pc = "exchanging" => new.flow = call[c].flow
      /\ new.pc = "refreshing" => /\ new.held = call[c].held
                                  /\ new.session = call[c].session
  BY <1>2, <1>3 DEF ExchangeCall, RefreshCall
<1>5. /\ call' = [call EXCEPT ![c] = new]
      /\ call'[c] = new /\ \A d \in Calls \ {c} : call'[d] = call[d]
  BY <1>1 DEF answer, SessionsInv, CallTypes
<1>. HIDE DEF new
<1>6. /\ granted'[f] = granted[f] + 1
      /\ valid'[f] = IF refresh = None THEN valid[f] ELSE refresh
      /\ \A g \in Flows \ {f} : granted'[g] = granted[g] /\ valid'[g] = valid[g]
  BY <1>1, <1>2 DEF SessionsInv, ProviderTypes
<1>7. ProviderTypes'
  BY <1>1, <1>2 DEF SessionsInv, ProviderTypes, Grants
<1>8. CallTypes'
  BY <1>1, <1>4, <1>5 DEF SessionsInv, CallTypes
<1>9. /\ UNCHANGED <<oauthSessions, disturbed>>
      /\ \A s \in DOMAIN oauthSessions : oauthSessions[s].flow \in Flows
  BY <1>1, SessionFlows DEF SessionsInv
<1>10. CASE call[c].pc = "exchanging"
  <2>1. /\ f = call[c].flow /\ granted[f] = 0 /\ valid[f] = None
        /\ \A s : ~SessionOf(s, f)
        /\ \A d \in Calls : ~Answered(d, f)
    BY <1>1, <1>2, <1>10 DEF FlowOf, Acceptable, SessionsInv, OwnerInv
  <2>2. valid'[f] = answer.refresh
    BY <1>3, <1>6, <2>1
  <2>. HIDE DEF f
  <2>3. OwnerInv'
    BY <1>2, <1>3, <1>4, <1>5, <1>6, <1>9, <1>10, <2>1, <2>2
       DEF SessionsInv, OwnerInv, Answered, SessionOf
  <2>4. \A s \in DOMAIN oauthSessions :
          valid'[oauthSessions[s].flow] = valid[oauthSessions[s].flow]
    BY <1>6, <1>9, <2>1 DEF SessionOf
  <2>5. RefreshInv'
    BY <1>4, <1>5, <1>9, <1>10, <2>4 DEF SessionsInv, RefreshInv, RefreshOf, Accepted
  <2>6. TokenInv'
    BY <1>4, <1>5, <1>9, <1>10, <2>4 DEF SessionsInv, TokenInv, RefreshOf
  <2>. QED
    BY <1>7, <1>8, <2>3, <2>5, <2>6 DEF SessionsInv
<1>11. CASE call[c].pc = "refreshing"
  <2>. DEFINE s == call[c].session
  <2>1. /\ f = call[c].held.flow /\ valid[f] = call[c].held.refresh
        /\ s \in DOMAIN oauthSessions /\ oauthSessions[s].flow = f
        /\ valid[f] # None /\ SessionOf(s, f)
    BY <1>1, <1>11 DEF FlowOf, Acceptable, SessionsInv, RefreshInv, RefreshOf,
                       CallTypes, SessionOf
  <2>2. valid'[f] = NextRefreshToken(call[c].held, answer) /\ valid'[f] # None
    BY <1>1, <1>2, <1>3, <1>6, <2>1 DEF NextRefreshToken
  <2>. HIDE DEF f, s
  <2>3. \A t \in DOMAIN oauthSessions : t # s =>
          /\ oauthSessions[t].flow \in Flows \ {f}
          /\ valid'[oauthSessions[t].flow] = valid[oauthSessions[t].flow]
    BY <1>2, <1>6, <1>9, <2>1 DEF SessionsInv, OwnerInv, SessionOf
  <2>4. OwnerInv'
    BY <1>2, <1>4, <1>5, <1>6, <1>9, <1>11, <2>1
       DEF SessionsInv, OwnerInv, Answered, SessionOf
  <2>5. RefreshInv'
    <3>1. \A t, d : RefreshOf(d, t)' /\ d \in Calls => RefreshOf(d, t)
      BY <1>4, <1>5, <1>11 DEF RefreshOf
    <3>2. \A d \in Calls : RefreshOf(d, s) /\ s \notin disturbed => d = c
      BY <1>11, <2>1 DEF SessionsInv, RefreshInv, RefreshOf, s
    <3>3. Accepted(c)' = NextRefreshToken(call[c].held, answer)
      BY <1>3, <1>4, <1>5, <1>11 DEF Accepted
    <3>4. \A d \in Calls \ {c} : Accepted(d)' = Accepted(d)
      BY <1>5 DEF Accepted
    <3>5. \A d \in Calls : call'[d].pc = "refreshing" => call'[d].held = call[d].held
      BY <1>4, <1>5
    <3>. QED
      BY <1>9, <2>1, <2>2, <2>3, <3>1, <3>2, <3>3, <3>4, <3>5
         DEF SessionsInv, RefreshInv, RefreshOf
  <2>6. TokenInv'
    BY <1>4, <1>5, <1>9, <1>11, <2>1, <2>2, <2>3
       DEF SessionsInv, TokenInv, RefreshInv, RefreshOf, s
  <2>. QED
    BY <1>7, <1>8, <2>4, <2>5, <2>6 DEF SessionsInv
<1>. QED
  BY <1>2, <1>10, <1>11

LEMMA OthersKeepSessions ==
  ASSUME SessionsInv,
         UNCHANGED <<oauthSessions, call, granted, valid, disturbed>>
  PROVE  SessionsInv'
BY DEF SessionsInv, CallTypes, ProviderTypes, OwnerInv, Answered, SessionOf,
       RefreshInv, RefreshOf, Accepted, TokenInv

LEMMA SessionsInvKept ==
  ASSUME TypeOK, SessionsInv, [Next]_vars
  PROVE  SessionsInv'
<1>1. ASSUME NEW f \in Flows, StartAuthorizationCodeFlow(f) \/ Approve(f)
      PROVE  SessionsInv'
  BY <1>1, OthersKeepSessions DEF StartAuthorizationCodeFlow, Approve, providerVars
<1>2. ASSUME NEW c \in Calls, NEW query \in Query, CallbackRoute(c, query)
      PROVE  SessionsInv'
  <2>1. query.state \in Flows /\ query.code \in Flows
    BY <1>2 DEF CallbackRoute, Query
  <2>2. CASE RefuseState(query.state)
    BY <2>2, OthersKeepSessions DEF RefuseState, providerVars
  <2>. QED
    BY <1>2, <2>1, <2>2, BeginExchangeKeepsSessions
       DEF CallbackRoute, CompleteAuthorizationCodeFlow
<1>3. Tick => SessionsInv'
  BY OthersKeepSessions DEF Tick, providerVars
<1>4. UNCHANGED vars => SessionsInv'
  BY OthersKeepSessions DEF vars, providerVars
<1>. QED
  BY <1>1, <1>2, <1>3, <1>4, StoreSessionKeepsSessions, BeginRefreshKeepsSessions,
     StoreRefreshedKeepsSessions, CallFailsKeepsSessions,
     ProviderGrantsKeepsSessions DEF Next

-----------------------------------------------------------------------------
(* The theorems about types and sessions.                                  *)

\* The inductive invariant of flows and sessions together.
THEOREM Invariance == Spec => [](TypeOK /\ SessionsInv)
<1>1. Init => TypeOK /\ SessionsInv
  <2>1. SUFFICES ASSUME Init PROVE TypeOK /\ SessionsInv
    OBVIOUS
  <2>2. \A c \in Calls : call[c] = IdleCall /\ call[c].pc = "idle"
    BY <2>1 DEF Init, IdleCall
  <2>3. DOMAIN oauthSessions = {} /\ oauthSessions \in Seq(Session)
    BY <2>1 DEF Init
  <2>4. CallTypes
    BY <2>1, <2>2, <2>3 DEF Init, CallTypes
  <2>5. FlowTypes /\ ProviderTypes
    BY <2>1 DEF Init, FlowTypes, ProviderTypes
  <2>6. OwnerInv /\ RefreshInv /\ TokenInv
    BY <2>1, <2>2, <2>3 DEF Init, OwnerInv, RefreshInv, TokenInv, SessionOf,
                            Answered
  <2>. QED
    BY <2>4, <2>5, <2>6, TypeParts DEF SessionsInv
<1>2. TypeOK /\ SessionsInv /\ [Next]_vars => (TypeOK /\ SessionsInv)'
  <2>1. SUFFICES ASSUME TypeOK, SessionsInv, [Next]_vars
                 PROVE  TypeOK' /\ SessionsInv'
    OBVIOUS
  <2>2. FlowTypes' /\ SessionsInv'
    BY <2>1, FlowTypesKept, SessionsInvKept
  <2>. QED
    BY <2>2 DEF SessionsInv, FlowTypes, ProviderTypes, CallTypes, TypeOK
<1>. QED
  BY <1>1, <1>2, PTL DEF Spec

\* Every reachable state of flows, sessions and waiting calls is well typed.
THEOREM TypeCorrect == Spec => []TypeOK
BY Invariance, PTL

\* A session is left with the refresh token the provider accepts, unless its
\* refreshes overlapped or an answer was lost (refreshOAuthSession).
THEOREM StaysRefreshable == Spec => []StillRefreshable
<1>1. SessionsInv => StillRefreshable
  BY TokenInvSuffices DEF SessionsInv
<1>. QED
  BY <1>1, Invariance, PTL
==============================================================================
