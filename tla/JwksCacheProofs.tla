-------------------------- MODULE JwksCacheProofs ---------------------------
(***************************************************************************)
(* Proofs about JwksCache, for every number of requests, keys and tokens   *)
(* and every setting of the timers that TimersAssumption admits.           *)
(***************************************************************************)
EXTENDS JwksCache, TLAPS

\* A freshly started process is well typed.
LEMMA TypeInit == Init => TypeOK
  BY TimersAssumption DEF Init, TypeOK, Staleness, NoResponse, Waiting, Queued

\* Joining or starting a fetch keeps the types of all it assigns.
LEMMA AwaitFetchTypes ==
  ASSUME TypeOK, NEW r \in Requests, NEW where \in Waiting,
         AwaitFetch(r, where)
  PROVE  /\ inFlight' \in Requests \cup {None}
         /\ pc' \in [Requests -> {"idle"} \cup Waiting \cup Queued]
         /\ awaits' \in [Requests -> Requests \cup {None}]
         /\ keys' \in [Requests -> SUBSET Kids]
         /\ age' \in [Requests -> Nat]
         /\ outbound' \in [Requests -> {"none", "sent", "answered"}]
         /\ fetchAge' \in [Requests -> 0..FetchTimeout]
         /\ body' \in [Requests -> SUBSET Kids]
         /\ response' = NoResponse
         /\ starts' \in [1..3 -> 0..FailureCooldown]
         /\ \A q \in Requests : q # r => pc'[q] = pc[q]
<1>1. /\ pc' = [pc EXCEPT ![r] = where]
      /\ keys' = [keys EXCEPT ![r] = {}]
      /\ response' = NoResponse
      /\ age' = age
  BY DEF AwaitFetch
<1>2. /\ pc' \in [Requests -> {"idle"} \cup Waiting \cup Queued]
      /\ keys' \in [Requests -> SUBSET Kids]
      /\ age' \in [Requests -> Nat]
      /\ \A q \in Requests : q # r => pc'[q] = pc[q]
  BY <1>1 DEF TypeOK
<1>3. CASE JoinFetch(r)
  BY <1>1, <1>2, <1>3 DEF JoinFetch, TypeOK, fetchVars
<1>4. CASE StartFetch(r)
  <2>1. starts' \in [1..3 -> 0..FailureCooldown]
    BY <1>4, TimersAssumption DEF StartFetch, StartedNow, TypeOK
  <2>2. fetchAge' \in [Requests -> 0..FetchTimeout]
    BY <1>4, TimersAssumption DEF StartFetch, TypeOK
  <2> QED BY <1>1, <1>2, <1>4, <2>1, <2>2 DEF StartFetch, TypeOK
<1> QED BY <1>3, <1>4 DEF AwaitFetch

\* Every action keeps the types.
LEMMA TypeStep == TypeOK /\ [Next]_vars => TypeOK'
<1> SUFFICES ASSUME TypeOK, [Next]_vars PROVE TypeOK'
    OBVIOUS
<1> USE TimersAssumption, TokensAssumption DEF TypeOK, Waiting, Queued,
        Staleness, AnswerKinds, Answer, NoResponse, TokenType
<1>1. ASSUME NEW r \in Requests, NEW t \in Tokens, RejectClaims(r, t)
      PROVE  TypeOK'
  BY <1>1 DEF RejectClaims, Reply, cacheVars, fetchVars, worldVars
<1>2. ASSUME NEW r \in Requests, NEW t \in Tokens, Begin(r, t)
      PROVE  TypeOK'
  <2>1. CASE BeginFromCache(r, t)
    BY <1>2, <2>1 DEF Begin, BeginFromCache, fetchVars, worldVars
  <2>2. CASE BeginMiss(r, t)
    <3>1. AwaitFetch(r, "first") /\ token' = [token EXCEPT ![r] = t]
      BY <2>2 DEF BeginMiss
    <3> QED BY <1>2, <3>1, AwaitFetchTypes DEF Begin, worldVars
  <2>3. CASE BeginCoolingDown(r, t)
    BY <1>2, <2>3 DEF Begin, BeginCoolingDown, Reply, fetchVars, worldVars
  <2> QED BY <1>2, <2>1, <2>2, <2>3 DEF Begin
<1>3. ASSUME NEW r \in Requests, Continue(r)
      PROVE  TypeOK'
  <2>1. CASE VerifyToken(r)
    BY <2>1 DEF VerifyToken, Reply, cacheVars, fetchVars, worldVars
  <2>2. CASE ForceRefresh(r)
    <3>0. /\ pc[r] = "haveFirst" /\ token[r] \in Tokens
          /\ forcedLeft' \in 0..ForcedCooldown
          /\ UNCHANGED <<cached, failLeft, published, withdrawn, lastFetch>>
      BY <2>2 DEF ForceRefresh, worldVars
    <3>1. CASE AwaitFetch(r, "forced") /\ UNCHANGED token
      BY <3>0, <3>1, AwaitFetchTypes
    <3>2. CASE Reply(r, token[r], "unavailable")
               /\ UNCHANGED <<inFlight, fetchVars, starts>>
      BY <3>0, <3>2 DEF Reply, fetchVars
    <3> QED BY <2>2, <3>1, <3>2 DEF ForceRefresh
  <2>3. CASE KeyNotFound(r)
    BY <2>3 DEF KeyNotFound, Reply, cacheVars, fetchVars, worldVars
  <2>4. CASE FetchRejected(r)
    BY <2>4 DEF FetchRejected, Reply, cacheVars, fetchVars, worldVars
  <2> QED BY <1>3, <2>1, <2>2, <2>3, <2>4 DEF Continue
<1>4. ASSUME NEW f \in Requests, FetchSucceeds(f)
      PROVE  TypeOK'
  BY <1>4 DEF FetchSucceeds, Settle, Resumed, Waiter, worldVars
<1>5. ASSUME NEW f \in Requests, FetchFails(f)
      PROVE  TypeOK'
  BY <1>5 DEF FetchFails, Settle, Waiter, worldVars
<1>6. ASSUME NEW f \in Requests, ProviderAnswers(f)
      PROVE  TypeOK'
  BY <1>6 DEF ProviderAnswers, cacheVars, requestVars, worldVars
<1>7. ASSUME NEW k \in Kids, Publish(k) \/ Withdraw(k)
      PROVE  TypeOK'
  <2>1. published' \in SUBSET Kids
    BY <1>7 DEF Publish, Withdraw
  <2>2. withdrawn' \in [Kids -> 0..Staleness]
    <3>1. 0 \in 0..Staleness /\ withdrawn \in [Kids -> 0..Staleness]
      OBVIOUS
    <3>2. withdrawn' = [withdrawn EXCEPT ![k] = 0] \/ withdrawn' = withdrawn
      BY <1>7 DEF Publish, Withdraw
    <3> HIDE DEF Staleness, TypeOK
    <3> QED BY <3>1, <3>2
  <2>3. response' = NoResponse /\ UNCHANGED <<cacheVars, requestVars, fetchVars,
                                             lastFetch, starts>>
    BY <1>7 DEF Publish, Withdraw
  <2> QED BY <2>1, <2>2, <2>3 DEF cacheVars, requestVars, fetchVars
<1>8. CASE Tick
  <2>1. \A n \in Nat : \A left \in 0..n : Elapse(left) \in 0..n
    BY DEF Elapse
  <2>2. /\ cached' \in [keys : SUBSET Kids, ttl : 0..CacheTTL]
        /\ forcedLeft' \in 0..ForcedCooldown
        /\ failLeft' \in 0..FailureCooldown
    <3>1. /\ Elapse(cached.ttl) \in 0..CacheTTL
          /\ Elapse(forcedLeft) \in 0..ForcedCooldown
          /\ Elapse(failLeft) \in 0..FailureCooldown
      BY <2>1
    <3>2. /\ cached' = [cached EXCEPT !.ttl = Elapse(@)]
          /\ forcedLeft' = Elapse(forcedLeft)
          /\ failLeft' = Elapse(failLeft)
      BY <1>8 DEF Tick
    <3> QED BY <3>1, <3>2
  <2>3. age' \in [Requests -> Nat]
    <3>1. OverAge \in Nat
      BY DEF OverAge
    <3> QED BY <1>8, <3>1 DEF Tick
  <2>4. fetchAge' \in [Requests -> 0..FetchTimeout]
    <3>1. ASSUME NEW f \in Requests, outbound[f] # "none"
          PROVE  fetchAge[f] + 1 \in 0..FetchTimeout
      BY <1>8, <3>1 DEF Tick, NoFetchOverdue
    <3> QED BY <1>8, <3>1 DEF Tick
  <2>5. withdrawn' \in [Kids -> 0..Staleness]
    <3>1. ASSUME NEW k \in Kids, withdrawn[k] # Staleness
          PROVE  withdrawn[k] + 1 \in 0..Staleness
      <4>1. withdrawn[k] \in 0..Staleness /\ Staleness \in Nat
        OBVIOUS
      <4> HIDE DEF Staleness, TypeOK
      <4> QED BY <3>1, <4>1
    <3>2. withdrawn' = [k \in Kids |->
                          IF k \in published \/ withdrawn[k] = Staleness
                          THEN withdrawn[k] ELSE withdrawn[k] + 1]
      BY <1>8 DEF Tick
    <3>3. \A k \in Kids : withdrawn[k] \in 0..Staleness
      OBVIOUS
    <3> HIDE DEF Staleness, TypeOK
    <3> QED BY <3>1, <3>2, <3>3
  <2>6. starts' \in [1..3 -> 0..FailureCooldown]
    <3>1. ASSUME NEW i \in 1..3
          PROVE  (IF starts[i] = FailureCooldown THEN FailureCooldown
                  ELSE starts[i] + 1) \in 0..FailureCooldown
      <4>1. starts[i] \in 0..FailureCooldown /\ FailureCooldown \in Nat
        OBVIOUS
      <4> HIDE DEF TypeOK
      <4> QED BY <4>1
    <3>2. starts' = [i \in 1..3 |->
                       IF starts[i] = FailureCooldown THEN FailureCooldown
                       ELSE starts[i] + 1]
      BY <1>8 DEF Tick
    <3> HIDE DEF TypeOK
    <3> QED BY <3>1, <3>2
  <2> QED BY <1>8, <2>2, <2>3, <2>4, <2>5, <2>6 DEF Tick
<1>9. CASE UNCHANGED vars
  BY <1>9 DEF vars, cacheVars, requestVars, fetchVars, worldVars
<1> QED BY <1>1, <1>2, <1>3, <1>4, <1>5, <1>6, <1>7, <1>8, <1>9 DEF Next

\* Every reachable state is well typed.
THEOREM TypeCorrect == Spec => []TypeOK
  BY TypeInit, TypeStep, PTL DEF Spec

-----------------------------------------------------------------------------
(* The inductive invariant.  Each part says how one piece of the verifier's *)
(* state is tied to the others while requests wait.                         *)

\* jwksFetchInFlight names the only outstanding fetch, and every waiting
\* request waits for it.
FlightInv ==
  /\ \A f \in Requests : outbound[f] # "none" <=> inFlight = f
  /\ \A r \in Requests : pc[r] \in Waiting =>
       inFlight \in Requests /\ awaits[r] = inFlight

\* Every key the verifier holds left the provider's document no longer ago
\* than the place it is held in allows.
KeyInv ==
  /\ \A k \in published : withdrawn[k] = 0
  /\ \A f \in Requests : outbound[f] # "answered" => body[f] = {}
  /\ \A f \in Requests : \A k \in body[f] : withdrawn[k] <= fetchAge[f]
  /\ cached.ttl > 0 => \A k \in cached.keys :
       withdrawn[k] + cached.ttl <= Staleness
  /\ \A r \in Requests : pc[r] \in {"haveFirst", "haveForced"} =>
       \A k \in keys[r] : withdrawn[k] < Staleness

\* How long ago a request checked the time claims.
AgeInv ==
  \A r \in Requests :
    /\ pc[r] = "idle" => age[r] = 0
    /\ pc[r] = "first" => age[r] <= fetchAge[awaits[r]]
    /\ pc[r] = "forced" => age[r] <= FetchTimeout + fetchAge[awaits[r]]
    /\ pc[r] = "haveFirst" => age[r] <= FetchTimeout
    /\ pc[r] \in {"haveForced", "rejected"} => age[r] <= 2 * FetchTimeout

\* The forced refresh a request waits for was stamped while its fetch ran.
StampInv ==
  \A r \in Requests :
    /\ pc[r] = "forced" => forcedLeft + fetchAge[awaits[r]] >= ForcedCooldown
    /\ pc[r] = "haveForced" => forcedLeft > 0

\* What a request holds or waits for, against the cache as it is now.
CacheInv ==
  \A r \in Requests :
    /\ pc[r] = "first" => ~CacheHit
    /\ pc[r] \in {"haveFirst", "haveForced"} => keys[r] = cached.keys
    /\ pc[r] \in {"forced", "rejected"} /\ CacheHit =>
         token[r].kid \notin cached.keys

OutageInv ==
  /\ failLeft > 0 => lastFetch = "failed"
  /\ \A r \in Requests : pc[r] = "rejected" => lastFetch = "failed"

\* A request past the early checks carries a token that passed them.
TokenInv == \A r \in Requests : pc[r] # "idle" => token[r].claimsOk

-----------------------------------------------------------------------------
(* FlightInv.                                                              *)

\* A request joins the fetch in flight or creates the only one, and a fetch
\* that settles releases all who waited for it.
LEMMA FlightStep == TypeOK /\ FlightInv /\ [Next]_vars => FlightInv'
<1> SUFFICES ASSUME TypeOK, FlightInv, [Next]_vars PROVE FlightInv'
    OBVIOUS
<1> USE NoneAssumption DEF FlightInv, TypeOK, Waiting, Queued
<1>0. ASSUME NEW r \in Requests, NEW where \in Waiting, AwaitFetch(r, where),
             pc[r] \notin Waiting
      PROVE  FlightInv'
  <2>1. CASE JoinFetch(r)
    BY <1>0, <2>1 DEF AwaitFetch, JoinFetch, fetchVars
  <2>2. CASE StartFetch(r)
    BY <1>0, <2>2 DEF AwaitFetch, StartFetch
  <2> QED BY <1>0, <2>1, <2>2 DEF AwaitFetch
<1>r. ASSUME NEW r \in Requests, NEW t, NEW kind, Reply(r, t, kind),
             UNCHANGED <<inFlight, fetchVars>>
      PROVE  FlightInv'
  BY <1>r DEF Reply, fetchVars
<1>1. ASSUME NEW r \in Requests, NEW t \in Tokens, RejectClaims(r, t)
      PROVE  FlightInv'
  BY <1>1, <1>r DEF RejectClaims, cacheVars
<1>2. ASSUME NEW r \in Requests, NEW t \in Tokens, Begin(r, t)
      PROVE  FlightInv'
  <2>1. CASE BeginFromCache(r, t)
    BY <1>2, <2>1 DEF BeginFromCache, fetchVars
  <2>2. CASE BeginMiss(r, t)
    BY <1>2, <2>2, <1>0 DEF Begin, BeginMiss
  <2>3. CASE BeginCoolingDown(r, t)
    BY <1>2, <2>3, <1>r DEF BeginCoolingDown
  <2> QED BY <1>2, <2>1, <2>2, <2>3 DEF Begin
<1>3. ASSUME NEW r \in Requests, Continue(r)
      PROVE  FlightInv'
  <2>1. CASE VerifyToken(r)
    BY <2>1, <1>r DEF VerifyToken, cacheVars
  <2>2. CASE ForceRefresh(r)
    BY <2>2, <1>0, <1>r DEF ForceRefresh
  <2>3. CASE KeyNotFound(r)
    BY <2>3, <1>r DEF KeyNotFound, cacheVars
  <2>4. CASE FetchRejected(r)
    BY <2>4, <1>r DEF FetchRejected, cacheVars
  <2> QED BY <1>3, <2>1, <2>2, <2>3, <2>4 DEF Continue
<1>4. ASSUME NEW f \in Requests, FetchSucceeds(f) \/ FetchFails(f)
      PROVE  FlightInv'
  <2>1. /\ inFlight = f
        /\ inFlight' = None
        /\ outbound' = [outbound EXCEPT ![f] = "none"]
    BY <1>4 DEF FetchSucceeds, FetchFails, Settle
  <2>2. ASSUME NEW r \in Requests PROVE pc'[r] \notin Waiting
    <3>1. pc[r] \in Waiting <=> Waiter(f, r)
      BY <2>1 DEF Waiter
    <3>2. \/ pc'[r] = IF Waiter(f, r) THEN Resumed(pc[r]) ELSE pc[r]
          \/ pc'[r] = IF Waiter(f, r) THEN "rejected" ELSE pc[r]
      BY <1>4 DEF FetchSucceeds, FetchFails
    <3>3. Resumed(pc[r]) \notin Waiting
      BY DEF Resumed
    <3> QED BY <3>1, <3>2, <3>3
  <2> QED BY <2>1, <2>2
<1>6. ASSUME NEW f \in Requests, ProviderAnswers(f)
      PROVE  FlightInv'
  BY <1>6 DEF ProviderAnswers, cacheVars, requestVars
<1>7. ASSUME NEW k \in Kids, Publish(k) \/ Withdraw(k)
      PROVE  FlightInv'
  BY <1>7 DEF Publish, Withdraw, cacheVars, requestVars, fetchVars
<1>8. CASE Tick
  BY <1>8 DEF Tick
<1>9. CASE UNCHANGED vars
  BY <1>9 DEF vars, cacheVars, requestVars, fetchVars
<1> QED BY <1>1, <1>2, <1>3, <1>4, <1>6, <1>7, <1>8, <1>9 DEF Next

-----------------------------------------------------------------------------
(* What joining a fetch and settling one do to the requests.               *)

\* A request that begins to wait changes nothing of the others, and at most
\* starts an exchange that was not there before.
LEMMA AwaitEffect ==
  ASSUME TypeOK, FlightInv, NEW r \in Requests, NEW where \in Waiting,
         AwaitFetch(r, where), pc[r] \notin Waiting
  PROVE  /\ pc'[r] = where
         /\ keys'[r] = {}
         /\ age' = age
         /\ body' = body
         /\ response' = NoResponse
         /\ awaits'[r] \in Requests
         /\ fetchAge'[awaits'[r]] \in Nat
         /\ \A q \in Requests \ {r} :
              /\ pc'[q] = pc[q] /\ keys'[q] = keys[q]
              /\ awaits'[q] = awaits[q]
              /\ pc[q] \in Waiting =>
                   fetchAge'[awaits[q]] = fetchAge[awaits[q]]
         /\ \A f \in Requests :
              \/ fetchAge'[f] = fetchAge[f] /\ outbound'[f] = outbound[f]
              \/ outbound[f] = "none" /\ outbound'[f] = "sent"
<1> USE NoneAssumption DEF TypeOK, FlightInv, AwaitFetch
<1>1. CASE JoinFetch(r)
  BY <1>1 DEF JoinFetch, fetchVars
<1>2. CASE StartFetch(r)
  BY <1>2 DEF StartFetch
<1> QED BY <1>1, <1>2

\* A successful fetch is the one in flight; its waiters are exactly the
\* requests under way, and each resumes with the document.
LEMMA SuccessEffect ==
  ASSUME TypeOK, FlightInv, NEW f \in Requests, FetchSucceeds(f)
  PROVE  /\ inFlight = f
         /\ \A r \in Requests :
              /\ pc[r] \in {"idle", "first", "forced"}
              /\ pc[r] = "idle" => pc'[r] = "idle"
              /\ pc[r] \in Waiting => awaits[r] = f /\ keys'[r] = body[f]
              /\ pc[r] = "first" => pc'[r] = "haveFirst"
              /\ pc[r] = "forced" => pc'[r] = "haveForced"
<1> USE DEF TypeOK, FlightInv, Waiting, Queued
<1>1. inFlight = f
  BY DEF FetchSucceeds
<1>2. ASSUME NEW r \in Requests
      PROVE  /\ pc[r] \in {"idle", "first", "forced"}
             /\ pc[r] \in Waiting <=> Waiter(f, r)
             /\ pc'[r] = IF Waiter(f, r) THEN Resumed(pc[r]) ELSE pc[r]
             /\ keys'[r] = IF Waiter(f, r) THEN body[f] ELSE keys[r]
  BY <1>1 DEF FetchSucceeds, Drained, Waiter
<1> QED BY <1>1, <1>2 DEF Resumed, Waiter

\* A failing fetch rejects exactly the requests under way.
LEMMA FailureEffect ==
  ASSUME TypeOK, FlightInv, NEW f \in Requests, FetchFails(f)
  PROVE  /\ inFlight = f
         /\ \A r \in Requests :
              /\ pc[r] \in {"idle", "first", "forced"}
              /\ pc[r] = "idle" => pc'[r] = "idle"
              /\ pc[r] \in Waiting => awaits[r] = f /\ pc'[r] = "rejected"
<1> USE DEF TypeOK, FlightInv, Waiting, Queued
<1>1. inFlight = f
  BY DEF FetchFails
<1>2. ASSUME NEW r \in Requests
      PROVE  /\ pc[r] \in {"idle", "first", "forced"}
             /\ pc[r] \in Waiting <=> Waiter(f, r)
             /\ pc'[r] = IF Waiter(f, r) THEN "rejected" ELSE pc[r]
  BY <1>1 DEF FetchFails, Drained, Waiter
<1> QED BY <1>1, <1>2 DEF Waiter

\* Answering one request leaves the others as they were.
LEMMA ReplyEffect ==
  ASSUME TypeOK, NEW r \in Requests, NEW t, NEW kind, Reply(r, t, kind)
  PROVE  /\ response' = Answer(kind, t)
         /\ pc'[r] = "idle" /\ age'[r] = 0
         /\ \A q \in Requests \ {r} :
              /\ pc'[q] = pc[q] /\ keys'[q] = keys[q] /\ age'[q] = age[q]
              /\ awaits'[q] = awaits[q] /\ token'[q] = token[q]
  BY DEF Reply, TypeOK

-----------------------------------------------------------------------------
(* KeyInv.                                                                 *)

\* Keys are handed on, from the document through the answer and the cache to
\* the requests, no faster than they age.
LEMMA KeyStep == TypeOK /\ FlightInv /\ KeyInv /\ [Next]_vars => KeyInv'
<1> SUFFICES ASSUME TypeOK, FlightInv, KeyInv, [Next]_vars PROVE KeyInv'
    OBVIOUS
<1> USE TimersAssumption DEF KeyInv
<1>0. ASSUME NEW r \in Requests, NEW where \in Waiting, AwaitFetch(r, where),
             pc[r] \notin Waiting, UNCHANGED <<cached, worldVars>>
      PROVE  KeyInv'
  <2>1. \A f \in Requests : outbound'[f] # "answered" => body'[f] = {}
    BY <1>0, AwaitEffect
  <2>2. \A f \in Requests : \A k \in body'[f] : withdrawn'[k] <= fetchAge'[f]
    <3>1. ASSUME NEW f \in Requests, NEW k \in body'[f]
          PROVE  fetchAge'[f] = fetchAge[f] /\ k \in body[f]
      BY <1>0, <3>1, AwaitEffect
    <3> QED BY <1>0, <3>1 DEF worldVars
  <2>3. ASSUME NEW q \in Requests, pc'[q] \in {"haveFirst", "haveForced"}
        PROVE  pc[q] = pc'[q] /\ keys'[q] = keys[q]
    BY <1>0, <2>3, AwaitEffect DEF Waiting
  <2> QED BY <1>0, <2>1, <2>2, <2>3 DEF worldVars
<1>r. ASSUME NEW r \in Requests, NEW t, NEW kind, Reply(r, t, kind),
             UNCHANGED <<cached, fetchVars, worldVars>>
      PROVE  KeyInv'
  <2>1. ASSUME NEW q \in Requests, pc'[q] \in {"haveFirst", "haveForced"}
        PROVE  pc[q] = pc'[q] /\ keys'[q] = keys[q]
    BY <1>r, <2>1, ReplyEffect
  <2> QED BY <1>r, <2>1 DEF worldVars, fetchVars
<1>1. ASSUME NEW r \in Requests, NEW t \in Tokens, RejectClaims(r, t)
      PROVE  KeyInv'
  BY <1>1, <1>r DEF RejectClaims, cacheVars
<1>2. ASSUME NEW r \in Requests, NEW t \in Tokens, Begin(r, t)
      PROVE  KeyInv'
  <2>1. CASE BeginFromCache(r, t)
    <3>1. \A k \in cached.keys : withdrawn[k] < Staleness
      BY <2>1 DEF BeginFromCache, CacheHit, TypeOK, Staleness
    <3>2. /\ pc' = [pc EXCEPT ![r] = "haveFirst"]
          /\ keys' = [keys EXCEPT ![r] = cached.keys]
          /\ UNCHANGED <<cached, fetchVars, worldVars>>
      BY <1>2, <2>1 DEF Begin, BeginFromCache
    <3>3. ASSUME NEW q \in Requests, pc'[q] \in {"haveFirst", "haveForced"},
                 NEW k \in keys'[q]
          PROVE  withdrawn'[k] < Staleness
      BY <3>1, <3>2, <3>3 DEF TypeOK, worldVars
    <3> QED BY <3>2, <3>3 DEF fetchVars, worldVars
  <2>2. CASE BeginMiss(r, t)
    BY <1>2, <2>2, <1>0 DEF Begin, BeginMiss, Waiting
  <2>3. CASE BeginCoolingDown(r, t)
    BY <1>2, <2>3, <1>r DEF Begin, BeginCoolingDown
  <2> QED BY <1>2, <2>1, <2>2, <2>3 DEF Begin
<1>3. ASSUME NEW r \in Requests, Continue(r)
      PROVE  KeyInv'
  <2>1. CASE VerifyToken(r)
    BY <2>1, <1>r DEF VerifyToken, cacheVars
  <2>2. CASE ForceRefresh(r)
    BY <2>2, <1>0, <1>r DEF ForceRefresh, Waiting
  <2>3. CASE KeyNotFound(r)
    BY <2>3, <1>r DEF KeyNotFound, cacheVars
  <2>4. CASE FetchRejected(r)
    BY <2>4, <1>r DEF FetchRejected, cacheVars
  <2> QED BY <1>3, <2>1, <2>2, <2>3, <2>4 DEF Continue
<1>4. ASSUME NEW f \in Requests, FetchSucceeds(f)
      PROVE  KeyInv'
  <2>1. /\ cached' = [keys |-> body[f], ttl |-> CacheTTL]
        /\ outbound' = [outbound EXCEPT ![f] = "none"]
        /\ fetchAge' = [fetchAge EXCEPT ![f] = 0]
        /\ body' = [body EXCEPT ![f] = {}]
        /\ UNCHANGED <<published, withdrawn>>
    BY <1>4 DEF FetchSucceeds, Settle, worldVars
  <2>2. ASSUME NEW k \in body[f]
        PROVE  withdrawn[k] <= FetchTimeout /\ withdrawn[k] \in Nat
    BY DEF TypeOK
  <2>3. ASSUME NEW r \in Requests, pc'[r] \in {"haveFirst", "haveForced"}
        PROVE  keys'[r] = body[f]
    BY <1>4, <2>3, SuccessEffect DEF Waiting
  <2>4. \A g \in Requests : outbound'[g] # "answered" => body'[g] = {}
    BY <2>1 DEF TypeOK
  <2>5. \A g \in Requests : \A k \in body'[g] : withdrawn'[k] <= fetchAge'[g]
    BY <2>1 DEF TypeOK
  <2>6. \A k \in body[f] : /\ withdrawn[k] < Staleness
                            /\ withdrawn[k] + CacheTTL <= Staleness
    BY <2>2 DEF Staleness
  <2> QED BY <2>1, <2>3, <2>4, <2>5, <2>6
<1>5. ASSUME NEW f \in Requests, FetchFails(f)
      PROVE  KeyInv'
  <2>1. /\ outbound' = [outbound EXCEPT ![f] = "none"]
        /\ fetchAge' = [fetchAge EXCEPT ![f] = 0]
        /\ body' = [body EXCEPT ![f] = {}]
        /\ UNCHANGED <<cached, published, withdrawn>>
    BY <1>5 DEF FetchFails, Settle, worldVars
  <2>2. \A r \in Requests : pc'[r] \notin {"haveFirst", "haveForced"}
    BY <1>5, FailureEffect DEF Waiting
  <2> QED BY <2>1, <2>2 DEF TypeOK
<1>6. ASSUME NEW f \in Requests, ProviderAnswers(f)
      PROVE  KeyInv'
  <2>1. /\ outbound' = [outbound EXCEPT ![f] = "answered"]
        /\ body' = [body EXCEPT ![f] = published]
        /\ UNCHANGED <<cached, pc, keys, fetchAge, published, withdrawn>>
    BY <1>6 DEF ProviderAnswers, cacheVars, requestVars, worldVars
  <2>2. \A k \in published : withdrawn[k] <= fetchAge[f]
    BY DEF TypeOK
  <2> QED BY <2>1, <2>2 DEF TypeOK
<1>7. ASSUME NEW k \in Kids, Publish(k) \/ Withdraw(k)
      PROVE  KeyInv'
  <2>1. /\ withdrawn' = [withdrawn EXCEPT ![k] = 0] \/ withdrawn' = withdrawn
        /\ UNCHANGED <<cached, pc, keys, fetchVars>>
    BY <1>7 DEF Publish, Withdraw, cacheVars, requestVars
  <2>2. \A j \in published' : withdrawn'[j] = 0
    BY <1>7 DEF Publish, Withdraw, TypeOK
  <2>3. ASSUME NEW j \in Kids
        PROVE  withdrawn'[j] \in Nat /\ withdrawn'[j] <= withdrawn[j]
    <3>1. withdrawn \in [Kids -> Nat]
      BY DEF TypeOK, Staleness
    <3>2. withdrawn'[j] \in {0, withdrawn[j]}
      BY <2>1, <3>1
    <3> QED BY <3>1, <3>2
  <2>4. /\ cached.keys \subseteq Kids /\ cached.ttl \in Nat /\ Staleness \in Nat
        /\ \A r \in Requests : keys[r] \subseteq Kids /\ body[r] \subseteq Kids
                               /\ fetchAge[r] \in Nat
        /\ \A j \in Kids : withdrawn[j] \in Nat
    BY DEF TypeOK, Staleness
  <2>5. /\ \A f \in Requests : \A j \in body[f] : withdrawn'[j] <= fetchAge[f]
        /\ cached.ttl > 0 => \A j \in cached.keys :
             withdrawn'[j] + cached.ttl <= Staleness
        /\ \A r \in Requests : pc[r] \in {"haveFirst", "haveForced"} =>
             \A j \in keys[r] : withdrawn'[j] < Staleness
    BY <2>3, <2>4
  <2> QED BY <2>1, <2>2, <2>5 DEF fetchVars
<1>8. CASE Tick
  <2>1. /\ UNCHANGED <<pc, keys, outbound, body, published>>
        /\ cached' = [cached EXCEPT !.ttl = Elapse(@)]
        /\ \A r \in Requests : pc[r] \notin Queued
    BY <1>8 DEF Tick, Drained
  <2>2. ASSUME NEW k \in Kids
        PROVE  /\ withdrawn[k] \in Nat /\ withdrawn'[k] \in Nat
               /\ withdrawn'[k] <= withdrawn[k] + 1
               /\ k \in published => withdrawn'[k] = withdrawn[k]
    <3>1. withdrawn[k] \in Nat
      BY DEF TypeOK, Staleness
    <3>2. withdrawn'[k] = IF k \in published \/ withdrawn[k] = Staleness
                          THEN withdrawn[k] ELSE withdrawn[k] + 1
      BY <1>8 DEF Tick
    <3> QED BY <3>1, <3>2
  <2>3. \A k \in published : withdrawn'[k] = 0
    BY <2>1, <2>2 DEF TypeOK
  <2>4. ASSUME NEW f \in Requests, NEW k \in body[f]
        PROVE  withdrawn'[k] <= fetchAge'[f]
    <3>1. outbound[f] # "none"
      OBVIOUS
    <3>2. k \in Kids /\ fetchAge[f] \in 0..FetchTimeout /\ FetchTimeout \in Nat
      BY TimersAssumption DEF TypeOK
    <3>3. fetchAge'[f] = fetchAge[f] + 1
      BY <1>8, <3>1, <3>2 DEF Tick, NoFetchOverdue
    <3>4. withdrawn[k] <= fetchAge[f]
      OBVIOUS
    <3> QED BY <2>2, <3>2, <3>3, <3>4
  <2>5. ASSUME NEW k \in cached'.keys, cached'.ttl > 0
        PROVE  withdrawn'[k] + cached'.ttl <= Staleness
    <3>1. /\ cached'.keys = cached.keys /\ cached'.ttl = Elapse(cached.ttl)
          /\ cached.ttl \in Nat /\ Staleness \in Nat /\ k \in Kids
      BY <2>1 DEF TypeOK, Staleness
    <3>2. cached.ttl > 0 /\ cached'.ttl = cached.ttl - 1
      BY <2>5, <3>1 DEF Elapse
    <3>3. withdrawn[k] + cached.ttl <= Staleness
      BY <3>1, <3>2
    <3>4. /\ withdrawn[k] \in Nat /\ withdrawn'[k] \in Nat
          /\ withdrawn'[k] <= withdrawn[k] + 1
      BY <2>2, <3>1
    <3> HIDE DEF KeyInv
    <3> QED BY <3>1, <3>2, <3>3, <3>4
  <2> QED BY <2>1, <2>3, <2>4, <2>5 DEF Queued
<1>9. CASE UNCHANGED vars
  BY <1>9 DEF vars, cacheVars, requestVars, fetchVars, worldVars
<1> QED BY <1>1, <1>2, <1>3, <1>4, <1>5, <1>6, <1>7, <1>8, <1>9 DEF Next

-----------------------------------------------------------------------------
(* AgeInv.                                                                 *)

\* A waiting request and its fetch grow old together.
LEMMA AgeStep == TypeOK /\ FlightInv /\ AgeInv /\ [Next]_vars => AgeInv'
<1> SUFFICES ASSUME TypeOK, FlightInv, AgeInv, [Next]_vars PROVE AgeInv'
    OBVIOUS
<1> USE TimersAssumption DEF AgeInv
<1>t. \A r \in Requests : /\ age[r] \in Nat /\ fetchAge[r] \in 0..FetchTimeout
                          /\ awaits[r] \in Requests \cup {None}
  BY DEF TypeOK
<1>w. \A r \in Requests : pc[r] \in Waiting => awaits[r] \in Requests
  BY DEF FlightInv
<1>0. ASSUME NEW r \in Requests, NEW where \in Waiting, AwaitFetch(r, where),
             \/ pc[r] = "idle"
             \/ pc[r] = "haveFirst" /\ where = "forced"
      PROVE  AgeInv'
  <2>1. /\ pc'[r] = where /\ age' = age
        /\ fetchAge'[awaits'[r]] \in Nat
        /\ \A q \in Requests \ {r} :
             /\ pc'[q] = pc[q] /\ awaits'[q] = awaits[q]
             /\ pc[q] \in Waiting => fetchAge'[awaits[q]] = fetchAge[awaits[q]]
    BY <1>0, AwaitEffect DEF Waiting
  <2>2. where = "first" => age[r] = 0
    BY <1>0
  <2>3. where = "forced" => age[r] <= FetchTimeout
    BY <1>0
  <2> QED BY <2>1, <2>2, <2>3, <1>t DEF Waiting
<1>r. ASSUME NEW r \in Requests, NEW t, NEW kind, Reply(r, t, kind),
             UNCHANGED fetchVars
      PROVE  AgeInv'
  BY <1>r, ReplyEffect DEF fetchVars
<1>1. ASSUME NEW r \in Requests, NEW t \in Tokens, RejectClaims(r, t)
      PROVE  AgeInv'
  BY <1>1, <1>r DEF RejectClaims
<1>2. ASSUME NEW r \in Requests, NEW t \in Tokens, Begin(r, t)
      PROVE  AgeInv'
  <2>1. CASE BeginFromCache(r, t)
    <3>1. /\ pc[r] = "idle" /\ age' = age /\ fetchAge' = fetchAge
          /\ awaits' = awaits /\ pc' = [pc EXCEPT ![r] = "haveFirst"]
      BY <1>2, <2>1 DEF Begin, BeginFromCache, fetchVars
    <3> QED BY <3>1, <1>t DEF TypeOK
  <2>2. CASE BeginMiss(r, t)
    BY <1>2, <2>2, <1>0 DEF Begin, BeginMiss, Waiting
  <2>3. CASE BeginCoolingDown(r, t)
    BY <1>2, <2>3, <1>r DEF Begin, BeginCoolingDown
  <2> QED BY <1>2, <2>1, <2>2, <2>3 DEF Begin
<1>3. ASSUME NEW r \in Requests, Continue(r)
      PROVE  AgeInv'
  <2>1. CASE VerifyToken(r)
    BY <2>1, <1>r DEF VerifyToken
  <2>2. CASE ForceRefresh(r)
    BY <2>2, <1>0, <1>r DEF ForceRefresh, Waiting
  <2>3. CASE KeyNotFound(r)
    BY <2>3, <1>r DEF KeyNotFound
  <2>4. CASE FetchRejected(r)
    BY <2>4, <1>r DEF FetchRejected
  <2> QED BY <1>3, <2>1, <2>2, <2>3, <2>4 DEF Continue
<1>4. ASSUME NEW f \in Requests, FetchSucceeds(f)
      PROVE  AgeInv'
  <2>1. age' = age
    BY <1>4 DEF FetchSucceeds
  <2> QED BY <1>4, <2>1, <1>t, SuccessEffect DEF Waiting
<1>5. ASSUME NEW f \in Requests, FetchFails(f)
      PROVE  AgeInv'
  <2>1. age' = age
    BY <1>5 DEF FetchFails
  <2> QED BY <1>5, <2>1, <1>t, FailureEffect DEF Waiting
<1>6. ASSUME NEW f \in Requests, ProviderAnswers(f)
      PROVE  AgeInv'
  BY <1>6 DEF ProviderAnswers, requestVars
<1>7. ASSUME NEW k \in Kids, Publish(k) \/ Withdraw(k)
      PROVE  AgeInv'
  BY <1>7 DEF Publish, Withdraw, requestVars, fetchVars
<1>8. CASE Tick
  <2>1. UNCHANGED <<pc, awaits>> /\ \A r \in Requests : pc[r] \notin Queued
    BY <1>8 DEF Tick, Drained
  <2>2. \A r \in Requests : /\ age'[r] \in Nat /\ age'[r] <= age[r] + 1
                            /\ pc[r] = "idle" => age'[r] = 0
    BY <1>8, <1>t DEF Tick, OverAge
  <2>3. ASSUME NEW r \in Requests, pc[r] \in Waiting
        PROVE  fetchAge'[awaits[r]] = fetchAge[awaits[r]] + 1
    <3>1. awaits[r] \in Requests /\ outbound[awaits[r]] # "none"
      BY <2>3 DEF FlightInv
    <3>2. fetchAge[awaits[r]] \in 0..FetchTimeout /\ FetchTimeout \in Nat
      BY <1>t, <3>1, TimersAssumption
    <3> QED BY <1>8, <3>1, <3>2 DEF Tick, NoFetchOverdue
  <2> QED BY <2>1, <2>2, <2>3, <1>t, <1>w DEF Waiting, Queued
<1>9. CASE UNCHANGED vars
  BY <1>9 DEF vars, requestVars, fetchVars
<1> QED BY <1>1, <1>2, <1>3, <1>4, <1>5, <1>6, <1>7, <1>8, <1>9 DEF Next

-----------------------------------------------------------------------------
(* StampInv.                                                               *)

\* The forced-refresh stamp outlives the fetch it was taken for.
LEMMA StampStep == TypeOK /\ FlightInv /\ StampInv /\ [Next]_vars => StampInv'
<1> SUFFICES ASSUME TypeOK, FlightInv, StampInv, [Next]_vars PROVE StampInv'
    OBVIOUS
<1> USE TimersAssumption DEF StampInv
<1>t. /\ forcedLeft \in Nat
      /\ \A r \in Requests : fetchAge[r] \in 0..FetchTimeout
  BY DEF TypeOK
<1>w. \A r \in Requests : pc[r] \in Waiting => awaits[r] \in Requests
  BY DEF FlightInv
<1>r. ASSUME NEW r \in Requests, NEW t, NEW kind, Reply(r, t, kind),
             UNCHANGED fetchVars,
             forcedLeft' = forcedLeft \/ forcedLeft' = ForcedCooldown
      PROVE  StampInv'
  BY <1>r, <1>t, <1>w, ReplyEffect DEF fetchVars, Waiting
<1>1. ASSUME NEW r \in Requests, NEW t \in Tokens, RejectClaims(r, t)
      PROVE  StampInv'
  BY <1>1, <1>r DEF RejectClaims, cacheVars
<1>2. ASSUME NEW r \in Requests, NEW t \in Tokens, Begin(r, t)
      PROVE  StampInv'
  <2>1. CASE BeginFromCache(r, t)
    BY <1>2, <2>1 DEF Begin, BeginFromCache, fetchVars, TypeOK
  <2>2. CASE BeginMiss(r, t)
    <3>1. AwaitFetch(r, "first") /\ pc[r] \notin Waiting /\ forcedLeft' = forcedLeft
      BY <1>2, <2>2 DEF Begin, BeginMiss, Waiting
    <3> QED BY <3>1, AwaitEffect DEF Waiting
  <2>3. CASE BeginCoolingDown(r, t)
    BY <1>2, <2>3, <1>r DEF Begin, BeginCoolingDown
  <2> QED BY <1>2, <2>1, <2>2, <2>3 DEF Begin
<1>3. ASSUME NEW r \in Requests, Continue(r)
      PROVE  StampInv'
  <2>1. CASE VerifyToken(r)
    BY <2>1, <1>r DEF VerifyToken, cacheVars
  <2>2. CASE ForceRefresh(r)
    <3>1. pc[r] = "haveFirst" /\ forcedLeft' = ForcedCooldown
      BY <2>2 DEF ForceRefresh
    <3>2. CASE AwaitFetch(r, "forced")
      <4>1. /\ fetchAge'[awaits'[r]] \in Nat
            /\ \A q \in Requests \ {r} :
                 /\ pc'[q] = pc[q] /\ awaits'[q] = awaits[q]
                 /\ pc[q] \in Waiting =>
                      fetchAge'[awaits[q]] = fetchAge[awaits[q]]
            /\ pc'[r] = "forced"
        BY <3>1, <3>2, AwaitEffect DEF Waiting
      <4> QED BY <3>1, <4>1, <1>t, <1>w DEF Waiting
    <3>3. CASE Reply(r, token[r], "unavailable") /\ UNCHANGED fetchVars
      BY <3>1, <3>3, <1>r
    <3> QED BY <2>2, <3>2, <3>3 DEF ForceRefresh
  <2>3. CASE KeyNotFound(r)
    BY <2>3, <1>r DEF KeyNotFound, cacheVars
  <2>4. CASE FetchRejected(r)
    BY <2>4, <1>r DEF FetchRejected, cacheVars
  <2> QED BY <1>3, <2>1, <2>2, <2>3, <2>4 DEF Continue
<1>4. ASSUME NEW f \in Requests, FetchSucceeds(f)
      PROVE  StampInv'
  <2>1. forcedLeft' = forcedLeft
    BY <1>4 DEF FetchSucceeds
  <2>2. ASSUME NEW r \in Requests
        PROVE  /\ pc'[r] # "forced"
               /\ pc'[r] = "haveForced" => pc[r] = "forced" /\ awaits[r] = f
    BY <1>4, SuccessEffect DEF Waiting
  <2> QED BY <2>1, <2>2, <1>t
<1>5. ASSUME NEW f \in Requests, FetchFails(f)
      PROVE  StampInv'
  BY <1>5, FailureEffect DEF Waiting
<1>6. ASSUME NEW f \in Requests, ProviderAnswers(f)
      PROVE  StampInv'
  BY <1>6 DEF ProviderAnswers, cacheVars, requestVars
<1>7. ASSUME NEW k \in Kids, Publish(k) \/ Withdraw(k)
      PROVE  StampInv'
  BY <1>7 DEF Publish, Withdraw, cacheVars, requestVars, fetchVars
<1>8. CASE Tick
  <2>1. /\ UNCHANGED <<pc, awaits>> /\ forcedLeft' = Elapse(forcedLeft)
        /\ \A r \in Requests : pc[r] \notin Queued
    BY <1>8 DEF Tick, Drained
  <2>2. forcedLeft' \in Nat /\ forcedLeft' >= forcedLeft - 1
    BY <2>1, <1>t DEF Elapse
  <2>3. ASSUME NEW r \in Requests, pc[r] = "forced"
        PROVE  /\ fetchAge'[awaits[r]] = fetchAge[awaits[r]] + 1
               /\ fetchAge[awaits[r]] \in Nat
    <3>1. awaits[r] \in Requests /\ outbound[awaits[r]] # "none"
      BY <2>3 DEF FlightInv, Waiting
    <3> QED BY <1>8, <3>1, <1>t DEF Tick
  <2> QED BY <2>1, <2>2, <2>3, <1>t DEF Queued
<1>9. CASE UNCHANGED vars
  BY <1>9 DEF vars, cacheVars, requestVars, fetchVars
<1> QED BY <1>1, <1>2, <1>3, <1>4, <1>5, <1>6, <1>7, <1>8, <1>9 DEF Next

-----------------------------------------------------------------------------
(* CacheInv, OutageInv and TokenInv.                                       *)

\* The cache changes only when no resumed request holds an older copy of it.
LEMMA CacheStep == TypeOK /\ FlightInv /\ CacheInv /\ [Next]_vars => CacheInv'
<1> SUFFICES ASSUME TypeOK, FlightInv, CacheInv, [Next]_vars PROVE CacheInv'
    OBVIOUS
<1> USE DEF CacheInv
<1>0. ASSUME NEW r \in Requests, NEW where \in Waiting, AwaitFetch(r, where),
             pc[r] \notin Waiting, cached' = cached,
             \A q \in Requests \ {r} : token'[q] = token[q],
             where = "first" => ~CacheHit,
             where = "forced" /\ CacheHit => token'[r].kid \notin cached.keys
      PROVE  CacheInv'
  <2>1. /\ pc'[r] = where
        /\ \A q \in Requests \ {r} : pc'[q] = pc[q] /\ keys'[q] = keys[q]
    BY <1>0, AwaitEffect
  <2> QED BY <1>0, <2>1 DEF Waiting, CacheHit
<1>r. ASSUME NEW r \in Requests, NEW t, NEW kind, Reply(r, t, kind),
             cached' = cached
      PROVE  CacheInv'
  BY <1>r, ReplyEffect DEF CacheHit
<1>1. ASSUME NEW r \in Requests, NEW t \in Tokens, RejectClaims(r, t)
      PROVE  CacheInv'
  BY <1>1, <1>r DEF RejectClaims, cacheVars
<1>2. ASSUME NEW r \in Requests, NEW t \in Tokens, Begin(r, t)
      PROVE  CacheInv'
  <2>0. pc[r] = "idle" /\ cached' = cached
    BY <1>2 DEF Begin
  <2>1. CASE BeginFromCache(r, t)
    BY <2>0, <2>1 DEF BeginFromCache, CacheHit, TypeOK
  <2>2. CASE BeginMiss(r, t)
    BY <2>0, <2>2, <1>0 DEF BeginMiss, Waiting, TypeOK
  <2>3. CASE BeginCoolingDown(r, t)
    BY <2>0, <2>3, <1>r DEF BeginCoolingDown
  <2> QED BY <1>2, <2>1, <2>2, <2>3 DEF Begin
<1>3. ASSUME NEW r \in Requests, Continue(r)
      PROVE  CacheInv'
  <2>1. CASE VerifyToken(r)
    BY <2>1, <1>r DEF VerifyToken, cacheVars
  <2>2. CASE ForceRefresh(r)
    BY <2>2, <1>0, <1>r DEF ForceRefresh, Waiting
  <2>3. CASE KeyNotFound(r)
    BY <2>3, <1>r DEF KeyNotFound, cacheVars
  <2>4. CASE FetchRejected(r)
    BY <2>4, <1>r DEF FetchRejected, cacheVars
  <2> QED BY <1>3, <2>1, <2>2, <2>3, <2>4 DEF Continue
<1>4. ASSUME NEW f \in Requests, FetchSucceeds(f)
      PROVE  CacheInv'
  <2>1. cached'.keys = body[f]
    BY <1>4 DEF FetchSucceeds
  <2> QED BY <1>4, <2>1, SuccessEffect DEF Waiting
<1>5. ASSUME NEW f \in Requests, FetchFails(f)
      PROVE  CacheInv'
  <2>1. UNCHANGED <<cached, token>>
    BY <1>5 DEF FetchFails
  <2> QED BY <1>5, <2>1, FailureEffect DEF Waiting, CacheHit
<1>6. ASSUME NEW f \in Requests, ProviderAnswers(f)
      PROVE  CacheInv'
  BY <1>6 DEF ProviderAnswers, cacheVars, requestVars, CacheHit
<1>7. ASSUME NEW k \in Kids, Publish(k) \/ Withdraw(k)
      PROVE  CacheInv'
  BY <1>7 DEF Publish, Withdraw, cacheVars, requestVars, CacheHit
<1>8. CASE Tick
  <2>1. UNCHANGED <<pc, keys, token>> /\ cached'.keys = cached.keys
    BY <1>8 DEF Tick, TypeOK
  <2>2. CacheHit' => CacheHit
    <3>1. cached'.ttl = Elapse(cached.ttl) /\ cached.ttl \in Nat
      BY <1>8, TimersAssumption DEF Tick, TypeOK
    <3> QED BY <2>1, <3>1 DEF CacheHit, Elapse
  <2> QED BY <2>1, <2>2
<1>9. CASE UNCHANGED vars
  BY <1>9 DEF vars, cacheVars, requestVars, CacheHit
<1> QED BY <1>1, <1>2, <1>3, <1>4, <1>5, <1>6, <1>7, <1>8, <1>9 DEF Next

\* The failure cooldown and rejected requests follow a failed fetch, and a
\* successful one ends both.
LEMMA OutageStep ==
  TypeOK /\ FlightInv /\ OutageInv /\ [Next]_vars => OutageInv'
<1> SUFFICES ASSUME TypeOK, FlightInv, OutageInv, [Next]_vars
             PROVE  OutageInv'
    OBVIOUS
<1> USE DEF OutageInv
<1>0. ASSUME NEW r \in Requests, NEW where \in Waiting, AwaitFetch(r, where),
             pc[r] \notin Waiting, UNCHANGED <<failLeft, lastFetch>>
      PROVE  OutageInv'
  <2>1. \A q \in Requests : pc'[q] = "rejected" => pc[q] = "rejected"
    BY <1>0, AwaitEffect DEF Waiting
  <2> QED BY <1>0, <2>1
<1>r. ASSUME NEW r \in Requests, NEW t, NEW kind, Reply(r, t, kind),
             UNCHANGED <<failLeft, lastFetch>>
      PROVE  OutageInv'
  <2>1. \A q \in Requests : pc'[q] = "rejected" => pc[q] = "rejected"
    BY <1>r, ReplyEffect
  <2> QED BY <1>r, <2>1
<1>1. ASSUME NEW r \in Requests, NEW t \in Tokens, RejectClaims(r, t)
      PROVE  OutageInv'
  BY <1>1, <1>r DEF RejectClaims, cacheVars
<1>2. ASSUME NEW r \in Requests, NEW t \in Tokens, Begin(r, t)
      PROVE  OutageInv'
  <2>0. pc[r] = "idle" /\ UNCHANGED <<failLeft, lastFetch>>
    BY <1>2 DEF Begin
  <2>1. CASE BeginFromCache(r, t)
    BY <2>0, <2>1 DEF BeginFromCache, TypeOK
  <2>2. CASE BeginMiss(r, t)
    BY <2>0, <2>2, <1>0 DEF BeginMiss, Waiting
  <2>3. CASE BeginCoolingDown(r, t)
    BY <2>0, <2>3, <1>r DEF BeginCoolingDown
  <2> QED BY <1>2, <2>1, <2>2, <2>3 DEF Begin
<1>3. ASSUME NEW r \in Requests, Continue(r)
      PROVE  OutageInv'
  <2>1. CASE VerifyToken(r)
    BY <2>1, <1>r DEF VerifyToken, cacheVars
  <2>2. CASE ForceRefresh(r)
    BY <2>2, <1>0, <1>r DEF ForceRefresh, Waiting
  <2>3. CASE KeyNotFound(r)
    BY <2>3, <1>r DEF KeyNotFound, cacheVars
  <2>4. CASE FetchRejected(r)
    BY <2>4, <1>r DEF FetchRejected, cacheVars
  <2> QED BY <1>3, <2>1, <2>2, <2>3, <2>4 DEF Continue
<1>4. ASSUME NEW f \in Requests, FetchSucceeds(f)
      PROVE  OutageInv'
  <2>1. failLeft' = 0
    BY <1>4 DEF FetchSucceeds
  <2>2. \A r \in Requests : pc'[r] # "rejected"
    BY <1>4, SuccessEffect DEF Waiting
  <2> QED BY <2>1, <2>2
<1>5. ASSUME NEW f \in Requests, FetchFails(f)
      PROVE  OutageInv'
  BY <1>5 DEF FetchFails
<1>6. ASSUME NEW f \in Requests, ProviderAnswers(f)
      PROVE  OutageInv'
  BY <1>6 DEF ProviderAnswers, cacheVars, requestVars
<1>7. ASSUME NEW k \in Kids, Publish(k) \/ Withdraw(k)
      PROVE  OutageInv'
  BY <1>7 DEF Publish, Withdraw, cacheVars, requestVars
<1>8. CASE Tick
  BY <1>8, TimersAssumption DEF Tick, Elapse, TypeOK
<1>9. CASE UNCHANGED vars
  BY <1>9 DEF vars, cacheVars, requestVars
<1> QED BY <1>1, <1>2, <1>3, <1>4, <1>5, <1>6, <1>7, <1>8, <1>9 DEF Next

\* Only a token that passed the early checks gets past Begin.
LEMMA TokenStep == TypeOK /\ FlightInv /\ TokenInv /\ [Next]_vars => TokenInv'
<1> SUFFICES ASSUME TypeOK, FlightInv, TokenInv, [Next]_vars PROVE TokenInv'
    OBVIOUS
<1> USE DEF TokenInv
<1>0. ASSUME NEW r \in Requests, NEW where \in Waiting, AwaitFetch(r, where),
             pc[r] \notin Waiting, token'[r].claimsOk,
             \A q \in Requests \ {r} : token'[q] = token[q]
      PROVE  TokenInv'
  <2>1. \A q \in Requests \ {r} : pc'[q] = pc[q]
    BY <1>0, AwaitEffect
  <2> QED BY <1>0, <2>1
<1>r. ASSUME NEW r \in Requests, NEW t, NEW kind, Reply(r, t, kind)
      PROVE  TokenInv'
  BY <1>r, ReplyEffect
<1>1. ASSUME NEW r \in Requests, NEW t \in Tokens, RejectClaims(r, t)
      PROVE  TokenInv'
  BY <1>1, <1>r DEF RejectClaims
<1>2. ASSUME NEW r \in Requests, NEW t \in Tokens, Begin(r, t)
      PROVE  TokenInv'
  <2>0. pc[r] = "idle" /\ t.claimsOk
    BY <1>2 DEF Begin
  <2>1. CASE BeginFromCache(r, t)
    BY <2>0, <2>1 DEF BeginFromCache, TypeOK
  <2>2. CASE BeginMiss(r, t)
    BY <2>0, <2>2, <1>0 DEF BeginMiss, Waiting, TypeOK
  <2>3. CASE BeginCoolingDown(r, t)
    BY <2>3, <1>r DEF BeginCoolingDown
  <2> QED BY <1>2, <2>1, <2>2, <2>3 DEF Begin
<1>3. ASSUME NEW r \in Requests, Continue(r)
      PROVE  TokenInv'
  <2>1. CASE VerifyToken(r)
    BY <2>1, <1>r DEF VerifyToken
  <2>2. CASE ForceRefresh(r)
    BY <2>2, <1>0, <1>r DEF ForceRefresh, Waiting
  <2>3. CASE KeyNotFound(r)
    BY <2>3, <1>r DEF KeyNotFound
  <2>4. CASE FetchRejected(r)
    BY <2>4, <1>r DEF FetchRejected
  <2> QED BY <1>3, <2>1, <2>2, <2>3, <2>4 DEF Continue
<1>4. ASSUME NEW f \in Requests, FetchSucceeds(f)
      PROVE  TokenInv'
  <2>1. token' = token
    BY <1>4 DEF FetchSucceeds
  <2> QED BY <1>4, <2>1, SuccessEffect
<1>5. ASSUME NEW f \in Requests, FetchFails(f)
      PROVE  TokenInv'
  <2>1. token' = token
    BY <1>5 DEF FetchFails
  <2> QED BY <1>5, <2>1, FailureEffect
<1>6. ASSUME NEW f \in Requests, ProviderAnswers(f)
      PROVE  TokenInv'
  BY <1>6 DEF ProviderAnswers, requestVars
<1>7. ASSUME NEW k \in Kids, Publish(k) \/ Withdraw(k)
      PROVE  TokenInv'
  BY <1>7 DEF Publish, Withdraw, requestVars
<1>8. CASE Tick
  BY <1>8 DEF Tick
<1>9. CASE UNCHANGED vars
  BY <1>9 DEF vars, requestVars
<1> QED BY <1>1, <1>2, <1>3, <1>4, <1>5, <1>6, <1>7, <1>8, <1>9 DEF Next

-----------------------------------------------------------------------------
(* RateInv.                                                                *)

\* Only a cache miss or a forced refresh starts a fetch, and only after the
\* one before it settled.  Between fetches the failure cooldown or the fresh
\* keys hold back the next miss for FailureCooldown after the last start; a
\* start that came so soon was forced, and its stamp holds back the next one.
RateInv ==
  /\ starts[1] <= starts[2] /\ starts[2] <= starts[3]
  /\ starts[3] = FailureCooldown
  /\ inFlight = None =>
       \/ failLeft + starts[1] >= FailureCooldown
       \/ cached.keys # {} /\ cached.ttl + starts[1] >= FailureCooldown
  /\ starts[2] < FailureCooldown => forcedLeft + starts[1] >= FailureCooldown

\* A start leaves two of the last three FailureCooldown ago if it was the
\* only one to begin within that time or takes the stamp now.
LEMMA RateStart ==
  ASSUME TypeOK, RateInv, NEW r \in Requests, StartFetch(r),
         \/ starts[1] = FailureCooldown
         \/ starts[2] = FailureCooldown /\ forcedLeft' = ForcedCooldown
  PROVE  RateInv'
<1>1. /\ starts' = StartedNow /\ inFlight' = r
  BY DEF StartFetch
<1>2. starts'[1] = 0 /\ starts'[2] = starts[1] /\ starts'[3] = starts[2]
  BY <1>1 DEF StartedNow
<1>3. /\ starts[1] \in 0..FailureCooldown /\ starts[2] \in 0..FailureCooldown
      /\ starts[3] \in 0..FailureCooldown
  BY DEF TypeOK
<1>4. starts[2] = FailureCooldown
  BY <1>3, TimersAssumption DEF RateInv
<1>5. starts'[2] < FailureCooldown => forcedLeft' + starts'[1] >= FailureCooldown
  BY <1>2, <1>3, TimersAssumption
<1>6. inFlight' # None
  BY <1>1, NoneAssumption
<1> QED BY <1>2, <1>3, <1>4, <1>5, <1>6 DEF RateInv

\* No fetch starts too soon after the two before it.
LEMMA RateStep == TypeOK /\ RateInv /\ [Next]_vars => RateInv'
<1> SUFFICES ASSUME TypeOK, RateInv, [Next]_vars PROVE RateInv'
    OBVIOUS
<1>t. /\ starts[1] \in 0..FailureCooldown /\ starts[2] \in 0..FailureCooldown
      /\ starts[3] \in 0..FailureCooldown
      /\ failLeft \in Nat /\ forcedLeft \in Nat /\ cached.ttl \in Nat
      /\ FailureCooldown \in Nat /\ FailureCooldown > 0
      /\ FailureCooldown <= ForcedCooldown /\ FailureCooldown <= CacheTTL
      /\ ForcedCooldown \in Nat /\ CacheTTL \in Nat
  BY TimersAssumption DEF TypeOK
<1>u. ASSUME UNCHANGED <<cached, inFlight, forcedLeft, failLeft, starts>>
      PROVE  RateInv'
  BY <1>u DEF RateInv
<1>1. ASSUME NEW r \in Requests, NEW t \in Tokens, RejectClaims(r, t)
      PROVE  RateInv'
  BY <1>1, <1>u DEF RejectClaims, cacheVars
<1>2. ASSUME NEW r \in Requests, NEW t \in Tokens, Begin(r, t)
      PROVE  RateInv'
  <2>0. UNCHANGED <<cached, forcedLeft, failLeft>>
    BY <1>2 DEF Begin
  <2>1. CASE BeginFromCache(r, t)
    BY <2>0, <2>1, <1>u DEF BeginFromCache
  <2>2. CASE BeginMiss(r, t)
    <3>1. CASE JoinFetch(r)
      BY <2>0, <3>1, <1>u DEF JoinFetch
    <3>2. CASE StartFetch(r)
      <4>1. inFlight = None /\ failLeft = 0 /\ ~CacheHit
        BY <2>2, <3>2, <1>t DEF StartFetch, CoolingDown, BeginMiss
      <4>2. starts[1] = FailureCooldown
        BY <4>1, <1>t DEF RateInv, CacheHit
      <4> QED BY <3>2, <4>2, RateStart
    <3> QED BY <2>2, <3>1, <3>2 DEF BeginMiss, AwaitFetch
  <2>3. CASE BeginCoolingDown(r, t)
    BY <2>0, <2>3, <1>u DEF BeginCoolingDown
  <2> QED BY <1>2, <2>1, <2>2, <2>3 DEF Begin
<1>3. ASSUME NEW r \in Requests, Continue(r)
      PROVE  RateInv'
  <2>1. CASE VerifyToken(r)
    BY <2>1, <1>u DEF VerifyToken, cacheVars
  <2>2. CASE ForceRefresh(r)
    <3>1. /\ forcedLeft = 0 /\ forcedLeft' = ForcedCooldown
          /\ UNCHANGED <<cached, failLeft>>
      BY <2>2 DEF ForceRefresh, RefreshAllowed
    <3>2. CASE UNCHANGED <<inFlight, starts>>
      <4>1. forcedLeft' + starts[1] >= FailureCooldown
        BY <3>1, <1>t
      <4> QED BY <3>1, <3>2, <4>1 DEF RateInv
    <3>3. CASE StartFetch(r)
      <4>1. starts[2] = FailureCooldown
        BY <3>1, <1>t DEF RateInv
      <4> QED BY <3>1, <3>3, <4>1, RateStart
    <3> QED BY <2>2, <3>2, <3>3 DEF ForceRefresh, AwaitFetch, JoinFetch
  <2>3. CASE KeyNotFound(r)
    BY <2>3, <1>u DEF KeyNotFound, cacheVars
  <2>4. CASE FetchRejected(r)
    BY <2>4, <1>u DEF FetchRejected, cacheVars
  <2> QED BY <1>3, <2>1, <2>2, <2>3, <2>4 DEF Continue
<1>4. ASSUME NEW f \in Requests, FetchSucceeds(f)
      PROVE  RateInv'
  <2>1. /\ body[f] # {} /\ cached' = [keys |-> body[f], ttl |-> CacheTTL]
        /\ UNCHANGED <<forcedLeft, starts>>
    BY <1>4 DEF FetchSucceeds
  <2>2. cached'.keys # {} /\ cached'.ttl + starts'[1] >= FailureCooldown
    BY <2>1, <1>t
  <2> QED BY <2>1, <2>2 DEF RateInv
<1>5. ASSUME NEW f \in Requests, FetchFails(f)
      PROVE  RateInv'
  <2>1. failLeft' = FailureCooldown /\ UNCHANGED <<forcedLeft, starts>>
    BY <1>5 DEF FetchFails
  <2>2. failLeft' + starts'[1] >= FailureCooldown
    BY <2>1, <1>t
  <2> QED BY <2>1, <2>2 DEF RateInv
<1>6. ASSUME NEW f \in Requests, ProviderAnswers(f)
      PROVE  RateInv'
  BY <1>6, <1>u DEF ProviderAnswers, cacheVars
<1>7. ASSUME NEW k \in Kids, Publish(k) \/ Withdraw(k)
      PROVE  RateInv'
  BY <1>7, <1>u DEF Publish, Withdraw, cacheVars
<1>8. CASE Tick
  <2>1. /\ cached' = [cached EXCEPT !.ttl = Elapse(@)]
        /\ forcedLeft' = Elapse(forcedLeft) /\ failLeft' = Elapse(failLeft)
        /\ inFlight' = inFlight
    BY <1>8 DEF Tick
  <2>2. \A i \in 1..3 : starts'[i] = IF starts[i] = FailureCooldown
                                     THEN FailureCooldown ELSE starts[i] + 1
    BY <1>8 DEF Tick
  <2>3. cached'.keys = cached.keys /\ cached'.ttl = Elapse(cached.ttl)
    BY <2>1 DEF TypeOK
  <2>4. ASSUME NEW left \in Nat, left + starts[1] >= FailureCooldown
        PROVE  Elapse(left) + starts'[1] >= FailureCooldown
    BY <2>2, <2>4, <1>t DEF Elapse
  <2>5. /\ starts'[1] <= starts'[2] /\ starts'[2] <= starts'[3]
        /\ starts'[3] = FailureCooldown
        /\ starts'[2] < FailureCooldown => starts[2] < FailureCooldown
    BY <2>2, <1>t DEF RateInv
  <2>6. inFlight = None =>
          \/ failLeft' + starts'[1] >= FailureCooldown
          \/ cached'.keys # {} /\ cached'.ttl + starts'[1] >= FailureCooldown
    BY <2>1, <2>3, <2>4, <1>t DEF RateInv
  <2>7. starts'[2] < FailureCooldown =>
          forcedLeft' + starts'[1] >= FailureCooldown
    BY <2>1, <2>4, <2>5, <1>t DEF RateInv
  <2> QED BY <2>1, <2>5, <2>6, <2>7 DEF RateInv
<1>9. CASE UNCHANGED vars
  BY <1>9, <1>u DEF vars, cacheVars
<1> QED BY <1>1, <1>2, <1>3, <1>4, <1>5, <1>6, <1>7, <1>8, <1>9 DEF Next

-----------------------------------------------------------------------------
(* The inductive invariant holds of every reachable state.                 *)

IInv == /\ TypeOK /\ FlightInv /\ KeyInv /\ AgeInv /\ StampInv /\ CacheInv
        /\ OutageInv /\ TokenInv /\ RateInv

\* The invariant holds when the process starts.
LEMMA InvInit == Init => IInv
<1> SUFFICES ASSUME Init PROVE IInv
    OBVIOUS
<1>1. TypeOK
  BY TypeInit
<1>2. FlightInv /\ AgeInv /\ StampInv /\ CacheInv /\ OutageInv /\ TokenInv
  BY NoneAssumption
  DEF Init, FlightInv, AgeInv, StampInv, CacheInv, OutageInv, TokenInv, Waiting
<1>3. KeyInv
  BY DEF Init, KeyInv
<1>4. RateInv
  BY TimersAssumption DEF Init, RateInv
<1> QED BY <1>1, <1>2, <1>3, <1>4 DEF IInv

\* Every action preserves the invariant.
LEMMA InvStep == IInv /\ [Next]_vars => IInv'
  BY TypeStep, FlightStep, KeyStep, AgeStep, StampStep, CacheStep, OutageStep,
     TokenStep, RateStep
  DEF IInv

\* The conjunction of all the parts holds in every reachable state.
THEOREM Invariance == Spec => []IInv
  BY InvInit, InvStep, PTL DEF Spec

-----------------------------------------------------------------------------
(* What the verifier may answer, and in which state.                       *)

\* Each answer of authenticateOidcRequest, with the state it was given in.
LEMMA AnswerCases ==
  ASSUME IInv, Next, response'.kind \in AnswerKinds
  PROVE  /\ UNCHANGED <<cached, failLeft, published, withdrawn, lastFetch>>
         /\ forcedLeft' \in {forcedLeft, ForcedCooldown}
         /\ \/ \E t \in Tokens :                             \* RejectClaims
                 ~t.claimsOk /\ response' = Answer("invalid", t)
            \/ \E t \in Tokens :                             \* Begin
                 /\ ~CacheHit /\ failLeft > 0
                 /\ response' = Answer("unavailable", t)
            \/ \E r \in Requests :                           \* VerifyToken
                 /\ pc[r] \in {"haveFirst", "haveForced"}
                 /\ token[r].kid \in keys[r]
                 /\ response' = Answer(IF token[r].genuine THEN "accepted"
                                       ELSE "invalid", token[r])
            \/ \E r \in Requests :                           \* ForceRefresh
                 /\ pc[r] = "haveFirst" /\ token[r].kid \notin keys[r]
                 /\ failLeft > 0
                 /\ response' = Answer("unavailable", token[r])
            \/ \E r \in Requests :                           \* KeyNotFound
                 /\ \/ pc[r] = "haveFirst" /\ forcedLeft > 0
                    \/ pc[r] = "haveForced"
                 /\ forcedLeft' = forcedLeft
                 /\ token[r].kid \notin keys[r]
                 /\ response' = Answer(IF failLeft > 0 THEN "unavailable"
                                       ELSE "invalid", token[r])
            \/ \E r \in Requests :                           \* FetchRejected
                 /\ pc[r] = "rejected"
                 /\ response' = Answer("unavailable", token[r])
<1>0. response' # NoResponse
  BY DEF NoResponse, AnswerKinds
<1>1. ASSUME NEW r \in Requests, NEW t \in Tokens, RejectClaims(r, t)
      PROVE  /\ UNCHANGED <<cached, failLeft, forcedLeft, published, withdrawn,
                            lastFetch>>
             /\ ~t.claimsOk /\ response' = Answer("invalid", t)
  BY <1>1 DEF RejectClaims, Reply, cacheVars, worldVars
<1>2. ASSUME NEW r \in Requests, NEW t \in Tokens, Begin(r, t)
      PROVE  /\ UNCHANGED <<cached, failLeft, forcedLeft, published, withdrawn,
                            lastFetch>>
             /\ ~CacheHit /\ failLeft > 0
             /\ response' = Answer("unavailable", t)
  <2>1. BeginCoolingDown(r, t)
    BY <1>0, <1>2 DEF Begin, BeginFromCache, BeginMiss, AwaitFetch
  <2> QED BY <1>2, <2>1 DEF Begin, BeginCoolingDown, FetchRefused, CoolingDown,
                            Reply, worldVars
<1>3. ASSUME NEW r \in Requests, VerifyToken(r)
      PROVE  /\ UNCHANGED <<cached, failLeft, forcedLeft, published, withdrawn,
                            lastFetch>>
             /\ pc[r] \in {"haveFirst", "haveForced"}
             /\ token[r].kid \in keys[r]
             /\ response' = Answer(IF token[r].genuine THEN "accepted"
                                   ELSE "invalid", token[r])
  BY <1>3 DEF VerifyToken, Reply, cacheVars, worldVars
<1>4. ASSUME NEW r \in Requests, ForceRefresh(r)
      PROVE  /\ UNCHANGED <<cached, failLeft, published, withdrawn, lastFetch>>
             /\ forcedLeft' = ForcedCooldown
             /\ pc[r] = "haveFirst" /\ token[r].kid \notin keys[r]
             /\ failLeft > 0
             /\ response' = Answer("unavailable", token[r])
  BY <1>0, <1>4 DEF ForceRefresh, AwaitFetch, FetchRefused, CoolingDown, Reply,
                    worldVars
<1>5. ASSUME NEW r \in Requests, KeyNotFound(r)
      PROVE  /\ UNCHANGED <<cached, failLeft, forcedLeft, published, withdrawn,
                            lastFetch>>
             /\ \/ pc[r] = "haveFirst" /\ forcedLeft > 0
                \/ pc[r] = "haveForced"
             /\ token[r].kid \notin keys[r]
             /\ response' = Answer(IF failLeft > 0 THEN "unavailable"
                                   ELSE "invalid", token[r])
  <2>1. ~RefreshAllowed => forcedLeft > 0
    BY TimersAssumption DEF RefreshAllowed, IInv, TypeOK
  <2> QED BY <1>5, <2>1 DEF KeyNotFound, CoolingDown, Reply, cacheVars, worldVars
<1>6. ASSUME NEW r \in Requests, FetchRejected(r)
      PROVE  /\ UNCHANGED <<cached, failLeft, forcedLeft, published, withdrawn,
                            lastFetch>>
             /\ pc[r] = "rejected"
             /\ response' = Answer("unavailable", token[r])
  BY <1>6 DEF FetchRejected, Reply, cacheVars, worldVars
<1>7. \A f \in Requests :
        ~FetchSucceeds(f) /\ ~FetchFails(f) /\ ~ProviderAnswers(f)
  BY <1>0 DEF FetchSucceeds, FetchFails, Settle, ProviderAnswers
<1>8. (\A k \in Kids : ~Publish(k) /\ ~Withdraw(k)) /\ ~Tick
  BY <1>0 DEF Publish, Withdraw, Tick
<1> QED BY <1>1, <1>2, <1>3, <1>4, <1>5, <1>6, <1>7, <1>8 DEF Next, Continue

-----------------------------------------------------------------------------
(* The safety properties of JwksCache.                                     *)

\* The process never has two key fetches outstanding.
THEOREM SingleFlightCorrect == Spec => []SingleFlight
<1>1. IInv => SingleFlight
  BY DEF IInv, FlightInv, SingleFlight
<1> QED BY <1>1, Invariance, PTL

\* At most two key fetches start within any FailureCooldown, however many
\* requests arrive, whatever key ids they name and however the provider
\* behaves.
THEOREM OutboundRateCorrect == Spec => []OutboundRateBounded
<1>1. IInv => OutboundRateBounded
  BY DEF IInv, RateInv, OutboundRateBounded
<1> QED BY <1>1, Invariance, PTL

\* The time claims of a request being answered were checked at most two
\* fetch timeouts ago.
THEOREM ClaimsCheckAgeCorrect == Spec => []ClaimsCheckAgeBounded
<1>1. IInv => ClaimsCheckAgeBounded
  <2> SUFFICES ASSUME IInv, NEW r \in Requests, pc[r] # "idle"
               PROVE  age[r] <= 2 * FetchTimeout
    BY DEF ClaimsCheckAgeBounded
  <2>1. pc[r] \in Waiting => fetchAge[awaits[r]] \in 0..FetchTimeout
    BY DEF IInv, TypeOK, FlightInv
  <2>2. pc[r] \in Waiting \cup Queued /\ age[r] \in Nat
    BY DEF IInv, TypeOK
  <2> QED BY <2>1, <2>2, TimersAssumption DEF IInv, AgeInv, Waiting, Queued
<1> QED BY <1>1, Invariance, PTL

\* A token is accepted only if it is genuine, passed every check, and its key
\* was in the provider's document less than CacheTTL + FetchTimeout ago.
THEOREM TrustCorrect == Spec => []TrustOnlyRecentKeys
<1>1. Init => TrustOnlyRecentKeys
  BY DEF Init, NoResponse, TrustOnlyRecentKeys
<1>2. ASSUME IInv, TrustOnlyRecentKeys, [Next]_vars
      PROVE  TrustOnlyRecentKeys'
  <2>1. CASE UNCHANGED vars
    BY <1>2, <2>1 DEF vars, worldVars, TrustOnlyRecentKeys
  <2>2. CASE Next /\ response'.kind = "accepted"
    <3>1. PICK r \in Requests :
            /\ pc[r] \in {"haveFirst", "haveForced"}
            /\ token[r].kid \in keys[r]
            /\ token[r].genuine
            /\ response' = Answer("accepted", token[r])
            /\ UNCHANGED <<published, withdrawn>>
      BY <1>2, <2>2, AnswerCases DEF AnswerKinds, Answer
    <3>2. token[r].claimsOk /\ withdrawn[token[r].kid] < Staleness
      BY <1>2, <3>1 DEF IInv, TokenInv, KeyInv
    <3> QED BY <3>1, <3>2 DEF TrustOnlyRecentKeys, Answer, Staleness
  <2>3. CASE response'.kind # "accepted"
    BY <2>3 DEF TrustOnlyRecentKeys
  <2> QED BY <1>2, <2>1, <2>2, <2>3
<1> QED BY <1>1, <1>2, Invariance, PTL DEF Spec

\* No genuine token whose key is in the live cache is turned away, whatever
\* fetches are outstanding or have failed.
THEOREM CachedKeyCorrect == Spec => []CachedKeyHonoured
<1>1. Init => CachedKeyHonoured
  BY DEF Init, NoResponse, CachedKeyHonoured, AnswerKinds
<1>2. ASSUME IInv, CachedKeyHonoured, [Next]_vars
      PROVE  CachedKeyHonoured'
  <2>1. CASE UNCHANGED vars
    BY <1>2, <2>1 DEF vars, cacheVars, CachedKeyHonoured
  <2>2. CASE Next
    <3> SUFFICES ASSUME response'.kind \in AnswerKinds,
                        response'.token.genuine, response'.token.claimsOk,
                        cached'.ttl > 0, response'.token.kid \in cached'.keys
                 PROVE  response'.kind = "accepted"
      BY DEF CachedKeyHonoured
    <3>1. CacheHit /\ response'.token.kid \in cached.keys
      BY <1>2, <2>2, AnswerCases DEF CacheHit
    <3>2. \A r \in Requests :
            /\ pc[r] \in {"haveFirst", "haveForced"} => keys[r] = cached.keys
            /\ pc[r] = "rejected" => token[r].kid \notin cached.keys
      BY <1>2, <3>1 DEF IInv, CacheInv
    <3> QED BY <1>2, <2>2, <3>1, <3>2, AnswerCases DEF Answer
  <2> QED BY <1>2, <2>1, <2>2
<1> QED BY <1>1, <1>2, Invariance, PTL DEF Spec

\* 503 is answered only while the last settled key fetch is a failure.
THEOREM UnavailableCorrect == Spec => []UnavailableMeansOutage
<1>1. Init => UnavailableMeansOutage
  BY DEF Init, NoResponse, UnavailableMeansOutage
<1>2. ASSUME IInv, UnavailableMeansOutage, [Next]_vars
      PROVE  UnavailableMeansOutage'
  <2>1. CASE UNCHANGED vars
    BY <1>2, <2>1 DEF vars, UnavailableMeansOutage
  <2>2. CASE Next /\ response'.kind = "unavailable"
    <3>1. lastFetch' = lastFetch
      BY <1>2, <2>2, AnswerCases DEF AnswerKinds
    <3>2. failLeft > 0 \/ \E r \in Requests : pc[r] = "rejected"
      BY <1>2, <2>2, AnswerCases DEF AnswerKinds, Answer
    <3> QED BY <1>2, <3>1, <3>2 DEF IInv, OutageInv, UnavailableMeansOutage
  <2>3. CASE response'.kind # "unavailable"
    BY <2>3 DEF UnavailableMeansOutage
  <2> QED BY <1>2, <2>1, <2>2, <2>3
<1> QED BY <1>1, <1>2, Invariance, PTL DEF Spec

\* A genuine token is refused as invalid only if a forced refresh was
\* attempted less than ForcedCooldown ago.
THEOREM RotatedKeyCorrect == Spec => []RotatedKeyRefusedOnlyInCooldown
<1>1. Init => RotatedKeyRefusedOnlyInCooldown
  BY DEF Init, NoResponse, RotatedKeyRefusedOnlyInCooldown
<1>2. ASSUME IInv, RotatedKeyRefusedOnlyInCooldown, [Next]_vars
      PROVE  RotatedKeyRefusedOnlyInCooldown'
  <2>1. CASE UNCHANGED vars
    BY <1>2, <2>1 DEF vars, cacheVars, RotatedKeyRefusedOnlyInCooldown
  <2>2. CASE Next
    <3> SUFFICES ASSUME response'.kind = "invalid",
                        response'.token.genuine, response'.token.claimsOk
                 PROVE  forcedLeft' > 0
      BY DEF RotatedKeyRefusedOnlyInCooldown
    <3>1. \E r \in Requests : /\ \/ pc[r] = "haveFirst" /\ forcedLeft > 0
                                 \/ pc[r] = "haveForced"
                              /\ forcedLeft' = forcedLeft
      BY <1>2, <2>2, AnswerCases DEF AnswerKinds, Answer
    <3> QED BY <1>2, <3>1 DEF IInv, StampInv
  <2> QED BY <1>2, <2>1, <2>2
<1> QED BY <1>1, <1>2, Invariance, PTL DEF Spec

=============================================================================
