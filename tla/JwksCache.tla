------------------------------ MODULE JwksCache ------------------------------
(***************************************************************************)
(* The signing-key cache of the OIDC verifier (src/oidc-auth.ts): getJwks  *)
(* and the part of authenticateOidcRequest that waits for it.              *)
(*                                                                         *)
(* The server is one Node event loop.  A request runs without interruption *)
(* until it awaits; when the promise it awaits settles, its continuation   *)
(* is queued as a microtask, and the whole microtask queue is drained      *)
(* before the loop takes the next event.  Requests whose pc is in Queued   *)
(* are in that queue: no event (a new request, a settled fetch, a tick of  *)
(* the clock) happens before the queue is empty.                           *)
(*                                                                         *)
(* The code compares its deadlines only with Date.now(), so each one is    *)
(* kept as the time left until it passes.  One tick is the granularity of  *)
(* the clock; a drain of the microtask queue takes less than a tick.       *)
(***************************************************************************)
EXTENDS Integers, FiniteSets

CONSTANTS
  Requests,         \* slots for HTTP requests being authenticated
  Kids,             \* key identifiers
  Tokens,           \* the bearer tokens that clients present
  CacheTTL,         \* JWKS_CACHE_MS, in ticks
  ForcedCooldown,   \* JWKS_FORCED_REFRESH_COOLDOWN_MS
  FailureCooldown,  \* JWKS_FAILURE_COOLDOWN_MS
  FetchTimeout,     \* AbortSignal.timeout of the key fetch
  None              \* no request

\* genuine: the signature verifies under the key named by kid, and the claims
\* read after the signature check are acceptable.  claimsOk: the checks made
\* before the key lookup pass.
TokenType == [kid : Kids, genuine : BOOLEAN, claimsOk : BOOLEAN]

ASSUME TokensAssumption == Tokens \subseteq TokenType
ASSUME NoneAssumption == None \notin Requests
ASSUME TimersAssumption ==
  /\ CacheTTL \in Nat /\ ForcedCooldown \in Nat
  /\ FailureCooldown \in Nat /\ FetchTimeout \in Nat
  /\ 0 < FetchTimeout /\ FetchTimeout < ForcedCooldown
  /\ 0 < FailureCooldown /\ FailureCooldown <= ForcedCooldown
  /\ FailureCooldown <= CacheTTL

VARIABLES
  cached,      \* cachedJwks: the key ids and the time left before expiresAt
  inFlight,    \* jwksFetchInFlight, named by the request that created it
  forcedLeft,  \* time left until another forced refresh is allowed
  failLeft,    \* time left until jwksFetchFailureUntil
  pc,          \* where each request stands in authenticateOidcRequest
  token,       \* the token each request carries
  awaits,      \* the fetch whose promise each waiting request awaits
  keys,        \* the key set a resumed request was handed
  age,         \* ticks since a request's time claims were checked (saturating)
  outbound,    \* the HTTP exchange started by each request, if any
  fetchAge,    \* its age (saturating)
  body,        \* the key ids of the document the provider answered with
  response,    \* the answer this step gave to a request, if it gave one
  published,   \* external: the keys in the provider's document
  withdrawn,   \* external: ticks since a key left the document (saturating)
  lastFetch,   \* history: how the last settled fetch ended
  starts       \* history: ticks since the last three fetches started (saturating)

cacheVars   == <<cached, inFlight, forcedLeft, failLeft>>
requestVars == <<pc, token, awaits, keys, age>>
fetchVars   == <<outbound, fetchAge, body>>
worldVars   == <<published, withdrawn>>
vars == <<cacheVars, requestVars, fetchVars, response, worldVars, lastFetch,
          starts>>

Waiting == {"first", "forced"}
Queued  == {"haveFirst", "haveForced", "rejected"}
Staleness == CacheTTL + FetchTimeout
OverAge == 2 * FetchTimeout + 1

NoResponse == [kind |-> "none"]
Answer(kind, t) == [kind |-> kind, token |-> t]
AnswerKinds == {"accepted", "invalid", "unavailable"}

TypeOK ==
  /\ cached \in [keys : SUBSET Kids, ttl : 0..CacheTTL]
  /\ inFlight \in Requests \cup {None}
  /\ forcedLeft \in 0..ForcedCooldown
  /\ failLeft \in 0..FailureCooldown
  /\ pc \in [Requests -> {"idle"} \cup Waiting \cup Queued]
  /\ token \in [Requests -> Tokens \cup {None}]
  /\ \A r \in Requests : pc[r] # "idle" => token[r] \in Tokens
  /\ awaits \in [Requests -> Requests \cup {None}]
  /\ keys \in [Requests -> SUBSET Kids]
  /\ age \in [Requests -> Nat]
  /\ outbound \in [Requests -> {"none", "sent", "answered"}]
  /\ fetchAge \in [Requests -> 0..FetchTimeout]
  /\ body \in [Requests -> SUBSET Kids]
  /\ response \in {NoResponse} \cup [kind : AnswerKinds, token : Tokens]
  /\ published \in SUBSET Kids
  /\ withdrawn \in [Kids -> 0..Staleness]
  /\ lastFetch \in {"none", "ok", "failed"}
  /\ starts \in [1..3 -> 0..FailureCooldown]

Init ==
  /\ cached = [keys |-> {}, ttl |-> 0]
  /\ inFlight = None
  /\ forcedLeft = 0
  /\ failLeft = 0
  /\ pc = [r \in Requests |-> "idle"]
  /\ token = [r \in Requests |-> None]
  /\ awaits = [r \in Requests |-> None]
  /\ keys = [r \in Requests |-> {}]
  /\ age = [r \in Requests |-> 0]
  /\ outbound = [r \in Requests |-> "none"]
  /\ fetchAge = [r \in Requests |-> 0]
  /\ body = [r \in Requests |-> {}]
  /\ response = NoResponse
  /\ published \in SUBSET Kids
  /\ withdrawn = [k \in Kids |-> IF k \in published THEN 0 ELSE Staleness]
  /\ lastFetch = "none"
  /\ starts = [i \in 1..3 |-> FailureCooldown]

-----------------------------------------------------------------------------
(* Helpers of the actions.                                                 *)

Drained == \A r \in Requests : pc[r] \notin Queued

\* Mutant: the expiry of the cached keys is not looked at.
CacheNeverExpires == cached.keys # {}

\* Mutant: a fetch in flight is joined even when the cache would do.
JoinBeforeCache == inFlight = None /\ cached.keys # {} /\ cached.ttl > 0

CacheHit == cached.keys # {} /\ cached.ttl > 0

\* Mutants: no cooldown after a failed fetch; the cooldown of forced refreshes
\* taken for one after a failure.
NoFailureCooldown == FALSE
CoolingDownFromRefresh == forcedLeft > 0

CoolingDown == failLeft > 0

\* Mutant: unknown key ids never trigger a refresh.
NeverRefreshed == FALSE

RefreshAllowed == forcedLeft = 0

\* The request is over: its answer is written and its slot is free again.
Reply(r, t, kind) ==
  /\ response' = Answer(kind, t)
  /\ pc' = [pc EXCEPT ![r] = "idle"]
  /\ token' = [token EXCEPT ![r] = None]
  /\ awaits' = [awaits EXCEPT ![r] = None]
  /\ keys' = [keys EXCEPT ![r] = {}]
  /\ age' = [age EXCEPT ![r] = 0]

\* getJwks past the cache: join the fetch in flight, or start one unless a
\* failure was seen less than FailureCooldown ago.
JoinFetch(r) ==
  /\ inFlight # None
  /\ awaits' = [awaits EXCEPT ![r] = inFlight]
  /\ UNCHANGED <<inFlight, fetchVars, starts>>

StartedNow == [i \in 1..3 |-> IF i = 1 THEN 0 ELSE starts[i - 1]]

\* Mutant: a request that finds no keys fetches them for itself.
StartOwnFetch(r) ==
  /\ ~CoolingDown
  /\ inFlight' = r
  /\ awaits' = [awaits EXCEPT ![r] = r]
  /\ outbound' = [outbound EXCEPT ![r] = "sent"]
  /\ fetchAge' = [fetchAge EXCEPT ![r] = 0]
  /\ starts' = StartedNow
  /\ UNCHANGED body

StartFetch(r) ==
  /\ inFlight = None
  /\ ~CoolingDown
  /\ inFlight' = r
  /\ awaits' = [awaits EXCEPT ![r] = r]
  /\ outbound' = [outbound EXCEPT ![r] = "sent"]
  /\ fetchAge' = [fetchAge EXCEPT ![r] = 0]
  /\ starts' = StartedNow
  /\ UNCHANGED body

AwaitFetch(r, where) ==
  /\ JoinFetch(r) \/ StartFetch(r)
  /\ pc' = [pc EXCEPT ![r] = where]
  /\ keys' = [keys EXCEPT ![r] = {}]
  /\ response' = NoResponse
  /\ UNCHANGED age

FetchRefused == inFlight = None /\ CoolingDown

-----------------------------------------------------------------------------
(* authenticateOidcRequest, from one await to the next.                    *)

\* A token that fails the checks made before any key is looked up.
RejectClaims(r, t) ==
  /\ Drained
  /\ pc[r] = "idle"
  /\ ~t.claimsOk
  /\ Reply(r, t, "invalid")
  /\ UNCHANGED <<cacheVars, fetchVars, worldVars, lastFetch, starts>>

\* The first call of getJwks: served from the cache (the continuation is
\* queued), waiting for a fetch, or refused within the failure cooldown.
BeginFromCache(r, t) ==
  /\ CacheHit
  /\ pc' = [pc EXCEPT ![r] = "haveFirst"]
  /\ token' = [token EXCEPT ![r] = t]
  /\ keys' = [keys EXCEPT ![r] = cached.keys]
  /\ response' = NoResponse
  /\ UNCHANGED <<inFlight, awaits, age, fetchVars, starts>>

BeginMiss(r, t) ==
  /\ ~CacheHit
  /\ token' = [token EXCEPT ![r] = t]
  /\ AwaitFetch(r, "first")

BeginCoolingDown(r, t) ==
  /\ ~CacheHit
  /\ FetchRefused
  /\ Reply(r, t, "unavailable")
  /\ UNCHANGED <<inFlight, fetchVars, starts>>

Begin(r, t) ==
  /\ Drained
  /\ pc[r] = "idle"
  /\ t.claimsOk
  /\ BeginFromCache(r, t) \/ BeginMiss(r, t) \/ BeginCoolingDown(r, t)
  /\ UNCHANGED <<cached, forcedLeft, failLeft, worldVars, lastFetch>>

\* The key is there: the signature and the remaining claims decide.
VerifyToken(r) ==
  /\ pc[r] \in {"haveFirst", "haveForced"}
  /\ token[r].kid \in keys[r]
  /\ Reply(r, token[r], IF token[r].genuine THEN "accepted" ELSE "invalid")
  /\ UNCHANGED <<cacheVars, fetchVars, worldVars, lastFetch, starts>>

\* The key is missing and a forced refresh is allowed.  The stamp is taken
\* before the refresh, whether or not the refresh reaches the provider.
ForceRefresh(r) ==
  /\ pc[r] = "haveFirst"
  /\ token[r].kid \notin keys[r]
  /\ RefreshAllowed
  /\ forcedLeft' = ForcedCooldown
  /\ \/ AwaitFetch(r, "forced") /\ UNCHANGED token
     \/ /\ FetchRefused
        /\ Reply(r, token[r], "unavailable")
        /\ UNCHANGED <<inFlight, fetchVars, starts>>
  /\ UNCHANGED <<cached, failLeft, worldVars, lastFetch>>

\* The key is missing and no (further) refresh is allowed.
KeyNotFound(r) ==
  /\ \/ pc[r] = "haveFirst" /\ ~RefreshAllowed
     \/ pc[r] = "haveForced"
  /\ token[r].kid \notin keys[r]
  /\ Reply(r, token[r], IF CoolingDown THEN "unavailable" ELSE "invalid")
  /\ UNCHANGED <<cacheVars, fetchVars, worldVars, lastFetch, starts>>

\* The awaited fetch failed: the error passes through to the HTTP layer.
FetchRejected(r) ==
  /\ pc[r] = "rejected"
  /\ Reply(r, token[r], "unavailable")
  /\ UNCHANGED <<cacheVars, fetchVars, worldVars, lastFetch, starts>>

Continue(r) ==
  VerifyToken(r) \/ ForceRefresh(r) \/ KeyNotFound(r) \/ FetchRejected(r)

-----------------------------------------------------------------------------
(* The fetch created by request f.                                         *)

\* Waiters resume with the document; where they resume depends on which of
\* the two calls of getJwks they are in.
Resumed(where) == IF where = "first" THEN "haveFirst" ELSE "haveForced"

Waiter(f, r) == pc[r] \in Waiting /\ awaits[r] = f

Settle(f) ==
  /\ inFlight' = None
  /\ outbound' = [outbound EXCEPT ![f] = "none"]
  /\ fetchAge' = [fetchAge EXCEPT ![f] = 0]
  /\ body' = [body EXCEPT ![f] = {}]
  /\ awaits' = [r \in Requests |-> IF Waiter(f, r) THEN None ELSE awaits[r]]
  /\ response' = NoResponse

FetchSucceeds(f) ==
  /\ Drained
  /\ outbound[f] = "answered"
  /\ body[f] # {}
  /\ cached' = [keys |-> body[f], ttl |-> CacheTTL]
  /\ failLeft' = 0
  /\ lastFetch' = "ok"
  /\ Settle(f)
  /\ pc' = [r \in Requests |-> IF Waiter(f, r) THEN Resumed(pc[r]) ELSE pc[r]]
  /\ keys' = [r \in Requests |-> IF Waiter(f, r) THEN body[f] ELSE keys[r]]
  /\ UNCHANGED <<forcedLeft, token, age, worldVars, starts>>

\* A network error, the timeout, an HTTP error status, invalid JSON or an
\* empty key list.
FetchFails(f) ==
  /\ Drained
  /\ outbound[f] # "none"
  /\ failLeft' = FailureCooldown
  /\ lastFetch' = "failed"
  /\ Settle(f)
  /\ pc' = [r \in Requests |-> IF Waiter(f, r) THEN "rejected" ELSE pc[r]]
  /\ UNCHANGED <<cached, forcedLeft, token, keys, age, worldVars, starts>>

-----------------------------------------------------------------------------
(* The provider and the clock.                                             *)

\* External: the provider answers with the document of this instant.
ProviderAnswers(f) ==
  /\ outbound[f] = "sent"
  /\ outbound' = [outbound EXCEPT ![f] = "answered"]
  /\ body' = [body EXCEPT ![f] = published]
  /\ response' = NoResponse
  /\ UNCHANGED <<cacheVars, requestVars, fetchAge, worldVars, lastFetch,
                 starts>>

\* External: the operator of the provider adds or removes a key.
Publish(k) ==
  /\ k \notin published
  /\ published' = published \cup {k}
  /\ withdrawn' = [withdrawn EXCEPT ![k] = 0]
  /\ response' = NoResponse
  /\ UNCHANGED <<cacheVars, requestVars, fetchVars, lastFetch, starts>>

Withdraw(k) ==
  /\ k \in published
  /\ published' = published \ {k}
  /\ response' = NoResponse
  /\ UNCHANGED <<cacheVars, requestVars, fetchVars, withdrawn, lastFetch,
                 starts>>

Elapse(left) == IF left > 0 THEN left - 1 ELSE 0

\* Mutant: the fetch has no abort signal.
NoAbortSignal == TRUE

\* The abort signal settles a fetch that is FetchTimeout old before the
\* clock moves on.
NoFetchOverdue ==
  \A f \in Requests : outbound[f] # "none" => fetchAge[f] < FetchTimeout

Tick ==
  /\ Drained
  /\ NoFetchOverdue
  /\ cached' = [cached EXCEPT !.ttl = Elapse(@)]
  /\ forcedLeft' = Elapse(forcedLeft)
  /\ failLeft' = Elapse(failLeft)
  /\ age' = [r \in Requests |->
               IF pc[r] = "idle" THEN 0
               ELSE IF age[r] = OverAge THEN OverAge ELSE age[r] + 1]
  /\ fetchAge' = [f \in Requests |->
                    IF outbound[f] = "none" THEN 0
                    ELSE IF fetchAge[f] > FetchTimeout THEN fetchAge[f]
                    ELSE fetchAge[f] + 1]
  /\ withdrawn' = [k \in Kids |->
                     IF k \in published \/ withdrawn[k] = Staleness
                     THEN withdrawn[k] ELSE withdrawn[k] + 1]
  /\ starts' = [i \in 1..3 |->
                  IF starts[i] = FailureCooldown THEN FailureCooldown
                  ELSE starts[i] + 1]
  /\ response' = NoResponse
  /\ UNCHANGED <<inFlight, pc, token, awaits, keys, outbound, body, published,
                 lastFetch>>

Next ==
  \/ \E r \in Requests, t \in Tokens : RejectClaims(r, t) \/ Begin(r, t)
  \/ \E r \in Requests : Continue(r)
  \/ \E f \in Requests :
       FetchSucceeds(f) \/ FetchFails(f) \/ ProviderAnswers(f)
  \/ \E k \in Kids : Publish(k) \/ Withdraw(k)
  \/ Tick

Spec == Init /\ [][Next]_vars

(***************************************************************************)
(* The event loop runs every queued continuation, time passes, and the     *)
(* abort signal settles a fetch that reached its timeout.  The last three  *)
(* are assumptions on the environment: clients go on presenting genuine    *)
(* tokens, and the provider does not stay unreachable for ever.            *)
(***************************************************************************)
Fairness ==
  /\ SF_vars(Tick)
  /\ WF_vars(\E r \in Requests : Continue(r))
  /\ SF_vars(\E f \in Requests : FetchFails(f) /\ fetchAge[f] = FetchTimeout)
  /\ SF_vars(\E r \in Requests, t \in Tokens : t.genuine /\ Begin(r, t))
  /\ SF_vars(\E f \in Requests : ProviderAnswers(f))
  /\ SF_vars(\E f \in Requests : FetchSucceeds(f))

FairSpec == Spec /\ Fairness

-----------------------------------------------------------------------------
(* What must hold.                                                         *)

\* Concurrent misses and forced refreshes are coalesced: the process never
\* has two key fetches outstanding (getJwks, jwksFetchInFlight).
SingleFlight ==
  \A f, g \in Requests : outbound[f] # "none" /\ outbound[g] # "none" => f = g

\* However many requests arrive, whatever key ids they name and however the
\* provider behaves, at most two key fetches (one for the cache, one forced)
\* start within any FailureCooldown (the cooldowns of getJwks and of the
\* forced refresh together).
OutboundRateBounded == starts[3] = FailureCooldown

\* A token is accepted only if it is genuine and its key was in the
\* provider's document less than CacheTTL + FetchTimeout ago: withdrawing a
\* key stops its tokens, across the cache, a slow answer and the requests
\* that joined the fetch.
TrustOnlyRecentKeys ==
  response.kind = "accepted" =>
    /\ response.token.genuine /\ response.token.claimsOk
    /\ \/ response.token.kid \in published
       \/ withdrawn[response.token.kid] < Staleness

\* The time claims are checked before the key lookup is awaited; the check
\* is at most two fetch timeouts old when the request is answered, the first
\* lookup and a forced one (authenticateOidcRequest reads the clock once).
ClaimsCheckAgeBounded ==
  \A r \in Requests : pc[r] # "idle" => age[r] <= 2 * FetchTimeout

\* While a fetch is outstanding or has failed, the unexpired keys already in
\* the cache go on being honoured: nothing the other requests do (unknown
\* key ids, a failing refresh) turns a genuine token of a cached key away.
CachedKeyHonoured ==
  (/\ response.kind \in AnswerKinds
   /\ response.token.genuine /\ response.token.claimsOk
   /\ cached.ttl > 0
   /\ response.token.kid \in cached.keys)
  => response.kind = "accepted"

\* 503 is answered only while the last settled key fetch is a failure: a
\* healthy provider never makes a bad token look like an outage.
UnavailableMeansOutage ==
  response.kind = "unavailable" => lastFetch = "failed"

\* A genuine token whose key is in the provider's document is refused as
\* invalid only if a forced refresh was attempted for an unknown key less
\* than ForcedCooldown ago: a rotated key is never refused unseen.
RotatedKeyRefusedOnlyInCooldown ==
  (/\ response.kind = "invalid"
   /\ response.token.genuine /\ response.token.claimsOk)
  => forcedLeft > 0

\* A key that the provider publishes for good is eventually in the cache to
\* stay: neither spent forced refreshes nor failures keep it out for ever.
PublishedKeyLearned ==
  \A k \in Kids :
    <>[](k \in published) => <>[](k \in cached.keys)

\* Every request that waits for keys is answered, whoever created the fetch
\* it waits for.
RequestsAnswered ==
  \A r \in Requests : pc[r] # "idle" ~> pc[r] = "idle"

=============================================================================
