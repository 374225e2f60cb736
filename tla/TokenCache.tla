----------------------------- MODULE TokenCache ------------------------------
(***************************************************************************)
(* The access token of the Blackboard client (src/bb-client.ts): every     *)
(* upstream request first asks getAccessToken, which answers from the      *)
(* cache or fetches a token; nothing coalesces concurrent fetches, so      *)
(* their answers may come in any order, each overwriting the cache.        *)
(*                                                                         *)
(* The code reads the clock once, before the fetch, and counts a token's   *)
(* life from there; Blackboard counts it from the moment of the grant.     *)
(* Both are kept here as the time left, counting down to 0.                *)
(***************************************************************************)
EXTENDS Integers

CONSTANTS
  Requests,        \* slots for upstream requests, each used again and again
  Lifetimes,       \* the values of expires_in Blackboard may answer
  LongestLife,     \* a bound on them
  Margin,          \* the 30 s a cached token must have left, in ticks
  TokenTimeout,    \* the time-out of the token request, 10 s
  RequestTimeout,  \* the time-out of the client's own requests, 15 s
  Absent           \* an absent value

ASSUME LifetimesAssumption ==
  LongestLife \in Nat /\ Lifetimes \subseteq 0..LongestLife
ASSUME TimesAssumption ==
  /\ Margin \in Nat /\ TokenTimeout \in Nat /\ RequestTimeout \in Nat
  /\ RequestTimeout < Margin
\* A token as Blackboard knows it, and the cache's entry for it.
Token == [left : 0..LongestLife, revoked : BOOLEAN]
CachedToken == [token : Token, left : 0..LongestLife]

ASSUME AbsentAssumption ==
  Absent \notin Int /\ Absent \notin Token /\ Absent \notin CachedToken

\* A time beyond which no property looks.
Horizon == LongestLife + TokenTimeout + RequestTimeout + 1

VARIABLES
  tokenCache,  \* tokenCache: the token and the time until its expiresAt
  pc,          \* where each request stands
  waited,      \* the time since getAccessToken read the clock
  expiresIn,   \* the life granted with the fetched token, Absent if cached
  token,       \* the token a request was granted or sent with
  sentFor,     \* the time since the request left with its token
  revokedAgo   \* history: the time since tokens were revoked, Absent before

vars == <<tokenCache, pc, waited, expiresIn, token, sentFor, revokedAgo>>

TypeOK ==
  /\ tokenCache \in CachedToken \cup {Absent}
  /\ pc \in [Requests -> {"idle", "fetching", "granted", "sent"}]
  /\ waited \in [Requests -> 0..TokenTimeout]
  /\ expiresIn \in [Requests -> Lifetimes \cup {Absent}]
  /\ token \in [Requests -> Token \cup {Absent}]
  /\ sentFor \in [Requests -> 0..RequestTimeout]
  /\ revokedAgo \in 0..Horizon \cup {Absent}
  /\ \A r \in Requests :
       /\ pc[r] \in {"granted", "sent"} => token[r] \in Token
       /\ pc[r] = "granted" => expiresIn[r] \in Lifetimes

Init ==
  /\ tokenCache = Absent
  /\ pc = [r \in Requests |-> "idle"]
  /\ waited = [r \in Requests |-> 0]
  /\ expiresIn = [r \in Requests |-> Absent]
  /\ token = [r \in Requests |-> Absent]
  /\ sentFor = [r \in Requests |-> 0]
  /\ revokedAgo = Absent

-----------------------------------------------------------------------------
(* getAccessToken and the request interceptor.                             *)

\* Mutant: a token counts until its very expiry.
NotExpired(cache) == cache # Absent /\ cache.left > 0

Usable(cache) == cache # Absent /\ cache.left > Margin

\* Mutant: the clock is read when the answer is there.
LifeFromAnswer(life, elapsed) == life

LifeLeft(life, elapsed) == IF elapsed < life THEN life - elapsed ELSE 0

\* The request leaves with the cached token.
SendCached(r) ==
  /\ pc[r] = "idle"
  /\ Usable(tokenCache)
  /\ pc' = [pc EXCEPT ![r] = "sent"]
  /\ token' = [token EXCEPT ![r] = tokenCache.token]
  /\ sentFor' = [sentFor EXCEPT ![r] = 0]
  /\ UNCHANGED <<tokenCache, waited, expiresIn, revokedAgo>>

FetchToken(r) ==
  /\ pc[r] = "idle"
  /\ ~Usable(tokenCache)
  /\ pc' = [pc EXCEPT ![r] = "fetching"]
  /\ waited' = [waited EXCEPT ![r] = 0]
  /\ UNCHANGED <<tokenCache, expiresIn, token, sentFor, revokedAgo>>

\* The answer arrives: it goes to the cache, whatever is there by now, and
\* the request leaves with it.
StoreToken(r) ==
  /\ pc[r] = "granted"
  /\ tokenCache' = [token |-> token[r],
                    left |-> LifeLeft(expiresIn[r], waited[r])]
  /\ pc' = [pc EXCEPT ![r] = "sent"]
  /\ sentFor' = [sentFor EXCEPT ![r] = 0]
  /\ waited' = [waited EXCEPT ![r] = 0]
  /\ UNCHANGED <<expiresIn, token, revokedAgo>>

\* A refusal, a lost answer or the time-out: the request fails unsent and the
\* cache stays as it is.
TokenFails(r) ==
  /\ pc[r] \in {"fetching", "granted"}
  /\ pc' = [pc EXCEPT ![r] = "idle"]
  /\ waited' = [waited EXCEPT ![r] = 0]
  /\ token' = [token EXCEPT ![r] = Absent]
  /\ expiresIn' = [expiresIn EXCEPT ![r] = Absent]
  /\ UNCHANGED <<tokenCache, sentFor, revokedAgo>>

\* The request's own answer, an error of any status, or its time-out.
RequestEnds(r) ==
  /\ pc[r] = "sent"
  /\ pc' = [pc EXCEPT ![r] = "idle"]
  /\ token' = [token EXCEPT ![r] = Absent]
  /\ expiresIn' = [expiresIn EXCEPT ![r] = Absent]
  /\ sentFor' = [sentFor EXCEPT ![r] = 0]
  /\ UNCHANGED <<tokenCache, waited, revokedAgo>>

-----------------------------------------------------------------------------
(* Blackboard and the clock.                                               *)

\* External: the token endpoint grants a token.
GrantToken(r, life) ==
  /\ pc[r] = "fetching"
  /\ pc' = [pc EXCEPT ![r] = "granted"]
  /\ token' = [token EXCEPT ![r] = [left |-> life, revoked |-> FALSE]]
  /\ expiresIn' = [expiresIn EXCEPT ![r] = life]
  /\ UNCHANGED <<tokenCache, waited, sentFor, revokedAgo>>

Revoked(t) == [t EXCEPT !.revoked = TRUE]

\* External: the tokens granted so far are revoked, once in a behaviour.
RevokeTokens ==
  /\ revokedAgo = Absent
  /\ revokedAgo' = 0
  /\ tokenCache' = IF tokenCache = Absent THEN Absent
                   ELSE [token |-> Revoked(tokenCache.token),
                         left |-> tokenCache.left]
  /\ token' = [r \in Requests |->
                 IF token[r] = Absent THEN Absent ELSE Revoked(token[r])]
  /\ UNCHANGED <<pc, waited, expiresIn, sentFor>>

\* The two time-outs of axios end what takes too long.
InTime(r) ==
  /\ pc[r] \in {"fetching", "granted"} => waited[r] < TokenTimeout
  /\ pc[r] = "sent" => sentFor[r] < RequestTimeout

Elapse(left) == IF left > 0 THEN left - 1 ELSE 0

Older(t) == [left |-> Elapse(t.left), revoked |-> t.revoked]

Tick ==
  /\ \A r \in Requests : InTime(r)
  /\ tokenCache' = IF tokenCache = Absent THEN Absent
                   ELSE [token |-> Older(tokenCache.token),
                         left |-> Elapse(tokenCache.left)]
  /\ token' = [r \in Requests |->
                 IF token[r] = Absent THEN Absent ELSE Older(token[r])]
  /\ waited' = [r \in Requests |->
                  IF pc[r] \in {"fetching", "granted"} THEN waited[r] + 1
                  ELSE waited[r]]
  /\ sentFor' = [r \in Requests |->
                   IF pc[r] = "sent" THEN sentFor[r] + 1 ELSE sentFor[r]]
  /\ revokedAgo' = IF revokedAgo = Absent THEN Absent
                   ELSE IF revokedAgo < Horizon THEN revokedAgo + 1
                   ELSE revokedAgo
  /\ UNCHANGED <<pc, expiresIn>>

Next ==
  \/ \E r \in Requests :
       \/ SendCached(r) \/ FetchToken(r) \/ StoreToken(r) \/ TokenFails(r)
       \/ RequestEnds(r)
       \/ \E life \in Lifetimes : GrantToken(r, life)
  \/ RevokeTokens
  \/ Tick

Spec == Init /\ [][Next]_vars

-----------------------------------------------------------------------------
(* What must hold.                                                         *)

\* The cache never believes in a token longer than Blackboard does, however
\* slow the answer was and whichever of several answers came last
\* (getAccessToken reads the clock before the fetch).
CacheNeverOverstates ==
  tokenCache # Absent => tokenCache.left <= tokenCache.token.left

\* A request under way never meets the expiry of its token: a cached token
\* outlives the time-out of the request that leaves with it, and so does a
\* fetched one that was not granted for less than the two time-outs.
TokenOutlivesRequest ==
  \A r \in Requests :
    (/\ pc[r] = "sent"
     /\ expiresIn[r] # Absent => expiresIn[r] > TokenTimeout + RequestTimeout)
    => token[r].left > 0

\* Nothing empties the cache when a token is revoked; still no request leaves
\* with a revoked token later than the fetch that brought it, or the life of
\* the longest token less the margin, allow.
RevokedTokenUsedBriefly ==
  \A r \in Requests :
    pc[r] = "sent" /\ token[r].revoked =>
      \/ revokedAgo - sentFor[r] <= TokenTimeout
      \/ revokedAgo - sentFor[r] < LongestLife - Margin

=============================================================================
