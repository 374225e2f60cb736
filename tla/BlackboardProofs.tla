-------------------------- MODULE BlackboardProofs --------------------------
(***************************************************************************)
(* Proofs about what the server reads from Blackboard.                     *)
(*                                                                         *)
(* First, about TokenCache: the client's access token, for any number of   *)
(* requests, any lives of tokens and any time-outs shorter than the margin *)
(* of a cached token.                                                      *)
(*                                                                         *)
(* Then, about ReadTools: a call of a tool that reads through the client,  *)
(* for any users, courses, columns and calls and any number of changes of  *)
(* Blackboard under the call.  What the list methods of Lists return, and  *)
(* FlattenSeq, is proved for lists of every length; TLAPS lacks induction  *)
(* over data here, and InductionOnSet, by counting, takes its place.       *)
(***************************************************************************)
EXTENDS TokenCache, ReadTools, FiniteSetTheorems, SequenceTheorems, TLAPS

-----------------------------------------------------------------------------
(* The access token.                                                       *)

\* A granted token's life, counted from before the fetch, is not beyond the
\* life Blackboard gave it; if it is revoked, then while the fetch went on.
GrantInv ==
  \A r \in Requests : pc[r] = "granted" =>
    /\ expiresIn[r] <= token[r].left + waited[r]
    /\ token[r].revoked => revokedAgo # Absent /\ revokedAgo <= waited[r]

\* What is left of a sent token covers what is left of the request.
SentInv ==
  \A r \in Requests :
    (/\ pc[r] = "sent"
     /\ expiresIn[r] # Absent => expiresIn[r] > TokenTimeout + RequestTimeout)
    => token[r].left + sentFor[r] > RequestTimeout

\* A revoked token in the cache has used up the time since its revocation.
CacheInv ==
  tokenCache # Absent /\ tokenCache.token.revoked /\ tokenCache.left > 0 =>
    revokedAgo # Absent /\ tokenCache.left + revokedAgo <= LongestLife

\* A sent token was revoked after it left, or not long before.
RevokedInv ==
  \A r \in Requests :
    pc[r] = "sent" /\ token[r].revoked =>
      /\ revokedAgo # Absent
      /\ \/ revokedAgo - sentFor[r] <= TokenTimeout
         \/ revokedAgo - sentFor[r] < LongestLife - Margin

TokenInv ==
  /\ TypeOK /\ CacheNeverOverstates
  /\ GrantInv /\ SentInv /\ CacheInv /\ RevokedInv

\* The first state satisfies the invariant.
LEMMA TokenInvInit == Init => TokenInv
  BY TimesAssumption
  DEF Init, TokenInv, TypeOK, CacheNeverOverstates, GrantInv, SentInv, CacheInv,
      RevokedInv

\* The life left that the cache notes is a life, never beyond the granted one.
LEMMA LifeLeftBounded ==
  ASSUME NEW life \in 0..LongestLife, NEW elapsed \in 0..TokenTimeout
  PROVE  /\ LifeLeft(life, elapsed) \in 0..LongestLife
         /\ LifeLeft(life, elapsed) > 0 =>
              LifeLeft(life, elapsed) = life - elapsed
         /\ LifeLeft(life, elapsed) = 0 => life <= elapsed
  BY LifetimesAssumption, TimesAssumption DEF LifeLeft

\* Requests keep the invariant.
LEMMA RequestStep ==
  ASSUME TokenInv, NEW r \in Requests,
         \/ SendCached(r) \/ FetchToken(r) \/ TokenFails(r) \/ RequestEnds(r)
  PROVE  TokenInv'
<1> USE DEF TokenInv
<1>0. TypeOK /\ Horizon \in Nat
  BY LifetimesAssumption, TimesAssumption DEF Horizon
<1>1. CASE SendCached(r)
  <2>1. /\ tokenCache \in CachedToken /\ tokenCache.left > Margin
        /\ tokenCache.left <= tokenCache.token.left
    BY <1>0, <1>1
    DEF SendCached, Usable, CacheNeverOverstates, TypeOK
  <2>2. TypeOK'
    BY <1>0, <1>1, <2>1, TimesAssumption
    DEF SendCached, TypeOK, CachedToken
  <2>3. SentInv'
    <3>1. tokenCache.token.left + 0 > RequestTimeout
      BY <2>1, TimesAssumption, LifetimesAssumption DEF CachedToken, Token
    <3>2. /\ pc' = [pc EXCEPT ![r] = "sent"]
          /\ token' = [token EXCEPT ![r] = tokenCache.token]
          /\ sentFor' = [sentFor EXCEPT ![r] = 0]
          /\ expiresIn' = expiresIn
      BY <1>1 DEF SendCached
    <3> QED BY <1>0, <3>1, <3>2 DEF SentInv, TypeOK
  <2>4. ASSUME tokenCache.token.revoked
        PROVE  revokedAgo # Absent /\ revokedAgo - 0 < LongestLife - Margin
    <3>1. tokenCache # Absent /\ tokenCache.left \in 0..LongestLife
      BY <2>1, AbsentAssumption DEF CachedToken
    <3>2. /\ revokedAgo # Absent
          /\ tokenCache.left + revokedAgo <= LongestLife
      BY <2>1, <2>4, <3>1, TimesAssumption DEF CacheInv
    <3>3. revokedAgo \in Nat
      BY <1>0, <3>2 DEF TypeOK
    <3> QED
      BY <2>1, <3>1, <3>2, <3>3, TimesAssumption, LifetimesAssumption
  <2>5. RevokedInv'
    BY <1>0, <1>1, <2>4 DEF SendCached, RevokedInv, TypeOK
  <2> QED
    BY <1>0, <1>1, <2>2, <2>3, <2>5
    DEF SendCached, CacheNeverOverstates, GrantInv, CacheInv, TypeOK
<1>2. CASE FetchToken(r)
  BY <1>0, <1>2, TimesAssumption
  DEF FetchToken, TypeOK, CacheNeverOverstates, GrantInv, SentInv, CacheInv,
      RevokedInv
<1>3. CASE TokenFails(r)
  BY <1>0, <1>3, TimesAssumption
  DEF TokenFails, TypeOK, CacheNeverOverstates, GrantInv, SentInv, CacheInv,
      RevokedInv
<1>4. CASE RequestEnds(r)
  BY <1>0, <1>4, TimesAssumption
  DEF RequestEnds, TypeOK, CacheNeverOverstates, GrantInv, SentInv, CacheInv,
      RevokedInv
<1> QED BY <1>1, <1>2, <1>3, <1>4

\* An answer that reaches the cache keeps the invariant, whatever it
\* overwrites.
LEMMA StoreStep ==
  ASSUME TokenInv, NEW r \in Requests, StoreToken(r)
  PROVE  TokenInv'
<1> USE DEF TokenInv
<1> DEFINE left == LifeLeft(expiresIn[r], waited[r])
<1>1. /\ TypeOK /\ token[r] \in Token /\ waited[r] \in 0..TokenTimeout
      /\ expiresIn[r] \in 0..LongestLife /\ pc[r] = "granted"
      /\ expiresIn[r] \in Lifetimes
  BY LifetimesAssumption DEF StoreToken, TypeOK
<1>2. /\ left \in 0..LongestLife
      /\ left > 0 => left = expiresIn[r] - waited[r]
      /\ left = 0 => expiresIn[r] <= waited[r]
  BY <1>1, LifeLeftBounded
<1>3. /\ tokenCache' = [token |-> token[r], left |-> left]
      /\ pc' = [pc EXCEPT ![r] = "sent"]
      /\ sentFor' = [sentFor EXCEPT ![r] = 0]
      /\ waited' = [waited EXCEPT ![r] = 0]
      /\ UNCHANGED <<expiresIn, token, revokedAgo>>
  BY DEF StoreToken
<1>4. /\ expiresIn[r] <= token[r].left + waited[r]
      /\ token[r].revoked => revokedAgo # Absent /\ revokedAgo <= waited[r]
  BY <1>1 DEF GrantInv
<1> HIDE DEF left
<1>5. TypeOK'
  BY <1>1, <1>2, <1>3, TimesAssumption DEF TypeOK, CachedToken
<1>6. left <= token[r].left
  BY <1>1, <1>2, <1>4, TimesAssumption, LifetimesAssumption DEF Token
<1>7. CacheNeverOverstates'
  BY <1>3, <1>6 DEF CacheNeverOverstates
<1>8. token[r].revoked /\ left > 0 => left + revokedAgo <= LongestLife
  <2> SUFFICES ASSUME token[r].revoked, left > 0
               PROVE  left + revokedAgo <= LongestLife
    OBVIOUS
  <2>1. revokedAgo \in Nat
    BY <1>1, <1>4, LifetimesAssumption, TimesAssumption DEF TypeOK, Horizon
  <2> QED BY <1>1, <1>2, <1>4, <2>1, TimesAssumption, LifetimesAssumption
<1>9. CacheInv'
  BY <1>3, <1>4, <1>8 DEF CacheInv
<1>10. expiresIn[r] > TokenTimeout + RequestTimeout
         => token[r].left + 0 > RequestTimeout
  BY <1>1, <1>4, TimesAssumption, LifetimesAssumption DEF Token
<1>11. SentInv'
  <2>1. expiresIn[r] # Absent
    BY <1>1, AbsentAssumption
  <2> QED BY <1>1, <1>3, <1>10, <2>1 DEF SentInv, TypeOK
<1>12. token[r].revoked => revokedAgo - 0 <= TokenTimeout
  <2> SUFFICES ASSUME token[r].revoked PROVE revokedAgo - 0 <= TokenTimeout
    OBVIOUS
  <2>1. revokedAgo \in Nat
    BY <1>1, <1>4, LifetimesAssumption, TimesAssumption DEF TypeOK, Horizon
  <2> QED BY <1>1, <1>4, <2>1, TimesAssumption
<1>13. RevokedInv'
  BY <1>1, <1>3, <1>4, <1>12 DEF RevokedInv, TypeOK
<1>14. GrantInv'
  BY <1>1, <1>3 DEF GrantInv, TypeOK
<1> QED BY <1>5, <1>7, <1>9, <1>11, <1>13, <1>14

\* Blackboard's steps keep the invariant.
LEMMA WorldStep ==
  ASSUME TokenInv,
         \/ RevokeTokens
         \/ \E r \in Requests, life \in Lifetimes : GrantToken(r, life)
  PROVE  TokenInv'
<1> USE DEF TokenInv
<1>0. TypeOK /\ Horizon \in Nat
  BY LifetimesAssumption, TimesAssumption DEF Horizon
<1>1. ASSUME NEW r \in Requests, NEW life \in Lifetimes, GrantToken(r, life)
      PROVE  TokenInv'
  <2>1. [left |-> life, revoked |-> FALSE] \in Token
    BY LifetimesAssumption DEF Token
  <2>2. TypeOK'
    BY <1>0, <1>1, <2>1, TimesAssumption DEF GrantToken, TypeOK
  <2>3. GrantInv'
    BY <1>0, <1>1, LifetimesAssumption, TimesAssumption
    DEF GrantToken, GrantInv, TypeOK
  <2> QED
    BY <1>0, <1>1, <2>2, <2>3
    DEF GrantToken, CacheNeverOverstates, SentInv, CacheInv, RevokedInv, TypeOK
<1>2. CASE RevokeTokens
  <2>1. \A t \in Token : Revoked(t) \in Token /\ Revoked(t).left = t.left
    BY DEF Token, Revoked
  <2>2. TypeOK'
    BY <1>0, <1>2, <2>1, AbsentAssumption
    DEF RevokeTokens, TypeOK, CachedToken
  <2>3. CacheNeverOverstates' /\ CacheInv'
    <3>1. CASE tokenCache = Absent
      BY <1>2, <3>1 DEF RevokeTokens, CacheNeverOverstates, CacheInv
    <3>2. CASE tokenCache # Absent
      <4>1. /\ tokenCache \in CachedToken
            /\ tokenCache' = [token |-> Revoked(tokenCache.token),
                              left |-> tokenCache.left]
            /\ revokedAgo' = 0
        BY <1>0, <1>2, <3>2 DEF RevokeTokens, TypeOK
      <4> QED
        BY <1>0, <2>1, <3>2, <4>1, AbsentAssumption, LifetimesAssumption
        DEF CacheNeverOverstates, CacheInv, CachedToken
    <3> QED BY <3>1, <3>2
  <2>4. \A r \in Requests :
          pc[r] \in {"granted", "sent"} => token'[r].left = token[r].left
    BY <1>0, <1>2, <2>1, AbsentAssumption DEF RevokeTokens, TypeOK
  <2>5. revokedAgo' = 0 /\ UNCHANGED <<pc, waited, expiresIn, sentFor>>
    BY <1>2 DEF RevokeTokens
  <2>6. GrantInv'
    BY <1>0, <2>4, <2>5, AbsentAssumption, TimesAssumption DEF GrantInv, TypeOK
  <2>7. SentInv'
    BY <2>4, <2>5 DEF SentInv
  <2>8. RevokedInv'
    BY <1>0, <2>5, AbsentAssumption, TimesAssumption DEF RevokedInv, TypeOK
  <2> QED BY <2>2, <2>3, <2>6, <2>7, <2>8
<1> QED BY <1>1, <1>2

\* The passing of time keeps the invariant: what the two clocks count down,
\* they count down together.
LEMMA TickStep == ASSUME TokenInv, Tick PROVE TokenInv'
<1> USE DEF TokenInv
<1>0. TypeOK /\ Horizon \in Nat
  BY LifetimesAssumption, TimesAssumption DEF Horizon
<1>1. \A n \in 0..LongestLife :
        /\ Elapse(n) \in 0..LongestLife
        /\ n > 0 => Elapse(n) = n - 1
        /\ n = 0 => Elapse(n) = 0
  BY LifetimesAssumption DEF Elapse
<1>2. \A t \in Token :
        /\ Older(t) \in Token /\ Older(t).left = Elapse(t.left)
        /\ Older(t).revoked = t.revoked
  BY <1>1 DEF Token, Older
<1>3. /\ revokedAgo' \in 0..Horizon \cup {Absent}
      /\ revokedAgo = Absent <=> revokedAgo' = Absent
      /\ revokedAgo # Absent => /\ revokedAgo \in Nat /\ revokedAgo' \in Nat
                              /\ revokedAgo' <= revokedAgo + 1
  BY <1>0, AbsentAssumption DEF Tick, TypeOK
<1>4. ASSUME NEW r \in Requests, pc[r] \in {"granted", "sent"}
      PROVE  /\ token[r] \in Token /\ token'[r] = Older(token[r])
             /\ token'[r] \in Token
             /\ token'[r].left = Elapse(token[r].left)
             /\ token'[r].revoked = token[r].revoked
  BY <1>0, <1>2, <1>4, AbsentAssumption DEF Tick, TypeOK
<1>5. ASSUME NEW r \in Requests
      PROVE  /\ waited'[r] \in 0..TokenTimeout
             /\ pc[r] = "granted" => waited'[r] = waited[r] + 1
             /\ sentFor'[r] \in 0..RequestTimeout
             /\ pc[r] = "sent" =>
                  sentFor'[r] = sentFor[r] + 1 /\ sentFor[r] < RequestTimeout
  BY <1>0, TimesAssumption DEF Tick, InTime, TypeOK
<1>6. UNCHANGED <<pc, expiresIn>>
  BY DEF Tick
<1>7. tokenCache # Absent =>
        /\ tokenCache \in CachedToken
        /\ tokenCache' = [token |-> Older(tokenCache.token),
                          left |-> Elapse(tokenCache.left)]
  BY <1>0 DEF Tick, TypeOK
<1>8. TypeOK'
  <2>1. tokenCache' \in CachedToken \cup {Absent}
    BY <1>0, <1>1, <1>2, <1>7 DEF Tick, TypeOK, CachedToken
  <2>2. token' \in [Requests -> Token \cup {Absent}]
    BY <1>0, <1>2 DEF Tick, TypeOK
  <2>3. /\ waited' \in [Requests -> 0..TokenTimeout]
        /\ sentFor' \in [Requests -> 0..RequestTimeout]
    BY <1>5 DEF Tick
  <2> QED BY <1>0, <1>3, <1>4, <1>6, <2>1, <2>2, <2>3 DEF TypeOK
<1>9. CacheNeverOverstates'
  <2> SUFFICES ASSUME tokenCache' # Absent
               PROVE  tokenCache'.left <= tokenCache'.token.left
    BY DEF CacheNeverOverstates
  <2>1. tokenCache # Absent
    BY DEF Tick
  <2>2. /\ tokenCache.left \in 0..LongestLife
        /\ tokenCache.token.left \in 0..LongestLife
        /\ tokenCache.left <= tokenCache.token.left
    BY <1>7, <2>1 DEF CachedToken, Token, CacheNeverOverstates
  <2>3. Elapse(tokenCache.left) <= Elapse(tokenCache.token.left)
    BY <1>1, <2>2, LifetimesAssumption
  <2> QED BY <1>2, <1>7, <2>1, <2>3 DEF CachedToken
<1>10. CacheInv'
  <2> SUFFICES ASSUME tokenCache' # Absent, tokenCache'.token.revoked,
                      tokenCache'.left > 0
               PROVE  /\ revokedAgo' # Absent
                      /\ tokenCache'.left + revokedAgo' <= LongestLife
    BY DEF CacheInv
  <2>1. tokenCache # Absent
    BY DEF Tick
  <2>2. /\ tokenCache.left \in 0..LongestLife
        /\ tokenCache'.left = Elapse(tokenCache.left)
        /\ tokenCache.token.revoked
    BY <1>2, <1>7, <2>1 DEF CachedToken
  <2>3. tokenCache.left > 0 /\ tokenCache'.left = tokenCache.left - 1
    BY <1>1, <2>2, LifetimesAssumption
  <2>4. revokedAgo # Absent /\ tokenCache.left + revokedAgo <= LongestLife
    BY <2>1, <2>2, <2>3 DEF CacheInv
  <2> QED BY <1>3, <2>2, <2>3, <2>4, LifetimesAssumption
<1>11. GrantInv'
  <2> SUFFICES ASSUME NEW r \in Requests, pc'[r] = "granted"
               PROVE  /\ expiresIn'[r] <= token'[r].left + waited'[r]
                      /\ token'[r].revoked =>
                           revokedAgo' # Absent /\ revokedAgo' <= waited'[r]
    BY DEF GrantInv
  <2>1. /\ expiresIn[r] <= token[r].left + waited[r]
        /\ token[r].revoked => revokedAgo # Absent /\ revokedAgo <= waited[r]
    BY <1>6 DEF GrantInv
  <2>2. /\ expiresIn[r] \in Nat /\ waited[r] \in Nat
        /\ token[r].left \in 0..LongestLife
        /\ waited'[r] = waited[r] + 1
        /\ token'[r].left = Elapse(token[r].left)
        /\ token'[r].revoked = token[r].revoked
    <3>1. pc[r] = "granted" /\ token[r] \in Token
      BY <1>4, <1>6
    <3>2. expiresIn[r] \in Nat /\ waited[r] \in Nat
      <4>1. expiresIn[r] \in Lifetimes /\ waited[r] \in 0..TokenTimeout
        BY <1>0, <3>1 DEF TypeOK
      <4>2. expiresIn[r] \in 0..LongestLife
        BY <4>1, LifetimesAssumption
      <4> QED BY <4>1, <4>2
    <3>3. token[r].left \in 0..LongestLife
      BY <3>1 DEF Token
    <3> QED BY <1>4, <1>5, <3>1, <3>2, <3>3
  <2>3. expiresIn'[r] <= token'[r].left + waited'[r]
    BY <1>1, <1>6, <2>1, <2>2, LifetimesAssumption
  <2>4. token'[r].revoked => revokedAgo' # Absent /\ revokedAgo' <= waited'[r]
    BY <1>3, <2>1, <2>2
  <2> QED BY <2>3, <2>4
<1>12. SentInv'
  <2> SUFFICES ASSUME NEW r \in Requests, pc'[r] = "sent",
                      expiresIn'[r] # Absent =>
                        expiresIn'[r] > TokenTimeout + RequestTimeout
               PROVE  token'[r].left + sentFor'[r] > RequestTimeout
    BY DEF SentInv
  <2>1. token[r].left + sentFor[r] > RequestTimeout
    BY <1>6 DEF SentInv
  <2>2. /\ token[r].left \in 0..LongestLife /\ sentFor[r] \in Nat
        /\ sentFor'[r] = sentFor[r] + 1
        /\ sentFor[r] < RequestTimeout
        /\ token'[r].left = Elapse(token[r].left)
    BY <1>0, <1>4, <1>5, <1>6, TimesAssumption DEF TypeOK, Token
  <2>3. token[r].left > 0
    BY <2>1, <2>2, LifetimesAssumption, TimesAssumption
  <2>4. token'[r].left = token[r].left - 1
    BY <1>1, <2>2, <2>3
  <2> QED BY <2>1, <2>2, <2>4, LifetimesAssumption, TimesAssumption
<1>13. RevokedInv'
  <2> SUFFICES ASSUME NEW r \in Requests, pc'[r] = "sent", token'[r].revoked
               PROVE  /\ revokedAgo' # Absent
                      /\ \/ revokedAgo' - sentFor'[r] <= TokenTimeout
                         \/ revokedAgo' - sentFor'[r] < LongestLife - Margin
    BY DEF RevokedInv
  <2>1. token[r].revoked /\ sentFor'[r] = sentFor[r] + 1 /\ sentFor[r] \in Nat
    BY <1>0, <1>4, <1>5, <1>6, TimesAssumption DEF TypeOK
  <2>2. /\ revokedAgo # Absent
        /\ \/ revokedAgo - sentFor[r] <= TokenTimeout
           \/ revokedAgo - sentFor[r] < LongestLife - Margin
    BY <1>6, <2>1 DEF RevokedInv
  <2> QED BY <1>3, <2>1, <2>2, LifetimesAssumption, TimesAssumption
<1> QED BY <1>8, <1>9, <1>10, <1>11, <1>12, <1>13

\* The invariant holds in every reachable state.
THEOREM TokenInvariance == Spec => []TokenInv
<1>1. TokenInv /\ [Next]_vars => TokenInv'
  <2> SUFFICES ASSUME TokenInv, [Next]_vars PROVE TokenInv'
    OBVIOUS
  <2>1. CASE UNCHANGED vars
    BY <2>1
    DEF vars, TokenInv, TypeOK, CacheNeverOverstates, GrantInv, SentInv, CacheInv,
        RevokedInv
  <2> QED BY <2>1, RequestStep, StoreStep, WorldStep, TickStep DEF Next
<1> QED BY <1>1, TokenInvInit, PTL DEF Spec

\* Every reachable state is well typed.
THEOREM TokenTypeCorrect == Spec => []TypeOK
<1>1. TokenInv => TypeOK
  BY DEF TokenInv
<1> QED BY <1>1, TokenInvariance, PTL

\* The cache never believes in a token longer than Blackboard does
\* (getAccessToken).
THEOREM CacheCorrect == Spec => []CacheNeverOverstates
<1>1. TokenInv => CacheNeverOverstates
  BY DEF TokenInv
<1> QED BY <1>1, TokenInvariance, PTL

\* A request under way never meets the expiry of its token: the margin
\* exceeds the request's time-out (getAccessToken, the request interceptor).
THEOREM TokenOutlives == Spec => []TokenOutlivesRequest
<1>1. TokenInv => TokenOutlivesRequest
  BY TimesAssumption, LifetimesAssumption
  DEF TokenInv, SentInv, TokenOutlivesRequest, TypeOK, Token
<1> QED BY <1>1, TokenInvariance, PTL

\* A revoked token leaves with a request only shortly after its revocation,
\* though nothing empties the cache.
THEOREM RevokedBriefly == Spec => []RevokedTokenUsedBriefly
<1>1. TokenInv => RevokedTokenUsedBriefly
  BY DEF TokenInv, RevokedInv, RevokedTokenUsedBriefly
<1> QED BY <1>1, TokenInvariance, PTL

-----------------------------------------------------------------------------
(* Lists.                                                                  *)

\* Induction for a set of numbers, by counting: were k the only number missed,
\* adding 1 would map the members up to k one to one into those above 0.
LEMMA InductionOnSet ==
  ASSUME NEW S, 0 \in S, \A n \in Nat : n \in S => n + 1 \in S
  PROVE  \A n \in Nat : n \in S
<1>1. SUFFICES ASSUME NEW k \in Nat, k \notin S PROVE FALSE
  OBVIOUS
<1> DEFINE A == {n \in 0..k : n \in S}
           B == A \ {0}
           f == [n \in A |-> n + 1]
<1>2. IsFiniteSet(A) /\ Cardinality(A) \in Nat
  <2>1. A \in SUBSET Nat /\ \A n \in A : n <= k
    OBVIOUS
  <2>2. IsFiniteSet(A)
    <3> HIDE DEF A
    <3> QED  BY <2>1, FS_BoundedSetOfNaturals
  <2> QED  BY <2>2, FS_CardinalityType
<1>3. 0 \in A
  OBVIOUS
<1>4. f \in Injection(A, B)
  <2>1. \A n \in A : n + 1 \in B
    BY <1>1
  <2> QED  BY <2>1 DEF Injection, IsInjective
<1> HIDE DEF A
<1>5. IsFiniteSet(B) /\ Cardinality(B) = Cardinality(A) - 1
  BY <1>2, <1>3, FS_RemoveElement
<1> HIDE DEF B, f
<1>6. Cardinality(A) <= Cardinality(B)
  BY <1>4, <1>5, FS_Injection
<1> QED  BY <1>2, <1>5, <1>6

\* How many members of D come up to i in the order R.
Place(D, R, i) == Cardinality({j \in D : <<j, i>> \in R})

TotalOrder(D, R) ==
  /\ \A i \in D : <<i, i>> \in R
  /\ \A i, j \in D : <<i, j>> \in R \/ <<j, i>> \in R
  /\ \A i, j \in D : <<i, j>> \in R /\ <<j, i>> \in R => i = j
  /\ \A i, j, k \in D : <<i, j>> \in R /\ <<j, k>> \in R => <<i, k>> \in R

\* In a total order of a finite set the places are 1, 2, ... without a gap, and
\* an element comes after another just if its place does.
LEMMA Places ==
  ASSUME NEW D, IsFiniteSet(D), NEW R, TotalOrder(D, R)
  PROVE  /\ Cardinality(D) \in Nat
         /\ \A i \in D : Place(D, R, i) \in 1..Cardinality(D)
         /\ \A i, j \in D : Place(D, R, i) <= Place(D, R, j) <=> <<i, j>> \in R
         /\ \A n \in 1..Cardinality(D) : \E i \in D : Place(D, R, i) = n
<1> DEFINE U(i) == {j \in D : <<j, i>> \in R}
<1>0. Cardinality(D) \in Nat
  BY FS_CardinalityType
<1>1. ASSUME NEW i \in D
      PROVE  /\ IsFiniteSet(U(i)) /\ Cardinality(U(i)) = Place(D, R, i)
             /\ Place(D, R, i) \in 1..Cardinality(D)
             /\ Place(D, R, i) \in Nat
  <2>1. U(i) \in SUBSET D /\ i \in U(i)
    BY DEF TotalOrder
  <2>2. Cardinality(U(i)) = Place(D, R, i)
    BY DEF Place
  <2> HIDE DEF U
  <2>3. IsFiniteSet(U(i)) /\ Cardinality(U(i)) <= Cardinality(D)
        /\ Cardinality(U(i)) \in Nat
    BY <2>1, FS_Subset, FS_CardinalityType
  <2>4. Cardinality(U(i)) # 0
    BY <2>1, <2>3, FS_EmptySet
  <2> QED  BY <1>0, <2>2, <2>3, <2>4
<1> HIDE DEF U
<1>a. \A i \in D : Place(D, R, i) \in Nat
  BY <1>1
<1>2. ASSUME NEW i \in D, NEW j \in D, <<i, j>> \in R
      PROVE  Place(D, R, i) <= Place(D, R, j)
  <2>1. U(i) \in SUBSET U(j)
    BY <1>2 DEF TotalOrder, U
  <2> QED  BY <1>1, <2>1, FS_Subset
<1>3. ASSUME NEW i \in D, NEW j \in D, <<i, j>> \in R, i # j
      PROVE  Place(D, R, i) < Place(D, R, j)
  <2>1. U(i) \in SUBSET U(j) /\ j \in U(j) /\ j \notin U(i)
    BY <1>3 DEF TotalOrder, U
  <2>2. Cardinality(U(i)) # Cardinality(U(j))
    BY <1>1, <2>1, FS_Subset
  <2> QED  BY <1>1, <1>2, <1>3, <2>2
<1>4. \A i, j \in D : Place(D, R, i) <= Place(D, R, j) <=> <<i, j>> \in R
  <2> SUFFICES ASSUME NEW i \in D, NEW j \in D, Place(D, R, i) <= Place(D, R, j)
               PROVE  <<i, j>> \in R
    BY <1>2
  <2>1. CASE i = j  BY <2>1 DEF TotalOrder
  <2>2. CASE i # j
    <3>1. <<j, i>> \in R => Place(D, R, j) < Place(D, R, i)
      BY <1>3, <2>2
    <3>2. Place(D, R, i) \in Int /\ Place(D, R, j) \in Int
      BY <1>a
    <3> QED  BY <3>1, <3>2 DEF TotalOrder
  <2> QED  BY <2>1, <2>2
<1>5. \A n \in 1..Cardinality(D) : \E i \in D : Place(D, R, i) = n
  <2> DEFINE f == [i \in D |-> Place(D, R, i)]
             N == 1..Cardinality(D)
  <2>1. f \in [D -> N]
    BY <1>1
  <2>2. \A i, j \in D : f[i] = f[j] => i = j
    <3> SUFFICES ASSUME NEW i \in D, NEW j \in D, Place(D, R, i) = Place(D, R, j)
                 PROVE  i = j
      OBVIOUS
    <3>1. Place(D, R, i) \in Int /\ Place(D, R, j) \in Int
      BY <1>a
    <3>2. Place(D, R, i) <= Place(D, R, j) /\ Place(D, R, j) <= Place(D, R, i)
      BY <3>1
    <3> QED  BY <1>4, <3>2 DEF TotalOrder
  <2>3. IsFiniteSet(N) /\ Cardinality(N) = Cardinality(D)
    BY <1>0, FS_Interval
  <2>4. \A n \in N : \E i \in D : f[i] = n
    <3> HIDE DEF f, N
    <3>1. f \in Injection(D, N)
      BY <2>1, <2>2 DEF Injection, IsInjective
    <3>2. f \in Surjection(D, N)
      BY <2>3, <3>1, FS_Injection
    <3> QED  BY <3>2 DEF Surjection
  <2> QED  BY <2>4
<1> QED  BY <1>0, <1>1, <1>4, <1>5

\* InOrder lists the numbers of a finite set, each once, in increasing order.
LEMMA InOrderFacts ==
  ASSUME NEW S \in SUBSET Nat, IsFiniteSet(S)
  PROVE  LET o == InOrder(S) IN
         /\ Cardinality(S) \in Nat
         /\ o \in [1..Cardinality(S) -> S]
         /\ \A i \in S : \E n \in 1..Cardinality(S) : o[n] = i
         /\ \A m, n \in 1..Cardinality(S) : m < n => o[m] < o[n]
<1> DEFINE R == {p \in S \X S : p[1] <= p[2]}
           c == Cardinality(S)
           P(i) == Place(S, R, i)
           o == InOrder(S)
<1>1. TotalOrder(S, R)
  <2>1. \A i, j \in S : <<i, j>> \in R <=> i <= j
    OBVIOUS
  <2> HIDE DEF R
  <2> QED  BY <2>1 DEF TotalOrder
<1>2. /\ c \in Nat
      /\ \A i \in S : P(i) \in 1..c
      /\ \A i, j \in S : P(i) <= P(j) <=> <<i, j>> \in R
      /\ \A n \in 1..c : \E i \in S : P(i) = n
  <2> HIDE DEF R
  <2> QED  BY <1>1, Places
<1>3. \A i \in S : P(i) = Cardinality({j \in S : j <= i})
  <2> SUFFICES ASSUME NEW i \in S
               PROVE  {j \in S : <<j, i>> \in R} = {j \in S : j <= i}
    BY DEF Place
  <2> QED  OBVIOUS
<1>4. \A i, j \in S : P(i) <= P(j) <=> i <= j
  BY <1>2
<1>b. \A n \in 1..c : \E i \in S : Cardinality({j \in S : j <= i}) = n
  <2> HIDE DEF P, R, c
  <2> QED  BY <1>2, <1>3
<1> DEFINE G(n) == CHOOSE i \in S : Cardinality({j \in S : j <= i}) = n
<1>5. o = [n \in 1..c |-> G(n)]
  BY DEF InOrder
<1>c. \A n \in 1..c : o[n] \in S /\ Cardinality({j \in S : j <= o[n]}) = n
  <2>1. \A n \in 1..c : G(n) \in S /\ Cardinality({j \in S : j <= G(n)}) = n
    BY <1>b
  <2> HIDE DEF G, o, c
  <2> QED  BY <1>5, <2>1
<1> HIDE DEF G
<1>6. \A n \in 1..c : o[n] \in S /\ P(o[n]) = n
  <2> HIDE DEF P, R, c, o
  <2> QED  BY <1>3, <1>c
<1> HIDE DEF P, R, c, o
<1>d. \A i \in S : i \in Int /\ P(i) \in Int
  BY <1>2
<1>7. o \in [1..c -> S]
  BY <1>5, <1>6
<1>8. ASSUME NEW i \in S PROVE \E n \in 1..c : o[n] = i
  <2>1. P(i) \in 1..c /\ o[P(i)] \in S /\ P(o[P(i)]) = P(i)
    BY <1>2, <1>6
  <2>2. o[P(i)] \in Int /\ i \in Int /\ P(i) \in Int
    BY <1>d, <2>1
  <2>3. o[P(i)] <= i /\ i <= o[P(i)]
    BY <1>4, <2>1, <2>2
  <2> QED  BY <2>1, <2>2, <2>3
<1>9. ASSUME NEW m \in 1..c, NEW n \in 1..c, m < n PROVE o[m] < o[n]
  <2>1. o[m] \in S /\ o[n] \in S /\ P(o[m]) = m /\ P(o[n]) = n
    BY <1>6
  <2>2. o[m] \in Int /\ o[n] \in Int /\ m \in Int /\ n \in Int
    BY <1>d, <2>1
  <2>3. ~(n <= m)
    BY <1>9, <2>2
  <2>4. ~(o[n] <= o[m])
    BY <1>4, <2>1, <2>3
  <2> QED  BY <2>2, <2>4
<1> QED  BY <1>2, <1>7, <1>8, <1>9 DEF o, c


\* SortOrder lists the positions of the keys, each once, by key, and those with
\* the same key as they stood.
LEMMA SortOrderFacts ==
  ASSUME NEW n \in Nat, NEW keys \in [1..n -> Int]
  PROVE  LET o == SortOrder(keys) IN
         /\ o \in [1..n -> 1..n]
         /\ \A i \in 1..n : \E m \in 1..n : o[m] = i
         /\ \A l, m \in 1..n : l < m => keys[o[l]] <= keys[o[m]]
         /\ \A l, m \in 1..n : o[l] = o[m] => l = m
<1> DEFINE D == DOMAIN keys
           R == {p \in D \X D : UpTo(keys, p[1], p[2])}
           P(i) == Place(D, R, i)
           o == SortOrder(keys)
<1>0. IsFiniteSet(D) /\ Cardinality(D) = n /\ D = 1..n
  BY FS_Interval
<1>1. \A i, j \in D : <<i, j>> \in R <=> UpTo(keys, i, j)
  OBVIOUS
<1>2. TotalOrder(D, R)
  <2> HIDE DEF R
  <2> DEFINE k(i) == keys[i]
  <2>1. \A i \in D : k(i) \in Int /\ i \in Int
    OBVIOUS
  <2>2. \A i, j \in D : <<i, j>> \in R <=> k(i) < k(j) \/ (k(i) = k(j) /\ i <= j)
    BY <1>1 DEF UpTo
  <2> HIDE DEF D, k, R
  <2>3. \A i, j \in D : <<i, j>> \in R \/ <<j, i>> \in R
    <3> SUFFICES ASSUME NEW i \in D, NEW j \in D
                 PROVE  <<i, j>> \in R \/ <<j, i>> \in R
      OBVIOUS
    <3>1. /\ k(i) \in Int /\ k(j) \in Int /\ i \in Int /\ j \in Int
          /\ <<i, j>> \in R <=> k(i) < k(j) \/ (k(i) = k(j) /\ i <= j)
          /\ <<j, i>> \in R <=> k(j) < k(i) \/ (k(j) = k(i) /\ j <= i)
      BY <2>1, <2>2
    <3> QED  BY <3>1
  <2>4. \A i, j \in D : <<i, j>> \in R /\ <<j, i>> \in R => i = j
    BY <2>1, <2>2
  <2>5. \A i, j, l \in D : <<i, j>> \in R /\ <<j, l>> \in R => <<i, l>> \in R
    BY <2>1, <2>2
  <2> QED  BY <2>1, <2>2, <2>3, <2>4, <2>5 DEF TotalOrder
<1>3. /\ \A i \in D : P(i) \in D
      /\ \A i, j \in D : P(i) <= P(j) <=> <<i, j>> \in R
      /\ \A m \in D : \E i \in D : P(i) = m
  <2>1. 1..Cardinality(D) = D
    BY <1>0
  <2>2. IsFiniteSet(D)
    BY <1>0
  <2> HIDE DEF D, R
  <2>3. /\ Cardinality(D) \in Nat
        /\ \A i \in D : P(i) \in 1..Cardinality(D)
        /\ \A i, j \in D : P(i) <= P(j) <=> <<i, j>> \in R
        /\ \A m \in 1..Cardinality(D) : \E i \in D : P(i) = m
    BY <1>2, <2>2, Places
  <2> HIDE DEF P
  <2> QED  BY <2>1, <2>3
<1>4. \A i \in D : P(i) = Cardinality({j \in D : UpTo(keys, j, i)})
  <2> SUFFICES ASSUME NEW i \in D
               PROVE  {j \in D : <<j, i>> \in R} = {j \in D : UpTo(keys, j, i)}
    BY DEF Place
  <2> QED  BY <1>1
<1>b. \A m \in D : \E i \in D : Cardinality({j \in D : UpTo(keys, j, i)}) = m
  <2> HIDE DEF P, R, D
  <2> QED  BY <1>3, <1>4
<1> DEFINE G(m) == CHOOSE j \in D : Cardinality({i \in D : UpTo(keys, i, j)}) = m
<1>c. o = [m \in D |-> G(m)]
  BY DEF SortOrder
<1>5. \A m \in D : o[m] \in D /\ Cardinality({j \in D : UpTo(keys, j, o[m])}) = m
  <2>1. \A m \in D : G(m) \in D /\ Cardinality({j \in D : UpTo(keys, j, G(m))}) = m
    <3> HIDE DEF D
    <3> QED  BY <1>b
  <2> HIDE DEF G, o, D
  <2> QED  BY <1>c, <2>1
<1> HIDE DEF G
<1>d. \A i \in D : i \in Int /\ keys[i] \in Int
  OBVIOUS
<1> HIDE DEF P, R, D, o
<1>6. \A m \in D : o[m] \in D /\ P(o[m]) = m
  BY <1>4, <1>5
<1>7. o \in [D -> D]
  BY <1>c, <1>6
<1>8. ASSUME NEW i \in D PROVE \E m \in D : o[m] = i
  <2>1. P(i) \in D /\ o[P(i)] \in D /\ P(o[P(i)]) = P(i)
    BY <1>3, <1>6
  <2>2. P(o[P(i)]) <= P(i) /\ P(i) <= P(o[P(i)])
    BY <1>d, <2>1
  <2>3. <<o[P(i)], i>> \in R /\ <<i, o[P(i)]>> \in R
    BY <1>3, <2>1, <2>2
  <2> QED  BY <1>2, <2>1, <2>3 DEF TotalOrder
<1>9. ASSUME NEW l \in D, NEW m \in D, l < m PROVE keys[o[l]] <= keys[o[m]]
  <2>1. o[l] \in D /\ o[m] \in D /\ P(o[l]) = l /\ P(o[m]) = m
    BY <1>6
  <2>2. P(o[l]) <= P(o[m])
    BY <1>9, <1>d, <2>1
  <2>3. UpTo(keys, o[l], o[m])
    BY <1>1, <1>3, <2>1, <2>2
  <2>4. keys[o[l]] \in Int /\ keys[o[m]] \in Int
    BY <1>d, <2>1
  <2> QED  BY <2>3, <2>4 DEF UpTo
<1>10. \A l, m \in D : o[l] = o[m] => l = m
  BY <1>6
<1> QED  BY <1>0, <1>7, <1>8, <1>9, <1>10 DEF o

\* What a filter keeps: the elements at the positions chosen, in their order.
LEMMA Selected ==
  ASSUME NEW T, NEW list \in Seq(T), NEW S \in SUBSET DOMAIN list
  PROVE  LET r == At(list, InOrder(S)) IN
         /\ r \in Seq(T) /\ Len(r) = Cardinality(S) /\ DOMAIN r = 1..Len(r)
         /\ Cardinality(S) \in Nat
         /\ ToSet(r) = {list[i] : i \in S}
         /\ \A m \in DOMAIN r : InOrder(S)[m] \in S /\ r[m] = list[InOrder(S)[m]]
         /\ \A m, n \in DOMAIN r : m < n => InOrder(S)[m] < InOrder(S)[n]
<1> DEFINE o == InOrder(S)
           c == Cardinality(S)
           r == At(list, o)
<1>1. Len(list) \in Nat /\ DOMAIN list = 1..Len(list)
      /\ \A i \in DOMAIN list : list[i] \in T
  BY LenProperties, ElementOfSeq
<1>2. S \in SUBSET Nat /\ IsFiniteSet(S)
  <2>1. S \in SUBSET (1..Len(list))
    BY <1>1
  <2>2. IsFiniteSet(1..Len(list))
    BY <1>1, FS_Interval
  <2>3. S \in SUBSET Nat
    BY <2>1
  <2> QED  BY <2>1, <2>2, <2>3, FS_Subset
<1>3. /\ c \in Nat /\ o \in [1..c -> S]
      /\ \A i \in S : \E n \in 1..c : o[n] = i
      /\ \A m, n \in 1..c : m < n => o[m] < o[n]
  BY <1>2, InOrderFacts
<1> HIDE DEF o, c
<1>4. r = [n \in 1..c |-> list[o[n]]]
  BY <1>3 DEF At
<1>5. r \in [1..c -> T]
  BY <1>1, <1>3, <1>4
<1> HIDE DEF r
<1>6. r \in Seq(T) /\ Len(r) = c /\ DOMAIN r = 1..c
  BY <1>3, <1>5
<1>7. ToSet(r) = {list[i] : i \in S}
  BY <1>3, <1>4, <1>6 DEF ToSet
<1> QED  BY <1>3, <1>4, <1>6, <1>7 DEF o, c, r

\* Sorting by numbers: the same elements, each as often, in order of the keys.
LEMMA Sorted ==
  ASSUME NEW T, NEW list \in Seq(T), NEW keys \in [DOMAIN list -> Int]
  PROVE  LET o == SortOrder(keys)
             r == At(list, o) IN
         /\ r \in Seq(T) /\ Len(r) = Len(list) /\ DOMAIN r = DOMAIN list
         /\ ToSet(r) = ToSet(list)
         /\ o \in [DOMAIN list -> DOMAIN list]
         /\ \A m \in DOMAIN r : r[m] = list[o[m]]
         /\ \A i \in DOMAIN list : \E m \in DOMAIN r : o[m] = i
         /\ \A l, m \in DOMAIN r : l < m => keys[o[l]] <= keys[o[m]]
         /\ \A l, m \in DOMAIN r : o[l] = o[m] => l = m
<1> DEFINE o == SortOrder(keys)
           n == Len(list)
           r == At(list, o)
<1>1. n \in Nat /\ DOMAIN list = 1..n /\ \A i \in 1..n : list[i] \in T
  BY LenProperties, ElementOfSeq
<1>2. /\ o \in [1..n -> 1..n]
      /\ \A i \in 1..n : \E m \in 1..n : o[m] = i
      /\ \A l, m \in 1..n : l < m => keys[o[l]] <= keys[o[m]]
      /\ \A l, m \in 1..n : o[l] = o[m] => l = m
  <2> HIDE DEF n
  <2> QED  BY <1>1, SortOrderFacts
<1> HIDE DEF o, n
<1>3. r = [m \in 1..n |-> list[o[m]]]
  BY <1>2 DEF At
<1>4. r \in [1..n -> T]
  BY <1>1, <1>2, <1>3
<1> HIDE DEF r
<1>5. r \in Seq(T) /\ Len(r) = n /\ DOMAIN r = 1..n
  BY <1>1, <1>4
<1>6. ToSet(r) = ToSet(list)
  <2>1. \A m \in 1..n : r[m] = list[o[m]] /\ o[m] \in 1..n
    BY <1>2, <1>3
  <2>2. ASSUME NEW i \in 1..n PROVE \E m \in 1..n : list[i] = r[m]
    <3>1. PICK m \in 1..n : o[m] = i
      BY <1>2
    <3>2. r[m] = list[i]
      BY <2>1, <3>1
    <3> QED  BY <3>2
  <2>3. ToSet(r) \subseteq ToSet(list)
    <3> SUFFICES ASSUME NEW x \in ToSet(r) PROVE x \in ToSet(list)
      OBVIOUS
    <3>1. PICK m \in 1..n : x = r[m]
      BY <1>5 DEF ToSet
    <3>2. o[m] \in DOMAIN list /\ x = list[o[m]]
      BY <1>1, <2>1, <3>1
    <3> QED  BY <3>2 DEF ToSet
  <2>4. ToSet(list) \subseteq ToSet(r)
    <3> SUFFICES ASSUME NEW i \in 1..n PROVE list[i] \in ToSet(r)
      BY <1>1 DEF ToSet
    <3> QED  BY <1>5, <2>2 DEF ToSet
  <2> QED  BY <2>3, <2>4
<1> QED  BY <1>1, <1>2, <1>3, <1>5, <1>6 DEF o, n, r

\* The elements of two lists, one after the other.
LEMMA Concatenated ==
  ASSUME NEW T, NEW a \in Seq(T), NEW b \in Seq(T)
  PROVE  a \o b \in Seq(T) /\ ToSet(a \o b) = ToSet(a) \cup ToSet(b)
<1> DEFINE c == a \o b
           p == Len(a)
           q == Len(b)
<1>1. /\ c \in Seq(T) /\ DOMAIN c = 1..(p + q)
      /\ DOMAIN a = 1..p /\ DOMAIN b = 1..q /\ p \in Nat /\ q \in Nat
      /\ \A i \in 1..(p + q) : c[i] = IF i <= p THEN a[i] ELSE b[i - p]
  BY ConcatProperties, LenProperties
<1> HIDE DEF c, p, q
<1>2. \A i \in 1..p : i \in 1..(p + q) /\ c[i] = a[i]
  BY <1>1
<1>3. \A i \in 1..q : p + i \in 1..(p + q) /\ c[p + i] = b[i]
  BY <1>1
<1>4. ASSUME NEW x \in ToSet(c) PROVE x \in ToSet(a) \cup ToSet(b)
  <2>1. PICK i \in 1..(p + q) : x = c[i]
    BY <1>1 DEF ToSet
  <2>2. CASE i <= p
    BY <1>1, <2>1, <2>2 DEF ToSet
  <2>3. CASE ~(i <= p)
    <3>1. i - p \in 1..q /\ x = b[i - p]
      BY <1>1, <2>1, <2>3
    <3> QED  BY <1>1, <3>1 DEF ToSet
  <2> QED  BY <2>2, <2>3
<1>5. ToSet(a) \subseteq ToSet(c)
  BY <1>1, <1>2 DEF ToSet
<1>6. ToSet(b) \subseteq ToSet(c)
  <2> SUFFICES ASSUME NEW i \in 1..q PROVE b[i] \in ToSet(c)
    BY <1>1 DEF ToSet
  <2> QED  BY <1>1, <1>3 DEF ToSet
<1> QED  BY <1>1, <1>4, <1>5, <1>6 DEF c

\* The equation of the function by which FlattenSeq is defined.
FlattenEqn(seqs, f) ==
  f = [i \in 1..Len(seqs) |-> IF i = 1 THEN seqs[i] ELSE f[i-1] \o seqs[i]]

FlattenPart(seqs, n, f) ==
  DOMAIN f = 1..n /\ \A i \in 1..n :
    f[i] = IF i = 1 THEN seqs[i] ELSE f[i-1] \o seqs[i]

\* There is one.
LEMMA FlattenExists ==
  ASSUME NEW seqs, Len(seqs) \in Nat
  PROVE  \E f : FlattenEqn(seqs, f)
<1> DEFINE S == {m \in Nat : \E f : FlattenPart(seqs, m, f)}
<1>1. 0 \in S
  <2>1. FlattenPart(seqs, 0, <<>>)
    BY DEF FlattenPart
  <2> QED  BY <2>1
<1>2. ASSUME NEW n \in Nat, n \in S PROVE n + 1 \in S
  <2>1. PICK f : FlattenPart(seqs, n, f)
    BY <1>2
  <2> DEFINE g == [i \in 1..(n + 1) |->
                     IF i = n + 1
                     THEN IF i = 1 THEN seqs[i] ELSE f[n] \o seqs[i]
                     ELSE f[i]]
  <2>2. ASSUME NEW i \in 1..(n + 1)
        PROVE  g[i] = IF i = 1 THEN seqs[i] ELSE g[i-1] \o seqs[i]
    <3>1. CASE i = n + 1
      <4>1. n # 0 => n \in 1..(n + 1) /\ g[n] = f[n] /\ i - 1 = n
        BY <3>1
      <4>2. g[i] = IF i = 1 THEN seqs[i] ELSE f[n] \o seqs[i]
        BY <3>1
      <4>3. i # 1 => n # 0
        BY <3>1
      <4> HIDE DEF g
      <4> QED  BY <4>1, <4>2, <4>3
    <3>2. CASE i # n + 1
      <4>1. i \in 1..n /\ g[i] = f[i]
        BY <3>2
      <4>2. i # 1 => i - 1 \in 1..(n + 1) /\ i - 1 # n + 1
        BY <4>1
      <4>3. i # 1 => g[i-1] = f[i-1]
        BY <4>2
      <4> HIDE DEF g
      <4> QED  BY <2>1, <4>1, <4>3 DEF FlattenPart
    <3> QED  BY <3>1, <3>2
  <2>3. FlattenPart(seqs, n + 1, g)
    <3>1. DOMAIN g = 1..(n + 1)
      OBVIOUS
    <3> HIDE DEF g
    <3> QED  BY <2>2, <3>1 DEF FlattenPart
  <2> QED  BY <2>3
<1>3. \A n \in Nat : n \in S
  <2> HIDE DEF S
  <2> QED  BY <1>1, <1>2, InductionOnSet
<1>4. PICK g : FlattenPart(seqs, Len(seqs), g)
  BY <1>3
<1> DEFINE N == Len(seqs)
           h == [i \in 1..N |-> g[i]]
<1>5. h = [i \in 1..N |-> IF i = 1 THEN seqs[i] ELSE h[i-1] \o seqs[i]]
  <2>1. \A i \in 1..N : i # 1 => i - 1 \in 1..N
    OBVIOUS
  <2> SUFFICES ASSUME NEW i \in 1..N
               PROVE  g[i] = IF i = 1 THEN seqs[i] ELSE h[i-1] \o seqs[i]
    OBVIOUS
  <2> QED  BY <1>4, <2>1 DEF FlattenPart
<1> QED  BY <1>5 DEF FlattenEqn

\* The elements of a list of lists, made one list.
LEMMA Flattened ==
  ASSUME NEW T, NEW seqs \in Seq(Seq(T))
  PROVE  /\ FlattenSeq(seqs) \in Seq(T)
         /\ ToSet(FlattenSeq(seqs)) = UNION {ToSet(seqs[i]) : i \in DOMAIN seqs}
<1> DEFINE N == Len(seqs)
<1>1. N \in Nat /\ DOMAIN seqs = 1..N /\ \A i \in 1..N : seqs[i] \in Seq(T)
  BY LenProperties, ElementOfSeq
<1>2. CASE N = 0
  <2>1. FlattenSeq(seqs) = seqs
    BY <1>2 DEF FlattenSeq
  <2>2. seqs = <<>> /\ DOMAIN seqs = {}
    BY <1>1, <1>2, EmptySeq
  <2> QED  BY <2>1, <2>2, EmptySeq DEF ToSet
<1>3. CASE N # 0
  <2> DEFINE f == CHOOSE f : FlattenEqn(seqs, f)
  <2>1. FlattenSeq(seqs) = f[N]
    BY <1>3 DEF FlattenSeq, FlattenEqn
  <2>2. FlattenEqn(seqs, f)
    BY <1>1, FlattenExists
  <2> HIDE DEF f
  <2>3. f[1] = seqs[1] /\ \A i \in 1..N : i # 1 => f[i] = f[i-1] \o seqs[i]
    <3> DEFINE Body(i) == IF i = 1 THEN seqs[i] ELSE f[i-1] \o seqs[i]
    <3>1. f = [i \in 1..N |-> Body(i)]
      BY <2>2 DEF FlattenEqn
    <3>2. \A i \in 1..N : f[i] = Body(i)
      <4> HIDE DEF Body, N
      <4> QED  BY <3>1
    <3>3. 1 \in 1..N
      BY <1>1, <1>3
    <3> HIDE DEF N
    <3> QED  BY <3>2, <3>3
  <2> DEFINE Upto(n) == UNION {ToSet(seqs[i]) : i \in 1..n}
             S == {m \in Nat : m + 1 <= N =>
                     f[m + 1] \in Seq(T) /\ ToSet(f[m + 1]) = Upto(m + 1)}
  <2>4. 0 \in S
    <3>1. Upto(1) = ToSet(seqs[1])
      OBVIOUS
    <3> QED  BY <1>1, <1>3, <2>3, <3>1
  <2>5. ASSUME NEW n \in Nat, n \in S PROVE n + 1 \in S
    <3>1. SUFFICES ASSUME n + 2 <= N
                   PROVE  f[n + 2] \in Seq(T) /\ ToSet(f[n + 2]) = Upto(n + 2)
      <4>1. (n + 1) + 1 = n + 2
        OBVIOUS
      <4> HIDE DEF Upto
      <4> QED  BY <4>1
    <3>2. f[n + 1] \in Seq(T) /\ ToSet(f[n + 1]) = Upto(n + 1)
      BY <1>1, <2>5, <3>1
    <3>3. seqs[n + 2] \in Seq(T)
      BY <1>1, <3>1
    <3>4. f[n + 2] = f[n + 1] \o seqs[n + 2]
      <4>1. n + 2 \in 1..N /\ n + 2 # 1 /\ (n + 2) - 1 = n + 1
        BY <1>1, <3>1
      <4> QED  BY <2>3, <4>1
    <3>5. Upto(n + 2) = Upto(n + 1) \cup ToSet(seqs[n + 2])
      <4>1. 1..(n + 2) = 1..(n + 1) \cup {n + 2}
        OBVIOUS
      <4> QED  BY <4>1
    <3> HIDE DEF Upto
    <3>6. /\ f[n + 1] \o seqs[n + 2] \in Seq(T)
          /\ ToSet(f[n + 1] \o seqs[n + 2]) = ToSet(f[n + 1]) \cup ToSet(seqs[n + 2])
      BY <3>2, <3>3, Concatenated
    <3> QED  BY <3>2, <3>4, <3>5, <3>6
  <2>6. \A n \in Nat : n \in S
    <3> HIDE DEF S
    <3> QED  BY <2>4, <2>5, InductionOnSet
  <2>7. N - 1 \in Nat /\ (N - 1) + 1 = N
    BY <1>1, <1>3
  <2>8. f[N] \in Seq(T) /\ ToSet(f[N]) = Upto(N)
    <3> DEFINE K == N - 1
    <3>1. K \in Nat /\ K + 1 = N /\ K + 1 <= N
      BY <1>1, <2>7
    <3> HIDE DEF Upto, N, K
    <3>2. f[K + 1] \in Seq(T) /\ ToSet(f[K + 1]) = Upto(K + 1)
      BY <2>6, <3>1
    <3> QED  BY <3>1, <3>2
  <2> QED  BY <1>1, <2>1, <2>8
<1> QED  BY <1>2, <1>3

-----------------------------------------------------------------------------
(* Reading tools.                                                          *)

Members == [id : Users, role : Roles \cup {None}]

\* A call that was made, with the fields it has from then on.
CallShape(c) ==
  c = [stage |-> c.stage, tool |-> c.tool, args |-> c.args, got |-> c.got,
       result |-> c.result]

Asking(c) == \E d \in Calls : c.tool = d.tool /\ c.args = d.args

CallTypeOK ==
  /\ role \in [Courses -> [Users -> Roles \cup {None}]]
  /\ grade \in [Columns -> [Users -> Scores \cup {None, Unscored}]]
  /\ attempts \in [Columns -> Seq(Users)]
  /\ \/ call = NotMade
     \/ /\ CallShape(call) /\ Asking(call)
        /\ call.stage \in {"running", "returned", "thrown"}
  /\ children \in SUBSET Users

\* A roster that has the caller as an observer shows only students who were the
\* caller's children when it was read.
RosterOf(list, caller, shown) ==
  /\ list \in Seq(Members)
  /\ IsObserver(list, caller) =>
       \A m \in ToSet(list) : m.id # caller /\ m.role = "Student" => m.id \in shown

\* What a parent tool has read so far shows only children of the caller.
ParentReads(got, caller, shown) ==
  /\ \A u \in Users : Got(got, <<"courses", u>>) \in Seq(Courses)
  /\ Got(got, <<"courses", caller>>) \in Seq(Courses)
  /\ \A k \in Courses : RosterOf(Got(got, <<"roster", k>>), caller, shown)

ParentInv ==
  call.stage = "running" /\ call.tool \in Parental =>
    /\ ChildrenOf(call.args.user) \subseteq children
    /\ ParentReads(call.got, call.args.user, children)

\* Lies between what was always so and what was so at some time.
Between(always, set, ever) == always \subseteq set /\ set \subseteq ever

Ids(members) == {m.id : m \in ToSet(members)}

\* What a call of get_submission_status has read so far was on the two pages at
\* some time, and what was there all the time is in it.
StatusReads(got, args, seen) ==
  /\ <<"attempts", args.column>> \in DOMAIN got =>
       Between(seen.alwaysSubmitting,
               ToSet(Got(got, <<"attempts", args.column>>)), seen.everSubmitting)
  /\ <<"roster", args.course>> \in DOMAIN got =>
       Between(seen.alwaysEnrolled,
               Ids(Got(got, <<"roster", args.course>>)), seen.everEnrolled)
  /\ Got(got, <<"roster", args.course>>) \in Seq(Members)

\* So has what is on the pages now.
StatusNow(args, seen) ==
  /\ Between(seen.alwaysSubmitting, Submitting(args.column), seen.everSubmitting)
  /\ Between(seen.alwaysEnrolled, OnRoster(args.course), seen.everEnrolled)

StatusInv ==
  call.stage = "running" /\ call.tool = "get_submission_status" =>
    StatusNow(call.args, span) /\ StatusReads(call.got, call.args, span)

CallInv ==
  /\ CallTypeOK /\ ParentInv /\ StatusInv
  /\ ShownChildrenWereObserved /\ StatusIsOfTheCall

\* A list whose elements are in a set is a list over that set.
LEMMA ListOver ==
  ASSUME NEW T, NEW s \in Seq(T), NEW K, ToSet(s) \subseteq K
  PROVE  s \in Seq(K) /\ Len(s) \in Nat /\ DOMAIN s = 1..Len(s)
         /\ \A i \in DOMAIN s : s[i] \in K
<1>1. /\ Len(s) \in Nat /\ DOMAIN s = 1..Len(s)
      /\ s \in [1..Len(s) -> T]
  BY LenProperties
<1>2. \A i \in DOMAIN s : s[i] \in K
  BY DEF ToSet
<1>3. s \in [1..Len(s) -> K]
  BY <1>1, <1>2
<1> QED  BY <1>1, <1>2, <1>3

\* The page of a list that is read is a first part of it, the whole list if it
\* is not full.
LEMMA PageOf ==
  ASSUME NEW T, NEW list \in Seq(T), NEW n \in Nat \ {0}
  PROVE  LET p == FirstPage(list, n) IN
         /\ p \in Seq(T) /\ Len(p) \in Nat /\ DOMAIN p = 1..Len(p)
         /\ Len(p) = IF Len(list) <= n THEN Len(list) ELSE n
         /\ \A i \in DOMAIN p : i \in DOMAIN list /\ p[i] = list[i]
         /\ ToSet(p) \subseteq ToSet(list)
         /\ Len(p) < n => p = list
<1> DEFINE p == FirstPage(list, n)
<1>1. /\ Len(list) \in Nat /\ DOMAIN list = 1..Len(list)
      /\ \A i \in DOMAIN list : list[i] \in T
  BY LenProperties, ElementOfSeq
<1>2. CASE Len(list) <= n
  <2>1. p = list
    BY <1>2 DEF FirstPage
  <2> HIDE DEF p
  <2>2. p \in Seq(T) /\ Len(p) = Len(list) /\ DOMAIN p = 1..Len(p)
    BY <1>1, <2>1
  <2> QED  BY <1>1, <1>2, <2>1, <2>2 DEF p
<1>3. CASE ~(Len(list) <= n)
  <2>1. p = SubSeq(list, 1, n)
    BY <1>3 DEF FirstPage
  <2> HIDE DEF p
  <2>2. 1 <= n /\ n - 1 + 1 = n /\ \A i \in 1..n : i \in DOMAIN list /\ 1 + i - 1 = i
    BY <1>1, <1>3
  <2>3. /\ p \in Seq(T) /\ Len(p) = n
        /\ \A i \in 1..n : p[i] = list[i]
    BY <1>1, <2>1, <2>2, SubSeqProperties
  <2>4. DOMAIN p = 1..n
    BY <2>3, LenProperties
  <2>5. ToSet(p) \subseteq ToSet(list)
    BY <2>2, <2>3, <2>4 DEF ToSet
  <2> QED  BY <1>3, <2>2, <2>3, <2>4, <2>5 DEF p
<1> QED  BY <1>1, <1>2, <1>3

\* Every resource has a page.
LEMMA Limits == \A resource \in Resources : Limit[resource] \in Nat \ {0}
  BY ReportsAssumption

\* The courses of the caller are courses, whenever they are asked for.
LEMMA CoursesAnswer ==
  ASSUME NEW u
  PROVE  /\ Answer(<<"courses", u>>) \in Seq(Courses)
         /\ ToSet(Answer(<<"courses", u>>)) \subseteq {k \in Courses : role[k][u] # None}
<1> DEFINE S == {i \in DOMAIN CourseList : role[CourseList[i]][u] # None}
           all == At(CourseList, InOrder(S))
<1>1. Answer(<<"courses", u>>) = FirstPage(all, Limit["courses"])
  BY DEF Answer, Held, Resources, Filter
<1>2. CourseList \in Seq(Courses)
  BY ReportsAssumption
<1>3. all \in Seq(Courses) /\ ToSet(all) = {CourseList[i] : i \in S}
  <2> HIDE DEF S
  <2>1. S \in SUBSET DOMAIN CourseList
    BY DEF S
  <2> QED  BY <1>2, <2>1, Selected
<1>4. {CourseList[i] : i \in S} = {k \in Courses : role[k][u] # None}
  BY DEF Courses, ToSet
<1> HIDE DEF all, S
<1>5. Limit["courses"] \in Nat \ {0}
  BY Limits DEF Resources
<1>6. /\ FirstPage(all, Limit["courses"]) \in Seq(Courses)
      /\ ToSet(FirstPage(all, Limit["courses"])) \subseteq ToSet(all)
  BY <1>3, <1>5, PageOf
<1>7. ToSet(all) = {k \in Courses : role[k][u] # None}
  BY <1>3, <1>4
<1> QED  BY <1>1, <1>6, <1>7

\* A roster has whoever has a role in the course, with it where roles are shown.
LEMMA RosterHolds ==
  ASSUME CallTypeOK, NEW k \in Courses
  PROVE  /\ Roster(k) \in Seq(Members)
         /\ ToSet(Roster(k)) = {Member(k, u) : u \in {v \in Users : role[k][v] # None}}
<1> DEFINE S == {i \in DOMAIN UserList : role[k][UserList[i]] # None}
           e == At(UserList, InOrder(S))
           R == [i \in DOMAIN e |-> Member(k, e[i])]
<1>2. Roster(k) = R
  BY DEF Roster, Filter
<1>3. UserList \in Seq(Users) /\ S \in SUBSET DOMAIN UserList
  BY ReportsAssumption
<1>4. {UserList[i] : i \in S} = {v \in Users : role[k][v] # None}
  BY DEF Users, ToSet
<1> HIDE DEF S
<1>5. e \in Seq(Users) /\ ToSet(e) = {v \in Users : role[k][v] # None}
  BY <1>3, <1>4, Selected
<1>6. Len(e) \in Nat /\ DOMAIN e = 1..Len(e) /\ \A i \in DOMAIN e : e[i] \in Users
  BY <1>5, LenProperties, ElementOfSeq
<1> HIDE DEF e
<1>7. \A u \in Users : Member(k, u) \in Members
  BY DEF CallTypeOK, Member, Members
<1>8. R \in [1..Len(e) -> Members]
  BY <1>6, <1>7
<1>9. R \in Seq(Members)
  BY <1>6, <1>8
<1>10. ToSet(R) = {Member(k, e[i]) : i \in DOMAIN e}
  <2> DEFINE M(u) == Member(k, u)
  <2> HIDE DEF M
  <2>1. R = [i \in DOMAIN e |-> M(e[i])]
    BY DEF M
  <2>2. ToSet(R) = {M(e[i]) : i \in DOMAIN e}
    BY <2>1 DEF ToSet
  <2> QED  BY <2>2 DEF M
<1>11. {Member(k, e[i]) : i \in DOMAIN e} = {Member(k, u) : u \in ToSet(e)}
  BY DEF ToSet
<1> QED  BY <1>2, <1>5, <1>9, <1>10, <1>11

\* The page of the roster that is read.
LEMMA RosterAnswer ==
  ASSUME CallTypeOK, NEW k \in Courses
  PROVE  /\ Answer(<<"roster", k>>) = FirstPage(Roster(k), Limit["roster"])
         /\ Answer(<<"roster", k>>) \in Seq(Members)
         /\ ToSet(Answer(<<"roster", k>>))
              \subseteq {Member(k, u) : u \in {v \in Users : role[k][v] # None}}
<1>1. Answer(<<"roster", k>>) = FirstPage(Roster(k), Limit["roster"])
  BY DEF Answer, Held, Resources
<1>2. Limit["roster"] \in Nat \ {0}
  BY Limits DEF Resources
<1> QED  BY <1>1, <1>2, RosterHolds, PageOf

\* A roster read while the caller observes the course shows the caller's children
\* of that moment.
LEMMA RosterShowsChildren ==
  ASSUME CallTypeOK, NEW k \in Courses, NEW caller, NEW shown,
         ChildrenOf(caller) \subseteq shown
  PROVE  RosterOf(Answer(<<"roster", k>>), caller, shown)
<1> DEFINE R == Answer(<<"roster", k>>)
<1>1. /\ R \in Seq(Members)
      /\ ToSet(R) \subseteq {Member(k, u) : u \in {v \in Users : role[k][v] # None}}
  BY RosterAnswer
<1> HIDE DEF R
<1>2. ASSUME IsObserver(R, caller), NEW m \in ToSet(R),
             m.id # caller, m.role = "Student"
      PROVE  m.id \in shown
  <2>1. PICK o \in ToSet(R) : o.id = caller /\ o.role = "Observer"
    BY <1>2 DEF IsObserver
  <2>2. PICK u \in Users : m = Member(k, u)
    BY <1>1
  <2>3. PICK v \in Users : o = Member(k, v)
    BY <1>1
  <2>4. RolesShown /\ v = caller /\ role[k][caller] = "Observer"
    BY <2>1, <2>3, ReportsAssumption DEF Member
  <2>5. u = m.id /\ role[k][u] = "Student"
    BY <1>2, <2>2, <2>4 DEF Member
  <2> QED  BY <1>2, <2>3, <2>4, <2>5 DEF ChildrenOf
<1> QED  BY <1>1, <1>2 DEF RosterOf, R

\* The children resolved are children that the rosters read have shown.
LEMMA ResolvedChildren ==
  ASSUME NEW got, NEW caller, NEW shown \in SUBSET Users,
         ParentReads(got, caller, shown)
  PROVE  ResolveChildren(caller, got).result \in Seq(shown)
<1> DEFINE courses == Got(got, <<"courses", caller>>)
           reads == ForEach(courses, LAMBDA k : <<"roster", k>>)
           kept(list) == {i \in DOMAIN list :
                            list[i].id # caller /\ list[i].role = "Student"}
           childrenIn(list) == IF ~IsObserver(list, caller) THEN <<>>
                               ELSE At(list, InOrder(kept(list)))
           lists == [i \in DOMAIN reads |-> childrenIn(Got(got, reads[i]))]
           found == FlattenSeq(lists)
           each == [i \in DOMAIN found |-> i]
           first == At(each, InOrder({n \in DOMAIN each :
                      \A j \in 1..(each[n] - 1) : found[j].id # found[each[n]].id}))
           K == {m \in Members : m.id \in shown}
<1>1. ResolveChildren(caller, got).result = [n \in DOMAIN first |-> found[first[n]].id]
  BY DEF ResolveChildren, ForEach, Filter
<1>2. courses \in Seq(Courses) /\ Len(courses) \in Nat
      /\ DOMAIN courses = 1..Len(courses)
      /\ \A i \in DOMAIN courses : courses[i] \in Courses
  BY LenProperties, ElementOfSeq DEF ParentReads
<1> HIDE DEF courses
<1>3. reads = [i \in DOMAIN courses |-> <<"roster", courses[i]>>]
  BY DEF ForEach
<1> HIDE DEF reads
<1>4. ASSUME NEW list, RosterOf(list, caller, shown)
      PROVE  childrenIn(list) \in Seq(K)
  <2>1. CASE ~IsObserver(list, caller)
    BY <2>1
  <2>2. CASE IsObserver(list, caller)
    <3> DEFINE S == kept(list)
               r == At(list, InOrder(S))
    <3>1. list \in Seq(Members) /\ S \in SUBSET DOMAIN list
      BY <1>4 DEF RosterOf
    <3>2. \A i \in S : list[i] \in ToSet(list) /\ list[i] \in Members
                       /\ list[i].id # caller /\ list[i].role = "Student"
      BY <3>1, LenProperties, ElementOfSeq DEF ToSet
    <3> HIDE DEF S
    <3>3. r \in Seq(Members) /\ ToSet(r) = {list[i] : i \in S}
      BY <3>1, Selected
    <3>4. \A i \in S : list[i] \in K
      BY <1>4, <2>2, <3>2 DEF RosterOf
    <3>5. ToSet(r) \subseteq K
      BY <3>3, <3>4
    <3> HIDE DEF r, K
    <3>6. r \in Seq(K)
      BY <3>3, <3>5, ListOver
    <3> QED  BY <2>2, <3>6 DEF r, S
  <2> QED  BY <2>1, <2>2
<1> HIDE DEF childrenIn, K
<1>5. \A i \in 1..Len(courses) : childrenIn(Got(got, reads[i])) \in Seq(K)
  BY <1>2, <1>3, <1>4 DEF ParentReads
<1>6. lists \in Seq(Seq(K))
  <2>1. lists = [i \in 1..Len(courses) |-> childrenIn(Got(got, reads[i]))]
    BY <1>2, <1>3
  <2>2. lists \in [1..Len(courses) -> Seq(K)]
    BY <1>5, <2>1
  <2> HIDE DEF lists
  <2> QED  BY <1>2, <2>2
<1> HIDE DEF lists
<1>7. found \in Seq(K)
  BY <1>6, Flattened
<1>8. Len(found) \in Nat /\ DOMAIN found = 1..Len(found)
      /\ \A i \in DOMAIN found : found[i] \in K
  BY <1>7, LenProperties, ElementOfSeq
<1> HIDE DEF found
<1>9. each \in Seq(DOMAIN found)
  <2>1. each \in [1..Len(found) -> DOMAIN found]
    BY <1>8
  <2> HIDE DEF each
  <2> QED  BY <1>8, <2>1
<1> HIDE DEF each
<1>10. first \in Seq(DOMAIN found)
  <2> DEFINE S == {n \in DOMAIN each :
                     \A j \in 1..(each[n] - 1) : found[j].id # found[each[n]].id}
  <2>1. S \in SUBSET DOMAIN each
    OBVIOUS
  <2> HIDE DEF S
  <2> QED  BY <1>9, <2>1, Selected DEF S
<1>11. Len(first) \in Nat /\ DOMAIN first = 1..Len(first)
       /\ \A n \in DOMAIN first : first[n] \in DOMAIN found
  BY <1>10, LenProperties, ElementOfSeq
<1> HIDE DEF first
<1>12. [n \in DOMAIN first |-> found[first[n]].id] \in [1..Len(first) -> shown]
  BY <1>8, <1>11 DEF K
<1> QED  BY <1>1, <1>11, <1>12

\* The children asked for are among those resolved.
LEMMA TargetsShown ==
  ASSUME NEW got, NEW args, NEW shown \in SUBSET Users,
         ParentReads(got, args.user, shown)
  PROVE  /\ Targets(args, got) \in Seq(shown)
         /\ Len(Targets(args, got)) \in Nat
         /\ DOMAIN Targets(args, got) = 1..Len(Targets(args, got))
         /\ \A i \in DOMAIN Targets(args, got) : Targets(args, got)[i] \in shown
<1> DEFINE all == ResolveChildren(args.user, got).result
           S == {i \in DOMAIN all : args.child \in {None, all[i]}}
<1>1. all \in Seq(shown)
  BY ResolvedChildren
<1>2. Targets(args, got) = At(all, InOrder(S))
  BY DEF Targets, Filter
<1> HIDE DEF all
<1>3. S \in SUBSET DOMAIN all
  OBVIOUS
<1> HIDE DEF S
<1>4. Targets(args, got) \in Seq(shown)
  BY <1>1, <1>2, <1>3, Selected
<1> QED  BY <1>4, LenProperties, ElementOfSeq

\* The courses of a child that are asked for.
LEMMA CoursesForList ==
  ASSUME NEW got, NEW args, NEW u, Got(got, <<"courses", u>>) \in Seq(Courses)
  PROVE  /\ CoursesFor(args, got, u) \in Seq(Courses)
         /\ Len(CoursesFor(args, got, u)) \in Nat
         /\ DOMAIN CoursesFor(args, got, u) = 1..Len(CoursesFor(args, got, u))
<1> DEFINE all == Got(got, <<"courses", u>>)
           S == {i \in DOMAIN all : args.course \in {None, all[i]}}
<1>1. CoursesFor(args, got, u) = At(all, InOrder(S))
  BY DEF CoursesFor, Filter
<1> HIDE DEF all
<1>2. S \in SUBSET DOMAIN all
  OBVIOUS
<1> HIDE DEF S
<1>3. CoursesFor(args, got, u) \in Seq(Courses)
  BY <1>1, <1>2, Selected DEF all
<1> QED  BY <1>3, LenProperties

\* Lists of rows about children shown, Size[i] of them in the i-th.
RowLists(lists, n, Size, shown) ==
  /\ n \in Nat /\ Size \in [1..n -> Nat]
  /\ lists = [i \in 1..n |-> lists[i]]
  /\ \A i \in 1..n : lists[i] = [j \in 1..Size[i] |-> lists[i][j]]
  /\ \A i \in 1..n : \A j \in 1..Size[i] : lists[i][j].child \in shown

\* They make one list of rows about children shown.
LEMMA RowsShown ==
  ASSUME NEW shown, NEW n, NEW Size, NEW lists, RowLists(lists, n, Size, shown)
  PROVE  \A row \in ToSet(FlattenSeq(lists)) : row.child \in shown
<1> USE DEF RowLists
<1> DEFINE T == {row \in UNION {ToSet(lists[i]) : i \in 1..n} : row.child \in shown}
<1>1. ASSUME NEW i \in 1..n PROVE lists[i] \in Seq(T)
  <2>1. DOMAIN lists[i] = 1..Size[i] /\ Size[i] \in Nat
    OBVIOUS
  <2>2. \A j \in 1..Size[i] : lists[i][j] \in T
    BY <2>1 DEF ToSet
  <2> HIDE DEF T
  <2>3. lists[i] \in [1..Size[i] -> T]
    BY <2>2
  <2> QED  BY <2>1, <2>3
<1> HIDE DEF T
<1>2. lists \in [1..n -> Seq(T)]
  BY <1>1
<1>3. lists \in Seq(Seq(T))
  BY <1>2
<1>4. ToSet(FlattenSeq(lists)) \subseteq T
  <2>1. FlattenSeq(lists) \in Seq(T)
    BY <1>3, Flattened
  <2> QED  BY <2>1, LenProperties, ElementOfSeq DEF ToSet
<1> QED  BY <1>4 DEF T

\* Every row of a parent tool is about a child the rosters have shown.
LEMMA ParentResults ==
  ASSUME NEW got, NEW args, NEW shown \in SUBSET Users,
         ParentReads(got, args.user, shown)
  PROVE  /\ ToSet(GetMyChildren(args, got).result) \subseteq shown
         /\ \A row \in ToSet(GetChildrenCourses(args, got).result) : row.child \in shown
         /\ \A row \in ToSet(GetChildrenGrades(args, got).result) : row.child \in shown
         /\ \A row \in ToSet(GetChildrenUpcomingAssignments(args, got).result) :
              row.child \in shown
         /\ \A row \in ToSet(GetChildrenAnnouncements(args, got).result) :
              row.child \in shown
<1> DEFINE cs == Targets(args, got)
           n == Len(cs)
           C(u) == CoursesFor(args, got, u)
           Size == [i \in 1..n |-> Len(C(cs[i]))]
<1>1. n \in Nat /\ DOMAIN cs = 1..n /\ \A i \in 1..n : cs[i] \in shown
  BY TargetsShown
<1>2. \A i \in 1..n : Len(C(cs[i])) \in Nat /\ DOMAIN C(cs[i]) = 1..Len(C(cs[i]))
  BY <1>1, CoursesForList DEF ParentReads
<1> HIDE DEF cs, n, C
<1>3. Size \in [1..n -> Nat]
  BY <1>2
<1>4. ToSet(GetMyChildren(args, got).result) \subseteq shown
  <2>1. GetMyChildren(args, got).result \in Seq(shown)
    BY ResolvedChildren DEF GetMyChildren
  <2> QED  BY <2>1, LenProperties, ElementOfSeq DEF ToSet
<1>5. \A row \in ToSet(GetChildrenCourses(args, got).result) : row.child \in shown
  <2> DEFINE list(u) == Got(got, <<"courses", u>>)
             R == [i \in DOMAIN cs |->
                     [child |-> cs[i],
                      courses |-> [j \in DOMAIN list(cs[i]) |->
                        [course |-> list(cs[i])[j],
                         status |-> IF Availability[list(cs[i])[j]] # None
                                    THEN "Active" ELSE "Inactive"]]]]
  <2>1. GetChildrenCourses(args, got).result = R
    BY DEF GetChildrenCourses, ForEach, cs
  <2>2. DOMAIN R = 1..n /\ \A i \in 1..n : R[i].child = cs[i]
    BY <1>1
  <2> HIDE DEF R
  <2> QED  BY <1>1, <2>1, <2>2 DEF ToSet
<1>6. \A row \in ToSet(GetChildrenGrades(args, got).result) : row.child \in shown
  <2> DEFINE row(u, k) == [child |-> u, course |-> k,
                           average |-> Average(Got(got, <<"grades", k, u>>)),
                           grades |-> Got(got, <<"grades", k, u>>)]
             R == [i \in DOMAIN cs |->
                     [j \in DOMAIN C(cs[i]) |-> row(cs[i], C(cs[i])[j])]]
  <2>1. GetChildrenGrades(args, got).result = FlattenSeq(R)
    BY DEF GetChildrenGrades, PerChildCourse, ForEach, cs, C
  <2>2. \A u, k : row(u, k).child = u
    OBVIOUS
  <2> HIDE DEF row
  <2>3. RowLists(R, n, Size, shown)
    BY <1>1, <1>2, <1>3, <2>2 DEF RowLists
  <2> HIDE DEF R, Size
  <2> QED  BY <2>1, <2>3, RowsShown
<1>7. \A row \in ToSet(GetChildrenUpcomingAssignments(args, got).result) :
        row.child \in shown
  <2> DEFINE row(u, k) ==
               [child |-> u, course |-> k,
                upcoming |-> SortedBy(Filter(Got(got, <<"columns", k, u>>), LAMBDA c :
                               DueWithin(c, args.daysAhead)), DaysUntil)]
             R == [i \in DOMAIN cs |->
                     [j \in DOMAIN C(cs[i]) |-> row(cs[i], C(cs[i])[j])]]
  <2>1. GetChildrenUpcomingAssignments(args, got).result = FlattenSeq(R)
    BY DEF GetChildrenUpcomingAssignments, PerChildCourse, ForEach, cs, C
  <2>2. \A u, k : row(u, k).child = u
    OBVIOUS
  <2> HIDE DEF row
  <2>3. RowLists(R, n, Size, shown)
    BY <1>1, <1>2, <1>3, <2>2 DEF RowLists
  <2> HIDE DEF R, Size
  <2> QED  BY <2>1, <2>3, RowsShown
<1>8. \A row \in ToSet(GetChildrenAnnouncements(args, got).result) :
        row.child \in shown
  <2> DEFINE row(u, k) == [child |-> u, course |-> k,
                           announcements |-> Got(got, <<"announcements", k, u>>)]
             R == [i \in DOMAIN cs |->
                     [j \in DOMAIN C(cs[i]) |-> row(cs[i], C(cs[i])[j])]]
  <2>1. GetChildrenAnnouncements(args, got).result = FlattenSeq(R)
    BY DEF GetChildrenAnnouncements, PerChildCourse, ForEach, cs, C
  <2>2. \A u, k : row(u, k).child = u
    OBVIOUS
  <2> HIDE DEF row
  <2>3. RowLists(R, n, Size, shown)
    BY <1>1, <1>2, <1>3, <2>2 DEF RowLists
  <2> HIDE DEF R, Size
  <2> QED  BY <2>1, <2>3, RowsShown
<1> QED  BY <1>4, <1>5, <1>6, <1>7, <1>8

\* What Got finds once one more read is answered.
LEMMA GotMore ==
  ASSUME NEW got, NEW r, NEW x
  PROVE  Got([s \in DOMAIN got \cup {r} |-> IF s = r THEN Answer(r) ELSE got[s]], x)
           = IF x = r THEN Answer(r) ELSE Got(got, x)
  BY DEF Got

\* One more answer keeps to what the caller's children are at its moment.
LEMMA ParentReadsAnswered ==
  ASSUME CallTypeOK, NEW got, NEW caller, NEW shown, NEW r,
         ChildrenOf(caller) \subseteq shown, ParentReads(got, caller, shown)
  PROVE  ParentReads([s \in DOMAIN got \cup {r} |->
                        IF s = r THEN Answer(r) ELSE got[s]], caller, shown)
<1> DEFINE new == [s \in DOMAIN got \cup {r} |-> IF s = r THEN Answer(r) ELSE got[s]]
<1>1. \A x : Got(new, x) = IF x = r THEN Answer(r) ELSE Got(got, x)
  BY GotMore
<1> HIDE DEF new
<1>2. ASSUME NEW u, Got(got, <<"courses", u>>) \in Seq(Courses)
      PROVE  Got(new, <<"courses", u>>) \in Seq(Courses)
  BY <1>1, <1>2, CoursesAnswer
<1>3. ASSUME NEW k \in Courses
      PROVE  RosterOf(Got(new, <<"roster", k>>), caller, shown)
  BY <1>1, RosterShowsChildren DEF ParentReads
<1> QED  BY <1>2, <1>3 DEF ParentReads, new

\* Nothing has been read yet.
LEMMA ParentReadsNothing ==
  ASSUME NEW caller, NEW shown
  PROVE  ParentReads(<<>>, caller, shown)
<1>1. \A x : Got(<<>>, x) = <<>>
  BY DEF Got
<1>2. <<>> \in Seq(Courses) /\ <<>> \in Seq(Members) /\ ToSet(<<>>) = {}
  BY EmptySeq DEF ToSet
<1> QED  BY <1>1, <1>2 DEF ParentReads, RosterOf, IsObserver

\* More children may have been seen since.
LEMMA ParentReadsGrow ==
  ASSUME NEW got, NEW caller, NEW shown, NEW more, shown \subseteq more,
         ParentReads(got, caller, shown)
  PROVE  ParentReads(got, caller, more)
  BY DEF ParentReads, RosterOf

-----------------------------------------------------------------------------
(* The submission status.                                                  *)

\* When the status returns, both reads are answered; whoever is missing is on the
\* roster read and not among the attempts read, and everybody else who is on it
\* is among them.
LEMMA StatusResult ==
  ASSUME NEW args, NEW got,
         Got(got, <<"roster", args.course>>) \in Seq(Members)
  PROVE  LET a == <<"attempts", args.column>>
             b == <<"roster", args.course>>
             status == GetSubmissionStatus(args, got)
         IN  /\ Waiting(status.waves, got) = {} => a \in DOMAIN got /\ b \in DOMAIN got
             /\ ToSet(status.result.missingUsers) = Ids(Got(got, b)) \ ToSet(Got(got, a))
             /\ status.result.submittedUsers = Got(got, a)
<1> DEFINE submitted == <<"attempts", args.column>>
           roster == <<"roster", args.course>>
           enrolled == Got(got, roster)
           by == ToSet(Got(got, submitted))
           S == {i \in DOMAIN enrolled : enrolled[i].id \notin by}
           missing == At(enrolled, InOrder(S))
           users == [i \in DOMAIN missing |-> missing[i].id]
           wave == {submitted, roster}
           status == GetSubmissionStatus(args, got)
<1>1. /\ status.waves = <<wave>> /\ status.result.missingUsers = users
      /\ status.result.submittedUsers = Got(got, submitted)
  BY DEF GetSubmissionStatus, Submitters, Filter, ForEach
<1>2. Waiting(<<wave>>, got) = {} => wave \subseteq DOMAIN got
  <2> SUFFICES ASSUME ~(wave \subseteq DOMAIN got)
               PROVE  Waiting(<<wave>>, got) # {}
    OBVIOUS
  <2> DEFINE w == <<wave>>
             open == {i \in DOMAIN w : ~(w[i] \subseteq DOMAIN got)}
  <2>1. open = { 1 } /\ w[1] = wave
    OBVIOUS
  <2>2. Min({ 1 }) = 1
    BY DEF Min
  <2>3. Waiting(w, got) = IF open = {} THEN {} ELSE w[Min(open)] \ DOMAIN got
    BY DEF Waiting
  <2> HIDE DEF open, w, wave
  <2>4. Waiting(w, got) = wave \ DOMAIN got
    BY <2>1, <2>2, <2>3
  <2> QED  BY <2>4 DEF w
<1>3. ToSet(users) = Ids(enrolled) \ by
  <2>1. S \in SUBSET DOMAIN enrolled
    OBVIOUS
  <2>2. ToSet(missing) = {enrolled[i] : i \in S}
    <3> HIDE DEF S
    <3> QED  BY <2>1, Selected
  <2>3. {enrolled[i] : i \in S} = {m \in ToSet(enrolled) : m.id \notin by}
    BY DEF ToSet
  <2>4. ToSet(users) = {m.id : m \in ToSet(missing)}
    <3> HIDE DEF missing
    <3> QED  BY DEF ToSet
  <2> HIDE DEF users, missing, S
  <2>5. ToSet(users) = {m.id : m \in {e \in ToSet(enrolled) : e.id \notin by}}
    BY <2>2, <2>3, <2>4
  <2> HIDE DEF enrolled, by
  <2> QED  BY <2>5 DEF Ids
<1> HIDE DEF users, status, enrolled
<1>4. Waiting(status.waves, got) = {} => submitted \in DOMAIN got /\ roster \in DOMAIN got
  BY <1>1, <1>2
<1> QED  BY <1>1, <1>3, <1>4 DEF status, enrolled

\* What the pages read show is unchanged while Blackboard is.
LEMMA SameWorld ==
  ASSUME world' = world
  PROVE  /\ \A u : ChildrenOf(u)' = ChildrenOf(u)
         /\ \A c : Submitting(c)' = Submitting(c)
         /\ \A k : OnRoster(k)' = OnRoster(k)
<1>1. \A u : ChildrenOf(u)' = ChildrenOf(u)
  BY DEF ChildrenOf, world
<1>2. \A c : Answer(<<"attempts", c>>)' = Answer(<<"attempts", c>>)
  BY DEF Answer, Held, Resources, world
<1>3. \A k : Answer(<<"roster", k>>)' = Answer(<<"roster", k>>)
  BY DEF Answer, Held, Resources, Roster, Member, Filter, world
<1> QED  BY <1>1, <1>2, <1>3 DEF Submitting, OnRoster

-----------------------------------------------------------------------------
(* The call, step by step.                                                 *)

\* A call under way has been made.
LEMMA Running ==
  ASSUME CallTypeOK, call.stage = "running"
  PROVE  CallShape(call) /\ Asking(call)
<1>1. NotMade.stage # "running"
  BY DEF NotMade
<1>2. call # NotMade
  BY <1>1
<1> QED  BY <1>2 DEF CallTypeOK

\* A call that has ended.
LEMMA Ended ==
  ASSUME CallTypeOK, call.stage = "running",
         NEW stage \in {"returned", "thrown"}, NEW result, End(stage, result)
  PROVE  /\ CallShape(call') /\ Asking(call')
         /\ call'.stage = stage /\ call'.result = result
         /\ call'.tool = call.tool /\ call'.args = call.args
<1>1. CallShape(call) /\ Asking(call)
  BY Running
<1>2. call' = [call EXCEPT !.stage = stage, !.result = result, !.got = <<>>]
  BY DEF End
<1>3. call' = [stage |-> stage, tool |-> call.tool, args |-> call.args,
               got |-> <<>>, result |-> result]
  BY <1>1, <1>2 DEF CallShape
<1> HIDE <1>2
<1>4. /\ call'.stage = stage /\ call'.result = result
      /\ call'.tool = call.tool /\ call'.args = call.args /\ call'.got = <<>>
  BY <1>3
<1>5. CallShape(call')
  BY <1>3, <1>4 DEF CallShape
<1>6. Asking(call')
  BY <1>1, <1>4 DEF Asking
<1> QED  BY <1>4, <1>5, <1>6

\* A call that fails leaves the invariant alone.
LEMMA EndedStep ==
  ASSUME CallInv, call.stage = "running", End("thrown", None),
         UNCHANGED <<world, children, span, changes>>
  PROVE  CallInv'
<1>1. /\ CallShape(call') /\ Asking(call') /\ call'.stage = "thrown"
  BY Ended DEF CallInv
<1>2. CallTypeOK'
  BY <1>1 DEF CallInv, CallTypeOK, CallShape, Asking, world
<1> QED  BY <1>1, <1>2 DEF CallInv, ParentInv, StatusInv,
           ShownChildrenWereObserved, StatusIsOfTheCall

\* Before the call nothing is shown.
LEMMA CallInitInv == CallInit => CallInv
<1> SUFFICES ASSUME CallInit PROVE CallInv
  OBVIOUS
<1>1. CallTypeOK
  BY WorldsAssumption DEF CallInit, CallTypeOK
<1>2. call.stage = "not made"
  BY DEF CallInit, NotMade
<1> QED  BY <1>1, <1>2 DEF CallInv, ParentInv, StatusInv,
           ShownChildrenWereObserved, StatusIsOfTheCall

\* A call begins.
LEMMA BeginStep ==
  ASSUME CallInv, NEW c \in Calls, Begin(c)
  PROVE  CallInv'
<1>1. call' = [stage |-> "running", tool |-> c.tool, args |-> c.args,
               got |-> <<>>, result |-> None]
  BY DEF Begin
<1>2. /\ call'.stage = "running" /\ call'.tool = c.tool /\ call'.args = c.args
      /\ call'.got = <<>>
      /\ CallShape(call') /\ Asking(call')
  BY <1>1 DEF CallShape, Asking
<1>3. children' = ChildrenOf(c.args.user) /\ UNCHANGED world
  BY DEF Begin
<1>4. CallTypeOK'
  BY <1>2, <1>3 DEF CallInv, CallTypeOK, CallShape, Asking, ChildrenOf, world
<1>5. ParentInv'
  <2>1. ChildrenOf(c.args.user)' = ChildrenOf(c.args.user)
    BY <1>3, SameWorld
  <2>2. ParentReads(<<>>, c.args.user, children')
    BY ParentReadsNothing
  <2> QED  BY <1>2, <1>3, <2>1, <2>2 DEF ParentInv
<1>6. StatusInv'
  <2> SUFFICES ASSUME c.tool = "get_submission_status"
               PROVE  StatusInv'
    BY <1>2 DEF StatusInv
  <2> DEFINE submitting == Submitting(c.args.column)
             enrolled == OnRoster(c.args.course)
  <2>1. span' = [everSubmitting |-> submitting, alwaysSubmitting |-> submitting,
                 everEnrolled |-> enrolled, alwaysEnrolled |-> enrolled]
    BY DEF Begin
  <2>2. Submitting(c.args.column)' = submitting /\ OnRoster(c.args.course)' = enrolled
    BY <1>3, SameWorld
  <2> HIDE DEF submitting, enrolled
  <2>3. StatusNow(c.args, span)'
    BY <2>1, <2>2 DEF StatusNow, Between
  <2>4. Got(call'.got, <<"roster", c.args.course>>) \in Seq(Members)
    BY <1>2, EmptySeq DEF Got
  <2>5. StatusReads(call'.got, call'.args, span')
    BY <1>2, <2>4 DEF StatusReads
  <2> QED  BY <1>2, <2>3, <2>5 DEF StatusInv, StatusNow
<1> QED  BY <1>2, <1>4, <1>5, <1>6 DEF CallInv,
           ShownChildrenWereObserved, StatusIsOfTheCall

\* One more answer of a status is what is on the page now.
LEMMA StatusReadsAnswered ==
  ASSUME CallTypeOK, NEW got, NEW args, NEW seen, NEW r,
         args.course \in Courses, StatusReads(got, args, seen), StatusNow(args, seen)
  PROVE  StatusReads([s \in DOMAIN got \cup {r} |->
                        IF s = r THEN Answer(r) ELSE got[s]], args, seen)
<1> DEFINE new == [s \in DOMAIN got \cup {r} |-> IF s = r THEN Answer(r) ELSE got[s]]
           a == <<"attempts", args.column>>
           b == <<"roster", args.course>>
<1>1. \A x : Got(new, x) = IF x = r THEN Answer(r) ELSE Got(got, x)
  BY GotMore
<1>2. DOMAIN new = DOMAIN got \cup {r}
  OBVIOUS
<1>3. /\ Submitting(args.column) = ToSet(Answer(a))
      /\ OnRoster(args.course) = Ids(Answer(b))
  BY DEF Submitting, OnRoster, Ids
<1>4. Answer(b) \in Seq(Members)
  BY RosterAnswer
<1> HIDE DEF new
<1>5. a \in DOMAIN new =>
        Between(seen.alwaysSubmitting, ToSet(Got(new, a)), seen.everSubmitting)
  BY <1>1, <1>2, <1>3 DEF StatusReads, StatusNow
<1>6. b \in DOMAIN new =>
        Between(seen.alwaysEnrolled, Ids(Got(new, b)), seen.everEnrolled)
  BY <1>1, <1>2, <1>3 DEF StatusReads, StatusNow
<1>7. Got(new, b) \in Seq(Members)
  BY <1>1, <1>4 DEF StatusReads
<1> QED  BY <1>5, <1>6, <1>7 DEF StatusReads, new

\* The handler of each tool the invariant is about.
LEMMA HandlerOf ==
  ASSUME NEW args, NEW got
  PROVE  /\ Handler("get_submission_status", args, got) = GetSubmissionStatus(args, got)
         /\ Handler("get_my_children", args, got) = GetMyChildren(args, got)
         /\ Handler("get_children_courses", args, got) = GetChildrenCourses(args, got)
         /\ Handler("get_children_grades", args, got) = GetChildrenGrades(args, got)
         /\ Handler("get_children_upcoming_assignments", args, got)
              = GetChildrenUpcomingAssignments(args, got)
         /\ Handler("get_children_announcements", args, got)
              = GetChildrenAnnouncements(args, got)
  BY DEF Handler

\* A parent tool's result shows children that its reads have shown.
LEMMA ParentResult ==
  ASSUME NEW tool \in Parental, NEW got, NEW args, NEW shown \in SUBSET Users,
         ParentReads(got, args.user, shown)
  PROVE  LET result == Handler(tool, args, got).result IN
         IF tool = "get_my_children" THEN ToSet(result) \subseteq shown
         ELSE \A row \in ToSet(result) : row.child \in shown
<1>1. CASE tool = "get_my_children"
  <2>1. Handler(tool, args, got) = GetMyChildren(args, got)
    BY <1>1, HandlerOf
  <2> QED  BY <1>1, <2>1, ParentResults
<1>2. CASE tool = "get_children_courses"
  <2>1. Handler(tool, args, got) = GetChildrenCourses(args, got)
    BY <1>2, HandlerOf
  <2> QED  BY <1>2, <2>1, ParentResults
<1>3. CASE tool = "get_children_grades"
  <2>1. Handler(tool, args, got) = GetChildrenGrades(args, got)
    BY <1>3, HandlerOf
  <2> QED  BY <1>3, <2>1, ParentResults
<1>4. CASE tool = "get_children_upcoming_assignments"
  <2>1. Handler(tool, args, got) = GetChildrenUpcomingAssignments(args, got)
    BY <1>4, HandlerOf
  <2> QED  BY <1>4, <2>1, ParentResults
<1>5. CASE tool = "get_children_announcements"
  <2>1. Handler(tool, args, got) = GetChildrenAnnouncements(args, got)
    BY <1>5, HandlerOf
  <2> QED  BY <1>5, <2>1, ParentResults
<1> QED  BY <1>1, <1>2, <1>3, <1>4, <1>5 DEF Parental

\* A read is answered, and perhaps the call returns.
LEMMA ReadAnsweredStep ==
  ASSUME CallInv, ReadAnswered
  PROVE  CallInv'
<1> DEFINE new(r) == [s \in DOMAIN call.got \cup {r} |->
                        IF s = r THEN Answer(r) ELSE call.got[s]]
           H(r) == Handler(call.tool, call.args, new(r))
<1>1. PICK r : IF Waiting(H(r).waves, new(r)) # {}
               THEN call' = [call EXCEPT !.got = new(r)]
               ELSE End("returned", H(r).result)
  BY DEF ReadAnswered
<1>2. call.stage = "running" /\ call.tool \notin Writing
      /\ UNCHANGED <<world, children, span, changes>>
  BY DEF ReadAnswered, Reading
<1>3. CallShape(call) /\ Asking(call) /\ CallTypeOK
  BY <1>2, Running DEF CallInv
<1>4. children \in SUBSET Users
  BY <1>3 DEF CallTypeOK
<1>5. call.tool \in Parental =>
        /\ ChildrenOf(call.args.user) \subseteq children
        /\ ParentReads(new(r), call.args.user, children)
  BY <1>2, <1>3, ParentReadsAnswered DEF CallInv, ParentInv
<1>6. /\ world' = world /\ children' = children /\ span' = span
      /\ \A u : ChildrenOf(u)' = ChildrenOf(u)
      /\ \A c : Submitting(c)' = Submitting(c)
      /\ \A k : OnRoster(k)' = OnRoster(k)
  BY <1>2, SameWorld
<1>7. call.tool = "get_submission_status" =>
        StatusNow(call.args, span) /\ StatusReads(new(r), call.args, span)
  <2> SUFFICES ASSUME call.tool = "get_submission_status"
               PROVE  StatusNow(call.args, span) /\ StatusReads(new(r), call.args, span)
    OBVIOUS
  <2>1. call.args.course \in Courses
    BY <1>3, CallsAssumption DEF Asking
  <2>2. StatusNow(call.args, span) /\ StatusReads(call.got, call.args, span)
    BY <1>2 DEF CallInv, StatusInv
  <2>3. CallTypeOK
    BY <1>3
  <2>4. StatusReads(new(r), call.args, span)
    <3> DEFINE args == call.args
               got == call.got
    <3>1. CallTypeOK /\ args.course \in Courses
          /\ StatusReads(got, args, span) /\ StatusNow(args, span)
      BY <2>1, <2>2, <2>3
    <3> HIDE DEF args
    <3>2. StatusReads([s \in DOMAIN got \cup {r} |->
                         IF s = r THEN Answer(r) ELSE got[s]], args, span)
      <4> HIDE DEF got, new
      <4> QED  BY <3>1, StatusReadsAnswered
    <3> QED  BY <3>2 DEF args
  <2> QED  BY <2>2, <2>4
<1> HIDE DEF new
<1>8. CASE Waiting(H(r).waves, new(r)) # {}
  <2>1. call' = [call EXCEPT !.got = new(r)]
    BY <1>1, <1>8
  <2>2. call' = [stage |-> call.stage, tool |-> call.tool, args |-> call.args,
                 got |-> new(r), result |-> call.result]
    BY <1>3, <2>1 DEF CallShape
  <2>3. /\ call'.stage = "running" /\ call'.tool = call.tool /\ call'.args = call.args
        /\ call'.got = new(r) /\ CallShape(call')
    BY <1>2, <2>2 DEF CallShape
  <2>4. Asking(call')
    BY <1>3, <2>3 DEF Asking
  <2>5. CallTypeOK'
    BY <1>3, <1>6, <2>3, <2>4 DEF CallTypeOK, CallShape, Asking, world
  <2>6. ParentInv'
    BY <1>5, <1>6, <2>3 DEF ParentInv
  <2>7. StatusInv'
    BY <1>6, <1>7, <2>3 DEF StatusInv, StatusNow
  <2> QED  BY <2>3, <2>5, <2>6, <2>7 DEF CallInv,
             ShownChildrenWereObserved, StatusIsOfTheCall
<1>9. CASE Waiting(H(r).waves, new(r)) = {}
  <2> DEFINE result == H(r).result
  <2>1. End("returned", result)
    BY <1>1, <1>9
  <2>2. /\ CallShape(call') /\ Asking(call')
        /\ call'.stage = "returned" /\ call'.result = result
        /\ call'.tool = call.tool /\ call'.args = call.args
    <3> HIDE DEF result
    <3> QED  BY <1>2, <1>3, <2>1, Ended
  <2>3. CallTypeOK'
    BY <1>3, <1>6, <2>2 DEF CallTypeOK, CallShape, Asking, world
  <2>4. ShownChildrenWereObserved'
    <3> SUFFICES ASSUME call.tool \in Parental
                 PROVE  ShownChildren' \subseteq children
      BY <1>6, <2>2 DEF ShownChildrenWereObserved
    <3>1. IF call.tool = "get_my_children" THEN ToSet(result) \subseteq children
          ELSE \A row \in ToSet(result) : row.child \in children
      BY <1>4, <1>5, ParentResult
    <3> HIDE DEF result
    <3> QED  BY <2>2, <3>1 DEF ShownChildren
  <2>5. StatusIsOfTheCall'
    <3> DEFINE missing == ToSet(result.missingUsers)
               submitted == ToSet(result.submittedUsers)
    <3> SUFFICES ASSUME call.tool = "get_submission_status"
                 PROVE  /\ missing \cap span.alwaysSubmitting = {}
                        /\ missing \subseteq span.everEnrolled
                        /\ submitted \subseteq span.everSubmitting
                        /\ span.alwaysEnrolled \subseteq missing \cup submitted
      <4> HIDE DEF result
      <4> QED  BY <1>6, <2>2 DEF StatusIsOfTheCall
    <3> DEFINE a == <<"attempts", call.args.column>>
               b == <<"roster", call.args.course>>
    <3>1. H(r) = GetSubmissionStatus(call.args, new(r))
      BY HandlerOf
    <3>2. Got(new(r), b) \in Seq(Members)
      BY <1>7 DEF StatusReads
    <3>3. /\ Waiting(H(r).waves, new(r)) = {} => a \in DOMAIN new(r) /\ b \in DOMAIN new(r)
          /\ missing = Ids(Got(new(r), b)) \ ToSet(Got(new(r), a))
          /\ submitted = ToSet(Got(new(r), a))
      BY <3>1, <3>2, StatusResult
    <3>4. /\ Between(span.alwaysSubmitting, ToSet(Got(new(r), a)), span.everSubmitting)
          /\ Between(span.alwaysEnrolled, Ids(Got(new(r), b)), span.everEnrolled)
      BY <1>7, <1>9, <3>3 DEF StatusReads
    <3> HIDE DEF missing, submitted, a, b
    <3> QED  BY <3>3, <3>4 DEF Between
  <2> QED  BY <2>2, <2>3, <2>4, <2>5 DEF CallInv, ParentInv, StatusInv
<1> QED  BY <1>8, <1>9

\* The two tools that write show nothing the invariant is about.
LEMMA WritingStep ==
  ASSUME CallTypeOK, call.stage = "running", call.tool \in Writing,
         NEW stage \in {"returned", "thrown"}, NEW result, End(stage, result),
         UNCHANGED <<role, grade, children>>,
         attempts' \in [Columns -> Seq(Users)]
  PROVE  CallInv'
<1>1. /\ CallShape(call') /\ Asking(call')
      /\ call'.stage = stage /\ call'.tool \in Writing
  BY Ended
<1>2. CallTypeOK'
  BY <1>1 DEF CallTypeOK, CallShape, Asking
<1>3. /\ call'.stage # "running" /\ call'.tool \notin Parental
      /\ call'.tool # "get_submission_status"
  BY <1>1 DEF Writing, Parental
<1> QED  BY <1>2, <1>3 DEF CallInv, ParentInv, StatusInv,
           ShownChildrenWereObserved, StatusIsOfTheCall

\* A submission is made, or not.
LEMMA SubmitAssignmentStep ==
  ASSUME CallInv, SubmitAssignment
  PROVE  CallInv'
<1>1. /\ call.stage = "running" /\ call.tool = "create_assignment_submission"
      /\ UNCHANGED <<role, grade, announcements, children, span, changes>>
      /\ \/ attempts' = [attempts EXCEPT ![call.args.column] = Append(@, call.args.user)]
         \/ UNCHANGED attempts
  BY DEF SubmitAssignment
<1>2. PICK stage \in {"returned", "thrown"} : End(stage, None)
  BY DEF SubmitAssignment
<1>3. CallTypeOK /\ Asking(call)
  BY <1>1, Running DEF CallInv
<1>4. call.args.user \in Users /\ call.args.column \in Columns
  BY <1>1, <1>3, CallsAssumption DEF Asking
<1>5. attempts' \in [Columns -> Seq(Users)]
  <2>1. attempts \in [Columns -> Seq(Users)]
    BY <1>3 DEF CallTypeOK
  <2>2. Append(attempts[call.args.column], call.args.user) \in Seq(Users)
    BY <1>4, <2>1, AppendProperties
  <2> QED  BY <1>1, <2>1, <2>2
<1> QED  BY <1>1, <1>2, <1>3, <1>5, WritingStep DEF Writing

\* A draft is returned or posted, or not.
LEMMA DraftAnnouncementStep ==
  ASSUME CallInv, DraftAnnouncement
  PROVE  CallInv'
<1>1. /\ call.stage = "running" /\ call.tool = "draft_announcement"
      /\ UNCHANGED <<role, grade, attempts, children, span, changes>>
  BY DEF DraftAnnouncement
<1>2. PICK stage \in {"returned", "thrown"}, result \in {None, "draft"} :
        End(stage, result)
  BY DEF DraftAnnouncement
<1>3. CallTypeOK
  BY DEF CallInv
<1>4. attempts' \in [Columns -> Seq(Users)]
  BY <1>1, <1>3 DEF CallTypeOK
<1> QED  BY <1>1, <1>2, <1>3, <1>4, WritingStep DEF Writing

\* What others change in Blackboard keeps its shape.
LEMMA ChangedWorld ==
  ASSUME CallTypeOK, Change
  PROVE  /\ role' \in [Courses -> [Users -> Roles \cup {None}]]
         /\ grade' \in [Columns -> [Users -> Scores \cup {None, Unscored}]]
         /\ attempts' \in [Columns -> Seq(Users)]
<1> USE DEF CallTypeOK
<1>1. CASE \E k \in Courses, u \in Users, n \in Roles \cup {None} :
             /\ role' = [role EXCEPT ![k][u] = n]
             /\ UNCHANGED <<grade, attempts, announcements>>
  BY <1>1
<1>2. CASE \E c \in Columns, u \in Users, n \in Scores \cup {Unscored, None} :
             /\ grade' = [grade EXCEPT ![c][u] = n]
             /\ UNCHANGED <<role, attempts, announcements>>
  BY <1>2
<1>3. CASE \E c \in Columns, u \in Users :
             /\ attempts' = [attempts EXCEPT ![c] = Append(@, u)]
             /\ UNCHANGED <<role, grade, announcements>>
  BY <1>3, AppendProperties
<1>4. CASE \E c \in Columns : \E i \in DOMAIN attempts[c] :
             /\ attempts' = [attempts EXCEPT ![c] = RemoveAt(@, i)]
             /\ UNCHANGED <<role, grade, announcements>>
  <2>1. PICK c \in Columns : \E i \in DOMAIN attempts[c] :
             /\ attempts' = [attempts EXCEPT ![c] = RemoveAt(@, i)]
             /\ UNCHANGED <<role, grade, announcements>>
    BY <1>4
  <2>2. PICK i \in DOMAIN attempts[c] :
             /\ attempts' = [attempts EXCEPT ![c] = RemoveAt(@, i)]
             /\ UNCHANGED <<role, grade, announcements>>
    BY <2>1
  <2> DEFINE list == attempts[c]
  <2>3. /\ Len(list) \in Nat /\ i \in 1..Len(list)
        /\ \A j \in 1..Len(list) : list[j] \in Users
    BY <2>2, LenProperties, ElementOfSeq
  <2> HIDE DEF list
  <2>4. SubSeq(list, 1, i - 1) \in Seq(Users)
    BY <2>3, SubSeqProperties
  <2>5. SubSeq(list, i + 1, Len(list)) \in Seq(Users)
    BY <2>3, SubSeqProperties
  <2>6. RemoveAt(list, i) \in Seq(Users)
    BY <2>4, <2>5, ConcatProperties DEF RemoveAt
  <2> QED  BY <2>2, <2>6 DEF list
<1> QED  BY <1>1, <1>2, <1>3, <1>4 DEF Change

\* Blackboard changes under the call.
LEMMA ChangeStep ==
  ASSUME CallInv, Change
  PROVE  CallInv'
<1>1. call' = call /\ call.stage \in {"not made", "running"}
      /\ children' = IF call = NotMade THEN {}
                     ELSE children \cup ChildrenOf(call.args.user)'
  BY DEF Change
<1>2. /\ role' \in [Courses -> [Users -> Roles \cup {None}]]
      /\ grade' \in [Columns -> [Users -> Scores \cup {None, Unscored}]]
      /\ attempts' \in [Columns -> Seq(Users)]
  BY ChangedWorld DEF CallInv
<1>3. ASSUME NEW u PROVE ChildrenOf(u)' \in SUBSET Users
  BY DEF ChildrenOf
<1>4. CallTypeOK'
  <2>1. children \in SUBSET Users
    BY DEF CallInv, CallTypeOK
  <2>2. children' \in SUBSET Users
    BY <1>1, <1>3, <2>1
  <2> QED  BY <1>1, <1>2, <2>2 DEF CallInv, CallTypeOK, CallShape, Asking
<1>5. ParentInv'
  <2> SUFFICES ASSUME call.stage = "running", call.tool \in Parental
               PROVE  /\ ChildrenOf(call.args.user)' \subseteq children'
                      /\ ParentReads(call.got, call.args.user, children')
    BY <1>1 DEF ParentInv
  <2>1. children' = children \cup ChildrenOf(call.args.user)'
    <3>1. NotMade.stage # "running"
      BY DEF NotMade
    <3> QED  BY <1>1, <3>1
  <2>2. ParentReads(call.got, call.args.user, children)
    BY DEF CallInv, ParentInv
  <2>3. ParentReads(call.got, call.args.user, children')
    BY <2>1, <2>2, ParentReadsGrow
  <2> QED  BY <2>1, <2>3
<1>6. StatusInv'
  <2> SUFFICES ASSUME call.stage = "running", call.tool = "get_submission_status"
               PROVE  StatusNow(call.args, span)' /\ StatusReads(call.got, call.args, span')
    BY <1>1 DEF StatusInv
  <2> DEFINE submitting == Submitting(call.args.column)'
             enrolled == OnRoster(call.args.course)'
  <2>1. span' = [everSubmitting |-> span.everSubmitting \cup submitting,
                 alwaysSubmitting |-> span.alwaysSubmitting \cap submitting,
                 everEnrolled |-> span.everEnrolled \cup enrolled,
                 alwaysEnrolled |-> span.alwaysEnrolled \cap enrolled]
    <3>1. NotMade.stage # "running"
      BY DEF NotMade
    <3>2. call # NotMade
      BY <3>1
    <3> QED  BY <3>2 DEF Change
  <2>2. StatusReads(call.got, call.args, span)
    BY DEF CallInv, StatusInv
  <2>3. call'.args = call.args
    BY <1>1
  <2>4. /\ Submitting(call.args.column)' = submitting
        /\ OnRoster(call.args.course)' = enrolled
    OBVIOUS
  <2> HIDE DEF submitting, enrolled
  <2>5. StatusNow(call.args, span)'
    BY <2>1, <2>4 DEF StatusNow, Between
  <2>6. StatusReads(call.got, call.args, span')
    BY <2>1, <2>2 DEF StatusReads, Between
  <2> QED  BY <2>5, <2>6
<1>7. ShownChildrenWereObserved' /\ StatusIsOfTheCall'
  BY <1>1 DEF ShownChildrenWereObserved, StatusIsOfTheCall
<1> QED  BY <1>4, <1>5, <1>6, <1>7 DEF CallInv

\* The invariant holds of every call, whatever happens to Blackboard under it.
THEOREM CallInvariance == CallSpec => []CallInv
<1>1. CallInv /\ [CallNext]_callVars => CallInv'
  <2> SUFFICES ASSUME CallInv, [CallNext]_callVars
               PROVE  CallInv'
    OBVIOUS
  <2>1. CASE \E c \in Calls : Begin(c)
    BY <2>1, BeginStep
  <2>2. CASE ReadAnswered
    BY <2>2, ReadAnsweredStep
  <2>3. CASE CallFails
    BY <2>3, EndedStep DEF CallFails, Reading
  <2>4. CASE SubmitAssignment
    BY <2>4, SubmitAssignmentStep
  <2>5. CASE DraftAnnouncement
    BY <2>5, DraftAnnouncementStep
  <2>6. CASE Change
    BY <2>6, ChangeStep
  <2>7. CASE UNCHANGED callVars
    <3>1. UNCHANGED <<world, call, children, span>>
      BY <2>7 DEF callVars
    <3>2. CallTypeOK'
      BY <3>1 DEF CallInv, CallTypeOK, CallShape, Asking, world
    <3>3. ParentInv' /\ StatusInv'
      BY <3>1, SameWorld DEF CallInv, ParentInv, StatusInv, StatusNow
    <3>4. ShownChildrenWereObserved' /\ StatusIsOfTheCall'
      BY <3>1 DEF CallInv, ShownChildrenWereObserved, ShownChildren,
                  StatusIsOfTheCall
    <3> QED  BY <3>2, <3>3, <3>4 DEF CallInv
  <2> QED  BY <2>1, <2>2, <2>3, <2>4, <2>5, <2>6, <2>7 DEF CallNext, Finished
<1> QED  BY CallInitInv, <1>1, PTL DEF CallSpec

\* Type correctness: Blackboard and the call keep their shape.
THEOREM CallTypeCorrect == CallSpec => []CallTypeOK
<1>1. CallInv => CallTypeOK
  BY DEF CallInv
<1> QED  BY CallInvariance, <1>1, PTL

\* A parent tool shows nobody who was not, at some moment since the call began,
\* a student of a course that the caller observed.
THEOREM ShownChildrenObserved == CallSpec => []ShownChildrenWereObserved
<1>1. CallInv => ShownChildrenWereObserved
  BY DEF CallInv
<1> QED  BY CallInvariance, <1>1, PTL

\* A submission status says nothing that was not so at some moment of the call:
\* nobody whose attempt was there all along is missing, nobody is missing who
\* never was on the roster or has submitted who never had, and nobody who was
\* enrolled all along is left out.
THEOREM StatusCorrect == CallSpec => []StatusIsOfTheCall
<1>1. CallInv => StatusIsOfTheCall
  BY DEF CallInv
<1> QED  BY CallInvariance, <1>1, PTL

-----------------------------------------------------------------------------
(* More about lists and numbers.                                           *)

\* Numbered elements of a set are a list over it.
LEMMA Listed ==
  ASSUME NEW T, NEW n \in Nat, NEW f \in [1..n -> T]
  PROVE  f \in Seq(T) /\ Len(f) = n /\ DOMAIN f = 1..n
  OBVIOUS

\* A filter that keeps everything keeps the list.
LEMMA KeptWhole ==
  ASSUME NEW T, NEW list \in Seq(T)
  PROVE  At(list, InOrder(DOMAIN list)) = list
<1> DEFINE n == Len(list)
           G(m) == CHOOSE i \in 1..n : Cardinality({j \in 1..n : j <= i}) = m
           o == InOrder(1..n)
<1>1. n \in Nat /\ DOMAIN list = 1..n /\ list = [i \in 1..n |-> list[i]]
  BY LenProperties
<1> HIDE DEF n
<1>2. Cardinality(1..n) = n
  BY <1>1, FS_Interval
<1>3. o = [m \in 1..n |-> G(m)]
  BY <1>2 DEF InOrder
<1>4. ASSUME NEW i \in 1..n PROVE Cardinality({j \in 1..n : j <= i}) = i
  <2>1. {j \in 1..n : j <= i} = 1..i
    BY <1>1
  <2>2. Cardinality(1..i) = i
    BY <1>1, FS_Interval
  <2> QED  BY <2>1, <2>2
<1>5. \A m \in 1..n : G(m) = m
  BY <1>4
<1> HIDE DEF G, o
<1>6. o = [m \in 1..n |-> m]
  BY <1>3, <1>5
<1>7. At(list, o) = [m \in 1..n |-> list[m]]
  BY <1>6 DEF At
<1> QED  BY <1>1, <1>7 DEF o

\* A filter that keeps one place.
LEMMA KeptOne ==
  ASSUME NEW T, NEW list \in Seq(T), NEW i \in DOMAIN list
  PROVE  At(list, InOrder({i})) = <<list[i]>>
<1> DEFINE S == {i}
           r == At(list, InOrder(S))
<1>1. S \in SUBSET DOMAIN list /\ Cardinality(S) = 1
  BY FS_Singleton
<1> HIDE DEF S
<1>2. /\ r \in Seq(T) /\ Len(r) = 1 /\ DOMAIN r = 1..1
      /\ \A m \in DOMAIN r : InOrder(S)[m] \in S /\ r[m] = list[InOrder(S)[m]]
  <2>1. LET q == At(list, InOrder(S)) IN
        /\ q \in Seq(T) /\ Len(q) = Cardinality(S) /\ DOMAIN q = 1..Len(q)
        /\ Cardinality(S) \in Nat
        /\ ToSet(q) = {list[k] : k \in S}
        /\ \A m \in DOMAIN q : InOrder(S)[m] \in S /\ q[m] = list[InOrder(S)[m]]
        /\ \A m, n \in DOMAIN q : m < n => InOrder(S)[m] < InOrder(S)[n]
    BY <1>1, Selected
  <2> QED  BY <1>1, <2>1
<1> HIDE DEF r
<1>3. 1 \in DOMAIN r /\ r[1] = list[i]
  <2>1. 1 \in DOMAIN r
    BY <1>2
  <2>2. InOrder(S)[1] = i
    BY <1>2, <2>1 DEF S
  <2> QED  BY <1>2, <2>1, <2>2
<1>4. r \in [1..1 -> T]
  BY <1>2, LenProperties
<1>5. r = << r[1] >>
  BY <1>4
<1> QED  BY <1>3, <1>5 DEF r, S

\* Dividing rounds down.
LEMMA Quotient ==
  ASSUME NEW a \in Int, NEW b \in Nat, b # 0, NEW t \in Int
  PROVE  a \div b \in Int /\ (t <= a \div b <=> t * b <= a)
  OBVIOUS

\* The equation of the function by which Added is defined.
AddedEqn(numbers, f) ==
  f = [i \in 0..Len(numbers) |-> IF i = 0 THEN 0 ELSE f[i - 1] + numbers[i]]

AddedPart(numbers, n, f) ==
  DOMAIN f = 0..n /\ \A i \in 0..n :
    f[i] = IF i = 0 THEN 0 ELSE f[i - 1] + numbers[i]

\* There is one.
LEMMA AddedExists ==
  ASSUME NEW numbers, Len(numbers) \in Nat
  PROVE  \E f : AddedEqn(numbers, f)
<1> DEFINE S == {m \in Nat : \E f : AddedPart(numbers, m, f)}
<1>1. 0 \in S
  <2> DEFINE f == [i \in 0..0 |-> 0]
  <2>1. DOMAIN f = 0..0 /\ \A i \in 0..0 : i = 0 /\ f[i] = 0
    OBVIOUS
  <2> HIDE DEF f
  <2>2. AddedPart(numbers, 0, f)
    BY <2>1 DEF AddedPart
  <2> QED  BY <2>2
<1>2. ASSUME NEW n \in Nat, n \in S PROVE n + 1 \in S
  <2>1. PICK f : AddedPart(numbers, n, f)
    BY <1>2
  <2> DEFINE g == [i \in 0..(n + 1) |->
                     IF i = n + 1 THEN f[n] + numbers[i] ELSE f[i]]
  <2>2. ASSUME NEW i \in 0..(n + 1)
        PROVE  g[i] = IF i = 0 THEN 0 ELSE g[i - 1] + numbers[i]
    <3>1. CASE i = n + 1
      <4>1. n \in 0..(n + 1) /\ g[n] = f[n] /\ i - 1 = n /\ i # 0
        BY <3>1
      <4>2. g[i] = f[n] + numbers[i]
        BY <3>1
      <4> HIDE DEF g
      <4> QED  BY <4>1, <4>2
    <3>2. CASE i # n + 1
      <4>1. i \in 0..n /\ g[i] = f[i]
        BY <3>2
      <4>2. i # 0 => i - 1 \in 0..(n + 1) /\ i - 1 # n + 1
        BY <4>1
      <4>3. i # 0 => g[i - 1] = f[i - 1]
        BY <4>2
      <4> HIDE DEF g
      <4> QED  BY <2>1, <4>1, <4>3 DEF AddedPart
    <3> QED  BY <3>1, <3>2
  <2>3. AddedPart(numbers, n + 1, g)
    <3>1. DOMAIN g = 0..(n + 1)
      OBVIOUS
    <3> HIDE DEF g
    <3> QED  BY <2>2, <3>1 DEF AddedPart
  <2> QED  BY <2>3
<1>3. \A n \in Nat : n \in S
  <2> HIDE DEF S
  <2> QED  BY <1>1, <1>2, InductionOnSet
<1>4. PICK g : AddedPart(numbers, Len(numbers), g)
  BY <1>3
<1> DEFINE N == Len(numbers)
           h == [i \in 0..N |-> g[i]]
<1>5. h = [i \in 0..N |-> IF i = 0 THEN 0 ELSE h[i - 1] + numbers[i]]
  <2>1. \A i \in 0..N : i # 0 => i - 1 \in 0..N
    OBVIOUS
  <2> SUFFICES ASSUME NEW i \in 0..N
               PROVE  g[i] = IF i = 0 THEN 0 ELSE h[i - 1] + numbers[i]
    OBVIOUS
  <2> QED  BY <1>4, <2>1 DEF AddedPart
<1> QED  BY <1>5 DEF AddedEqn

\* A sum of numbers is a number, and as many times the least and the greatest
\* of them lie below and above it.
LEMMA AddedBounds ==
  ASSUME NEW low \in Int, NEW high \in Int, NEW numbers \in Seq(Int),
         \A i \in DOMAIN numbers : low <= numbers[i] /\ numbers[i] <= high
  PROVE  /\ Added(numbers) \in Int
         /\ low * Len(numbers) <= Added(numbers)
         /\ Added(numbers) <= high * Len(numbers)
<1> DEFINE N == Len(numbers)
           f == CHOOSE f : AddedEqn(numbers, f)
<1>1. /\ N \in Nat
      /\ \A i \in 1..N : numbers[i] \in Int /\ low <= numbers[i] /\ numbers[i] <= high
  BY LenProperties, ElementOfSeq
<1>2. Added(numbers) = f[N]
  BY DEF Added, AddedEqn
<1>3. AddedEqn(numbers, f)
  BY <1>1, AddedExists
<1> HIDE DEF f
<1>4. \A i \in 0..N : f[i] = IF i = 0 THEN 0 ELSE f[i - 1] + numbers[i]
  <2> DEFINE Body(i) == IF i = 0 THEN 0 ELSE f[i - 1] + numbers[i]
  <2>1. f = [i \in 0..N |-> Body(i)]
    BY <1>3 DEF AddedEqn
  <2> HIDE DEF Body
  <2>2. \A i \in 0..N : f[i] = Body(i)
    BY <2>1
  <2> QED  BY <2>2 DEF Body
<1> HIDE DEF N
<1> DEFINE S == {n \in Nat : n <= N =>
                  f[n] \in Int /\ low * n <= f[n] /\ f[n] <= high * n}
<1>5. 0 \in S
  <2>1. f[0] = 0
    BY <1>1, <1>4
  <2> QED  BY <2>1
<1>6. ASSUME NEW n \in Nat, n \in S PROVE n + 1 \in S
  <2> SUFFICES ASSUME n + 1 <= N
               PROVE  /\ f[n + 1] \in Int
                      /\ low * (n + 1) <= f[n + 1] /\ f[n + 1] <= high * (n + 1)
    OBVIOUS
  <2>1. f[n] \in Int /\ low * n <= f[n] /\ f[n] <= high * n
    BY <1>1, <1>6
  <2>2. f[n + 1] = f[n] + numbers[n + 1]
    <3>1. n + 1 \in 0..N /\ n + 1 # 0 /\ (n + 1) - 1 = n
      BY <1>1
    <3> QED  BY <1>4, <3>1
  <2>3. numbers[n + 1] \in Int /\ low <= numbers[n + 1] /\ numbers[n + 1] <= high
    BY <1>1
  <2>4. low * (n + 1) = low * n + low /\ high * (n + 1) = high * n + high
    OBVIOUS
  <2> QED  BY <2>1, <2>2, <2>3, <2>4
<1>7. N \in S
  <2> HIDE DEF S
  <2> QED  BY <1>1, <1>5, <1>6, InductionOnSet
<1> QED  BY <1>1, <1>2, <1>7 DEF N


-----------------------------------------------------------------------------
(* What Blackboard answers at one moment.                                  *)

\* The answers at one moment are those to the reads.
LEMMA AtOnceAnswers ==
  /\ \A u \in Users : Got(AtOnce, <<"courses", u>>) = Answer(<<"courses", u>>)
  /\ \A k \in Courses :
       /\ Got(AtOnce, <<"course", k>>) = <<k>>
       /\ Got(AtOnce, <<"roster", k>>) = Answer(<<"roster", k>>)
       /\ Got(AtOnce, <<"columns", k>>) = Answer(<<"columns", k>>)
  /\ \A c \in Columns :
       /\ Got(AtOnce, <<"columnGrades", c>>) = Answer(<<"columnGrades", c>>)
       /\ Got(AtOnce, <<"attempts", c>>) = Answer(<<"attempts", c>>)
  /\ \A k \in Courses : \A u \in Users :
       /\ Got(AtOnce, <<"grades", k, u>>) = Answer(<<"grades", k, u>>)
       /\ Got(AtOnce, <<"columns", k, u>>) = Answer(<<"columns", k>>)
<1>1. ASSUME NEW r \in Reads PROVE Got(AtOnce, r) = Answer(r)
  BY <1>1 DEF Got, AtOnce
<1>2. /\ \A u \in Users : <<"courses", u>> \in Reads
      /\ \A k \in Courses : /\ <<"course", k>> \in Reads /\ <<"roster", k>> \in Reads
                            /\ <<"columns", k>> \in Reads
      /\ \A c \in Columns : <<"columnGrades", c>> \in Reads /\ <<"attempts", c>> \in Reads
  BY DEF Reads
<1>3. \A k \in Courses : \A u \in Users :
        <<"grades", k, u>> \in Reads /\ <<"columns", k, u>> \in Reads
  BY DEF Reads
<1>4. \A k : Answer(<<"course", k>>) = <<k>>
  BY DEF Answer, Held, Resources
<1>5. \A k, u : Answer(<<"columns", k, u>>) = Answer(<<"columns", k>>)
  BY DEF Answer, Held
<1> QED  BY <1>1, <1>2, <1>3, <1>4, <1>5

\* The columns of a course, each once.
LEMMA ColumnsAnswer ==
  ASSUME NEW k
  PROVE  /\ ColumnsOf(k) \in Seq(Columns)
         /\ ToSet(ColumnsOf(k)) = {c \in Columns : CourseOf[c] = k}
<1> DEFINE S == {i \in DOMAIN ColumnList : CourseOf[ColumnList[i]] = k}
<1>1. ColumnsOf(k) = At(ColumnList, InOrder(S))
  BY DEF ColumnsOf, Filter
<1>2. ColumnList \in Seq(Columns) /\ S \in SUBSET DOMAIN ColumnList
  BY ReportsAssumption
<1>3. {ColumnList[i] : i \in S} = {c \in Columns : CourseOf[c] = k}
  BY DEF Columns, ToSet
<1> HIDE DEF S
<1> QED  BY <1>1, <1>2, <1>3, Selected

\* The page of them that is read.
LEMMA ColumnsPage ==
  ASSUME NEW k
  PROVE  /\ Answer(<<"columns", k>>) \in Seq(Columns)
         /\ ToSet(Answer(<<"columns", k>>)) \subseteq {c \in Columns : CourseOf[c] = k}
<1>1. Answer(<<"columns", k>>) = FirstPage(ColumnsOf(k), Limit["columns"])
  BY DEF Answer, Held, Resources
<1>2. Limit["columns"] \in Nat \ {0}
  BY Limits DEF Resources
<1>3. /\ FirstPage(ColumnsOf(k), Limit["columns"]) \in Seq(Columns)
      /\ ToSet(FirstPage(ColumnsOf(k), Limit["columns"])) \subseteq ToSet(ColumnsOf(k))
  BY <1>2, ColumnsAnswer, PageOf
<1> QED  BY <1>1, <1>3, ColumnsAnswer

\* What a list of grades holds.
Grade(c, u) == [column |-> c, user |-> u, score |-> grade[c][u]]

Grades == [column : Columns, user : Users, score : Scores \cup {Unscored}]

\* The grades of a user in a course.
LEMMA GradesAnswer ==
  ASSUME CallTypeOK, NEW k, NEW u \in Users
  PROVE  /\ GradesOf(k, u) \in Seq(Grades)
         /\ ToSet(GradesOf(k, u)) =
              {Grade(c, u) : c \in {d \in Columns : CourseOf[d] = k /\ grade[d][u] # None}}
<1> DEFINE cols == ColumnsOf(k)
           S == {i \in DOMAIN cols : grade[cols[i]][u] # None}
           e == At(cols, InOrder(S))
           R == [i \in DOMAIN e |-> [column |-> e[i], user |-> u,
                                     score |-> grade[e[i]][u]]]
           T == {d \in Columns : CourseOf[d] = k /\ grade[d][u] # None}
<1>1. GradesOf(k, u) = R
  BY DEF GradesOf, Filter
<1>2. cols \in Seq(Columns) /\ ToSet(cols) = {c \in Columns : CourseOf[c] = k}
      /\ S \in SUBSET DOMAIN cols
  BY ColumnsAnswer
<1>3. {cols[i] : i \in S} = T
  <2>1. {cols[i] : i \in S} = {c \in ToSet(cols) : grade[c][u] # None}
    BY DEF ToSet
  <2> QED  BY <1>2, <2>1
<1> HIDE DEF cols, S
<1>4. e \in Seq(Columns) /\ ToSet(e) = T
  BY <1>2, <1>3, Selected
<1>5. Len(e) \in Nat /\ DOMAIN e = 1..Len(e) /\ \A i \in DOMAIN e : e[i] \in T
  BY <1>4, LenProperties DEF ToSet
<1>6. \A c \in T : Grade(c, u) \in Grades
  BY DEF CallTypeOK, Grade, Grades
<1> HIDE DEF e
<1>7. R = [i \in DOMAIN e |-> Grade(e[i], u)]
  BY DEF Grade
<1> HIDE DEF R, T
<1>8. R \in [1..Len(e) -> Grades]
  BY <1>5, <1>6, <1>7
<1>9. R \in Seq(Grades)
  BY <1>5, <1>8
<1>10. ToSet(R) = {Grade(c, u) : c \in ToSet(e)}
  <2> DEFINE M(c) == Grade(c, u)
  <2> HIDE DEF M
  <2>1. R = [i \in DOMAIN e |-> M(e[i])]
    BY <1>7 DEF M
  <2>2. ToSet(R) = {M(c) : c \in ToSet(e)}
    BY <2>1 DEF ToSet
  <2> QED  BY <2>2 DEF M
<1> QED  BY <1>1, <1>4, <1>9, <1>10 DEF T

\* The grades of a column.
LEMMA ColumnGradesAnswer ==
  ASSUME CallTypeOK, NEW c \in Columns
  PROVE  /\ ColumnGrades(c) \in Seq(Grades)
         /\ ToSet(ColumnGrades(c)) =
              {Grade(c, u) : u \in {v \in Users : grade[c][v] # None}}
<1> DEFINE S == {i \in DOMAIN UserList : grade[c][UserList[i]] # None}
           e == At(UserList, InOrder(S))
           R == [i \in DOMAIN e |-> [column |-> c, user |-> e[i],
                                     score |-> grade[c][e[i]]]]
           T == {v \in Users : grade[c][v] # None}
<1>1. ColumnGrades(c) = R
  BY DEF ColumnGrades, Filter
<1>2. UserList \in Seq(Users) /\ S \in SUBSET DOMAIN UserList
  BY ReportsAssumption
<1>3. {UserList[i] : i \in S} = T
  BY DEF Users, ToSet
<1> HIDE DEF S
<1>4. e \in Seq(Users) /\ ToSet(e) = T
  BY <1>2, <1>3, Selected
<1>5. Len(e) \in Nat /\ DOMAIN e = 1..Len(e) /\ \A i \in DOMAIN e : e[i] \in T
  BY <1>4, LenProperties DEF ToSet
<1>6. \A u \in T : Grade(c, u) \in Grades
  BY DEF CallTypeOK, Grade, Grades
<1> HIDE DEF e
<1>7. R = [i \in DOMAIN e |-> Grade(c, e[i])]
  BY DEF Grade
<1> HIDE DEF R, T
<1>8. R \in [1..Len(e) -> Grades]
  BY <1>5, <1>6, <1>7
<1>9. R \in Seq(Grades)
  BY <1>5, <1>8
<1>10. ToSet(R) = {Grade(c, u) : u \in ToSet(e)}
  <2> DEFINE M(u) == Grade(c, u)
  <2> HIDE DEF M
  <2>1. R = [i \in DOMAIN e |-> M(e[i])]
    BY <1>7 DEF M
  <2>2. ToSet(R) = {M(u) : u \in ToSet(e)}
    BY <2>1 DEF ToSet
  <2> QED  BY <2>2 DEF M
<1> QED  BY <1>1, <1>4, <1>9, <1>10 DEF T

\* The pages of grades that are read.
OwnPage(k, u) == Answer(<<"grades", k, u>>)

ColumnPage(c) == Answer(<<"columnGrades", c>>)

LEMMA OwnPageFacts ==
  ASSUME CallTypeOK, NEW k, NEW u \in Users
  PROVE  LET all == {Grade(c, u) : c \in {d \in Columns :
                                          CourseOf[d] = k /\ grade[d][u] # None}} IN
         /\ OwnPage(k, u) \in Seq(Grades)
         /\ ToSet(OwnPage(k, u)) \subseteq all
         /\ Whole(OwnPage(k, u), "grades") => ToSet(OwnPage(k, u)) = all
<1>1. OwnPage(k, u) = FirstPage(GradesOf(k, u), Limit["grades"])
  BY DEF OwnPage, Answer, Held, Resources
<1>2. Limit["grades"] \in Nat \ {0}
  BY Limits DEF Resources
<1>3. LET p == FirstPage(GradesOf(k, u), Limit["grades"]) IN
      /\ p \in Seq(Grades) /\ ToSet(p) \subseteq ToSet(GradesOf(k, u))
      /\ Len(p) < Limit["grades"] => p = GradesOf(k, u)
  BY <1>2, GradesAnswer, PageOf
<1> QED  BY <1>1, <1>3, GradesAnswer DEF Whole

LEMMA ColumnPageFacts ==
  ASSUME CallTypeOK, NEW c \in Columns
  PROVE  LET all == {Grade(c, u) : u \in {v \in Users : grade[c][v] # None}} IN
         /\ ColumnPage(c) \in Seq(Grades)
         /\ ToSet(ColumnPage(c)) \subseteq all
         /\ Whole(ColumnPage(c), "columnGrades") => ToSet(ColumnPage(c)) = all
<1>1. ColumnPage(c) = FirstPage(ColumnGrades(c), Limit["columnGrades"])
  BY DEF ColumnPage, Answer, Held, Resources
<1>2. Limit["columnGrades"] \in Nat \ {0}
  BY Limits DEF Resources
<1>3. LET p == FirstPage(ColumnGrades(c), Limit["columnGrades"]) IN
      /\ p \in Seq(Grades) /\ ToSet(p) \subseteq ToSet(ColumnGrades(c))
      /\ Len(p) < Limit["columnGrades"] => p = ColumnGrades(c)
  BY <1>2, ColumnGradesAnswer, PageOf
<1> QED  BY <1>1, <1>3, ColumnGradesAnswer DEF Whole

\* The scores of a list of grades add up to a number.
LEMMA ScoredFacts ==
  ASSUME NEW list \in Seq(Grades)
  PROVE  /\ Scored(list) \in Seq(Grades)
         /\ ToSet(Scored(list)) = {g \in ToSet(list) : g.score # Unscored}
         /\ Len(Scored(list)) \in Nat
         /\ Scored(list) # <<>> <=> Len(Scored(list)) # 0
         /\ Total(list) \in Int
<1> DEFINE S == {i \in DOMAIN list : list[i].score # Unscored}
           s == At(list, InOrder(S))
           n == [i \in DOMAIN s |-> s[i].score]
<1>1. Scored(list) = s /\ Total(list) = Added(n)
  BY DEF Scored, Filter, Total, ForEach
<1>2. S \in SUBSET DOMAIN list
  OBVIOUS
<1>3. {list[i] : i \in S} = {g \in ToSet(list) : g.score # Unscored}
  BY DEF ToSet
<1> HIDE DEF S
<1>4. s \in Seq(Grades) /\ ToSet(s) = {g \in ToSet(list) : g.score # Unscored}
  BY <1>2, <1>3, Selected
<1> HIDE DEF s
<1>5. Len(s) \in Nat /\ DOMAIN s = 1..Len(s) /\ (s # <<>> <=> Len(s) # 0)
  BY <1>4, LenProperties, EmptySeq
<1>6. \A i \in 1..Len(s) : s[i].score \in 0..(100 * Point)
  <2> SUFFICES ASSUME NEW i \in 1..Len(s) PROVE s[i].score \in 0..(100 * Point)
    OBVIOUS
  <2>1. s[i] \in ToSet(s) /\ s[i] \in Grades
    BY <1>4, <1>5, ElementOfSeq DEF ToSet
  <2>2. s[i].score # Unscored /\ s[i].score \in Scores \cup {Unscored}
    BY <1>4, <2>1 DEF Grades
  <2> QED  BY <2>2, ReportsAssumption
<1>7. n \in [1..Len(s) -> Int] /\ \A i \in 1..Len(s) : 0 <= n[i] /\ n[i] <= 100 * Point
  <2>1. n = [i \in 1..Len(s) |-> s[i].score]
    BY <1>5
  <2>2. \A i \in 1..Len(s) : s[i].score \in Int /\ 0 <= s[i].score /\ s[i].score <= 100 * Point
    <3>1. \A x \in 0..(100 * Point) : x \in Int /\ 0 <= x /\ x <= 100 * Point
      BY ReportsAssumption
    <3> QED  BY <1>6, <3>1
  <2> HIDE DEF n
  <2> QED  BY <2>1, <2>2
<1> HIDE DEF n
<1>8. n \in Seq(Int) /\ DOMAIN n = 1..Len(s)
  BY <1>5, <1>7, Listed
<1>9. Added(n) \in Int
  <2>1. 0 \in Int /\ 100 * Point \in Int
    BY ReportsAssumption
  <2> QED  BY <1>7, <1>8, <2>1, AddedBounds
<1> QED  BY <1>1, <1>4, <1>5, <1>9 DEF s

\* What is shown, in tenths: so many half tenths, less one, are in the sum.
LEMMA TenthsFacts ==
  ASSUME NEW sum \in Int, NEW count \in Nat, count # 0
  PROVE  /\ Tenths(sum, count) \in Int
         /\ \A t \in Int :
              t <= Tenths(sum, count) <=> count * ((2 * t - 1) * Point) <= 20 * sum
<1> DEFINE n == 2 * count * Point
           a == 20 * sum + count * Point
<1>1. Point \in Nat \ {0}
  BY ReportsAssumption
<1>2. n \in Nat /\ n # 0 /\ a \in Int
  <2>1. 2 * count \in Nat \ {0}
    OBVIOUS
  <2>2. \A x, y \in Nat \ {0} : x * y \in Nat \ {0}
    OBVIOUS
  <2>3. n \in Nat \ {0}
    BY <1>1, <2>1, <2>2
  <2> QED  BY <1>1, <2>3
<1>3. ASSUME NEW t \in Int
      PROVE  /\ a \div n \in Int
             /\ t <= a \div n <=> t * n <= a
  <2> HIDE DEF a, n
  <2> QED  BY <1>2, Quotient
<1>4. ASSUME NEW t \in Int
      PROVE  t * n <= a <=> count * ((2 * t - 1) * Point) <= 20 * sum
  <2> DEFINE w == count * Point
             x == t * w
  <2>1. w \in Int /\ x \in Int
    BY <1>1
  <2>2. t * n = 2 * x
    BY <1>1
  <2>3. count * ((2 * t - 1) * Point) = 2 * x - w
    BY <1>1
  <2>4. a = 20 * sum + w
    OBVIOUS
  <2> HIDE DEF w, x, a, n
  <2> QED  BY <2>1, <2>2, <2>3, <2>4
<1> QED  BY <1>3, <1>4 DEF Tenths

\* The greater of two quotients is shown as no less.
LEMMA TenthsGrow ==
  ASSUME NEW a \in Int, NEW m \in Nat, m # 0, NEW b \in Int, NEW n \in Nat, n # 0,
         a * n <= b * m
  PROVE  Tenths(a, m) <= Tenths(b, n)
<1> DEFINE t == Tenths(a, m)
           x == (2 * t - 1) * Point
<1>1. t \in Int /\ (t <= t <=> m * x <= 20 * a)
  BY TenthsFacts
<1>2. x \in Int
  BY <1>1, ReportsAssumption
<1> HIDE DEF t, x
<1>3. m * x <= 20 * a
  BY <1>1
<1>4. n * (m * x) <= n * (20 * a)
  <2>1. \A y, z \in Int : y <= z => n * y <= n * z
    OBVIOUS
  <2>2. m * x \in Int /\ 20 * a \in Int
    BY <1>2
  <2> QED  BY <1>3, <2>1, <2>2
<1>5. m * (n * x) <= m * (20 * b)
  <2>1. n * (m * x) = m * (n * x)
    BY <1>2
  <2>2. n * (20 * a) = 20 * (a * n) /\ m * (20 * b) = 20 * (b * m)
    OBVIOUS
  <2>3. 20 * (a * n) <= 20 * (b * m)
    <3>1. \A y, z \in Int : y <= z => 20 * y <= 20 * z
      OBVIOUS
    <3>2. a * n \in Int /\ b * m \in Int
      OBVIOUS
    <3> QED  BY <3>1, <3>2
  <2>4. n * (m * x) \in Int /\ 20 * (a * n) \in Int /\ 20 * (b * m) \in Int
    BY <1>2
  <2>5. \A y1, y2, y3 \in Int : y1 <= y2 /\ y2 <= y3 => y1 <= y3
    OBVIOUS
  <2>6. n * (m * x) <= 20 * (a * n)
    BY <1>4, <2>2
  <2>7. n * (m * x) <= 20 * (b * m)
    BY <2>3, <2>4, <2>5, <2>6
  <2> QED  BY <2>1, <2>2, <2>7
<1>6. n * x <= 20 * b
  <2>1. \A y, z \in Int : ~(y <= z) => ~(m * y <= m * z)
    <3> SUFFICES ASSUME NEW y \in Int, NEW z \in Int, ~(y <= z)
                 PROVE  ~(m * y <= m * z)
      OBVIOUS
    <3>1. y - z \in Nat \ {0} /\ m * y = m * z + m * (y - z)
      OBVIOUS
    <3>2. \A i, j \in Nat \ {0} : i * j \in Nat \ {0}
      OBVIOUS
    <3>3. m * (y - z) \in Nat \ {0}
      BY <3>1, <3>2
    <3> DEFINE u == m * y
               v == m * z
               w == m * (y - z)
    <3>4. u \in Int /\ v \in Int /\ w \in Nat \ {0} /\ u = v + w
      BY <3>1, <3>3
    <3> HIDE DEF u, v, w
    <3>5. ~(u <= v)
      BY <3>4
    <3> QED  BY <3>5 DEF u, v
  <2>2. n * x \in Int /\ 20 * b \in Int
    BY <1>2
  <2> QED  BY <1>5, <2>1, <2>2
<1> QED  BY <1>1, <1>6, TenthsFacts DEF t, x

\* Nobody is on a roster twice.
LEMMA RosterHasOnce ==
  ASSUME CallTypeOK, NEW k \in Courses
  PROVE  /\ Roster(k) \in Seq(Members)
         /\ \A i \in DOMAIN Roster(k) :
              /\ Roster(k)[i].id \in Users /\ role[k][Roster(k)[i].id] # None
              /\ Roster(k)[i] = Member(k, Roster(k)[i].id)
         /\ \A i, j \in DOMAIN Roster(k) : Roster(k)[i].id = Roster(k)[j].id => i = j
         /\ \A u \in Users : role[k][u] # None =>
              \E i \in DOMAIN Roster(k) : Roster(k)[i].id = u
<1> DEFINE S == {i \in DOMAIN UserList : role[k][UserList[i]] # None}
           o == InOrder(S)
           e == At(UserList, o)
           R == Roster(k)
<1>1. R \in Seq(Members)
      /\ ToSet(R) = {Member(k, u) : u \in {v \in Users : role[k][v] # None}}
  BY RosterHolds
<1>2. R = [i \in DOMAIN e |-> Member(k, e[i])]
  BY DEF Roster, Filter
<1>3. UserList \in Seq(Users) /\ S \in SUBSET DOMAIN UserList
      /\ \A i, j \in DOMAIN UserList : UserList[i] = UserList[j] => i = j
  BY ReportsAssumption DEF NoneTwice
<1>4. DOMAIN UserList = 1..Len(UserList) /\ Len(UserList) \in Nat
      /\ \A i \in DOMAIN UserList : UserList[i] \in Users
  BY <1>3, LenProperties, ElementOfSeq
<1>5. \A i \in S : UserList[i] \in Users /\ role[k][UserList[i]] # None
  BY <1>4
<1> HIDE DEF S, R
<1>6. /\ DOMAIN e = 1..Len(e) /\ Len(e) \in Nat
      /\ \A m \in DOMAIN e : o[m] \in S /\ e[m] = UserList[o[m]]
      /\ \A m, n \in DOMAIN e : m < n => o[m] < o[n]
  BY <1>3, Selected, LenProperties
<1> HIDE DEF e, o
<1>7. \A i \in DOMAIN R : R[i].id = e[i] /\ R[i] = Member(k, e[i])
      /\ i \in DOMAIN e /\ o[i] \in S /\ e[i] = UserList[o[i]]
  BY <1>2, <1>6 DEF Member
<1>8. ASSUME NEW i \in DOMAIN R, NEW j \in DOMAIN R, R[i].id = R[j].id PROVE i = j
  <2>1. UserList[o[i]] = UserList[o[j]] /\ o[i] \in DOMAIN UserList /\ o[j] \in DOMAIN UserList
    BY <1>3, <1>7, <1>8
  <2>2. o[i] = o[j] /\ o[i] \in Nat
    BY <1>3, <1>4, <2>1
  <2>3. i \in Nat /\ j \in Nat
    BY <1>6, <1>7
  <2>4. ~(i < j) /\ ~(j < i)
    BY <1>6, <1>7, <2>2
  <2> QED  BY <2>3, <2>4
<1>9. ASSUME NEW u \in Users, role[k][u] # None
      PROVE  \E i \in DOMAIN R : R[i].id = u
  <2>1. Member(k, u) \in ToSet(R)
    BY <1>1, <1>9
  <2>2. Member(k, u).id = u
    BY DEF Member
  <2> QED  BY <2>1, <2>2 DEF ToSet
<1> QED  BY <1>1, <1>5, <1>7, <1>8, <1>9 DEF R

\* Nor on the page of it that is read.
RosterPage(k) == Answer(<<"roster", k>>)

LEMMA RosterOnce ==
  ASSUME CallTypeOK, NEW k \in Courses
  PROVE  LET R == RosterPage(k) IN
         /\ R \in Seq(Members)
         /\ \A i \in DOMAIN R :
              /\ R[i].id \in Users /\ role[k][R[i].id] # None
              /\ R[i].id \in OnRoster(k) /\ R[i] = Member(k, R[i].id)
         /\ \A i, j \in DOMAIN R : R[i].id = R[j].id => i = j
         /\ \A u \in OnRoster(k) :
              u \in Users /\ role[k][u] # None /\ \E i \in DOMAIN R : R[i].id = u
<1> DEFINE R == RosterPage(k)
           all == Roster(k)
<1>1. R = FirstPage(all, Limit["roster"])
  BY RosterAnswer DEF RosterPage
<1>2. Limit["roster"] \in Nat \ {0}
  BY Limits DEF Resources
<1>3. /\ all \in Seq(Members)
      /\ \A i \in DOMAIN all : /\ all[i].id \in Users /\ role[k][all[i].id] # None
                               /\ all[i] = Member(k, all[i].id)
      /\ \A i, j \in DOMAIN all : all[i].id = all[j].id => i = j
  BY RosterHasOnce
<1>4. OnRoster(k) = {m.id : m \in ToSet(R)}
  BY DEF OnRoster, RosterPage
<1> HIDE DEF R, all
<1>5. /\ R \in Seq(Members) /\ Len(R) \in Nat /\ DOMAIN R = 1..Len(R)
      /\ \A i \in DOMAIN R : i \in DOMAIN all /\ R[i] = all[i]
  BY <1>1, <1>2, <1>3, PageOf
<1>6. \A i \in DOMAIN R : R[i].id \in OnRoster(k)
  BY <1>4 DEF ToSet
<1>7. \A u \in OnRoster(k) : \E i \in DOMAIN R : R[i].id = u
  BY <1>4 DEF ToSet
<1> QED  BY <1>3, <1>5, <1>6, <1>7 DEF R

\* What a student is shown of the own grades in a course.
LEMMA OwnGrades ==
  ASSUME NEW k \in Courses, NEW u \in Users
  PROVE  Head(GetMyGrades([user |-> u, course |-> k], AtOnce).result)
           = [course |-> k, average |-> Average(OwnPage(k, u)),
              grades |-> OwnPage(k, u)]
<1> DEFINE a == [user |-> u, course |-> k]
           row(x) == [course |-> x, average |-> Average(Got(AtOnce, <<"grades", x, u>>)),
                      grades |-> Got(AtOnce, <<"grades", x, u>>)]
           courses == Got(AtOnce, CourseRead(a))
           r == [i \in DOMAIN courses |-> row(courses[i])]
<1>1. k # None
  BY ReportsAssumption
<1>2. CourseRead(a) = <<"course", k>>
  BY <1>1 DEF CourseRead
<1>3. courses = <<k>>
  BY <1>2, AtOnceAnswers
<1>4. GetMyGrades(a, AtOnce).result = r
  BY DEF GetMyGrades, ForEach
<1>5. row(k) = [course |-> k, average |-> Average(OwnPage(k, u)),
                grades |-> OwnPage(k, u)]
  BY AtOnceAnswers DEF OwnPage
<1> HIDE DEF row, courses
<1>6. r = <<row(k)>>
  BY <1>3
<1>7. Head(<<row(k)>>) = row(k)
  OBVIOUS
<1> QED  BY <1>4, <1>5, <1>6, <1>7

\* What an instructor who asks for one student is shown.
LEMMA GradesAsked ==
  ASSUME CallTypeOK, NEW k \in Courses, NEW u \in Users
  PROVE  GetGrades([user |-> u, course |-> k, column |-> None], AtOnce).result
           = IF u \in OnRoster(k) THEN <<[user |-> u, grades |-> OwnPage(k, u)]>>
             ELSE <<>>
<1> DEFINE a == [user |-> u, course |-> k, column |-> None]
           list == OwnPage(k, u)
           kept == {i \in DOMAIN list : None \in {None, list[i].column}}
           R == Got(AtOnce, <<"roster", a.course>>)
           S == {i \in DOMAIN R : a.user \in {None, R[i].id}}
           asked == At(R, InOrder(S))
           got(m) == Got(AtOnce, <<"grades", a.course, m.id>>)
           wanted(m) == At(got(m), InOrder({i \in DOMAIN got(m) :
                          a.column \in {None, got(m)[i].column}}))
           row(m) == [user |-> m.id, grades |-> wanted(m)]
           r == [i \in DOMAIN asked |-> row(asked[i])]
<1>1. u # None /\ a.user = u /\ a.course = k /\ a.column = None
  BY ReportsAssumption
<1> HIDE DEF a
<1>2. GetGrades(a, AtOnce).result = r
  BY <1>1 DEF GetGrades, ForEach, Filter
<1>3. R = RosterPage(k)
  BY <1>1, AtOnceAnswers DEF RosterPage
<1>4. At(list, InOrder(kept)) = list
  <2>1. kept = DOMAIN list
    OBVIOUS
  <2>2. list \in Seq(Grades)
    BY OwnPageFacts
  <2> HIDE DEF list, kept
  <2> QED  BY <2>1, <2>2, KeptWhole
<1> HIDE DEF R
<1>5. R \in Seq(Members)
  BY <1>3, RosterOnce
<1>6. CASE u \in OnRoster(k)
  <2>1. PICK i0 \in DOMAIN R : R[i0].id = u
    BY <1>3, <1>6, RosterOnce
  <2>2. S = {i0}
    BY <1>1, <1>3, <2>1, RosterOnce
  <2>3. asked = <<R[i0]>>
    <3> HIDE DEF S
    <3> QED  BY <1>5, <2>1, <2>2, KeptOne
  <2>4. got(R[i0]) = list
    BY <1>1, <2>1, AtOnceAnswers DEF OwnPage
  <2>5. row(R[i0]) = [user |-> u, grades |-> list]
    <3>1. row(R[i0]) = [user |-> u, grades |-> At(list, InOrder(kept))]
      <4> HIDE DEF got, list
      <4> QED  BY <1>1, <2>1, <2>4
    <3> HIDE DEF row, kept, list
    <3> QED  BY <1>4, <3>1
  <2> HIDE DEF row, asked
  <2>6. r = <<row(R[i0])>>
    BY <2>3
  <2> QED  BY <1>2, <1>6, <2>5, <2>6 DEF a
<1>7. CASE u \notin OnRoster(k)
  <2>1. S = {}
    BY <1>1, <1>3, <1>7, RosterOnce
  <2>2. Len(asked) = 0 /\ asked \in Seq(Members)
    <3>1. S \in SUBSET DOMAIN R
      OBVIOUS
    <3> HIDE DEF S
    <3> QED  BY <1>5, <2>1, <3>1, Selected, FS_EmptySet
  <2> HIDE DEF asked
  <2>3. asked = <<>>
    BY <2>2, EmptySeq
  <2> HIDE DEF row
  <2>4. r = <<>>
    BY <2>3
  <2> QED  BY <1>2, <1>7, <2>4 DEF a
<1> QED  BY <1>6, <1>7

\* What decides about a student at risk, and what is shown.
MissingOf(k, u) ==
  Cardinality({c \in ColumnsShown(k) :
    \A g \in ToSet(Scored(OwnPage(k, u))) : g.column # c})

ScoresOf(k, u) == Len(Scored(OwnPage(k, u)))

SumOf(k, u) == Total(OwnPage(k, u))

AtRisk(k, threshold) ==
  {u \in OnRoster(k) : /\ Scored(OwnPage(k, u)) # <<>>
                      /\ \/ SumOf(k, u) < threshold * ScoresOf(k, u)
                         \/ MissingOf(k, u) > 2}

RiskRow(k, threshold, u) ==
  [user |-> u, missing |-> MissingOf(k, u),
   average |-> Tenths(SumOf(k, u), ScoresOf(k, u)),
   risk |-> Risk(SumOf(k, u), ScoresOf(k, u), threshold)]

\* The list has a row for everybody at risk, in order of the averages shown.
LEMMA AtRiskRows ==
  ASSUME CallTypeOK, NEW k \in Courses, NEW threshold
  PROVE  LET rows == GetAtRiskStudents([course |-> k, threshold |-> threshold],
                                       AtOnce).result IN
         /\ ToSet(rows) = {RiskRow(k, threshold, u) : u \in AtRisk(k, threshold)}
         /\ \A i, j \in DOMAIN rows : i < j => rows[i].average <= rows[j].average
<1> DEFINE a == [course |-> k, threshold |-> threshold]
           enrolled == Got(AtOnce, <<"roster", a.course>>)
           columns == <<"columns", a.course>>
           grades(m) == Got(AtOnce, <<"grades", a.course, m.id>>)
           scored(m) == Scored(grades(m))
           sum(m) == Total(grades(m))
           missing(m) == Cardinality({c \in ToSet(Got(AtOnce, columns)) :
                           \A g \in ToSet(scored(m)) : g.column # c})
           S == {i \in DOMAIN enrolled :
                  /\ scored(enrolled[i]) # <<>>
                  /\ \/ sum(enrolled[i]) < a.threshold * Len(scored(enrolled[i]))
                     \/ missing(enrolled[i]) > 2}
           listed == At(enrolled, InOrder(S))
           row(m) == [user |-> m.id, missing |-> missing(m),
                      average |-> Tenths(sum(m), Len(scored(m))),
                      risk |-> Risk(sum(m), Len(scored(m)), a.threshold)]
           rows == [i \in DOMAIN listed |-> row(listed[i])]
           keys == [i \in DOMAIN rows |-> rows[i].average]
           sorted == At(rows, SortOrder(keys))
           T == {RiskRow(k, threshold, u) : u \in AtRisk(k, threshold)}
<1>1. a.course = k /\ a.threshold = threshold
  OBVIOUS
<1> HIDE DEF a
<1>2. GetAtRiskStudents(a, AtOnce).result = sorted
  BY DEF GetAtRiskStudents, ForEach, Filter, SortedBy
<1>3. enrolled = RosterPage(k) /\ ToSet(Got(AtOnce, columns)) = ColumnsShown(k)
  BY <1>1, AtOnceAnswers DEF RosterPage, ColumnsShown
<1>4. \A m : m.id \in Users => grades(m) = OwnPage(k, m.id)
  BY <1>1, AtOnceAnswers DEF OwnPage
<1> HIDE DEF columns, grades
<1>5. \A m : m.id \in Users =>
        /\ scored(m) = Scored(OwnPage(k, m.id)) /\ sum(m) = SumOf(k, m.id)
        /\ Len(scored(m)) = ScoresOf(k, m.id)
        /\ missing(m) = MissingOf(k, m.id)
  <2> SUFFICES ASSUME NEW m, m.id \in Users
               PROVE  /\ scored(m) = Scored(OwnPage(k, m.id)) /\ sum(m) = SumOf(k, m.id)
                      /\ Len(scored(m)) = ScoresOf(k, m.id)
                      /\ missing(m) = MissingOf(k, m.id)
    OBVIOUS
  <2>1. grades(m) = OwnPage(k, m.id)
    BY <1>4
  <2>2. scored(m) = Scored(OwnPage(k, m.id)) /\ sum(m) = SumOf(k, m.id)
    BY <2>1 DEF SumOf
  <2> HIDE DEF scored
  <2>3. missing(m) = MissingOf(k, m.id)
    BY <1>3, <2>2 DEF MissingOf
  <2> QED  BY <2>2, <2>3 DEF ScoresOf
<1> HIDE DEF scored, sum, missing
<1>6. \A m : m.id \in Users => row(m) = RiskRow(k, threshold, m.id)
  BY <1>1, <1>5 DEF RiskRow
<1> HIDE DEF row
<1>7. /\ enrolled \in Seq(Members) /\ S \in SUBSET DOMAIN enrolled
      /\ \A i \in DOMAIN enrolled : enrolled[i].id \in Users
  BY <1>3, RosterOnce
<1>8. \A i \in DOMAIN enrolled : i \in S <=> enrolled[i].id \in AtRisk(k, threshold)
  <2> SUFFICES ASSUME NEW i \in DOMAIN enrolled
               PROVE  i \in S <=> enrolled[i].id \in AtRisk(k, threshold)
    OBVIOUS
  <2>1. enrolled[i].id \in Users /\ enrolled[i].id \in OnRoster(k)
    BY <1>3, RosterOnce
  <2> HIDE DEF enrolled
  <2> QED  BY <1>1, <1>5, <2>1 DEF AtRisk
<1>9. \A u \in AtRisk(k, threshold) : \E i \in DOMAIN enrolled : enrolled[i].id = u
  BY <1>3, RosterOnce DEF AtRisk
<1> HIDE DEF enrolled, S
<1>10. /\ listed \in Seq(Members) /\ DOMAIN listed = 1..Len(listed) /\ Len(listed) \in Nat
       /\ ToSet(listed) = {enrolled[i] : i \in S}
  BY <1>7, Selected, LenProperties
<1> HIDE DEF listed
<1>11. \A i \in DOMAIN listed : /\ listed[i].id \in AtRisk(k, threshold)
                                /\ listed[i].id \in Users
  <2>1. \A m \in ToSet(listed) : m.id \in AtRisk(k, threshold) /\ m.id \in Users
    BY <1>7, <1>8, <1>10
  <2> QED  BY <2>1 DEF ToSet
<1>12. rows \in [1..Len(listed) -> T] /\ DOMAIN rows = 1..Len(listed)
  <2>1. \A i \in DOMAIN listed : row(listed[i]) \in T
    BY <1>6, <1>11
  <2> HIDE DEF T
  <2> QED  BY <1>10, <2>1
<1>13. ToSet(rows) = T
  <2>1. \A i \in DOMAIN listed : rows[i] = RiskRow(k, threshold, listed[i].id)
    BY <1>6, <1>11
  <2>2. ASSUME NEW u \in AtRisk(k, threshold)
        PROVE  RiskRow(k, threshold, u) \in ToSet(rows)
    <3>1. PICK i \in S : enrolled[i].id = u
      BY <1>8, <1>9, <2>2
    <3>2. PICK j \in DOMAIN listed : listed[j] = enrolled[i]
      BY <1>10 DEF ToSet
    <3>3. j \in DOMAIN rows /\ rows[j] = RiskRow(k, threshold, u)
      BY <1>10, <1>12, <2>1, <3>1, <3>2
    <3> QED  BY <3>3 DEF ToSet
  <2>3. ToSet(rows) \subseteq T
    BY <1>12 DEF ToSet
  <2> QED  BY <2>2, <2>3
<1> HIDE DEF rows, T
<1>14. rows \in Seq(T) /\ DOMAIN rows = 1..Len(listed)
  BY <1>10, <1>12, Listed
<1>15. keys \in [DOMAIN rows -> Int]
  <2>1. \A t \in T : t.average \in Int
    <3> SUFFICES ASSUME NEW u \in AtRisk(k, threshold)
                 PROVE  RiskRow(k, threshold, u).average \in Int
      BY DEF T
    <3>1. OwnPage(k, u) \in Seq(Grades) /\ Scored(OwnPage(k, u)) # <<>>
      BY OwnPageFacts, RosterOnce DEF AtRisk
    <3>2. /\ SumOf(k, u) \in Int /\ ScoresOf(k, u) \in Nat
          /\ ScoresOf(k, u) # 0
      BY <3>1, ScoredFacts DEF SumOf, ScoresOf
    <3> QED  BY <3>2, TenthsFacts DEF RiskRow
  <2>2. \A i \in DOMAIN rows : rows[i] \in T
    BY <1>14, <1>12
  <2> QED  BY <2>1, <2>2
<1>16. /\ sorted \in Seq(T) /\ DOMAIN sorted = DOMAIN rows
       /\ ToSet(sorted) = ToSet(rows)
       /\ SortOrder(keys) \in [DOMAIN rows -> DOMAIN rows]
       /\ \A m \in DOMAIN sorted : sorted[m] = rows[SortOrder(keys)[m]]
       /\ \A l, m \in DOMAIN sorted : l < m =>
            keys[SortOrder(keys)[l]] <= keys[SortOrder(keys)[m]]
  <2> HIDE DEF keys, sorted
  <2>1. LET o == SortOrder(keys)
            r == At(rows, o) IN
        /\ r \in Seq(T) /\ Len(r) = Len(rows) /\ DOMAIN r = DOMAIN rows
        /\ ToSet(r) = ToSet(rows)
        /\ o \in [DOMAIN rows -> DOMAIN rows]
        /\ \A m \in DOMAIN r : r[m] = rows[o[m]]
        /\ \A i \in DOMAIN rows : \E m \in DOMAIN r : o[m] = i
        /\ \A l, m \in DOMAIN r : l < m => keys[o[l]] <= keys[o[m]]
        /\ \A l, m \in DOMAIN r : o[l] = o[m] => l = m
    BY <1>14, <1>15, Sorted
  <2> QED  BY <2>1 DEF sorted
<1>17. \A i, j \in DOMAIN sorted : i < j => sorted[i].average <= sorted[j].average
  <2> SUFFICES ASSUME NEW i \in DOMAIN sorted, NEW j \in DOMAIN sorted, i < j
               PROVE  sorted[i].average <= sorted[j].average
    OBVIOUS
  <2>1. \A l \in DOMAIN rows : keys[l] = rows[l].average
    OBVIOUS
  <2> HIDE DEF keys, sorted
  <2> QED  BY <1>16, <2>1
<1> QED  BY <1>2, <1>13, <1>16, <1>17 DEF a, T

\* Numbers of a student at risk.
LEMMA RiskNumbers ==
  ASSUME CallTypeOK, NEW k, NEW u \in Users, Scored(OwnPage(k, u)) # <<>>
  PROVE  /\ SumOf(k, u) \in Int /\ ScoresOf(k, u) \in Nat /\ ScoresOf(k, u) # 0
         /\ Tenths(SumOf(k, u), ScoresOf(k, u)) \in Int
<1>1. OwnPage(k, u) \in Seq(Grades)
  BY OwnPageFacts
<1>2. SumOf(k, u) \in Int /\ ScoresOf(k, u) \in Nat /\ ScoresOf(k, u) # 0
  BY <1>1, ScoredFacts DEF SumOf, ScoresOf
<1> QED  BY <1>2, TenthsFacts

\* The levels that follow from the average shown.
LEMMA RiskOf ==
  ASSUME NEW s \in Int, NEW n \in Nat, n # 0, NEW threshold \in Int
  PROVE  /\ Tenths(s, n) < 600 => Risk(s, n, threshold) = "high"
         /\ Risk(s, n, threshold) = "high" => Tenths(s, n) <= 600
         /\ Risk(s, n, threshold) = "low" =>
              ~(s < threshold * n) /\ Tenths(s, n) >= Tenths(threshold, 1)
         /\ Tenths(s, n) < Tenths(threshold, 1) => s < threshold * n
<1> DEFINE q == Tenths(s, n)
           w == n * Point
<1>1. /\ q \in Int /\ w \in Int /\ w > 0
      /\ 600 <= q <=> 1199 * w <= 20 * s
      /\ 601 <= q <=> 1201 * w <= 20 * s
  <2> DEFINE Least(t) == n * ((2 * t - 1) * Point)
  <2>1. q \in Int /\ \A t \in Int : t <= q <=> Least(t) <= 20 * s
    BY TenthsFacts
  <2>2. Point \in Nat \ {0}
    BY ReportsAssumption
  <2>3. w \in Int /\ w > 0
    <3>1. \A i, j \in Nat \ {0} : i * j \in Nat \ {0}
      OBVIOUS
    <3>2. w \in Nat \ {0}
      BY <2>2, <3>1
    <3> HIDE DEF w
    <3> QED  BY <3>2
  <2>4. Least(600) = 1199 * w /\ Least(601) = 1201 * w
    BY <2>2
  <2>5. 600 \in Int /\ 601 \in Int
    OBVIOUS
  <2> HIDE DEF q, w, Least
  <2>6. /\ 600 <= q <=> Least(600) <= 20 * s
        /\ 601 <= q <=> Least(601) <= 20 * s
    BY <2>1, <2>5
  <2> QED  BY <2>1, <2>3, <2>4, <2>6
<1>2. 60 * Point * n = 60 * w
  BY ReportsAssumption
<1>3. Risk(s, n, threshold) = "high" <=> s < 60 * w
  BY <1>2 DEF Risk
<1>4. Risk(s, n, threshold) = "low" => ~(s < threshold * n)
  BY DEF Risk
<1>5. ~(s < threshold * n) => Tenths(threshold, 1) <= q
  <2> SUFFICES ASSUME ~(s < threshold * n) PROVE Tenths(threshold, 1) <= q
    OBVIOUS
  <2>1. threshold * n <= s * 1
    OBVIOUS
  <2> QED  BY <2>1, TenthsGrow
<1>6. Tenths(threshold, 1) \in Int
  BY TenthsFacts
<1> HIDE DEF q, w
<1>7. q < 600 => s < 60 * w
  BY <1>1
<1>8. s < 60 * w => q <= 600
  BY <1>1
<1>9. /\ Risk(s, n, threshold) = "low" => q >= Tenths(threshold, 1)
      /\ q < Tenths(threshold, 1) => s < threshold * n
  <2> DEFINE x == Tenths(threshold, 1)
             y == s < threshold * n
  <2>1. x \in Int /\ (~y => x <= q)
    BY <1>5, <1>6
  <2> HIDE DEF x, y
  <2>2. (~y => q >= x) /\ (q < x => y)
    BY <1>1, <2>1
  <2> QED  BY <1>4, <2>2 DEF x, y
<1> QED  BY <1>3, <1>4, <1>7, <1>8, <1>9 DEF q

\* Assignments without a score count as missing.
LEMMA MissingAreUnscored ==
  ASSUME CallTypeOK, NEW k, NEW u \in Users
  PROVE  /\ MissingOf(k, u) \in Nat /\ Unscores(k, u) \in Nat
         /\ Unscores(k, u) <= MissingOf(k, u)
<1> DEFINE L == OwnPage(k, u)
           C == ColumnsShown(k)
           M == {c \in C : \A g \in ToSet(Scored(L)) : g.column # c}
           U == {c \in C : grade[c][u] \in {None, Unscored}}
<1>1. L \in Seq(Grades)
      /\ ToSet(L) \subseteq {Grade(c, u) : c \in {d \in Columns :
                               CourseOf[d] = k /\ grade[d][u] # None}}
  BY OwnPageFacts
<1>2. ToSet(Scored(L)) = {g \in ToSet(L) : g.score # Unscored}
  <2> HIDE DEF L
  <2> QED  BY <1>1, ScoredFacts
<1>3. IsFiniteSet(C)
  <2> DEFINE P == Answer(<<"columns", k>>)
  <2>1. P \in Seq(Columns) /\ C = ToSet(P)
    BY ColumnsPage DEF ColumnsShown
  <2> HIDE DEF P, C
  <2>2. Len(P) \in Nat /\ DOMAIN P = 1..Len(P)
    BY <2>1, LenProperties
  <2>3. IsFiniteSet(DOMAIN P)
    BY <2>2, FS_Interval
  <2>4. C = {P[i] : i \in DOMAIN P}
    BY <2>1 DEF ToSet
  <2> DEFINE D == DOMAIN P
             f == [i \in D |-> P[i]]
  <2>5. f \in Surjection(D, C)
    BY <2>4 DEF Surjection
  <2> HIDE DEF f, D
  <2> QED  BY <2>3, <2>5, FS_Surjection DEF D
<1> HIDE DEF L, C
<1>4. U \subseteq M
  <2> SUFFICES ASSUME NEW c \in U, NEW g \in ToSet(Scored(L)), g.column = c
               PROVE  FALSE
    OBVIOUS
  <2>1. g \in ToSet(L) /\ g.score # Unscored
    BY <1>2
  <2>2. PICK d \in Columns : g = Grade(d, u) /\ grade[d][u] # None
    BY <1>1, <2>1
  <2>3. d = c /\ g.score = grade[c][u]
    BY <2>2 DEF Grade
  <2> QED  BY <2>1, <2>2, <2>3
<1>5. M \subseteq C
  OBVIOUS
<1> HIDE DEF M, U
<1>6. /\ IsFiniteSet(M) /\ Cardinality(M) \in Nat /\ Cardinality(U) \in Nat
      /\ Cardinality(U) <= Cardinality(M)
  BY <1>3, <1>4, <1>5, FS_Subset, FS_CardinalityType
<1> QED  BY <1>6 DEF MissingOf, Unscores, M, U, L, C

\* The levels and the places in the list of students at risk.
LEMMA RiskSound == ASSUME CallTypeOK PROVE RiskFollowsAverage
<1> DEFINE own(k, u) == Head(GetMyGrades([user |-> u, course |-> k], AtOnce).result)
           list(k, t) == GetAtRiskStudents([course |-> k, threshold |-> t], AtOnce).result
<1> SUFFICES ASSUME NEW k \in Courses, NEW threshold \in {50 * Point, 70 * Point}
             PROVE  LET rows == list(k, threshold) IN
    /\ \A i, j \in DOMAIN rows : i < j => rows[i].average <= rows[j].average
    /\ \A row \in ToSet(rows) :
         /\ row.average < 600 => row.risk = "high"
         /\ row.risk = "high" => row.average <= 600
         /\ row.risk = "low" =>
              row.missing > 2 /\ row.average >= Tenths(threshold, 1)
    /\ \A u \in OnRoster(k) :
         own(k, u).average # None /\ (\/ own(k, u).average < Tenths(threshold, 1)
                                      \/ Unscores(k, u) > 2) =>
           u \in {row.user : row \in ToSet(rows)}
  BY DEF RiskFollowsAverage, EachBlackboard
<1> DEFINE rows == list(k, threshold)
<1>1. /\ ToSet(rows) = {RiskRow(k, threshold, u) : u \in AtRisk(k, threshold)}
      /\ \A i, j \in DOMAIN rows : i < j => rows[i].average <= rows[j].average
  BY AtRiskRows
<1> HIDE DEF rows, list
<1>2. threshold \in Int
  BY ReportsAssumption
<1>3. ASSUME NEW row \in ToSet(rows)
      PROVE  /\ row.average < 600 => row.risk = "high"
             /\ row.risk = "high" => row.average <= 600
             /\ row.risk = "low" =>
                  row.missing > 2 /\ row.average >= Tenths(threshold, 1)
  <2>1. PICK u \in AtRisk(k, threshold) : row = RiskRow(k, threshold, u)
    BY <1>1
  <2> DEFINE s == SumOf(k, u)
             n == ScoresOf(k, u)
  <2>2. u \in Users /\ Scored(OwnPage(k, u)) # <<>>
        /\ (s < threshold * n \/ MissingOf(k, u) > 2)
    BY RosterOnce DEF AtRisk
  <2>3. /\ row.average = Tenths(s, n) /\ row.risk = Risk(s, n, threshold)
        /\ row.missing = MissingOf(k, u)
    BY <2>1 DEF RiskRow
  <2>4. s \in Int /\ n \in Nat /\ n # 0
    BY <2>2, RiskNumbers
  <2> HIDE DEF s, n
  <2>5. /\ Tenths(s, n) < 600 => Risk(s, n, threshold) = "high"
        /\ Risk(s, n, threshold) = "high" => Tenths(s, n) <= 600
        /\ Risk(s, n, threshold) = "low" =>
             ~(s < threshold * n) /\ Tenths(s, n) >= Tenths(threshold, 1)
    BY <1>2, <2>4, RiskOf
  <2> QED  BY <2>2, <2>3, <2>5
<1>4. ASSUME NEW u \in OnRoster(k), own(k, u).average # None,
             own(k, u).average < Tenths(threshold, 1) \/ Unscores(k, u) > 2
      PROVE  u \in {row.user : row \in ToSet(rows)}
  <2>1. u \in Users
    BY RosterOnce
  <2>2. own(k, u).average = Average(OwnPage(k, u))
    <3>1. own(k, u) = [course |-> k, average |-> Average(OwnPage(k, u)),
                       grades |-> OwnPage(k, u)]
      BY <2>1, OwnGrades
    <3> HIDE DEF own
    <3> QED  BY <3>1
  <2> HIDE DEF own
  <2>3. Scored(OwnPage(k, u)) # <<>>
        /\ own(k, u).average = Tenths(SumOf(k, u), ScoresOf(k, u))
    BY <1>4, <2>2 DEF Average, SumOf, ScoresOf
  <2> DEFINE s == SumOf(k, u)
             n == ScoresOf(k, u)
  <2>4. s \in Int /\ n \in Nat /\ n # 0
    BY <2>1, <2>3, RiskNumbers
  <2>5. Tenths(s, n) < Tenths(threshold, 1) \/ MissingOf(k, u) > 2
    <3>1. Unscores(k, u) > 2 => MissingOf(k, u) > 2
      BY <2>1, MissingAreUnscored
    <3> QED  BY <1>4, <2>3, <3>1
  <2>6. Tenths(s, n) < Tenths(threshold, 1) => s < threshold * n
    <3> HIDE DEF s, n
    <3> QED  BY <1>2, <2>4, RiskOf
  <2>7. u \in AtRisk(k, threshold)
    BY <2>3, <2>5, <2>6 DEF AtRisk
  <2>8. RiskRow(k, threshold, u) \in ToSet(rows) /\ RiskRow(k, threshold, u).user = u
    BY <1>1, <2>7 DEF RiskRow
  <2> QED  BY <2>8
<1> QED  BY <1>1, <1>3, <1>4 DEF rows

\* What an instructor who asks for one column is shown.
ColumnRow(k, g) == [grade |-> g, named |-> g.user \in OnRoster(k)]

LEMMA ColumnAsked ==
  ASSUME CallTypeOK, NEW k \in Courses, NEW c \in Columns
  PROVE  LET rows == GetGrades([user |-> None, course |-> k, column |-> c], AtOnce).result
         IN  /\ ToSet(rows) = {ColumnRow(k, g) : g \in ToSet(ColumnPage(c))}
             /\ Len(rows) = Len(ColumnPage(c))
<1> DEFINE a == [user |-> None, course |-> k, column |-> c]
           enrolled == Got(AtOnce, <<"roster", a.course>>)
           list == Got(AtOnce, <<"columnGrades", a.column>>)
           row(g) == [grade |-> g, named |-> \E i \in DOMAIN enrolled : enrolled[i].id = g.user]
           r == [i \in DOMAIN list |-> row(list[i])]
<1>1. c # None /\ a.user = None /\ a.course = k /\ a.column = c
  BY ReportsAssumption
<1> HIDE DEF a
<1>2. GetGrades(a, AtOnce).result = r
  BY <1>1 DEF GetGrades, ForEach
<1>3. enrolled = RosterPage(k) /\ list = ColumnPage(c)
  BY <1>1, AtOnceAnswers DEF RosterPage, ColumnPage
<1>4. \A g : row(g) = ColumnRow(k, g)
  <2> DEFINE isOn(u) == \E i \in DOMAIN enrolled : enrolled[i].id = u
             on(u) == u \in OnRoster(k)
  <2>1. \A u : isOn(u) <=> on(u)
    <3> HIDE DEF enrolled
    <3> QED  BY <1>3, RosterOnce
  <2>2. \A u : isOn(u) \in BOOLEAN /\ on(u) \in BOOLEAN
    OBVIOUS
  <2>3. \A g : /\ row(g) = [grade |-> g, named |-> isOn(g.user)]
               /\ ColumnRow(k, g) = [grade |-> g, named |-> on(g.user)]
    BY DEF ColumnRow
  <2> HIDE DEF isOn, on, row
  <2>4. \A u : isOn(u) = on(u)
    BY <2>1, <2>2
  <2> QED  BY <2>3, <2>4
<1>5. ColumnPage(c) \in Seq(Grades)
  BY ColumnPageFacts
<1> HIDE DEF row
<1>6. ToSet(r) = {row(g) : g \in ToSet(list)}
  BY DEF ToSet
<1>7. Len(r) = Len(list)
  <2>1. Len(list) \in Nat /\ DOMAIN list = 1..Len(list)
    BY <1>3, <1>5, LenProperties
  <2> HIDE DEF list
  <2> QED  BY <2>1
<1> HIDE DEF r, list
<1>8. {row(g) : g \in ToSet(list)} = {ColumnRow(k, g) : g \in ToSet(list)}
  BY <1>4
<1> QED  BY <1>2, <1>3, <1>6, <1>7, <1>8 DEF a

\* The grades that student and instructor see.
LEMMA GradeViews == ASSUME CallTypeOK PROVE GradeViewsAgree
<1> DEFINE own(k, u) == Head(GetMyGrades([user |-> u, course |-> k], AtOnce).result)
           taught(k, u) ==
             GetGrades([user |-> u, course |-> k, column |-> None], AtOnce).result
           perColumn(k, c) ==
             GetGrades([user |-> None, course |-> k, column |-> c], AtOnce).result
           mine(k, u, c) == {e \in ToSet(perColumn(k, c)) : e.grade.user = u}
           risky(k) == GetAtRiskStudents([course |-> k, threshold |-> 70 * Point],
                                         AtOnce).result
           ofColumn(k, u, c) == {g \in ToSet(own(k, u).grades) : g.column = c}
<1> SUFFICES ASSUME NEW k \in Courses, NEW u \in StudentIn(k)
    PROVE  /\ taught(k, u) = IF u \in OnRoster(k)
                              THEN <<[user |-> u, grades |-> own(k, u).grades]>> ELSE <<>>
           /\ \A c \in ToSet(ColumnsOf(k)) :
                /\ \A e \in mine(k, u, c) :
                     /\ e.named <=> u \in OnRoster(k)
                     /\ \A g \in ofColumn(k, u, c) : g = e.grade
                /\ Whole(own(k, u).grades, "grades") =>
                     {e.grade : e \in mine(k, u, c)} \subseteq ofColumn(k, u, c)
                /\ Whole(perColumn(k, c), "columnGrades") =>
                     ofColumn(k, u, c) \subseteq {e.grade : e \in mine(k, u, c)}
           /\ \A row \in ToSet(risky(k)) :
                row.user = u => row.average = own(k, u).average
  BY DEF GradeViewsAgree, EachBlackboard
<1> DEFINE L == OwnPage(k, u)
<1>1. u \in Users
  BY DEF StudentIn
<1>2. own(k, u) = [course |-> k, average |-> Average(L), grades |-> L]
  BY <1>1, OwnGrades
<1>3. taught(k, u) = IF u \in OnRoster(k) THEN <<[user |-> u, grades |-> L]>> ELSE <<>>
  BY <1>1, GradesAsked
<1>4. LET all == {Grade(c, u) : c \in {d \in Columns : CourseOf[d] = k /\ grade[d][u] # None}}
      IN  /\ L \in Seq(Grades) /\ ToSet(L) \subseteq all
          /\ Whole(L, "grades") => ToSet(L) = all
  BY <1>1, OwnPageFacts
<1> HIDE DEF own, taught, perColumn, risky, L
<1>5. ASSUME NEW c \in ToSet(ColumnsOf(k))
      PROVE  /\ \A e \in mine(k, u, c) :
                  /\ e.named <=> u \in OnRoster(k)
                  /\ \A g \in ofColumn(k, u, c) : g = e.grade
             /\ Whole(own(k, u).grades, "grades") =>
                  {e.grade : e \in mine(k, u, c)} \subseteq ofColumn(k, u, c)
             /\ Whole(perColumn(k, c), "columnGrades") =>
                  ofColumn(k, u, c) \subseteq {e.grade : e \in mine(k, u, c)}
  <2> DEFINE G == ColumnPage(c)
  <2>1. c \in Columns /\ CourseOf[c] = k
    BY ColumnsAnswer
  <2>2. /\ ToSet(perColumn(k, c)) = {ColumnRow(k, g) : g \in ToSet(G)}
        /\ Len(perColumn(k, c)) = Len(G)
    BY <2>1, ColumnAsked DEF perColumn
  <2>3. LET all == {Grade(c, v) : v \in {w \in Users : grade[c][w] # None}}
        IN  ToSet(G) \subseteq all /\ (Whole(G, "columnGrades") => ToSet(G) = all)
    BY <2>1, ColumnPageFacts
  <2> HIDE DEF G
  <2>4. \A d, v : /\ Grade(d, v).user = v /\ Grade(d, v).column = d
    BY DEF Grade
  <2>5. \A g : ColumnRow(k, g).grade = g /\ (ColumnRow(k, g).named <=> g.user \in OnRoster(k))
    BY DEF ColumnRow
  <2>6. ASSUME NEW e \in mine(k, u, c)
        PROVE  /\ e = ColumnRow(k, Grade(c, u)) /\ e.grade = Grade(c, u)
               /\ grade[c][u] # None
    <3>1. PICK g \in ToSet(G) : e = ColumnRow(k, g)
      BY <2>2
    <3>2. PICK v \in Users : g = Grade(c, v) /\ grade[c][v] # None
      BY <2>3, <3>1
    <3>3. v = u
      BY <2>4, <2>5, <3>1, <3>2
    <3> QED  BY <2>5, <3>1, <3>2, <3>3
  <2>7. ASSUME NEW g \in ofColumn(k, u, c)
        PROVE  g = Grade(c, u) /\ grade[c][u] # None
    <3>1. g \in ToSet(L) /\ g.column = c
      BY <1>2
    <3> QED  BY <1>4, <2>4, <3>1
  <2>8. ASSUME NEW e \in mine(k, u, c)
        PROVE  /\ e.named <=> u \in OnRoster(k)
               /\ \A g \in ofColumn(k, u, c) : g = e.grade
    <3>1. e = ColumnRow(k, Grade(c, u)) /\ e.grade = Grade(c, u)
      BY <2>6
    <3>2. e.named <=> u \in OnRoster(k)
      BY <2>4, <2>5, <3>1
    <3> QED  BY <2>7, <3>1, <3>2
  <2>9. ASSUME Whole(own(k, u).grades, "grades"), NEW e \in mine(k, u, c)
        PROVE  e.grade \in ofColumn(k, u, c)
    <3>1. own(k, u).grades = L
      BY <1>2
    <3>2. e.grade = Grade(c, u) /\ grade[c][u] # None
      BY <2>6
    <3>3. Grade(c, u) \in ToSet(L)
      BY <1>4, <2>1, <2>9, <3>1, <3>2
    <3> QED  BY <2>4, <3>1, <3>2, <3>3
  <2>10. ASSUME Whole(perColumn(k, c), "columnGrades"), NEW g \in ofColumn(k, u, c)
         PROVE  g \in {e.grade : e \in mine(k, u, c)}
    <3>1. Whole(G, "columnGrades")
      BY <2>2, <2>10 DEF Whole
    <3>2. g = Grade(c, u) /\ grade[c][u] # None
      BY <2>7
    <3>3. g \in ToSet(G)
      BY <1>1, <2>3, <3>1, <3>2
    <3>4. ColumnRow(k, g) \in mine(k, u, c) /\ ColumnRow(k, g).grade = g
      BY <2>2, <2>4, <2>5, <3>2, <3>3
    <3> QED  BY <3>4
  <2> HIDE DEF mine, ofColumn
  <2> QED  BY <2>8, <2>9, <2>10
<1>6. ASSUME NEW row \in ToSet(risky(k)), row.user = u
      PROVE  row.average = own(k, u).average
  <2> DEFINE threshold == 70 * Point
  <2>1. PICK v \in AtRisk(k, threshold) : row = RiskRow(k, threshold, v)
    BY AtRiskRows DEF risky
  <2>2. v = u /\ row.average = Tenths(SumOf(k, u), ScoresOf(k, u))
    BY <1>6, <2>1 DEF RiskRow
  <2>3. Scored(L) # <<>>
    BY <2>2 DEF AtRisk, L
  <2> QED  BY <1>2, <2>2, <2>3 DEF Average, SumOf, ScoresOf, L
<1>7. own(k, u).grades = L
  BY <1>2
<1> QED  BY <1>3, <1>5, <1>6, <1>7

-----------------------------------------------------------------------------
(* The counts of an instructor's reports.                                  *)

\* Numbers of a finite set, counted in two parts.
LEMMA TwoParts ==
  ASSUME NEW D, IsFiniteSet(D), NEW S \in SUBSET D
  PROVE  /\ IsFiniteSet(S) /\ IsFiniteSet(D \ S)
         /\ Cardinality(D) \in Nat /\ Cardinality(S) \in Nat /\ Cardinality(D \ S) \in Nat
         /\ Cardinality(D) = Cardinality(S) + Cardinality(D \ S)
<1>1. IsFiniteSet(S) /\ IsFiniteSet(D \ S)
  BY FS_Subset
<1>2. S \cup (D \ S) = D /\ S \cap (D \ S) = {}
  OBVIOUS
<1>3. Cardinality(D) = Cardinality(S) + Cardinality(D \ S) - Cardinality({})
  BY <1>1, <1>2, FS_Union
<1>4. /\ Cardinality({}) = 0 /\ Cardinality(D) \in Nat /\ Cardinality(S) \in Nat
      /\ Cardinality(D \ S) \in Nat
  BY <1>1, FS_EmptySet, FS_CardinalityType
<1> QED  BY <1>1, <1>3, <1>4

\* Who has submitted and who has not.
LEMMA StatusAtOnce ==
  ASSUME CallTypeOK, NEW c \in Columns
  PROVE  LET s == GetSubmissionStatus([course |-> CourseOf[c], column |-> c],
                                      AtOnce).result
             R == RosterPage(CourseOf[c])
             L == Answer(<<"attempts", c>>)
             S == {i \in DOMAIN R : R[i].id \notin ToSet(L)} IN
         /\ s.totalEnrolled = Len(R) /\ s.submitted = Cardinality(ToSet(L))
         /\ s.notSubmitted = Cardinality(S)
         /\ s.submittedUsers = L
         /\ ToSet(s.missingUsers) = {R[i].id : i \in S}
<1> DEFINE a == [course |-> CourseOf[c], column |-> c]
           R == Got(AtOnce, <<"roster", a.course>>)
           L == Got(AtOnce, <<"attempts", a.column>>)
           S == {i \in DOMAIN R : R[i].id \notin ToSet(L)}
           missing == At(R, InOrder(S))
           users == [i \in DOMAIN missing |-> missing[i].id]
           s == GetSubmissionStatus(a, AtOnce).result
<1>1. a.course = CourseOf[c] /\ a.column = c /\ CourseOf[c] \in Courses
  BY ReportsAssumption
<1> HIDE DEF a
<1>2. s = [totalEnrolled |-> Len(R), submitted |-> Cardinality(ToSet(L)),
           notSubmitted |-> Len(missing), submittedUsers |-> L,
           missingUsers |-> users]
  BY DEF GetSubmissionStatus, Submitters, Filter, ForEach
<1>3. R = RosterPage(CourseOf[c]) /\ L = Answer(<<"attempts", c>>)
  BY <1>1, AtOnceAnswers DEF RosterPage
<1>4. R \in Seq(Members)
  BY <1>1, <1>3, RosterOnce
<1> HIDE DEF R, L, s
<1>5. /\ Len(missing) = Cardinality(S) /\ ToSet(missing) = {R[i] : i \in S}
  <2>1. S \in SUBSET DOMAIN R
    OBVIOUS
  <2> HIDE DEF S
  <2> QED  BY <1>4, <2>1, Selected
<1>6. ToSet(users) = {R[i].id : i \in S}
  <2>1. ToSet(users) = {m.id : m \in ToSet(missing)}
    <3> HIDE DEF missing
    <3> QED  BY DEF ToSet
  <2> HIDE DEF users, missing
  <2> QED  BY <1>5, <2>1
<1> HIDE DEF missing, users
<1>7. /\ s.totalEnrolled = Len(R) /\ s.submitted = Cardinality(ToSet(L))
      /\ s.notSubmitted = Cardinality(S) /\ s.submittedUsers = L
      /\ ToSet(s.missingUsers) = {R[i].id : i \in S}
  BY <1>2, <1>5, <1>6
<1> QED  BY <1>3, <1>7 DEF s, a

\* The three counts of a submission status.
LEMMA CountsSound == ASSUME CallTypeOK PROVE SubmissionCountsAddUp
<1> DEFINE st(c) == GetSubmissionStatus([course |-> CourseOf[c], column |-> c],
                                        AtOnce).result
<1> SUFFICES ASSUME NEW c \in Columns
    PROVE  LET s == st(c)
               enrolled == OnRoster(CourseOf[c]) IN
           /\ enrolled \subseteq ToSet(s.missingUsers) \cup ToSet(s.submittedUsers)
           /\ ToSet(s.missingUsers) \cap ToSet(s.submittedUsers) = {}
           /\ ToSet(s.submittedUsers) \subseteq enrolled =>
                s.totalEnrolled = s.submitted + s.notSubmitted
  BY DEF SubmissionCountsAddUp, EachBlackboard
<1> DEFINE k == CourseOf[c]
           R == RosterPage(k)
           by == ToSet(Answer(<<"attempts", c>>))
           S == {i \in DOMAIN R : R[i].id \notin by}
           s == st(c)
           enrolled == OnRoster(k)
           D == DOMAIN R
<1>1. /\ s.totalEnrolled = Len(R) /\ s.submitted = Cardinality(by)
      /\ s.notSubmitted = Cardinality(S)
      /\ ToSet(s.submittedUsers) = by
      /\ ToSet(s.missingUsers) = {R[i].id : i \in S}
  BY StatusAtOnce
<1>2. k \in Courses
  BY ReportsAssumption
<1>3. /\ R \in Seq(Members)
      /\ \A i \in D : R[i].id \in enrolled
      /\ \A i, j \in D : R[i].id = R[j].id => i = j
      /\ \A u \in enrolled : \E i \in D : R[i].id = u
  BY <1>2, RosterOnce
<1>4. D = 1..Len(R) /\ Len(R) \in Nat /\ IsFiniteSet(D) /\ Cardinality(D) = Len(R)
  <2>1. D = 1..Len(R) /\ Len(R) \in Nat
    BY <1>3, LenProperties
  <2>2. \A n \in Nat : IsFiniteSet(1..n) /\ Cardinality(1..n) = n
    BY FS_Interval
  <2> HIDE DEF R, D
  <2> QED  BY <2>1, <2>2
<1> HIDE DEF st, s, R, enrolled, by
<1>5. enrolled \subseteq ToSet(s.missingUsers) \cup ToSet(s.submittedUsers)
  BY <1>1, <1>3
<1>6. ToSet(s.missingUsers) \cap ToSet(s.submittedUsers) = {}
  BY <1>1
<1>7. ASSUME by \subseteq enrolled
      PROVE  Len(R) = Cardinality(by) + Cardinality(S)
  <2> DEFINE E == D \ S
             f == [i \in E |-> R[i].id]
  <2>1. f \in [E -> by] /\ (\A i, j \in E : f[i] = f[j] => i = j)
    BY <1>3
  <2>2. \A u \in by : \E i \in E : f[i] = u
    <3> SUFFICES ASSUME NEW u \in by PROVE \E i \in E : f[i] = u
      OBVIOUS
    <3>1. PICK i \in D : R[i].id = u
      BY <1>3, <1>7
    <3> QED  BY <3>1
  <2> HIDE DEF f
  <2>3. f \in Bijection(E, by)
    <3> HIDE DEF E, S
    <3> QED  BY <2>1, <2>2 DEF Bijection, Injection, IsInjective, Surjection
  <2>4. S \in SUBSET D
    OBVIOUS
  <2> HIDE DEF S, D
  <2>5. /\ IsFiniteSet(E) /\ Cardinality(S) \in Nat /\ Cardinality(E) \in Nat
        /\ Cardinality(D) = Cardinality(S) + Cardinality(E)
    BY <1>4, <2>4, TwoParts
  <2> HIDE DEF E
  <2>6. Cardinality(by) = Cardinality(E)
    BY <2>3, <2>5, FS_Bijection DEF ExistsBijection
  <2> QED  BY <1>4, <2>5, <2>6
<1> QED  BY <1>1, <1>5, <1>6, <1>7 DEF s, enrolled

\* The scores of a column that count.
ScoresIn(list) ==
  LET kept == Filter(list, LAMBDA g : g.score # Unscored /\ g.score # 0)
  IN  [i \in DOMAIN kept |-> kept[i].score]

\* They are numbers.
LEMMA ScoresInFacts ==
  ASSUME NEW list \in Seq(Grades)
  PROVE  ScoresIn(list) \in Seq(Int)
<1> DEFINE S == {i \in DOMAIN list : list[i].score # Unscored /\ list[i].score # 0}
           kept == At(list, InOrder(S))
           n == [i \in DOMAIN kept |-> kept[i].score]
<1>1. ScoresIn(list) = n
  BY DEF ScoresIn, Filter
<1>2. S \in SUBSET DOMAIN list
  OBVIOUS
<1>3. {list[i] : i \in S} \subseteq {g \in Grades : g.score # Unscored}
  <2>1. \A i \in DOMAIN list : list[i] \in Grades
    BY ElementOfSeq, LenProperties
  <2> QED  BY <2>1
<1> HIDE DEF S
<1>4. kept \in Seq(Grades) /\ ToSet(kept) \subseteq {g \in Grades : g.score # Unscored}
  BY <1>2, <1>3, Selected
<1> HIDE DEF kept
<1>5. Len(kept) \in Nat /\ DOMAIN kept = 1..Len(kept)
  BY <1>4, LenProperties
<1>6. \A i \in 1..Len(kept) : kept[i].score \in Int
  <2> SUFFICES ASSUME NEW i \in 1..Len(kept) PROVE kept[i].score \in Int
    OBVIOUS
  <2>1. kept[i] \in Grades /\ kept[i].score # Unscored
    BY <1>4, <1>5 DEF ToSet
  <2>2. kept[i].score \in Scores
    BY <2>1 DEF Grades
  <2>3. \A x \in 0..(100 * Point) : x \in Int
    OBVIOUS
  <2>4. Scores \subseteq 0..(100 * Point)
    BY ReportsAssumption
  <2> QED  BY <2>2, <2>3, <2>4
<1>7. n \in [1..Len(kept) -> Int]
  BY <1>5, <1>6
<1> HIDE DEF n
<1> QED  BY <1>1, <1>5, <1>7, Listed

\* Every number is in one band.
LEMMA BandsCount ==
  ASSUME NEW n \in Nat, NEW scores \in [1..n -> Int]
  PROVE  LET b(x) == Cardinality({i \in 1..n : Band(scores[i]) = x}) IN
         b("A") + b("B") + b("C") + b("D") + b("F") = n
<1> DEFINE In(x) == {i \in 1..n : Band(scores[i]) = x}
           ND == 1..n \ In("A")
           NC == ND \ In("B")
           NB == NC \ In("C")
<1>1. IsFiniteSet(1..n) /\ Cardinality(1..n) = n
  BY FS_Interval
<1>2. \A i \in 1..n : Band(scores[i]) \in {"A", "B", "C", "D", "F"}
  BY DEF Band
<1>3. /\ In("A") \in SUBSET (1..n) /\ In("B") \in SUBSET ND /\ In("C") \in SUBSET NC
      /\ In("D") \in SUBSET NB /\ NB \ In("D") = In("F")
  BY <1>2
<1> HIDE DEF In
<1>4. /\ IsFiniteSet(ND) /\ Cardinality(In("A")) \in Nat /\ Cardinality(ND) \in Nat
      /\ Cardinality(1..n) = Cardinality(In("A")) + Cardinality(ND)
  BY <1>1, <1>3, TwoParts
<1> HIDE DEF ND
<1>5. /\ IsFiniteSet(NC) /\ Cardinality(In("B")) \in Nat /\ Cardinality(NC) \in Nat
      /\ Cardinality(ND) = Cardinality(In("B")) + Cardinality(NC)
  BY <1>3, <1>4, TwoParts
<1> HIDE DEF NC
<1>6. /\ IsFiniteSet(NB) /\ Cardinality(In("C")) \in Nat /\ Cardinality(NB) \in Nat
      /\ Cardinality(NC) = Cardinality(In("C")) + Cardinality(NB)
  BY <1>3, <1>5, TwoParts
<1> HIDE DEF NB
<1>7. /\ Cardinality(In("D")) \in Nat /\ Cardinality(In("F")) \in Nat
      /\ Cardinality(NB) = Cardinality(In("D")) + Cardinality(In("F"))
  BY <1>3, <1>6, TwoParts
<1>8. Cardinality(In("A")) + Cardinality(In("B")) + Cardinality(In("C"))
        + Cardinality(In("D")) + Cardinality(In("F")) = n
  BY <1>1, <1>4, <1>5, <1>6, <1>7, SMTT(30)
<1> QED  BY <1>8 DEF In

\* Mean and median of numbers in order lie between the first and the last, all
\* of them as they are shown.
LEMMA MiddleFacts ==
  ASSUME NEW n \in Nat, n # 0, NEW s \in [1..n -> Int], s \in Seq(Int), Len(s) = n,
         \A l, m \in 1..n : l < m => s[l] <= s[m]
  PROVE  LET mid == n \div 2
             median == IF n % 2 = 0 THEN Tenths(s[mid] + s[mid + 1], 2)
                                    ELSE Tenths(s[mid + 1], 1)
             mean == Tenths(Added(s), n) IN
         /\ Tenths(s[1], 1) <= median /\ median <= Tenths(s[n], 1)
         /\ Tenths(s[1], 1) <= mean /\ mean <= Tenths(s[n], 1)
<1> DEFINE mid == n \div 2
           median == IF n % 2 = 0 THEN Tenths(s[mid] + s[mid + 1], 2)
                                  ELSE Tenths(s[mid + 1], 1)
           low == s[1]
           high == s[n]
           sum == Added(s)
<1>1. \A i \in 1..n : s[i] \in Int /\ low <= s[i] /\ s[i] <= high
  <2> SUFFICES ASSUME NEW i \in 1..n PROVE s[i] \in Int /\ low <= s[i] /\ s[i] <= high
    OBVIOUS
  <2>1. 1 \in 1..n /\ n \in 1..n /\ s[i] \in Int
    OBVIOUS
  <2>2. i = 1 \/ 1 < i
    OBVIOUS
  <2>3. i = n \/ i < n
    OBVIOUS
  <2> QED  BY <2>1, <2>2, <2>3
<1>2. low \in Int /\ high \in Int
  OBVIOUS
<1>3. mid + 1 \in 1..n /\ (n % 2 = 0 => mid \in 1..n)
  OBVIOUS
<1>4. Tenths(low, 1) <= median /\ median <= Tenths(high, 1)
  <2>1. CASE n % 2 = 0
    <3> DEFINE u == s[mid]
               v == s[mid + 1]
    <3>1. /\ u \in Int /\ low <= u /\ u <= high
          /\ v \in Int /\ low <= v /\ v <= high
      BY <1>1, <1>3, <2>1
    <3>2. median = Tenths(u + v, 2)
      BY <2>1
    <3> HIDE DEF median, low, high, mid, u, v
    <3>3. u + v \in Int /\ low * 2 <= (u + v) * 1 /\ (u + v) * 1 <= high * 2
      BY <1>2, <3>1
    <3> QED  BY <1>2, <3>2, <3>3, TenthsGrow
  <2>2. CASE n % 2 # 0
    <3> DEFINE v == s[mid + 1]
    <3>1. v \in Int /\ low <= v /\ v <= high
      BY <1>1, <1>3
    <3>2. median = Tenths(v, 1)
      BY <2>2
    <3> HIDE DEF median, low, high, mid, v
    <3>3. low * 1 <= v * 1 /\ v * 1 <= high * 1
      BY <1>2, <3>1
    <3> QED  BY <1>2, <3>1, <3>2, <3>3, TenthsGrow
  <2> QED  BY <2>1, <2>2
<1>5. sum \in Int /\ low * n <= sum /\ sum <= high * n
  <2>1. \A i \in DOMAIN s : low <= s[i] /\ s[i] <= high
    BY <1>1
  <2> HIDE DEF low, high
  <2> QED  BY <1>2, <2>1, AddedBounds
<1> HIDE DEF low, high, sum, median
<1>6. sum * 1 = sum /\ 1 \in Nat /\ 1 # 0
  BY <1>5
<1>7. Tenths(low, 1) <= Tenths(sum, n)
  BY <1>2, <1>5, <1>6, TenthsGrow
<1>8. Tenths(sum, n) <= Tenths(high, 1)
  BY <1>2, <1>5, <1>6, TenthsGrow
<1> QED  BY <1>4, <1>7, <1>8 DEF low, high, median, sum

\* The report on a column: every score is in one band, and the mean and the
\* median lie between the lowest and the highest.
LEMMA DistributionOf ==
  ASSUME CallTypeOK, NEW c \in Columns
  PROVE  LET d == GetGradeDistribution([column |-> c], AtOnce).result IN
         d # None =>
           /\ LET n == d.distribution
              IN  n["A"] + n["B"] + n["C"] + n["D"] + n["F"] = d.count
           /\ Tenths(d.min, 1) <= d.median /\ d.median <= Tenths(d.max, 1)
           /\ Tenths(d.min, 1) <= d.mean /\ d.mean <= Tenths(d.max, 1)
<1> DEFINE a == [column |-> c]
           list == Got(AtOnce, <<"columnGrades", a.column>>)
           scores == ScoresIn(list)
           keys == [i \in DOMAIN scores |-> scores[i]]
           sorted == At(scores, SortOrder(keys))
           count == Len(sorted)
           mid == count \div 2
           median == IF count % 2 = 0 THEN Tenths(sorted[mid] + sorted[mid + 1], 2)
                                      ELSE Tenths(sorted[mid + 1], 1)
           mean == Tenths(Added(sorted), count)
           bands == [b \in {"A", "B", "C", "D", "F"} |->
                       Cardinality({i \in DOMAIN scores : Band(scores[i]) = b})]
           d == GetGradeDistribution(a, AtOnce).result
<1>0. a.column = c
  OBVIOUS
<1> HIDE DEF a
<1>1. d = IF count = 0 THEN None
          ELSE [count |-> count, mean |-> mean, median |-> median,
                min |-> sorted[1], max |-> sorted[count], distribution |-> bands]
  BY DEF GetGradeDistribution, ForEach, Filter, SortedBy, ScoresIn
<1>2. list \in Seq(Grades)
  BY <1>0, AtOnceAnswers, ColumnPageFacts DEF ColumnPage
<1> HIDE DEF list
<1>3. scores \in Seq(Int) /\ Len(scores) \in Nat /\ DOMAIN scores = 1..Len(scores)
      /\ \A i \in DOMAIN scores : scores[i] \in Int
  <2>1. scores \in Seq(Int)
    BY <1>2, ScoresInFacts
  <2> HIDE DEF scores
  <2> QED  BY <2>1, LenProperties, ElementOfSeq
<1> HIDE DEF scores
<1>4. keys \in [DOMAIN scores -> Int] /\ \A i \in DOMAIN scores : keys[i] = scores[i]
  BY <1>3
<1> HIDE DEF keys
<1>5. LET o == SortOrder(keys)
          r == At(scores, o) IN
      /\ r \in Seq(Int) /\ Len(r) = Len(scores) /\ DOMAIN r = DOMAIN scores
      /\ ToSet(r) = ToSet(scores)
      /\ o \in [DOMAIN scores -> DOMAIN scores]
      /\ \A m \in DOMAIN r : r[m] = scores[o[m]]
      /\ \A i \in DOMAIN scores : \E m \in DOMAIN r : o[m] = i
      /\ \A l, m \in DOMAIN r : l < m => keys[o[l]] <= keys[o[m]]
      /\ \A l, m \in DOMAIN r : o[l] = o[m] => l = m
  BY <1>3, <1>4, Sorted
<1>6. /\ sorted \in Seq(Int) /\ count = Len(scores) /\ DOMAIN sorted = 1..count
      /\ \A l, m \in 1..count : l < m => sorted[l] <= sorted[m]
  <2> DEFINE o == SortOrder(keys)
  <2>1. /\ sorted \in Seq(Int) /\ count = Len(scores) /\ DOMAIN sorted = DOMAIN scores
        /\ o \in [DOMAIN scores -> DOMAIN scores]
        /\ \A m \in DOMAIN sorted : sorted[m] = scores[o[m]]
        /\ \A l, m \in DOMAIN sorted : l < m => keys[o[l]] <= keys[o[m]]
    BY <1>5
  <2> HIDE DEF sorted, o
  <2>2. \A m \in DOMAIN sorted : sorted[m] = keys[o[m]]
    BY <1>4, <2>1
  <2>3. DOMAIN sorted = 1..count
    BY <1>3, <2>1
  <2> HIDE DEF count
  <2>4. \A l, m \in DOMAIN sorted : l < m => sorted[l] <= sorted[m]
    BY <2>1, <2>2
  <2> QED  BY <2>1, <2>3, <2>4
<1>7. sorted \in [1..count -> Int] /\ count \in Nat
  <2> HIDE DEF sorted
  <2> QED  BY <1>3, <1>6, LenProperties
<1>8. ASSUME count # 0
      PROVE  /\ Tenths(sorted[1], 1) <= median /\ median <= Tenths(sorted[count], 1)
             /\ Tenths(sorted[1], 1) <= mean /\ mean <= Tenths(sorted[count], 1)
  <2> HIDE DEF sorted
  <2>1. LET m == count \div 2
            md == IF count % 2 = 0 THEN Tenths(sorted[m] + sorted[m + 1], 2)
                                   ELSE Tenths(sorted[m + 1], 1)
            me == Tenths(Added(sorted), count) IN
        /\ Tenths(sorted[1], 1) <= md /\ md <= Tenths(sorted[count], 1)
        /\ Tenths(sorted[1], 1) <= me /\ me <= Tenths(sorted[count], 1)
    <3> DEFINE n == count
    <3>1. n \in Nat /\ n # 0 /\ sorted \in [1..n -> Int] /\ sorted \in Seq(Int)
          /\ Len(sorted) = n /\ \A l, m \in 1..n : l < m => sorted[l] <= sorted[m]
      BY <1>6, <1>7, <1>8
    <3> HIDE DEF n
    <3>2. LET m == n \div 2
              md == IF n % 2 = 0 THEN Tenths(sorted[m] + sorted[m + 1], 2)
                                     ELSE Tenths(sorted[m + 1], 1)
              me == Tenths(Added(sorted), n) IN
          /\ Tenths(sorted[1], 1) <= md /\ md <= Tenths(sorted[n], 1)
          /\ Tenths(sorted[1], 1) <= me /\ me <= Tenths(sorted[n], 1)
      BY <3>1, MiddleFacts
    <3> QED  BY <3>2 DEF n
  <2> QED  BY <2>1
<1>9. bands["A"] + bands["B"] + bands["C"] + bands["D"] + bands["F"] = count
  <2>1. count \in Nat /\ scores \in [1..count -> Int] /\ DOMAIN scores = 1..count
    BY <1>3, <1>6, <1>7, LenProperties
  <2> HIDE DEF count
  <2>2. LET b(x) == Cardinality({i \in 1..count : Band(scores[i]) = x}) IN
        b("A") + b("B") + b("C") + b("D") + b("F") = count
    BY <2>1, BandsCount
  <2> QED  BY <2>1, <2>2
<1> HIDE DEF sorted, count, median, mean, bands, d
<1>10. d # None =>
         /\ count # 0 /\ d.distribution = bands /\ d.count = count
         /\ d.min = sorted[1] /\ d.max = sorted[count]
         /\ d.median = median /\ d.mean = mean
  BY <1>1
<1>11. d # None =>
         /\ LET n == d.distribution
            IN  n["A"] + n["B"] + n["C"] + n["D"] + n["F"] = d.count
         /\ Tenths(d.min, 1) <= d.median /\ d.median <= Tenths(d.max, 1)
         /\ Tenths(d.min, 1) <= d.mean /\ d.mean <= Tenths(d.max, 1)
  BY <1>8, <1>9, <1>10
<1> QED  BY <1>11 DEF d, a

\* The instructor's reports of one moment add up.
LEMMA ReportsSound == ASSUME CallTypeOK PROVE ReportsAddUp
<1>1. DistributionSound
  BY DistributionOf DEF DistributionSound, EachBlackboard
<1> QED  BY <1>1, CountsSound, RiskSound DEF ReportsAddUp

-----------------------------------------------------------------------------
(* What a parent is shown, and what the child is.                          *)

\* A set of positions that is not empty has a first.
LEMMA FirstOf ==
  ASSUME NEW Z \in SUBSET Nat, NEW z \in Z
  PROVE  \E m \in Z : \A j \in Z : m <= j
<1> SUFFICES ASSUME \A m \in Z : \E j \in Z : ~(m <= j) PROVE FALSE
  OBVIOUS
<1> DEFINE S == {n \in Nat : \A i \in 0..n : i \notin Z}
<1>1. 0 \in S
  OBVIOUS
<1>2. ASSUME NEW n \in Nat, n \in S PROVE n + 1 \in S
  <2>1. \A i \in Nat : i <= n => i \notin Z
    BY <1>2
  <2>2. n + 1 \notin Z
    <3>1. SUFFICES ASSUME n + 1 \in Z PROVE FALSE
      OBVIOUS
    <3>2. PICK j \in Z : ~(n + 1 <= j)
      BY <3>1
    <3>3. j \in Nat /\ j <= n
      BY <3>2
    <3> QED  BY <2>1, <3>3
  <2>3. \A i \in 0..(n + 1) : i \in Nat /\ (i <= n \/ i = n + 1)
    OBVIOUS
  <2> QED  BY <2>1, <2>2, <2>3
<1>3. \A n \in Nat : n \in S
  <2> HIDE DEF S
  <2> QED  BY <1>1, <1>2, InductionOnSet
<1>4. z \in S /\ z \in 0..z
  BY <1>3
<1> QED  BY <1>4

\* A list of one list is that list.
LEMMA OneList ==
  ASSUME NEW s
  PROVE  FlattenSeq(<<s>>) = s
<1> DEFINE seqs == <<s>>
           f == CHOOSE f : FlattenEqn(seqs, f)
<1>1. Len(seqs) = 1 /\ seqs[1] = s
  OBVIOUS
<1> HIDE DEF seqs
<1>2. FlattenSeq(seqs) = f[1]
  BY <1>1 DEF FlattenSeq, FlattenEqn
<1>3. FlattenEqn(seqs, f)
  BY <1>1, FlattenExists
<1> HIDE DEF f
<1>4. f[1] = seqs[1]
  <2> DEFINE Body(i) == IF i = 1 THEN seqs[i] ELSE f[i-1] \o seqs[i]
  <2>1. f = [i \in 1..1 |-> Body(i)]
    BY <1>1, <1>3 DEF FlattenEqn
  <2>2. Body(1) = seqs[1]
    OBVIOUS
  <2> HIDE DEF Body
  <2> QED  BY <2>1, <2>2
<1> QED  BY <1>1, <1>2, <1>4 DEF seqs

\* Who is found for a child of the caller on the roster page of a course.
Kin(k, p, u) ==
  /\ RolesShown
  /\ {p, u} \subseteq OnRoster(k)
  /\ role[k][p] = "Observer" /\ role[k][u] = "Student"

LEMMA KinOnRoster ==
  ASSUME CallTypeOK, NEW k \in Courses, NEW p \in Users
  PROVE  LET R == RosterPage(k)
             Q == {i \in DOMAIN R : R[i].id # p /\ R[i].role = "Student"}
             r == IF ~IsObserver(R, p) THEN <<>> ELSE At(R, InOrder(Q))
         IN  /\ r \in Seq(Members)
             /\ {m.id : m \in ToSet(r)} = {u \in Users \ {p} : Kin(k, p, u)}
<1> DEFINE R == RosterPage(k)
           Q == {i \in DOMAIN R : R[i].id # p /\ R[i].role = "Student"}
           s == At(R, InOrder(Q))
           r == IF ~IsObserver(R, p) THEN <<>> ELSE s
           Ks == {u \in Users \ {p} : Kin(k, p, u)}
<1>1. /\ R \in Seq(Members)
      /\ \A i \in DOMAIN R :
           /\ R[i].id \in Users /\ R[i].id \in OnRoster(k)
           /\ R[i] = Member(k, R[i].id)
      /\ \A u \in OnRoster(k) : u \in Users /\ \E i \in DOMAIN R : R[i].id = u
  BY RosterOnce
<1>2. \A i \in DOMAIN R :
        R[i].role = IF RolesShown THEN role[k][R[i].id] ELSE None
  BY <1>1 DEF Member
<1>3. None # "Student" /\ None # "Observer" /\ RolesShown \in BOOLEAN
  BY ReportsAssumption
<1>4. IsObserver(R, p) <=> RolesShown /\ p \in OnRoster(k) /\ role[k][p] = "Observer"
  <2> HIDE DEF R
  <2>1. IsObserver(R, p) <=> \E i \in DOMAIN R : R[i].id = p /\ R[i].role = "Observer"
    BY DEF IsObserver, ToSet
  <2> QED  BY <1>1, <1>2, <1>3, <2>1
<1>5. Q \in SUBSET DOMAIN R
  OBVIOUS
<1>6. Q = {i \in DOMAIN R : RolesShown /\ R[i].id # p /\ role[k][R[i].id] = "Student"}
  BY <1>2, <1>3
<1> HIDE DEF R, Q
<1>7. s \in Seq(Members) /\ ToSet(s) = {R[i] : i \in Q}
  <2>1. LET q == At(R, InOrder(Q)) IN
        /\ q \in Seq(Members) /\ Len(q) = Cardinality(Q) /\ DOMAIN q = 1..Len(q)
        /\ Cardinality(Q) \in Nat
        /\ ToSet(q) = {R[i] : i \in Q}
        /\ \A m \in DOMAIN q : InOrder(Q)[m] \in Q /\ q[m] = R[InOrder(Q)[m]]
        /\ \A m, n \in DOMAIN q : m < n => InOrder(Q)[m] < InOrder(Q)[n]
    BY <1>1, <1>5, Selected
  <2> QED  BY <2>1
<1> HIDE DEF s
<1>8. CASE IsObserver(R, p)
  <2>1. r = s
    BY <1>8
  <2>2. {m.id : m \in ToSet(s)} = {R[i].id : i \in Q}
    BY <1>7
  <2>3. ASSUME NEW i \in Q PROVE R[i].id \in Ks
    BY <1>1, <1>4, <1>6, <1>8, <2>3 DEF Kin
  <2>4. ASSUME NEW u \in Ks PROVE \E i \in Q : R[i].id = u
    <3>1. u \in OnRoster(k) /\ u # p /\ RolesShown /\ role[k][u] = "Student"
      BY <2>4 DEF Kin
    <3>2. PICK i \in DOMAIN R : R[i].id = u
      BY <1>1, <3>1
    <3> QED  BY <1>6, <3>1, <3>2
  <2>5. {R[i].id : i \in Q} = Ks
    <3> HIDE DEF Ks
    <3> QED  BY <2>3, <2>4
  <2> QED  BY <1>7, <2>1, <2>2, <2>5 DEF R, Q, s
<1>9. CASE ~IsObserver(R, p)
  <2>1. r = <<>> /\ r \in Seq(Members)
    BY <1>9
  <2>2. ToSet(<<>>) = {}
    BY DEF ToSet
  <2>3. {m.id : m \in ToSet(<<>>)} = {}
    BY <2>2
  <2>4. Ks = {}
    BY <1>4, <1>9 DEF Kin
  <2> QED  BY <2>1, <2>3, <2>4 DEF R, Q, s
<1> QED  BY <1>8, <1>9

\* Every child found is resolved once, and nobody else.
LEMMA ChildrenResolved ==
  ASSUME CallTypeOK, NEW p \in Users
  PROVE  LET all == ResolveChildren(p, AtOnce).result IN
         /\ all \in Seq(Users)
         /\ \A m, n \in DOMAIN all : all[m] = all[n] => m = n
         /\ ToSet(all) =
              {u \in Users \ {p} : \E k \in CoursesShown(p) : Kin(k, p, u)}
<1> DEFINE courses == Got(AtOnce, <<"courses", p>>)
           reads == ForEach(courses, LAMBDA k : <<"roster", k>>)
           kept(list) == {i \in DOMAIN list :
                            list[i].id # p /\ list[i].role = "Student"}
           childrenIn(list) == IF ~IsObserver(list, p) THEN <<>>
                               ELSE At(list, InOrder(kept(list)))
           lists == [i \in DOMAIN reads |-> childrenIn(Got(AtOnce, reads[i]))]
           found == FlattenSeq(lists)
           each == [i \in DOMAIN found |-> i]
           S == {n \in DOMAIN each :
                  \A j \in 1..(each[n] - 1) : found[j].id # found[each[n]].id}
           first == At(each, InOrder(S))
           all == [n \in DOMAIN first |-> found[first[n]].id]
           Of(k) == {u \in Users \ {p} : Kin(k, p, u)}
<1>1. ResolveChildren(p, AtOnce).result = all
  BY DEF ResolveChildren, ForEach, Filter
<1>2. courses \in Seq(Courses) /\ ToSet(courses) = CoursesShown(p)
  BY AtOnceAnswers, CoursesAnswer DEF CoursesShown
<1> HIDE DEF courses
<1>3. Len(courses) \in Nat /\ DOMAIN courses = 1..Len(courses)
      /\ \A i \in DOMAIN courses : courses[i] \in Courses
  BY <1>2, LenProperties, ElementOfSeq
<1>4. reads = [i \in DOMAIN courses |-> <<"roster", courses[i]>>]
  BY DEF ForEach
<1> HIDE DEF reads
<1>5. \A i \in DOMAIN courses : Got(AtOnce, reads[i]) = RosterPage(courses[i])
  BY <1>3, <1>4, AtOnceAnswers DEF RosterPage
<1>6. ASSUME NEW k \in Courses
      PROVE  /\ childrenIn(RosterPage(k)) \in Seq(Members)
             /\ {m.id : m \in ToSet(childrenIn(RosterPage(k)))} = Of(k)
  BY KinOnRoster
<1> HIDE DEF childrenIn, Of
<1>7. lists = [i \in 1..Len(courses) |-> childrenIn(RosterPage(courses[i]))]
  BY <1>3, <1>4, <1>5
<1>8. lists \in Seq(Seq(Members)) /\ DOMAIN lists = DOMAIN courses
  <2>1. lists \in [1..Len(courses) -> Seq(Members)]
    BY <1>3, <1>6, <1>7
  <2> HIDE DEF lists
  <2> QED  BY <1>3, <2>1
<1>9. \A i \in DOMAIN courses : {m.id : m \in ToSet(lists[i])} = Of(courses[i])
  BY <1>3, <1>6, <1>7
<1> HIDE DEF lists
<1>10. /\ found \in Seq(Members)
       /\ ToSet(found) = UNION {ToSet(lists[i]) : i \in DOMAIN lists}
  BY <1>8, Flattened
<1> HIDE DEF found
<1>11. \A u : (\E m \in ToSet(found) : m.id = u)
                <=> \E i \in DOMAIN courses : u \in Of(courses[i])
  <2>1. \A u : (\E m \in ToSet(found) : m.id = u)
                 <=> \E i \in DOMAIN courses : \E m \in ToSet(lists[i]) : m.id = u
    BY <1>8, <1>10
  <2> QED  BY <1>9, <2>1
<1>12. \A u : (\E i \in DOMAIN courses : u \in Of(courses[i]))
                <=> \E k \in CoursesShown(p) : u \in Of(k)
  BY <1>2 DEF ToSet
<1>13. Len(found) \in Nat /\ DOMAIN found = 1..Len(found)
       /\ \A i \in DOMAIN found : found[i] \in Members
  BY <1>10, LenProperties, ElementOfSeq
<1> DEFINE P == {i \in DOMAIN found :
                  \A j \in 1..(i - 1) : found[j].id # found[i].id}
<1>14. S = P /\ each \in [DOMAIN found -> DOMAIN found]
  OBVIOUS
<1>15. \A i \in DOMAIN found : each[i] = i
  OBVIOUS
<1>16. each \in Seq(DOMAIN found) /\ DOMAIN each = DOMAIN found
  <2>1. each \in [1..Len(found) -> DOMAIN found]
    BY <1>13, <1>14
  <2> HIDE DEF each
  <2> QED  BY <1>13, <2>1
<1> HIDE DEF each, S
<1>17. S \in SUBSET DOMAIN each
  BY <1>14, <1>16
<1>18. /\ first \in Seq(DOMAIN found) /\ DOMAIN first = 1..Len(first)
       /\ ToSet(first) = {each[i] : i \in S}
       /\ \A m \in DOMAIN first : InOrder(S)[m] \in S /\ first[m] = each[InOrder(S)[m]]
       /\ \A m, n \in DOMAIN first : m < n => InOrder(S)[m] < InOrder(S)[n]
  <2> DEFINE T == DOMAIN found
  <2>1. each \in Seq(T)
    BY <1>16
  <2> HIDE DEF T
  <2>2. LET r == At(each, InOrder(S)) IN
        /\ r \in Seq(T) /\ Len(r) = Cardinality(S) /\ DOMAIN r = 1..Len(r)
        /\ Cardinality(S) \in Nat
        /\ ToSet(r) = {each[i] : i \in S}
        /\ \A m \in DOMAIN r : InOrder(S)[m] \in S /\ r[m] = each[InOrder(S)[m]]
        /\ \A m, n \in DOMAIN r : m < n => InOrder(S)[m] < InOrder(S)[n]
    BY <1>17, <2>1, Selected
  <2> QED  BY <2>2 DEF T
<1> HIDE DEF first
<1>19. \A m \in DOMAIN first : first[m] \in P /\ first[m] = InOrder(S)[m]
  BY <1>14, <1>15, <1>18
<1>20. \A m, n \in DOMAIN first : m < n => first[m] < first[n]
  BY <1>18, <1>19
<1>21. \A i \in P : \E m \in DOMAIN first : first[m] = i
  <2> SUFFICES ASSUME NEW i \in P PROVE i \in ToSet(first)
    BY DEF ToSet
  <2> QED  BY <1>14, <1>15, <1>18
<1>22. ASSUME NEW i0 \in DOMAIN found PROVE \E x \in P : found[x].id = found[i0].id
  <2> DEFINE Z == {i \in DOMAIN found : found[i].id = found[i0].id}
  <2>1. i0 \in Z /\ Z \in SUBSET Nat
    BY <1>13
  <2> HIDE DEF Z
  <2>2. PICK m \in Z : \A j \in Z : m <= j
    BY <2>1, FirstOf
  <2>3. m \in DOMAIN found /\ found[m].id = found[i0].id
    BY DEF Z
  <2>4. ASSUME NEW j \in 1..(m - 1) PROVE found[j].id # found[m].id
    <3>1. j \in DOMAIN found /\ ~(m <= j)
      BY <1>13, <2>3
    <3> QED  BY <2>2, <2>3, <3>1 DEF Z
  <2> QED  BY <2>3, <2>4
<1>23. \A i, j \in P : found[i].id = found[j].id => i = j
  <2> SUFFICES ASSUME NEW i \in P, NEW j \in P, found[i].id = found[j].id, i # j
               PROVE  FALSE
    OBVIOUS
  <2>1. i \in 1..Len(found) /\ j \in 1..Len(found)
    BY <1>13
  <2>2. i \in 1..(j - 1) \/ j \in 1..(i - 1)
    BY <1>13, <2>1
  <2> QED  BY <2>2
<1>24. P \subseteq DOMAIN found
  OBVIOUS
<1> HIDE DEF P
<1>25. \A m \in DOMAIN all : m \in DOMAIN first /\ all[m] = found[first[m]].id
  OBVIOUS
<1>26. DOMAIN all = DOMAIN first
  OBVIOUS
<1>27. Len(first) \in Nat /\ DOMAIN first = 1..Len(first)
  BY <1>18, LenProperties
<1>28. all \in Seq(Users)
  <2>1. \A m \in DOMAIN first : found[first[m]].id \in Users
    BY <1>13, <1>19, <1>24 DEF Members
  <2>2. all \in [1..Len(first) -> Users]
    BY <1>27, <2>1
  <2> HIDE DEF all
  <2> QED  BY <1>27, <2>2
<1> HIDE DEF all
<1>29. ASSUME NEW m \in DOMAIN all, NEW n \in DOMAIN all, all[m] = all[n]
       PROVE  m = n
  <2>1. first[m] = first[n] /\ first[m] \in Nat
    BY <1>13, <1>19, <1>23, <1>24, <1>25, <1>29
  <2>2. m \in DOMAIN first /\ n \in DOMAIN first /\ m \in Nat /\ n \in Nat
    BY <1>25, <1>27
  <2>3. ~(m < n) /\ ~(n < m)
    BY <1>20, <2>1, <2>2
  <2> QED  BY <2>2, <2>3
<1>30. \A u : u \in ToSet(all) <=> \E m \in ToSet(found) : m.id = u
  <2>1. ASSUME NEW u, NEW m \in DOMAIN all, all[m] = u
        PROVE  \E e \in ToSet(found) : e.id = u
    BY <1>19, <1>24, <1>25, <2>1 DEF ToSet
  <2>2. ASSUME NEW u, NEW i \in DOMAIN found, found[i].id = u
        PROVE  \E m \in DOMAIN all : all[m] = u
    <3>1. PICK x \in P : found[x].id = u
      BY <1>22, <2>2
    <3>2. PICK m \in DOMAIN first : first[m] = x
      BY <1>21
    <3> QED  BY <1>25, <1>26, <3>1, <3>2
  <2> QED  BY <2>1, <2>2 DEF ToSet
<1>31. \A u : u \in ToSet(all) <=>
         u \in Users \ {p} /\ \E k \in CoursesShown(p) : Kin(k, p, u)
  BY <1>11, <1>12, <1>30 DEF Of
<1>32. ToSet(all) = {u \in Users \ {p} : \E k \in CoursesShown(p) : Kin(k, p, u)}
  BY <1>31
<1> QED  BY <1>1, <1>28, <1>29, <1>32

\* Those are the children shown.
LEMMA ChildrenShownAre ==
  ASSUME NEW p
  PROVE  ChildrenShown(p) = ToSet(ResolveChildren(p, AtOnce).result)
<1> DEFINE a == [user |-> p]
<1>1. a.user = p
  OBVIOUS
<1> HIDE DEF a
<1>2. GetMyChildren(a, AtOnce) = ResolveChildren(p, AtOnce)
  BY <1>1 DEF GetMyChildren
<1> QED  BY <1>2 DEF ChildrenShown, a

\* A child asked for by the parent is the one that is shown.
LEMMA ChildAsked ==
  ASSUME CallTypeOK, NEW p \in Users, NEW u \in ChildrenShown(p),
         NEW args, args.user = p, args.child = u
  PROVE  u \in Users /\ Targets(args, AtOnce) = <<u>>
<1> DEFINE all == ResolveChildren(args.user, AtOnce).result
           S == {i \in DOMAIN all : args.child \in {None, all[i]}}
<1>1. Targets(args, AtOnce) = At(all, InOrder(S))
  BY DEF Targets, Filter
<1>2. /\ all \in Seq(Users)
      /\ \A m, n \in DOMAIN all : all[m] = all[n] => m = n
  BY ChildrenResolved
<1>3. u \in ToSet(all)
  BY ChildrenShownAre
<1> HIDE DEF all
<1>4. PICK i \in DOMAIN all : all[i] = u
  BY <1>3 DEF ToSet
<1>5. u \in Users /\ u # None
  BY <1>2, <1>4, ReportsAssumption, ElementOfSeq
<1>6. S = {i}
  BY <1>2, <1>4, <1>5
<1> HIDE DEF S
<1> QED  BY <1>1, <1>2, <1>4, <1>5, <1>6, KeptOne

\* The courses of a user.
CoursesOf(u) == Answer(<<"courses", u>>)

\* All the courses of a child, if none is asked for.
LEMMA AllCourses ==
  ASSUME NEW u \in Users, NEW args, args.course = None
  PROVE  CoursesFor(args, AtOnce, u) = CoursesOf(u)
<1> DEFINE list == Got(AtOnce, <<"courses", u>>)
           S == {i \in DOMAIN list : args.course \in {None, list[i]}}
<1>1. CoursesFor(args, AtOnce, u) = At(list, InOrder(S))
  BY DEF CoursesFor, Filter
<1>2. list = CoursesOf(u) /\ list \in Seq(Courses)
  BY AtOnceAnswers, CoursesAnswer DEF CoursesOf
<1> HIDE DEF list
<1>3. S = DOMAIN list
  OBVIOUS
<1> QED  BY <1>1, <1>2, <1>3, KeptWhole

\* The grades of all courses, as a user is shown the own.
LEMMA OwnGradesEverywhere ==
  ASSUME NEW u \in Users
  PROVE  GetMyGrades([user |-> u, course |-> None], AtOnce).result
           = [i \in DOMAIN CoursesOf(u) |->
                [course |-> CoursesOf(u)[i],
                 average |-> Average(OwnPage(CoursesOf(u)[i], u)),
                 grades |-> OwnPage(CoursesOf(u)[i], u)]]
<1> DEFINE a == [user |-> u, course |-> None]
           row(x) == [course |-> x, average |-> Average(Got(AtOnce, <<"grades", x, a.user>>)),
                      grades |-> Got(AtOnce, <<"grades", x, a.user>>)]
           own(x) == [course |-> x, average |-> Average(OwnPage(x, u)),
                      grades |-> OwnPage(x, u)]
           courses == Got(AtOnce, CourseRead(a))
           r == [i \in DOMAIN courses |-> row(courses[i])]
<1>1. a.user = u /\ CourseRead(a) = <<"courses", u>>
  BY DEF CourseRead
<1> HIDE DEF a
<1>2. GetMyGrades(a, AtOnce).result = r
  BY DEF GetMyGrades, ForEach
<1>3. courses = CoursesOf(u) /\ courses \in Seq(Courses)
  BY <1>1, AtOnceAnswers, CoursesAnswer DEF CoursesOf
<1> HIDE DEF courses
<1>4. \A i \in DOMAIN courses : courses[i] \in Courses
  BY <1>3, LenProperties, ElementOfSeq
<1>5. \A x \in Courses : row(x) = own(x)
  BY <1>1, AtOnceAnswers DEF OwnPage
<1> HIDE DEF row, own
<1>6. r = [i \in DOMAIN courses |-> own(courses[i])]
  BY <1>4, <1>5
<1> QED  BY <1>2, <1>3, <1>6 DEF own, a

\* A parent is shown the grades of the child.
LEMMA ChildsGrades ==
  ASSUME NEW p, NEW u \in Users,
         Targets([user |-> p, child |-> u, course |-> None], AtOnce) = <<u>>
  PROVE  GetChildrenGrades([user |-> p, child |-> u, course |-> None], AtOnce).result
           = [i \in DOMAIN CoursesOf(u) |->
                [child |-> u, course |-> CoursesOf(u)[i],
                 average |-> Average(OwnPage(CoursesOf(u)[i], u)),
                 grades |-> OwnPage(CoursesOf(u)[i], u)]]
<1> DEFINE a == [user |-> p, child |-> u, course |-> None]
           cs == Targets(a, AtOnce)
           C(x) == CoursesFor(a, AtOnce, x)
           row(x, k) == [child |-> x, course |-> k,
                         average |-> Average(Got(AtOnce, <<"grades", k, x>>)),
                         grades |-> Got(AtOnce, <<"grades", k, x>>)]
           own(k) == [child |-> u, course |-> k, average |-> Average(OwnPage(k, u)),
                      grades |-> OwnPage(k, u)]
           R == [i \in DOMAIN cs |-> [j \in DOMAIN C(cs[i]) |-> row(cs[i], C(cs[i])[j])]]
           r == [j \in DOMAIN C(u) |-> row(u, C(u)[j])]
<1>1. GetChildrenGrades(a, AtOnce).result = FlattenSeq(R)
  BY DEF GetChildrenGrades, PerChildCourse, ForEach
<1>2. cs = <<u>> /\ C(u) = CoursesOf(u) /\ C(u) \in Seq(Courses)
  BY AllCourses, CoursesAnswer DEF CoursesOf
<1> HIDE DEF cs, a, C
<1>3. \A i \in DOMAIN C(u) : C(u)[i] \in Courses
  BY <1>2, LenProperties, ElementOfSeq
<1>4. \A k \in Courses : row(u, k) = own(k)
  BY AtOnceAnswers DEF OwnPage
<1> HIDE DEF row, own
<1>5. r = [j \in DOMAIN C(u) |-> own(C(u)[j])]
  BY <1>3, <1>4
<1>6. R = <<r>>
  <2> DEFINE G(x) == [j \in DOMAIN C(x) |-> row(x, C(x)[j])]
  <2>1. R = [i \in DOMAIN cs |-> G(cs[i])] /\ r = G(u)
    OBVIOUS
  <2> HIDE DEF G, R, r
  <2> QED  BY <1>2, <2>1
<1> HIDE DEF R, r
<1>7. FlattenSeq(R) = r
  BY <1>6, OneList
<1> QED  BY <1>1, <1>2, <1>5, <1>7 DEF own, a

\* The courses of a user, as the user and as a parent is shown them.
LEMMA ChildsCourses ==
  ASSUME NEW p, NEW u \in Users,
         Targets([user |-> p, child |-> u, course |-> None], AtOnce) = <<u>>
  PROVE  LET args == [user |-> p, child |-> u, course |-> None] IN
         ForEach(GetChildrenCourses(args, AtOnce).result[1].courses,
                 LAMBDA c : c.course)
           = ForEach(GetMyCourses([user |-> u], AtOnce).result, LAMBDA c : c.course)
<1> DEFINE a == [user |-> p, child |-> u, course |-> None]
           b == [user |-> u]
           cs == Targets(a, AtOnce)
           list(x) == Got(AtOnce, <<"courses", x>>)
           seen(k) == [course |-> k, status |-> IF Availability[k] # None
                                                THEN "Active" ELSE "Inactive"]
           own(k) == [course |-> k, status |-> IF Availability[k] # None
                                               THEN Availability[k] ELSE "Unknown"]
           rows(x) == [j \in DOMAIN list(x) |-> seen(list(x)[j])]
           child(x) == [child |-> x, courses |-> rows(x)]
           R == [i \in DOMAIN cs |-> child(cs[i])]
           mine == [j \in DOMAIN list(b.user) |-> own(list(b.user)[j])]
<1>1. GetChildrenCourses(a, AtOnce).result = R
  BY DEF GetChildrenCourses, ForEach
<1>2. GetMyCourses(b, AtOnce).result = mine
  BY DEF GetMyCourses, ForEach
<1>3. cs = <<u>> /\ b.user = u
  OBVIOUS
<1>4. \A k : seen(k).course = k /\ own(k).course = k
  OBVIOUS
<1> HIDE DEF cs, a, b, list, seen, own
<1>5. R[1] = child(u) /\ child(u).courses = rows(u)
  BY <1>3
<1>6. ForEach(rows(u), LAMBDA c : c.course) = [j \in DOMAIN list(u) |-> list(u)[j]]
  BY <1>4 DEF ForEach
<1>7. ForEach(mine, LAMBDA c : c.course) = [j \in DOMAIN list(u) |-> list(u)[j]]
  BY <1>3, <1>4 DEF ForEach
<1> HIDE DEF R, rows, child, mine
<1>8. GetChildrenCourses(a, AtOnce).result[1].courses = rows(u)
  BY <1>1, <1>5
<1>9. ForEach(GetChildrenCourses(a, AtOnce).result[1].courses, LAMBDA c : c.course)
        = ForEach(GetMyCourses(b, AtOnce).result, LAMBDA c : c.course)
  BY <1>2, <1>6, <1>7, <1>8
<1> QED  BY <1>9 DEF a, b

\* What a parent is shown of courses and grades is what the child is shown.
LEMMA ParentViews == ASSUME CallTypeOK PROVE ParentSeesWhatChildSees
<1> DEFINE args(p, u) == [user |-> p, child |-> u, course |-> None]
           own(u) == GetMyGrades([user |-> u, course |-> None], AtOnce).result
           shown(p, u) == GetChildrenGrades(args(p, u), AtOnce).result
<1>1. ASSUME NEW p \in Users, NEW u \in ChildrenShown(p)
      PROVE  /\ shown(p, u) = ForEach(own(u), LAMBDA row :
                  [child |-> u, course |-> row.course, average |-> row.average,
                   grades |-> row.grades])
             /\ ForEach(GetChildrenCourses(args(p, u), AtOnce).result[1].courses,
                        LAMBDA c : c.course)
                = ForEach(GetMyCourses([user |-> u], AtOnce).result, LAMBDA c : c.course)
  <2>1. u \in Users /\ Targets(args(p, u), AtOnce) = <<u>>
    <3> DEFINE a == args(p, u)
    <3>1. a.user = p /\ a.child = u
      OBVIOUS
    <3> HIDE DEF a
    <3>2. u \in Users /\ Targets(a, AtOnce) = <<u>>
      BY <3>1, ChildAsked
    <3> QED  BY <3>2 DEF a
  <2> DEFINE C == CoursesOf(u)
             A(k) == Average(OwnPage(k, u))
             G(k) == OwnPage(k, u)
  <2>3. own(u) = [i \in DOMAIN C |-> [course |-> C[i], average |-> A(C[i]),
                                      grades |-> G(C[i])]]
    BY <2>1, OwnGradesEverywhere
  <2>4. shown(p, u) = [i \in DOMAIN C |-> [child |-> u, course |-> C[i],
                                           average |-> A(C[i]), grades |-> G(C[i])]]
    BY <2>1, ChildsGrades
  <2>5. ForEach(GetChildrenCourses(args(p, u), AtOnce).result[1].courses,
                LAMBDA c : c.course)
          = ForEach(GetMyCourses([user |-> u], AtOnce).result, LAMBDA c : c.course)
    BY <2>1, ChildsCourses
  <2> HIDE DEF own, shown, C, A, G
  <2>6. ForEach(own(u), LAMBDA row :
          [child |-> u, course |-> row.course, average |-> row.average,
           grades |-> row.grades])
          = [i \in DOMAIN C |-> [child |-> u, course |-> C[i],
                                 average |-> A(C[i]), grades |-> G(C[i])]]
    BY <2>3 DEF ForEach
  <2> QED  BY <2>4, <2>5, <2>6
<1>2. ASSUME NEW p \in Users
      PROVE  ChildrenShown(p) = IF ~RolesShown THEN {} ELSE
               {u \in Users \ {p} : \E k \in CoursesShown(p) :
                  /\ {p, u} \subseteq OnRoster(k)
                  /\ role[k][p] = "Observer" /\ role[k][u] = "Student"}
  <2>1. ChildrenShown(p) =
          {u \in Users \ {p} : \E k \in CoursesShown(p) : Kin(k, p, u)}
    BY ChildrenResolved, ChildrenShownAre
  <2>2. CASE ~RolesShown
    BY <2>1, <2>2 DEF Kin
  <2>3. CASE RolesShown
    BY <2>1, <2>3 DEF Kin
  <2> QED  BY <2>2, <2>3
<1> QED  BY <1>1, <1>2 DEF ParentSeesWhatChildSees, EachBlackboard

\* What is due is due at a time, and the days until then, rounded up, say whether
\* it is due within so many days.
LEMMA DueFacts ==
  ASSUME NEW c \in Columns, NEW days \in 1..2
  PROVE  /\ DueWithin(c, days) <=>
              Due[c] # None /\ Due[c] >= Now /\ DaysUntil(c) <= days
         /\ Due[c] # None => Due[c] \in Int /\ DaysUntil(c) \in Int
<1>1. Now \in Nat /\ Day \in Nat /\ Day # 0 /\ days \in Nat
  BY ReportsAssumption
<1>2. Due[c] \in Nat \/ Due[c] = None
  BY ReportsAssumption
<1>3. ASSUME Due[c] # None
      PROVE  /\ Due[c] \in Int /\ DaysUntil(c) \in Int
             /\ DaysUntil(c) <= days <=> Due[c] <= Now + days * Day
  <2> DEFINE due == Due[c]
             a == due - Now + Day - 1
             t == days + 1
             q == a \div Day
             w == days * Day
  <2>1. due \in Nat
    BY <1>2, <1>3
  <2> HIDE DEF due
  <2>2. a \in Int /\ t \in Int /\ w \in Int
    BY <1>1, <2>1
  <2> HIDE DEF a
  <2>3. q \in Int /\ (t <= q <=> t * Day <= a)
    BY <1>1, <2>2, Quotient
  <2>4. t * Day = w + Day
    BY <1>1
  <2>5. t * Day <= a <=> w + Day <= due - Now + Day - 1
    BY <2>4 DEF a
  <2> HIDE DEF w, q
  <2>6. t <= q <=> ~(q <= days)
    BY <1>1, <2>3
  <2>7. (w + Day <= due - Now + Day - 1) <=> ~(due <= Now + w)
    BY <1>1, <2>1, <2>2
  <2>8. q <= days <=> due <= Now + w
    BY <2>3, <2>5, <2>6, <2>7
  <2>9. DaysUntil(c) = q
    BY DEF DaysUntil, q, a, due
  <2> QED  BY <2>1, <2>3, <2>8, <2>9 DEF due, w
<1> QED  BY <1>2, <1>3 DEF DueWithin

\* The columns on the pages of a user that are due within so many days.
Upcoming(u, days) ==
  {c \in UNION {ColumnsShown(k) : k \in CoursesShown(u)} : DueWithin(c, days)}

\* The page of the columns of a course.
ColumnsRead(k) == Answer(<<"columns", k>>)

\* A user's own list: what is upcoming, the soonest first.
LEMMA OwnUpcoming ==
  ASSUME CallTypeOK, NEW u \in Users, NEW days \in 1..2
  PROVE  LET own == GetUpcomingAssignments(
                      [user |-> u, course |-> None, daysAhead |-> days], AtOnce).result
         IN  /\ {row.column : row \in ToSet(own)} = Upcoming(u, days)
             /\ \A i, j \in DOMAIN own : i < j => Due[own[i].column] <= Due[own[j].column]
<1> DEFINE a == [user |-> u, course |-> None, daysAhead |-> days]
           courses == Got(AtOnce, CourseRead(a))
           reads == [i \in DOMAIN courses |-> <<"columns", courses[i]>>]
           lists == [i \in DOMAIN reads |-> Got(AtOnce, reads[i])]
           all == FlattenSeq(lists)
           S == {i \in DOMAIN all : DueWithin(all[i], a.daysAhead)}
           some == At(all, InOrder(S))
           keys == [i \in DOMAIN some |-> Due[some[i]]]
           o == SortOrder(keys)
           sorted == At(some, o)
           row(c) == [column |-> c, course |-> CourseOf[c], dueIn |-> DaysUntil(c)]
           r == [i \in DOMAIN sorted |-> row(sorted[i])]
           T == Upcoming(u, days)
<1>1. a.user = u /\ a.daysAhead = days /\ CourseRead(a) = <<"courses", u>>
  BY DEF CourseRead
<1> HIDE DEF a
<1>2. GetUpcomingAssignments(a, AtOnce).result = r
  BY DEF GetUpcomingAssignments, ForEach, Filter, SortedBy
<1>3. courses \in Seq(Courses) /\ ToSet(courses) = CoursesShown(u)
  BY <1>1, AtOnceAnswers, CoursesAnswer DEF CoursesShown
<1> HIDE DEF courses
<1>4. Len(courses) \in Nat /\ DOMAIN courses = 1..Len(courses)
      /\ \A i \in DOMAIN courses : courses[i] \in Courses
  BY <1>3, LenProperties, ElementOfSeq
<1>5. \A i \in DOMAIN courses : Got(AtOnce, reads[i]) = ColumnsRead(courses[i])
  BY <1>4, AtOnceAnswers DEF ColumnsRead
<1>6. DOMAIN reads = DOMAIN courses
  OBVIOUS
<1> HIDE DEF reads
<1>7. lists = [i \in 1..Len(courses) |-> ColumnsRead(courses[i])]
  BY <1>4, <1>5, <1>6
<1>8. lists \in Seq(Seq(Columns)) /\ DOMAIN lists = DOMAIN courses
      /\ \A i \in DOMAIN courses : lists[i] = ColumnsRead(courses[i])
  <2>1. \A i \in 1..Len(courses) : ColumnsRead(courses[i]) \in Seq(Columns)
    BY ColumnsPage DEF ColumnsRead
  <2>2. lists \in [1..Len(courses) -> Seq(Columns)]
    BY <1>7, <2>1
  <2>3. \A i \in DOMAIN courses : lists[i] = ColumnsRead(courses[i])
    BY <1>4, <1>7
  <2> HIDE DEF lists
  <2> QED  BY <1>4, <2>2, <2>3
<1> HIDE DEF lists
<1>9. /\ all \in Seq(Columns)
      /\ ToSet(all) = UNION {ColumnsShown(k) : k \in CoursesShown(u)}
  <2>1. all \in Seq(Columns) /\ ToSet(all) = UNION {ToSet(lists[i]) : i \in DOMAIN lists}
    BY <1>8, Flattened
  <2> HIDE DEF all
  <2>2. \A i \in DOMAIN courses : ToSet(lists[i]) = ColumnsShown(courses[i])
    BY <1>8 DEF ColumnsShown, ColumnsRead
  <2>3. {courses[i] : i \in DOMAIN courses} = CoursesShown(u)
    BY <1>3 DEF ToSet
  <2>4. UNION {ToSet(lists[i]) : i \in DOMAIN lists}
          = UNION {ColumnsShown(k) : k \in CoursesShown(u)}
    BY <1>8, <2>2, <2>3
  <2> QED  BY <2>1, <2>4
<1> HIDE DEF all
<1>10. S \in SUBSET DOMAIN all /\ {all[i] : i \in S} = T
  <2>1. {all[i] : i \in S} = {c \in ToSet(all) : DueWithin(c, days)}
    BY <1>1 DEF ToSet
  <2>2. {c \in ToSet(all) : DueWithin(c, days)} = T
    BY <1>9 DEF Upcoming
  <2> QED  BY <2>1, <2>2
<1> HIDE DEF S, T
<1>11. some \in Seq(Columns) /\ ToSet(some) = T
  <2>1. some \in Seq(Columns) /\ ToSet(some) = {all[i] : i \in S}
    BY <1>9, <1>10, Selected
  <2> HIDE DEF some
  <2> QED  BY <1>10, <2>1
<1> HIDE DEF some
<1>12. some \in Seq(T) /\ \A i \in DOMAIN some : some[i] \in T
  BY <1>11, ListOver
<1>13. \A c \in T : Due[c] \in Int
  <2>1. \A c \in T : c \in Columns /\ Due[c] # None
    BY <1>9, <1>10 DEF T, Upcoming, DueWithin, ToSet
  <2> QED  BY <2>1, DueFacts
<1>14. keys \in [DOMAIN some -> Int] /\ \A i \in DOMAIN some : keys[i] = Due[some[i]]
  BY <1>12, <1>13
<1> HIDE DEF keys
<1>15. /\ sorted \in Seq(T) /\ Len(sorted) = Len(some) /\ DOMAIN sorted = DOMAIN some
       /\ ToSet(sorted) = ToSet(some)
       /\ o \in [DOMAIN some -> DOMAIN some]
       /\ \A m \in DOMAIN sorted : sorted[m] = some[o[m]]
       /\ \A l, m \in DOMAIN sorted : l < m => keys[o[l]] <= keys[o[m]]
  <2>1. LET q == SortOrder(keys)
            s == At(some, q) IN
        /\ s \in Seq(T) /\ Len(s) = Len(some) /\ DOMAIN s = DOMAIN some
        /\ ToSet(s) = ToSet(some)
        /\ q \in [DOMAIN some -> DOMAIN some]
        /\ \A m \in DOMAIN s : s[m] = some[q[m]]
        /\ \A i \in DOMAIN some : \E m \in DOMAIN s : q[m] = i
        /\ \A l, m \in DOMAIN s : l < m => keys[q[l]] <= keys[q[m]]
        /\ \A l, m \in DOMAIN s : q[l] = q[m] => l = m
    BY <1>12, <1>14, Sorted
  <2> QED  BY <2>1
<1> HIDE DEF sorted, o
<1>16. \A c : row(c).column = c
  OBVIOUS
<1> HIDE DEF row
<1>17. {e.column : e \in ToSet(r)} = T
  <2>1. ToSet(r) = {row(c) : c \in ToSet(sorted)}
    BY DEF ToSet
  <2> HIDE DEF r
  <2>2. {e.column : e \in ToSet(r)} = ToSet(sorted)
    BY <1>16, <2>1
  <2> QED  BY <1>11, <1>15, <2>2
<1>18. \A i, j \in DOMAIN r : i < j => Due[r[i].column] <= Due[r[j].column]
  <2>1. DOMAIN r = DOMAIN sorted /\ \A i \in DOMAIN r : r[i].column = sorted[i]
    BY <1>16
  <2> HIDE DEF r
  <2>2. \A i \in DOMAIN r : Due[r[i].column] = keys[o[i]]
    BY <1>14, <1>15, <2>1
  <2> QED  BY <1>15, <2>1, <2>2
<1> HIDE DEF r
<1>19. LET own == GetUpcomingAssignments(a, AtOnce).result IN
       /\ {e.column : e \in ToSet(own)} = T
       /\ \A i, j \in DOMAIN own : i < j => Due[own[i].column] <= Due[own[j].column]
  BY <1>2, <1>17, <1>18
<1> QED  BY <1>19 DEF a, T

\* What a parent is shown of a child's course: what is due in it, in some order.
LEMMA UpcomingInCourse ==
  ASSUME NEW k \in Courses, NEW days \in 1..2
  PROVE  ToSet(SortedBy(Filter(ColumnsRead(k), LAMBDA c : DueWithin(c, days)), DaysUntil))
           = {c \in ColumnsShown(k) : DueWithin(c, days)}
<1> DEFINE all == ColumnsRead(k)
           S == {i \in DOMAIN all : DueWithin(all[i], days)}
           some == At(all, InOrder(S))
           keys == [i \in DOMAIN some |-> DaysUntil(some[i])]
           sorted == At(some, SortOrder(keys))
           T == {c \in ColumnsShown(k) : DueWithin(c, days)}
<1>1. SortedBy(Filter(ColumnsRead(k), LAMBDA c : DueWithin(c, days)), DaysUntil) = sorted
  BY DEF SortedBy, Filter, ForEach
<1>2. all \in Seq(Columns) /\ ToSet(all) = ColumnsShown(k) /\ ToSet(all) \subseteq Columns
  BY ColumnsPage DEF ColumnsShown, ColumnsRead
<1> HIDE DEF all
<1>3. S \in SUBSET DOMAIN all /\ {all[i] : i \in S} = T
  <2>1. {all[i] : i \in S} = {c \in ToSet(all) : DueWithin(c, days)}
    BY DEF ToSet
  <2> QED  BY <1>2, <2>1
<1> HIDE DEF S, T
<1>4. some \in Seq(Columns) /\ ToSet(some) = T
  <2>1. some \in Seq(Columns) /\ ToSet(some) = {all[i] : i \in S}
    BY <1>2, <1>3, Selected
  <2> HIDE DEF some
  <2> QED  BY <1>3, <2>1
<1> HIDE DEF some
<1>5. some \in Seq(T) /\ \A i \in DOMAIN some : some[i] \in T
  BY <1>4, ListOver
<1>6. \A c \in T : DaysUntil(c) \in Int
  BY <1>2, DueFacts DEF T, DueWithin
<1>7. keys \in [DOMAIN some -> Int]
  BY <1>5, <1>6
<1> HIDE DEF keys
<1>8. LET q == SortOrder(keys)
          s == At(some, q) IN
      /\ s \in Seq(T) /\ Len(s) = Len(some) /\ DOMAIN s = DOMAIN some
      /\ ToSet(s) = ToSet(some)
      /\ q \in [DOMAIN some -> DOMAIN some]
      /\ \A m \in DOMAIN s : s[m] = some[q[m]]
      /\ \A i \in DOMAIN some : \E m \in DOMAIN s : q[m] = i
      /\ \A l, m \in DOMAIN s : l < m => keys[q[l]] <= keys[q[m]]
      /\ \A l, m \in DOMAIN s : q[l] = q[m] => l = m
  BY <1>5, <1>7, Sorted
<1> QED  BY <1>1, <1>4, <1>8 DEF T

\* A parent is shown what is upcoming for the child.
LEMMA ChildsUpcoming ==
  ASSUME CallTypeOK, NEW p, NEW u \in Users, NEW days \in 1..2,
         NEW args, args.course = None, args.daysAhead = days,
         Targets(args, AtOnce) = <<u>>
  PROVE  UNION {ToSet(row.upcoming) : row \in
           ToSet(GetChildrenUpcomingAssignments(args, AtOnce).result)}
           = Upcoming(u, days)
<1> DEFINE cs == Targets(args, AtOnce)
           C(x) == CoursesFor(args, AtOnce, x)
           list(k, x) == SortedBy(Filter(Got(AtOnce, <<"columns", k, x>>), LAMBDA c :
                           DueWithin(c, args.daysAhead)), DaysUntil)
           row(x, k) == [child |-> x, course |-> k, upcoming |-> list(k, x)]
           R == [i \in DOMAIN cs |-> [j \in DOMAIN C(cs[i]) |-> row(cs[i], C(cs[i])[j])]]
           r == [j \in DOMAIN C(u) |-> row(u, C(u)[j])]
           Here(k) == {c \in ColumnsShown(k) : DueWithin(c, days)}
<1>1. GetChildrenUpcomingAssignments(args, AtOnce).result = FlattenSeq(R)
  BY DEF GetChildrenUpcomingAssignments, PerChildCourse, ForEach
<1>2. cs = <<u>> /\ C(u) \in Seq(Courses)
      /\ ToSet(C(u)) = CoursesShown(u) /\ CoursesShown(u) \subseteq Courses
  BY AllCourses, CoursesAnswer DEF CoursesOf, CoursesShown
<1> HIDE DEF cs, C
<1>3. \A k \in Courses : ToSet(list(k, u)) = Here(k)
  <2> SUFFICES ASSUME NEW k \in Courses PROVE ToSet(list(k, u)) = Here(k)
    OBVIOUS
  <2>1. Got(AtOnce, <<"columns", k, u>>) = ColumnsRead(k)
    BY AtOnceAnswers DEF ColumnsRead
  <2>2. list(k, u) = SortedBy(Filter(ColumnsRead(k), LAMBDA c : DueWithin(c, days)),
                              DaysUntil)
    BY <2>1
  <2> QED  BY <2>2, UpcomingInCourse
<1>4. \A k : row(u, k).upcoming = list(k, u)
  OBVIOUS
<1> HIDE DEF row, list
<1>5. R = <<r>>
  <2> DEFINE G(x) == [j \in DOMAIN C(x) |-> row(x, C(x)[j])]
  <2>1. R = [i \in DOMAIN cs |-> G(cs[i])] /\ r = G(u)
    OBVIOUS
  <2> HIDE DEF G, R, r
  <2> QED  BY <1>2, <2>1
<1> HIDE DEF R
<1>6. FlattenSeq(R) = r
  <2> HIDE DEF r
  <2> QED  BY <1>5, OneList
<1>7. ToSet(r) = {row(u, k) : k \in ToSet(C(u))}
  <2> DEFINE M(k) == row(u, k)
  <2>1. r = [j \in DOMAIN C(u) |-> M(C(u)[j])]
    OBVIOUS
  <2> HIDE DEF M, r
  <2>2. ToSet(r) = {M(k) : k \in ToSet(C(u))}
    BY <2>1 DEF ToSet
  <2> QED  BY <2>2 DEF M
<1> HIDE DEF r
<1>8. UNION {ToSet(e.upcoming) : e \in ToSet(r)} = UNION {Here(k) : k \in ToSet(C(u))}
  <2>1. \A k \in ToSet(C(u)) : ToSet(row(u, k).upcoming) = Here(k)
    BY <1>2, <1>3, <1>4
  <2> HIDE DEF Here
  <2> QED  BY <1>7, <2>1
<1>9. UNION {Here(k) : k \in ToSet(C(u))} = Upcoming(u, days)
  BY <1>2 DEF Upcoming
<1> QED  BY <1>1, <1>6, <1>8, <1>9

\* What child and parent are shown of what is due.
LEMMA UpcomingViews == ASSUME CallTypeOK PROVE UpcomingViewsAgree
<1> DEFINE Agree(u, daysAhead) ==
      LET own == GetUpcomingAssignments(
                   [user |-> u, course |-> None, daysAhead |-> daysAhead],
                   AtOnce).result
      IN  /\ {row.column : row \in ToSet(own)} =
               {c \in UNION {ColumnsShown(k) : k \in CoursesShown(u)} :
                  Due[c] # None /\ Due[c] >= Now /\ DaysUntil(c) <= daysAhead}
          /\ \A i, j \in DOMAIN own : i < j => Due[own[i].column] <= Due[own[j].column]
          /\ \A p \in Users : u \in ChildrenShown(p) =>
               UNION {ToSet(row.upcoming) : row \in ToSet(
                 GetChildrenUpcomingAssignments(
                   [user |-> p, child |-> u, course |-> None,
                    daysAhead |-> daysAhead], AtOnce).result)}
               = {row.column : row \in ToSet(own)}
<1>1. ASSUME NEW u \in Users, NEW days \in 1..2 PROVE Agree(u, days)
  <2> DEFINE own == GetUpcomingAssignments(
                      [user |-> u, course |-> None, daysAhead |-> days], AtOnce).result
             args(p) == [user |-> p, child |-> u, course |-> None, daysAhead |-> days]
             shown(p) == GetChildrenUpcomingAssignments(args(p), AtOnce).result
             listed == UNION {ColumnsShown(k) : k \in CoursesShown(u)}
  <2>1. /\ {row.column : row \in ToSet(own)} = Upcoming(u, days)
        /\ \A i, j \in DOMAIN own : i < j => Due[own[i].column] <= Due[own[j].column]
    BY OwnUpcoming
  <2>2. Upcoming(u, days) =
          {c \in listed : Due[c] # None /\ Due[c] >= Now /\ DaysUntil(c) <= days}
    <3>1. \A k : ColumnsShown(k) \subseteq Columns
      BY ColumnsPage DEF ColumnsShown
    <3>2. \A c \in listed : c \in Columns
      BY <3>1
    <3>3. Upcoming(u, days) = {c \in listed : DueWithin(c, days)}
      BY DEF Upcoming
    <3> HIDE DEF listed
    <3> QED  BY <3>2, <3>3, DueFacts
  <2>3. ASSUME NEW p \in Users, u \in ChildrenShown(p)
        PROVE  UNION {ToSet(row.upcoming) : row \in ToSet(shown(p))}
                 = Upcoming(u, days)
    <3> DEFINE a == args(p)
    <3>1. a.user = p /\ a.child = u /\ a.course = None /\ a.daysAhead = days
      OBVIOUS
    <3> HIDE DEF a
    <3>2. Targets(a, AtOnce) = <<u>>
      BY <2>3, <3>1, ChildAsked
    <3> QED  BY <3>1, <3>2, ChildsUpcoming DEF a
  <2>4. \A p \in Users : u \in ChildrenShown(p) =>
          UNION {ToSet(row.upcoming) : row \in ToSet(shown(p))}
            = {row.column : row \in ToSet(own)}
    <3> HIDE DEF own, shown
    <3> QED  BY <2>1, <2>3
  <2>5. {row.column : row \in ToSet(own)} =
          {c \in listed : Due[c] # None /\ Due[c] >= Now /\ DaysUntil(c) <= days}
    <3> HIDE DEF own
    <3> QED  BY <2>1, <2>2
  <2> QED  BY <2>1, <2>4, <2>5
<1>2. \A u \in Users, daysAhead \in 1..2 : Agree(u, daysAhead)
  <2> HIDE DEF Agree
  <2> QED  BY <1>1
<1> QED  BY <1>2 DEF UpcomingViewsAgree, EachBlackboard

\* What the tools promise of one and the same Blackboard.
LEMMA ViewsSound == ASSUME CallTypeOK PROVE ViewsAgree
  BY GradeViews, UpcomingViews, ParentViews DEF ViewsAgree

\* ViewsAgree: whatever Blackboard holds and however long its pages are, the
\* grades an instructor is shown of a student, in either way, are those that the
\* student is shown, the average is the same where both have one, what is listed
\* as upcoming on the pages read is what is due within the days asked for, and a
\* parent finds the students of the courses observed, none if the roster tells no
\* roles, and is shown of a child found what the child is shown.
THEOREM ViewsCorrect == CallSpec => []ViewsAgree
<1>1. CallTypeOK => ViewsAgree
  BY ViewsSound
<1> QED  BY <1>1, CallTypeCorrect, PTL

\* ReportsAddUp: whatever Blackboard holds, with scores of any fraction and pages
\* of any length, the counts of submissions add up, the bands hold every score
\* once, mean and median as rounded lie between the extremes rounded the same way,
\* and the levels and places in the list of students at risk follow from the
\* averages.
THEOREM ReportsCorrect == CallSpec => []ReportsAddUp
<1>1. CallTypeOK => ReportsAddUp
  BY ReportsSound
<1> QED  BY <1>1, CallTypeCorrect, PTL
=============================================================================
