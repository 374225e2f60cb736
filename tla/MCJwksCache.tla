----------------------------- MODULE MCJwksCache -----------------------------
(***************************************************************************)
(* JwksCache for TLC: up to three requests, a key in use and a rotated     *)
(* one, a token that fails the early checks, a forged one and the genuine  *)
(* ones.                                                                   *)
(***************************************************************************)
EXTENDS JwksCache, TLC

CONSTANTS r1, r2, r3, kOld, kNew

MCKids == {kOld, kNew}
MCTokens ==
  {[kid |-> k, genuine |-> TRUE, claimsOk |-> TRUE] : k \in MCKids}
  \cup {[kid |-> kNew, genuine |-> FALSE, claimsOk |-> TRUE],
        [kid |-> kOld, genuine |-> TRUE, claimsOk |-> FALSE]}

\* The liveness run keeps the genuine tokens only.
LiveTokens == {t \in MCTokens : t.genuine /\ t.claimsOk}

RequestSymmetry == Permutations(Requests)

=============================================================================
