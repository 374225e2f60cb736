---------------------------- MODULE MCTokenCache -----------------------------
(***************************************************************************)
(* TokenCache for TLC: a token endpoint that grants long and short lives.  *)
(***************************************************************************)
EXTENDS TokenCache, TLC

CONSTANTS r1, r2

RequestSymmetry == Permutations(Requests)

=============================================================================
