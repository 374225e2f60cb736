----------------------------- MODULE MCOAuthFlow -----------------------------
(***************************************************************************)
(* OAuthFlow for TLC: two flows, and two calls that may overlap.           *)
(***************************************************************************)
EXTENDS OAuthFlow

CONSTANTS f1, f2, c1, c2

MCFlows == {f1, f2}
MCCalls == {c1, c2}

==============================================================================
