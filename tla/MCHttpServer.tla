---------------------------- MODULE MCHttpServer -----------------------------
(***************************************************************************)
(* HttpServer for TLC: every configuration it starts in, two requests at a *)
(* time, two users and two sessions.                                       *)
(***************************************************************************)
EXTENDS HttpServer, TLC

CONSTANTS r1, r2, u1, u2, s1, s2

MCSlots == {r1, r2}
MCUsers == {u1, u2}
MCSessions == {s1, s2}

\* Slots, users and session ids are interchangeable.
Symmetric ==
  Permutations(MCSlots) \cup Permutations(MCUsers) \cup Permutations(MCSessions)
==============================================================================
