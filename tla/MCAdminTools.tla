---------------------------- MODULE MCAdminTools -----------------------------
(***************************************************************************)
(* AdminTools for TLC: two calls, enrollments of one course and two users, *)
(* one subscription identifier, a trace buffer smaller than what it is     *)
(* given, the first page of a list with one place, and the one after it.   *)
(***************************************************************************)
EXTENDS AdminTools, TLC

CONSTANTS c1, c2, k1, u1, u2, w1, r1, r2

MCCalls == {c1, c2}
MCCourseIds == {k1}
MCUserIds == {u1, u2}
MCSubscriptionIds == {w1}
MCKinds == {r1, r2}

\* Blackboard holds nothing, or every resource with the same fields.
MCInitialRegistries ==
  {[id \in ResourceIds |-> r] : r \in {None} \cup [kind : Kinds, on : {TRUE}]}

MCRank ==
  [id \in ResourceIds |-> IF id = w1 THEN 3 ELSE IF id[2] = u1 THEN 1 ELSE 2]

MCPages == {[offset |-> 0, limit |-> 1], [offset |-> 1, limit |-> 2]}

\* No filter, one event, the other event of one call.
MCAuditFilters ==
  {[event |-> None, calls |-> Calls], [event |-> "access.denied", calls |-> Calls]}
  \cup {[event |-> "access.granted", calls |-> {c}] : c \in Calls}

\* Calls and kinds are interchangeable; users are not, Blackboard orders them.
Symmetric == Permutations(MCCalls) \cup Permutations(MCKinds)
==============================================================================
