---------------------------- MODULE OneTimeTickets ---------------------------
(***************************************************************************)
(* What a store of one-time tickets promises, apart from how it keeps      *)
(* them: a ticket is issued once, may be redeemed once while it is open,   *)
(* and may lapse instead; what has lapsed or was redeemed stays so.        *)
(***************************************************************************)
EXTENDS Naturals

CONSTANT Tickets

VARIABLES
  issued,    \* the tickets ever handed out
  open,      \* the tickets that can still be redeemed
  redeemed   \* how often each ticket was redeemed

vars == <<issued, open, redeemed>>

TypeOK ==
  /\ issued \in SUBSET Tickets
  /\ open \in SUBSET issued
  /\ redeemed \in [Tickets -> Nat]

Init ==
  /\ issued = {}
  /\ open = {}
  /\ redeemed = [t \in Tickets |-> 0]

Issue(t) ==
  /\ t \notin issued
  /\ issued' = issued \cup {t}
  /\ open' = open \cup {t}
  /\ UNCHANGED redeemed

Redeem(t) ==
  /\ t \in open
  /\ open' = open \ {t}
  /\ redeemed' = [redeemed EXCEPT ![t] = @ + 1]
  /\ UNCHANGED issued

Lapse(T) ==
  /\ open' = open \ T
  /\ UNCHANGED <<issued, redeemed>>

Next ==
  \/ \E t \in Tickets : Issue(t) \/ Redeem(t)
  \/ \E T \in SUBSET open : Lapse(T)

Spec == Init /\ [][Next]_vars

\* A ticket is redeemed at most once, and an open one never was.
RedeemedOnce ==
  \A t \in Tickets : redeemed[t] <= 1 /\ (t \in open => redeemed[t] = 0)
==============================================================================
