------------------------ MODULE MCAssignmentCreation -------------------------
(***************************************************************************)
(* AssignmentCreation for TLC.                                             *)
(***************************************************************************)
EXTENDS AssignmentCreation, TLC

CONSTANTS c1, c2, c3, c4

CallSymmetry == Permutations(Calls)

=============================================================================
