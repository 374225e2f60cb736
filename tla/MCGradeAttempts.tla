--------------------------- MODULE MCGradeAttempts ---------------------------
(***************************************************************************)
(* GradeAttempts for TLC.                                                  *)
(***************************************************************************)
EXTENDS GradeAttempts, TLC

CONSTANTS c1, c2, c3, eve, sam, zoe

AnyRequest == [tool : Tools, student : Students]

CallSymmetry == Permutations(Calls)

=============================================================================
