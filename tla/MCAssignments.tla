--------------------------- MODULE MCAssignments ---------------------------
(***************************************************************************)
(* Assignments on a small instance.                                        *)
(***************************************************************************)
EXTENDS Assignments
=============================================================================
