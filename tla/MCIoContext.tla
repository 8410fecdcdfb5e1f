---------------------------- MODULE MCIoContext ----------------------------
(* IoContext for TLC.                                                      *)
EXTENDS IoContext, TLC

\* Tasks are interchangeable (used only where no liveness is checked).
TaskSymmetry == Permutations(Tasks)
=============================================================================
