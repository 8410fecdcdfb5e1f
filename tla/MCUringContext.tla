--------------------------- MODULE MCUringContext ---------------------------
(* UringContext for TLC.                                                   *)
EXTENDS UringContext, TLC

\* Coroutines are interchangeable (used only where no liveness is checked).
CoroSymmetry == Permutations(Coros)
=============================================================================
