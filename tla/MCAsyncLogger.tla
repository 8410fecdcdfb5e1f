--------------------------- MODULE MCAsyncLogger ---------------------------
(* AsyncLogger for TLC.                                                    *)
EXTENDS AsyncLogger, TLC

\* The logging threads are interchangeable.
ThreadSymmetry == Permutations(Threads)
=============================================================================
