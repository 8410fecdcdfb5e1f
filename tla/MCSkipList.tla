----------------------------- MODULE MCSkipList -----------------------------
(* SkipList for TLC.                                                       *)
EXTENDS SkipList
=============================================================================
