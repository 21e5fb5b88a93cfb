---------------------------- MODULE MCSharedRing ----------------------------
(* SharedRing for TLC: a ring of four slots, counters that wrap at 8, and  *)
(* enough items to wrap them.                                              *)
EXTENDS SharedRing
=============================================================================
