---------------------------- MODULE MCTimerHeap ----------------------------
(* The timer heap for TLC: entries without a group lock are interchangeable. *)
EXTENDS TimerHeap, TLC

Symmetry == Permutations(Entry \ Grouped)
=============================================================================
