--------------------------- MODULE MCSlidingWindow --------------------------
(* Two clients, a quota of 2 asks per 2 ticks, 6 ticks of time and a clock *)
(* that is one tick behind or not, whenever it likes: a client fills its   *)
(* quota, is refused, waits out part and all of the window, and fills it   *)
(* again, with the clock set between any two of these.                     *)
EXTENDS SlidingWindow, TLC

Symmetry == Permutations(Keys)
=============================================================================
