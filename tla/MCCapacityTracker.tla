------------------------- MODULE MCCapacityTracker -------------------------
(* Instance of CapacityTracker for TLC: requests of different sizes, so    *)
(* that one release can make room for one sleeper and not for another.     *)
EXTENDS CapacityTracker, TLC

CONSTANTS c1, c2, c3, c4

MCSize == (c1 :> 1) @@ (c2 :> 2) @@ (c3 :> 3) @@ (c4 :> 4)

=============================================================================
