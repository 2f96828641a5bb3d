---------------------------- MODULE TaxicabSpiral ----------------------------
(***************************************************************************)
(* What the search promises, independently of how the controller counts    *)
(* it: from the place where the target was lost the laser walks the legs   *)
(*   +d, +d, -2d, -2d, +3d, +3d, -4d, -4d, ...                             *)
(* alternately in yaw and in pitch (the project report's section 2.5), one *)
(* step at a time, until the target is found or the next leg would be      *)
(* longer than the search area allows.  Between searches all variables are *)
(* zero.                                                                   *)
(***************************************************************************)
EXTENDS Integers

CONSTANTS Density,   \* d, the length of the first leg
          MaxSide    \* no leg longer than this is walked

VARIABLES walking, x, y, leg, taken

spiralVars == <<walking, x, y, leg, taken>>

LegLength(l) == Density * (1 + l \div 2)

\* Legs 0, 1 (mod 4) lead in the positive direction, even legs are yaw legs.
Sign(l) == IF l % 4 < 2 THEN 1 ELSE -1

Rest == walking = FALSE /\ x = 0 /\ y = 0 /\ leg = 0 /\ taken = 0

Init == Rest

Start == ~walking /\ walking' = TRUE /\ UNCHANGED <<x, y, leg, taken>>

Step ==
  /\ walking /\ LegLength(leg) <= MaxSide
  /\ IF leg % 2 = 0 THEN x' = x + Sign(leg) /\ y' = y
                    ELSE x' = x /\ y' = y + Sign(leg)
  /\ IF taken + 1 = LegLength(leg)
     THEN leg' = leg + 1 /\ taken' = 0
     ELSE leg' = leg /\ taken' = taken + 1
  /\ walking' = walking

Stop == walking /\ Rest'

Next == Start \/ Step \/ Stop

Spec == Init /\ [][Next]_spiralVars
=============================================================================
