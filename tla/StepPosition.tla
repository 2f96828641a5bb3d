---------------------------- MODULE StepPosition ----------------------------
(***************************************************************************)
(* The step counters of the gimbal.  search_controller.sv declares         *)
(*   logic signed [15:0] pos_x, pos_y;                                     *)
(* so a counter wraps round from PosMax to -PosMax-1 and back; PosMax is   *)
(* 32767 in the hardware and small in the TLC models.                      *)
(***************************************************************************)
EXTENDS Integers

CONSTANT PosMax   \* largest value of a signed position counter

ASSUME PosAssumption == PosMax \in Nat \ {0}

Pos == (-PosMax - 1) .. PosMax

\* pos + 1 and pos - 1 in the width of the counter
Succ(p) == IF p = PosMax THEN -PosMax - 1 ELSE p + 1
Pred(p) == IF p = -PosMax - 1 THEN PosMax ELSE p - 1

\* Mutant: a counter that is home steps on.
TowardsOvershoot(p, home) == IF p >= home THEN Pred(p) ELSE Succ(p)

\* one step from p towards the coordinate home
Towards(p, home) == IF p > home THEN Pred(p)
                    ELSE IF p < home THEN Succ(p)
                    ELSE p
=============================================================================
