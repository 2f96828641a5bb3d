------------------------------ MODULE QpdHistory ------------------------------
(***************************************************************************)
(* Target detection with a memory, to state what its hysteresis promises:  *)
(* how much light it takes to report the target and how much darkness to   *)
(* drop it.                                                                *)
(***************************************************************************)
EXTENDS QpdState

VARIABLES
  lit,   \* history, off target: lit cycles since, up to LOCK + 1
  dark   \* history, on target: dark cycles in a row

histVars == <<lit, dark>>

HistInit == lit = 0 /\ dark = 0

\* What the detector has seen, after a cycle of the given brightness.
Remember(bright) ==
  /\ lit' = IF on_target' \/ on_target THEN 0
            ELSE IF bright /\ lit <= LOCK THEN lit + 1 ELSE lit
  /\ dark' = IF on_target' /\ ~bright THEN dark + 1 ELSE 0

Forget == lit' = 0 /\ dark' = 0

Seen(light) == QpdEdge(light) /\ Remember(Brightness(light) > SUM_THRESH)

ResetHeld(light) == QpdReset(light) /\ Forget

-----------------------------------------------------------------------------
QpdTypeOK ==
  /\ confidence_counter \in 0..TARGET_CONFIDENCE_MAX
  /\ on_target \in BOOLEAN
  /\ move_x \in BOOLEAN /\ dir_x \in BOOLEAN
  /\ move_y \in BOOLEAN /\ dir_y \in BOOLEAN /\ micro \in BOOLEAN
  /\ lit \in 0..LOCK + 1 /\ dark \in Nat

\* The target is dropped after TARGET_CONFIDENCE_MAX cycles of darkness at the
\* latest, however much light there was before.
DropsInTime == on_target => dark <= TARGET_CONFIDENCE_MAX

\* qpd_state.sv: "Hysteresis: Require 50k cycles to lock, but don't drop
\* immediately."  It takes more than LOCK lit cycles since the target was dropped,
\* whatever the flicker between them, to report one.
LocksAfterEnough == [][~on_target /\ on_target' => lit > LOCK]_<<qpdVars, lit, dark>>
=============================================================================
