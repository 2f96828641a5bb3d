------------------------------ MODULE StepDriver ------------------------------
(***************************************************************************)
(* The stepper outputs (driver.sv) and the divider that clocks them        *)
(* (clkdiv.sv).  The driver is in the 1 kHz domain of clk0, so what it     *)
(* makes of a motor enable depends on the enable lasting exactly one       *)
(* period of clk0.                                                         *)
(***************************************************************************)
EXTENDS Integers

CONSTANT DIVIDER   \* clk50 cycles of half a clk0 period, less one

ASSUME DividerAssumption == DIVIDER \in Nat

VARIABLES div_count, clk0, yaw_step, pitch_step

driverVars == <<div_count, clk0, yaw_step, pitch_step>>

\* Registers without a reset value are configured low.
DriverInit ==
  /\ div_count = 0 /\ clk0 = FALSE
  /\ yaw_step = FALSE /\ pitch_step = FALSE

\* Mutant: the divider is not decremented to make up for the zero it counts.
DivideClockLonger ==
  /\ div_count' = IF div_count = 0 THEN DIVIDER + 1 ELSE div_count - 1
  /\ clk0' = IF div_count = 0 THEN ~clk0 ELSE clk0

DivideClock ==
  /\ div_count' = IF div_count = 0 THEN DIVIDER ELSE div_count - 1
  /\ clk0' = IF div_count = 0 THEN ~clk0 ELSE clk0

\* On a rising edge of clk0 an enabled step line toggles and a disabled one
\* returns to its idle level, high.  The edge of clk0 follows the clk50 edge
\* that makes it, so the enables are the ones that edge has just set.
DriveLine(line, en) == IF clk0' /\ ~clk0 THEN en => ~line ELSE line

Drive(yaw_step_en, pitch_step_en) ==
  /\ DivideClock
  /\ yaw_step' = DriveLine(yaw_step, yaw_step_en)
  /\ pitch_step' = DriveLine(pitch_step, pitch_step_en)
=============================================================================
