---------------------------- MODULE ReceiverBoard ----------------------------
(***************************************************************************)
(* The receiver board up to the command byte (laser_rx.sv, rx_state.sv):   *)
(* the scanner and its converter, target detection, the light that falls   *)
(* on the photodiode at any moment, and KEY[0].  The line that the monitor *)
(* prints is a function of this state.                                     *)
(***************************************************************************)
EXTENDS AdcScanner, QpdHistory

CONSTANTS
  Lights,   \* what may fall on the photodiode: the level of each quadrant
  HORIZON   \* how long a light is watched

ASSUME ReceiverAssumption ==
  /\ Lights \subseteq [Quadrants -> Sample] /\ Lights # {}
  /\ HORIZON \in Nat

VARIABLES
  light,   \* the levels at the converter's inputs
  reset,   \* KEY[0] is held
  steady   \* history: cycles without a reset or a change of light

boardVars == <<adcVars, qpdVars, histVars, light, reset, steady>>

ReceiverInit ==
  /\ AdcInit /\ QpdInit /\ HistInit
  /\ light \in Lights /\ reset = FALSE /\ steady = 0

Edge ==
  /\ IF reset THEN ScannerReset(sdo) /\ ResetHeld(Readings)
     ELSE ScannerEdge(sdo) /\ Seen(Readings)
  /\ Chip(light)
  /\ steady' = IF reset THEN 0 ELSE IF steady < HORIZON THEN steady + 1
                                    ELSE steady
  /\ UNCHANGED <<light, reset>>

ChangeLight ==
  /\ light' \in Lights \ {light} /\ steady' = 0
  /\ UNCHANGED <<adcVars, qpdVars, histVars, reset>>

\* The confidence resets at once, the rest with the clock.
PressReset ==
  /\ ~reset /\ reset' = TRUE
  /\ ConfReset /\ Forget /\ steady' = 0
  /\ UNCHANGED <<adcVars, moveVars, light>>

ReleaseReset ==
  /\ reset /\ reset' = FALSE
  /\ UNCHANGED <<adcVars, qpdVars, histVars, light, steady>>

ReceiverNext == Edge \/ ChangeLight \/ PressReset \/ ReleaseReset

ReceiverSpec == ReceiverInit /\ [][ReceiverNext]_boardVars

-----------------------------------------------------------------------------
ReceiverTypeOK ==
  /\ QpdTypeOK
  /\ state \in DOMAIN Duration /\ count \in 0..Duration[state] - 1
  /\ ch \in Quadrants /\ prevch \in Quadrants
  /\ convst \in BOOLEAN /\ sck \in BOOLEAN
  /\ sample \in Sample /\ q \in [Quadrants -> Sample]
  /\ channel \in Quadrants /\ conv \in Sample

\* A new light is seen in five scans, less the pause at the end: it may have
\* just missed its channel, and a reset makes the first scan one of any channel.
Settle == 5 * (START + CONVERT + 2 * BITS + ACQUIRE) - ACQUIRE + 1

Levels == [i \in Quadrants |-> Value(light[i])]
Lit == Brightness(Levels) > SUM_THRESH

\* The conversion that a transfer brings is one of the channel addressed before
\* it: in a steady light, wherever in its cycle the scanner was when the light
\* changed or the reset ended, each reading is of its own quadrant, and the
\* movement bits are those of the light.
Settled ==
  steady >= Settle =>
    /\ Readings = Levels
    /\ move_x = (Abs(OffsetX(Levels)) > MOVE_THRESH)
    /\ move_y = (Abs(OffsetY(Levels)) > MOVE_THRESH)
    /\ move_x => dir_x = (OffsetX(Levels) > 0)
    /\ move_y => dir_y = (OffsetY(Levels) > 0)

\* A light that stays is reported, and one that stays away is not.
OnTargetTells ==
  /\ steady > Settle + LOCK /\ Lit => on_target
  /\ steady > Settle + TARGET_CONFIDENCE_MAX /\ ~Lit => ~on_target

\* main.c: the line shows the quadrants where they are, and of an offset its
\* two's complement in the bits it has: a negative one is printed as a large
\* positive number.
LineShows ==
  steady >= Settle =>
    /\ [k \in {"tl", "tr", "bl", "br"} |-> Line(Readings)[k]] =
         [tl |-> Levels[3], tr |-> Levels[0], bl |-> Levels[2], br |-> Levels[1]]
    /\ Line(Readings).dx \in 0..2 * LOW - 1
    /\ \A offset \in (-LOW)..(LOW - 1) :
         OffsetX(Levels) = offset =>
           Line(Readings).dx = IF offset < 0 THEN offset + 2 * LOW ELSE offset
=============================================================================
