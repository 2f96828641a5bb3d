----------------------------- MODULE StepAccount -----------------------------
(***************************************************************************)
(* The transmitter with its motors, and an account of every step: how far  *)
(* each motor has moved beyond what the controller's counters say, since   *)
(* the controller entered its state or, while tracking, since the last     *)
(* packet; a search and the return it ends in are one account.  The motors *)
(* are external: a stepper driver moves one step on a rising edge of its   *)
(* step line, in the direction its other input has.                        *)
(***************************************************************************)
EXTENDS Transmitter

CONSTANT GapMax   \* an account is kept up to this difference

\* The account is of a run on which nobody touches the buttons: both of them can
\* freeze the enables in the middle of a pulse, and a motor then steps on for as
\* long as the button is held.
ASSUME GapAssumption == GapMax \in Nat \ {0, 1} /\ Keys = {}

\* How the durations of the source fit together: a pulse (50,000 cycles) is one
\* period of clk0 (twice 25,000), and both a tick (500,001) and a packet (at least
\* 155,019) leave the time for a pulse and for the rising edge that ends its step.
ASSUME TimingAssumption ==
  /\ PULSE_WIDTH = 2 * (DIVIDER + 1)
  /\ TICK_LIMIT >= 2 * PULSE_WIDTH
  /\ PACKET_GAP > 2 * PULSE_WIDTH

\* A search walks at least its first leg (3 steps, against a limit of 200).
ASSUME LegAssumption == DENSITY_STEP <= SEARCH_MAX_SIDE

VARIABLES
  yaw_gap, pitch_gap,   \* steps made minus steps counted
  by_packet             \* the account was opened by a packet

accountVars == <<txVars, yaw_gap, pitch_gap, by_packet>>

\* The step a motor makes at an edge.
Step(line, next, dir) == IF next /\ ~line THEN (IF dir THEN 1 ELSE -1) ELSE 0

\* The signed step between two readings of a position counter.
Counted(p, q) == IF q = p THEN 0 ELSE IF q = Succ(p) THEN 1 ELSE -1

Capped(gap) == IF gap > GapMax THEN GapMax
               ELSE IF gap < -GapMax THEN -GapMax ELSE gap

Tally ==
  LET packet == state = "TRACKING" /\ state' = state /\ rx_done
      opened == packet \/ (state' # state /\ state' # "RETURNING")
      Kept(gap) == IF opened THEN 0 ELSE gap
  IN /\ yaw_gap' = Capped(Kept(yaw_gap) + Step(yaw_step, yaw_step', out_yaw_dir')
                            - Counted(pos_x, pos_x'))
     /\ pitch_gap' = Capped(Kept(pitch_gap) + Step(pitch_step, pitch_step', out_pitch_dir')
                              - Counted(pos_y, pos_y'))
     /\ by_packet' = IF opened THEN packet ELSE by_packet

AccountInit ==
  /\ TransmitterInit
  /\ yaw_gap = 0 /\ pitch_gap = 0 /\ by_packet = FALSE

AccountNext == Clock /\ Tally

AccountSpec == AccountInit /\ [][AccountNext]_accountVars

-----------------------------------------------------------------------------
\* No pulse is under way: both lines idle and none is about to leave its level.
Settled == ~Pulsing /\ ~out_yaw_en /\ ~out_pitch_en /\ yaw_step /\ pitch_step

\* Between two packets of a track the counters follow the motors: each pulse
\* makes exactly one step, although it is timed by the controller and the step
\* by the driver's own clock.  Only at the soft limits do they part.
TrackCounts ==
  state = "TRACKING" /\ by_packet /\ Settled =>
    /\ yaw_gap = 0 \/ (yaw_gap = 1 /\ pos_x >= YAW_LIMIT)
                   \/ (yaw_gap = -1 /\ pos_x <= -YAW_LIMIT)
    /\ pitch_gap = 0 \/ (pitch_gap = 1 /\ pos_y >= PITCH_LIMIT)
                     \/ (pitch_gap = -1 /\ pos_y <= -PITCH_LIMIT)

\* A boot loses no step: at each of its ticks the motors are where they were,
\* relative to the counters, after the one step that both make at power-up
\* (their step lines are configured low and idle high).
BootCounts ==
  state = "BOOT_UP" /\ step_tick => yaw_gap = -1 /\ pitch_gap = 1

\* In a search the laser is never far from where the counters have it: each
\* step at which the spiral turns is made in the direction after the turn and
\* counted in the one before, which shifts the whole path by the difference of
\* the present direction and the first one.
Unit(dir) == CASE dir = 0 -> <<1, 0>> [] dir = 1 -> <<0, 1>>
               [] dir = 2 -> <<-1, 0>> [] dir = 3 -> <<0, -1>>
SearchSkew ==
  state = "SEARCHING" /\ Settled =>
    /\ yaw_gap = Unit(spiral_dir)[1] - Unit(0)[1]
    /\ pitch_gap = Unit(spiral_dir)[2] - Unit(0)[2]

\* A packet ends a search or a return at any moment of a step: what is left of
\* the pulse goes to the axes of the packet, in the directions of the step it was
\* started for (the outputs keep them until the packet after), and is not counted.
\* Until the first command is counted that costs each axis a step at most.
HandOverLosesAtMostOne ==
  state = "TRACKING" /\ ~by_packet => yaw_gap \in -1..1 /\ pitch_gap \in -1..1

\* From the loss of the target to home: the search leaves yaw one step behind its
\* counter, and the return adds at most one step per axis to that.  It masks the
\* last step of an axis as soon as the counter is zero; the pulse of the search
\* that it inherits makes up for that step, uncounted, unless the clock of the
\* driver rises in the one cycle by which that pulse is short.
HomingError ==
  [][state = "RETURNING" /\ state' = "IDLE_WAIT" =>
       yaw_gap + 1 \in -1..1 /\ pitch_gap \in -1..1]_accountVars

\* The report's claim that keeping track of the steps "allows us to home the
\* transmitter": from the loss of the target to home the motors make the steps
\* that are counted.
ReturnsHome ==
  [][state = "RETURNING" /\ state' = "IDLE_WAIT" =>
       yaw_gap = 0 /\ pitch_gap = 0]_accountVars

\* The report's claim that the soft limits "restrict the range of motion": while
\* tracking, a motor whose counter is inside its limits is inside them too.
SoftLimits ==
  state = "TRACKING" /\ by_packet =>
    /\ pos_x \in -YAW_LIMIT..YAW_LIMIT => pos_x + yaw_gap \in -YAW_LIMIT..YAW_LIMIT
    /\ pos_y \in -PITCH_LIMIT..PITCH_LIMIT => pos_y + pitch_gap \in -PITCH_LIMIT..PITCH_LIMIT
=============================================================================
