-------------------------- MODULE SearchController --------------------------
(***************************************************************************)
(* The transmitter's high-level controller (search_controller.sv), one     *)
(* step per rising edge of clk50, plus the asynchronous reset.  Registers  *)
(* keep the names of the source; a one-bit register is a BOOLEAN.  The     *)
(* inputs of an edge are the parameters of the actions.                    *)
(***************************************************************************)
EXTENDS StepPosition

CONSTANTS
  BOOT_LIMIT,        \* steps from the boot-up position to the zero of pitch
  PITCH_LIMIT,       \* soft limit of pos_y while tracking
  YAW_LIMIT,         \* soft limit of pos_x while tracking
  SEARCH_MAX_SIDE,   \* the spiral is given up past this side
  PULSE_WIDTH,       \* clock cycles a motor enable lasts
  DENSITY_STEP       \* pitch of the spiral

ASSUME ControllerAssumption ==
  /\ BOOT_LIMIT \in Nat /\ BOOT_LIMIT <= PosMax
  /\ PITCH_LIMIT \in Nat /\ PITCH_LIMIT <= PosMax
  /\ YAW_LIMIT \in Nat /\ YAW_LIMIT <= PosMax
  /\ SEARCH_MAX_SIDE \in Nat
  /\ PULSE_WIDTH \in Nat \ {0}
  /\ DENSITY_STEP \in Nat \ {0}

VARIABLES
  state,
  pos_x, pos_y,                           \* step counters, signed
  side_limit, step_count, spiral_dir,     \* progress of the spiral
  pulse_timer,                            \* cycles left of the running pulse
  has_seen_target,
  out_yaw_en, out_yaw_dir, out_pitch_en, out_pitch_dir

spiral == <<side_limit, step_count, spiral_dir>>
dirs   == <<out_yaw_dir, out_pitch_dir>>
outs   == <<out_yaw_en, out_yaw_dir, out_pitch_en, out_pitch_dir>>
ctlVars == <<state, pos_x, pos_y, side_limit, step_count, spiral_dir,
             pulse_timer, has_seen_target,
             out_yaw_en, out_yaw_dir, out_pitch_en, out_pitch_dir>>

State == {"BOOT_UP", "IDLE_WAIT", "TRACKING", "SEARCHING", "RETURNING",
          "FORCED_RETURN"}

\* The correction decoded from a packet: which axes to step and which way
\* (TRUE is the positive direction).
Command == [yaw_en : BOOLEAN, yaw_dir : BOOLEAN,
            pitch_en : BOOLEAN, pitch_dir : BOOLEAN]

is_searching == state \in {"SEARCHING", "RETURNING", "FORCED_RETURN"}

Pulsing == pulse_timer > 0

\* Mutant: the timer runs on below zero.
RunTimerNoFloor(step) ==
  pulse_timer' = IF step THEN PULSE_WIDTH ELSE pulse_timer - 1

\* Mutant: a pulse lasts half a period of the driver's clock.
RunTimerShort(step) == pulse_timer' = IF step THEN PULSE_WIDTH \div 2
                                      ELSE IF Pulsing THEN pulse_timer - 1
                                      ELSE 0

\* pulse_timer: reloaded by a step, otherwise counting down to zero
RunTimer(step) == pulse_timer' = IF step THEN PULSE_WIDTH
                                 ELSE IF Pulsing THEN pulse_timer - 1
                                 ELSE 0

-----------------------------------------------------------------------------
\* The reset values; the FPGA configures the outputs, which have none, low.
CtlInit ==
  /\ state = "BOOT_UP"
  /\ pos_x = 0 /\ pos_y = -BOOT_LIMIT
  /\ has_seen_target = FALSE
  /\ side_limit = DENSITY_STEP /\ step_count = 0 /\ spiral_dir = 0
  /\ pulse_timer = 0
  /\ out_yaw_en = FALSE /\ out_pitch_en = FALSE
  /\ out_yaw_dir = FALSE /\ out_pitch_dir = FALSE

\* reset (KEY[0]) is asynchronous and leaves the four outputs as they are.
Reset ==
  /\ state' = "BOOT_UP"
  /\ pos_x' = 0 /\ pos_y' = -BOOT_LIMIT
  /\ has_seen_target' = FALSE
  /\ side_limit' = DENSITY_STEP /\ step_count' = 0 /\ spiral_dir' = 0
  /\ pulse_timer' = 0
  /\ UNCHANGED outs

\* return_home (KEY[1]) overrides the whole state machine, the pulse timer and
\* the outputs included: they hold their values for as long as it is pressed.
ReturnHome ==
  /\ state' = "FORCED_RETURN"
  /\ UNCHANGED <<pos_x, pos_y, spiral, pulse_timer, has_seen_target, outs>>

BootUp(step_tick) ==
  LET step == step_tick /\ pos_y < 0 IN
  /\ state = "BOOT_UP"
  /\ out_pitch_dir' = TRUE
  /\ out_pitch_en' = Pulsing
  /\ RunTimer(step)
  /\ pos_y' = IF step THEN Succ(pos_y) ELSE pos_y
  /\ state' = IF step_tick /\ ~step THEN "IDLE_WAIT" ELSE state
  /\ UNCHANGED <<pos_x, spiral, has_seen_target, out_yaw_en, out_yaw_dir>>

\* Mutant: the enables are left as they are.
IdleWaitLeavesEnables(on_target) ==
  /\ state = "IDLE_WAIT"
  /\ RunTimer(FALSE)
  /\ state' = IF on_target THEN "TRACKING" ELSE state
  /\ UNCHANGED <<pos_x, pos_y, spiral, has_seen_target, outs>>

IdleWait(on_target) ==
  /\ state = "IDLE_WAIT"
  /\ out_yaw_en' = FALSE /\ out_pitch_en' = FALSE
  /\ RunTimer(FALSE)
  /\ state' = IF on_target THEN "TRACKING" ELSE state
  /\ UNCHANGED <<pos_x, pos_y, spiral, has_seen_target, dirs>>

\* pos + 1 or pos - 1 as the command says, held at the soft limit
Clamped(pos, dir, limit) ==
  IF dir THEN IF pos < limit THEN Succ(pos) ELSE pos
  ELSE IF pos > -limit THEN Pred(pos) ELSE pos

TrackTarget(rx_done, cmd) ==
  /\ state = "TRACKING"
  /\ has_seen_target' = TRUE
  /\ RunTimer(rx_done)
  /\ IF rx_done
     THEN /\ out_yaw_dir' = cmd.yaw_dir /\ out_pitch_dir' = cmd.pitch_dir
          /\ pos_x' = IF cmd.yaw_en
                      THEN Clamped(pos_x, cmd.yaw_dir, YAW_LIMIT) ELSE pos_x
          /\ pos_y' = IF cmd.pitch_en
                      THEN Clamped(pos_y, cmd.pitch_dir, PITCH_LIMIT) ELSE pos_y
     ELSE UNCHANGED <<dirs, pos_x, pos_y>>
  /\ out_yaw_en' = (Pulsing /\ cmd.yaw_en)
  /\ out_pitch_en' = (Pulsing /\ cmd.pitch_en)
  /\ UNCHANGED <<state, spiral>>

\* Mutants: the new spiral keeps the side, or the position in the leg, that the
\* last one ended with.
StartSearchKeepsSide ==
  /\ state = "TRACKING" /\ has_seen_target
  /\ state' = "SEARCHING"
  /\ step_count' = 0 /\ spiral_dir' = 0
  /\ pulse_timer' = 0
  /\ UNCHANGED <<side_limit, pos_x, pos_y, has_seen_target, outs>>
StartSearchKeepsCount ==
  /\ state = "TRACKING" /\ has_seen_target
  /\ state' = "SEARCHING"
  /\ side_limit' = DENSITY_STEP /\ spiral_dir' = 0
  /\ pulse_timer' = 0
  /\ UNCHANGED <<step_count, pos_x, pos_y, has_seen_target, outs>>

\* The target is lost: a new spiral starts from here, with the timer cleared.
StartSearch ==
  /\ state = "TRACKING" /\ has_seen_target
  /\ state' = "SEARCHING"
  /\ side_limit' = DENSITY_STEP /\ step_count' = 0 /\ spiral_dir' = 0
  /\ pulse_timer' = 0
  /\ UNCHANGED <<pos_x, pos_y, has_seen_target, outs>>

\* The target is not visible and has not been seen in this state yet.
TrackNothing ==
  /\ state = "TRACKING" /\ ~has_seen_target
  /\ RunTimer(FALSE)
  /\ UNCHANGED <<state, pos_x, pos_y, spiral, has_seen_target, outs>>

Tracking(on_target, rx_done, cmd) ==
  \/ on_target /\ TrackTarget(rx_done, cmd)
  \/ ~on_target /\ StartSearch
  \/ ~on_target /\ TrackNothing

\* Mutant: a pulse is started, as for a packet in TRACKING.
AcquirePulses ==
  /\ state' = "TRACKING"
  /\ RunTimer(TRUE)
  /\ UNCHANGED <<pos_x, pos_y, spiral, has_seen_target, outs>>

\* SEARCHING and RETURNING both hand over to TRACKING when the target shows.
Acquire ==
  /\ state' = "TRACKING"
  /\ RunTimer(FALSE)
  /\ UNCHANGED <<pos_x, pos_y, spiral, has_seen_target, outs>>

\* Mutant: the search goes on to twice the area.
ExhaustedLate == side_limit > 2 * SEARCH_MAX_SIDE

Exhausted == side_limit > SEARCH_MAX_SIDE

GiveUp ==
  /\ Exhausted
  /\ state' = "RETURNING"
  /\ RunTimer(FALSE)
  /\ UNCHANGED <<pos_x, pos_y, spiral, has_seen_target, outs>>

\* Mutant: the directions of the pitch motor are swapped.
SpiralOutputsSwapped ==
  IF spiral_dir \in {0, 2}
  THEN /\ out_yaw_dir' = (spiral_dir = 0)
       /\ out_yaw_en' = Pulsing /\ out_pitch_en' = FALSE
       /\ UNCHANGED out_pitch_dir
  ELSE /\ out_pitch_dir' = (spiral_dir = 3)
       /\ out_pitch_en' = Pulsing /\ out_yaw_en' = FALSE
       /\ UNCHANGED out_yaw_dir

\* The outputs follow spiral_dir on every edge: 0 and 2 turn the yaw motor, 1
\* and 3 the pitch motor, 0 and 1 in the positive direction.
SpiralOutputs ==
  IF spiral_dir \in {0, 2}
  THEN /\ out_yaw_dir' = (spiral_dir = 0)
       /\ out_yaw_en' = Pulsing /\ out_pitch_en' = FALSE
       /\ UNCHANGED out_pitch_dir
  ELSE /\ out_pitch_dir' = (spiral_dir = 1)
       /\ out_pitch_en' = Pulsing /\ out_yaw_en' = FALSE
       /\ UNCHANGED out_yaw_dir

\* The walk of one step, by the direction the spiral has before the edge.
SpiralMove ==
  /\ pos_x' = CASE spiral_dir = 0 -> Succ(pos_x)
                [] spiral_dir = 2 -> Pred(pos_x)
                [] OTHER -> pos_x
  /\ pos_y' = CASE spiral_dir = 1 -> Succ(pos_y)
                [] spiral_dir = 3 -> Pred(pos_y)
                [] OTHER -> pos_y

\* Mutants: the side grows by two pitches, or after every fourth leg only.
SpiralCountTwoPitches ==
  IF step_count >= side_limit - 1
  THEN /\ step_count' = 0
       /\ spiral_dir' = (spiral_dir + 1) % 4
       /\ side_limit' = IF spiral_dir \in {1, 3}
                        THEN side_limit + 2 * DENSITY_STEP ELSE side_limit
  ELSE /\ step_count' = step_count + 1
       /\ UNCHANGED <<spiral_dir, side_limit>>
SpiralCountFourLegs ==
  IF step_count >= side_limit - 1
  THEN /\ step_count' = 0
       /\ spiral_dir' = (spiral_dir + 1) % 4
       /\ side_limit' = IF spiral_dir = 3
                        THEN side_limit + DENSITY_STEP ELSE side_limit
  ELSE /\ step_count' = step_count + 1
       /\ UNCHANGED <<spiral_dir, side_limit>>

\* Mutant: the side never grows.
SpiralCountFixedSide ==
  IF step_count >= side_limit - 1
  THEN /\ step_count' = 0
       /\ spiral_dir' = (spiral_dir + 1) % 4
       /\ UNCHANGED side_limit
  ELSE /\ step_count' = step_count + 1
       /\ UNCHANGED <<spiral_dir, side_limit>>

\* A leg ends after side_limit steps; every second leg the side grows.
SpiralCount ==
  IF step_count >= side_limit - 1
  THEN /\ step_count' = 0
       /\ spiral_dir' = (spiral_dir + 1) % 4
       /\ side_limit' = IF spiral_dir \in {1, 3}
                        THEN side_limit + DENSITY_STEP ELSE side_limit
  ELSE /\ step_count' = step_count + 1
       /\ UNCHANGED <<spiral_dir, side_limit>>

Spiral(step_tick) ==
  /\ ~Exhausted
  /\ SpiralOutputs
  /\ RunTimer(step_tick)
  /\ IF step_tick THEN SpiralMove /\ SpiralCount ELSE UNCHANGED <<pos_x, pos_y, spiral>>
  /\ UNCHANGED <<state, has_seen_target>>

Searching(on_target, step_tick) ==
  /\ state = "SEARCHING"
  /\ \/ on_target /\ Acquire
     \/ ~on_target /\ GiveUp
     \/ ~on_target /\ Spiral(step_tick)

\* Mutant: the yaw motor is turned away from home.
WalkAway(home_y, pitch_up, step_tick) ==
  /\ out_yaw_dir' = (pos_x > 0)
  /\ out_pitch_dir' = pitch_up
  /\ out_yaw_en' = (Pulsing /\ pos_x # 0)
  /\ out_pitch_en' = (Pulsing /\ pos_y # home_y)
  /\ RunTimer(step_tick)
  /\ IF step_tick
     THEN pos_x' = Towards(pos_x, 0) /\ pos_y' = Towards(pos_y, home_y)
     ELSE UNCHANGED <<pos_x, pos_y>>
  /\ UNCHANGED <<state, spiral, has_seen_target>>

\* One edge of the walk to (0, home_y) that RETURNING and FORCED_RETURN share.
\* The enables are masked by the axis having arrived; pitch_up is the direction
\* the state computes for the pitch motor.
WalkHome(home_y, pitch_up, step_tick) ==
  /\ out_yaw_dir' = (pos_x < 0)
  /\ out_pitch_dir' = pitch_up
  /\ out_yaw_en' = (Pulsing /\ pos_x # 0)
  /\ out_pitch_en' = (Pulsing /\ pos_y # home_y)
  /\ RunTimer(step_tick)
  /\ IF step_tick
     THEN pos_x' = Towards(pos_x, 0) /\ pos_y' = Towards(pos_y, home_y)
     ELSE UNCHANGED <<pos_x, pos_y>>
  /\ UNCHANGED <<state, spiral, has_seen_target>>

\* Mutant: the target is not forgotten at home.
ArriveHomeRemembers ==
  /\ state' = "IDLE_WAIT"
  /\ RunTimer(FALSE)
  /\ UNCHANGED <<pos_x, pos_y, spiral, has_seen_target, outs>>

ArriveHome ==
  /\ state' = "IDLE_WAIT"
  /\ has_seen_target' = FALSE
  /\ RunTimer(FALSE)
  /\ UNCHANGED <<pos_x, pos_y, spiral, outs>>

Returning(on_target, step_tick) ==
  /\ state = "RETURNING"
  /\ \/ on_target /\ Acquire
     \/ ~on_target /\ pos_x = 0 /\ pos_y = 0 /\ ArriveHome
     \/ ~on_target /\ ~(pos_x = 0 /\ pos_y = 0) /\ WalkHome(0, pos_y < 0, step_tick)

ForcedReturn(step_tick) ==
  /\ state = "FORCED_RETURN"
  /\ \/ pos_x = 0 /\ pos_y = -BOOT_LIMIT /\ ArriveHome
     \/ /\ ~(pos_x = 0 /\ pos_y = -BOOT_LIMIT)
        /\ WalkHome(-BOOT_LIMIT, pos_y <= -BOOT_LIMIT, step_tick)

\* A clk50 edge with reset and return_home released, for any level of the
\* inputs that the state looks at.
ClockEdge ==
  \/ \E step_tick \in BOOLEAN : BootUp(step_tick) \/ ForcedReturn(step_tick)
  \/ \E on_target \in BOOLEAN : IdleWait(on_target)
  \/ \E on_target, rx_done \in BOOLEAN, cmd \in Command :
        Tracking(on_target, rx_done, cmd)
  \/ \E on_target, step_tick \in BOOLEAN :
        Searching(on_target, step_tick) \/ Returning(on_target, step_tick)

Next == Reset \/ ReturnHome \/ ClockEdge

Spec == CtlInit /\ [][Next]_ctlVars

-----------------------------------------------------------------------------
\* The types of the registers.  The spiral's registers are natural numbers
\* here; Spiral bounds (SearchHistory) show that they fit their 16 bits.
TypeOK ==
  /\ state \in State
  /\ pos_x \in Pos /\ pos_y \in Pos
  /\ side_limit \in Nat \ {0} /\ step_count \in Nat /\ spiral_dir \in 0..3
  /\ pulse_timer \in 0..PULSE_WIDTH
  /\ has_seen_target \in BOOLEAN
  /\ out_yaw_en \in BOOLEAN /\ out_yaw_dir \in BOOLEAN
  /\ out_pitch_en \in BOOLEAN /\ out_pitch_dir \in BOOLEAN

\* The controller searches or returns only for a target it has seen, and once
\* it waits (after boot-up or after homing) it has forgotten the target: a new
\* search needs a new sighting.
SeenFlag ==
  /\ state \in {"SEARCHING", "RETURNING"} => has_seen_target
  /\ state \in {"BOOT_UP", "IDLE_WAIT"} => ~has_seen_target

\* IDLE_WAIT may enter TRACKING on the last cycle of a packet, and find in
\* TRACKING that the next packet does not show the target.  The controller then
\* stays in TRACKING without ever having seen the target there; that is safe
\* because it is as still as IDLE_WAIT: no motor is enabled, however the
\* buttons and the packets are timed.
BlindTrackingIsIdle ==
  state = "TRACKING" /\ ~has_seen_target => ~out_yaw_en /\ ~out_pitch_en
=============================================================================
