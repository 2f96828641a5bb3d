------------------------------ MODULE StepProofs ------------------------------
(***************************************************************************)
(* What the step counters say against the steps the motors make, for every *)
(* pulse width, tick and packet spacing that fit together as those of the  *)
(* source do, and for every phase of the driver's clock.                   *)
(***************************************************************************)
EXTENDS StepAccount, TransmitterProofs

-----------------------------------------------------------------------------
(* The inductive invariant.                                                *)

\* The clock edges until clk0 rises, the one that makes it rise included.
Rise == 1 + div_count + (IF clk0 THEN DIVIDER + 1 ELSE 0)

\* The clock edges that come for certain before the one that announces the next
\* pulse: by a packet while tracking, by a tick otherwise.
Deadline == IF state = "TRACKING" THEN quiet ELSE TICK_LIMIT - clk_count

\* The inputs of the controller arrive in order: a tick is the start of a count, a
\* packet the start of a gap, and no button is touched.
InputsOrdered ==
  /\ pressed = {} /\ state # "FORCED_RETURN"
  /\ step_tick => clk_count = 0
  /\ rx_done => quiet = PACKET_GAP - 1

\* A step line is low from the rising edge of clk0 in the pulse to the one after:
\* never for two of them, because a pulse is one period long.
LowOnce == /\ ~yaw_step => pulse_timer < Rise
           /\ ~pitch_step => pulse_timer < Rise

\* The pulse and the step it makes are over before the next one is started.
InTime == /\ Pulsing => pulse_timer + PULSE_WIDTH - 1 <= Deadline
          /\ ~yaw_step => Rise - 1 <= Deadline
          /\ ~pitch_step => Rise - 1 <= Deadline

\* Hence no pulse is under way where one may be started, nor where the controller
\* looks at a byte that is not new.
StillAtStart ==
  /\ step_tick /\ state # "TRACKING" => Settled
  /\ rx_done /\ state = "TRACKING" => Settled
  /\ state = "TRACKING" /\ ~on_target => Settled
  /\ state = "IDLE_WAIT" /\ on_target /\ ~rx_done => Settled
  /\ state \in {"SEARCHING", "RETURNING"} /\ on_target => rx_done

\* A state that is left on the next edge holds enables that are off.
StillAtEnd ==
  (\/ state = "SEARCHING" /\ Exhausted
   \/ state = "RETURNING" /\ pos_x = 0 /\ pos_y = 0)
    => ~out_yaw_en /\ ~out_pitch_en /\ yaw_step /\ pitch_step

\* The yaw motor has no part in a boot.
BootYaw == state = "BOOT_UP" => ~out_yaw_en /\ ~out_yaw_dir

PulseInv == /\ InputsOrdered /\ LowOnce /\ InTime
            /\ StillAtStart /\ StillAtEnd /\ BootYaw

\* A step of the axis is still to come: its line is low, or will go low in what is
\* left of the pulse if the axis is enabled.
Coming(line, enabled) == ~line \/ (enabled /\ Rise <= pulse_timer)

Signed(dir) == IF dir THEN 1 ELSE -1
Owed(line, enabled, dir) == IF Coming(line, enabled) THEN Signed(dir) ELSE 0

\* In a boot only the pitch motor moves, but for the yaw step of the power-up.
BootGap ==
  state = "BOOT_UP" =>
    /\ yaw_gap = IF yaw_step THEN -1 ELSE 0
    /\ pitch_gap + Owed(pitch_step, TRUE, TRUE) = 1

\* What is made and still to come of the step of a packet is what was counted,
\* unless the counter was held at its limit.
AtLimit(total, pos, limit) ==
  total = 0 \/ (total = 1 /\ pos >= limit) \/ (total = -1 /\ pos <= -limit)
TrackGap ==
  state = "TRACKING" /\ by_packet =>
    /\ AtLimit(yaw_gap + Owed(yaw_step, ir_data.move_x, out_yaw_dir), pos_x, YAW_LIMIT)
    /\ AtLimit(pitch_gap + Owed(pitch_step, ir_data.move_y, out_pitch_dir),
               pos_y, PITCH_LIMIT)

\* After a hand-over, the rest of one pulse at most.
OneAtMost(gap, line) == gap = 0 \/ (gap \in {-1, 1} /\ line /\ pulse_timer < Rise)
HandOverGap ==
  state = "TRACKING" /\ ~by_packet =>
    OneAtMost(yaw_gap, yaw_step) /\ OneAtMost(pitch_gap, pitch_step)

\* The spiral owes a step in its present direction and has counted one in each of
\* those before.
AlongYaw == spiral_dir \in {0, 2}
SearchGap ==
  state = "SEARCHING" =>
    /\ ~yaw_step => AlongYaw
    /\ ~pitch_step => ~AlongYaw
    /\ yaw_gap + (IF Coming(yaw_step, AlongYaw) THEN Unit(spiral_dir)[1] ELSE 0)
         = Unit(spiral_dir)[1] - 1
    /\ pitch_gap + (IF Coming(pitch_step, ~AlongYaw) THEN Unit(spiral_dir)[2] ELSE 0)
         = Unit(spiral_dir)[2]

\* A search that is about to be given up has counted the step that its last pulse
\* will not make: yaw is a step behind for it and the first one, pitch is not.
GaveUpGap == state = "SEARCHING" /\ Exhausted => yaw_gap = -1 /\ pitch_gap = 0

\* From there a return may make one step that it does not count, with the pulse it
\* inherits, and owes the last one that it counts once its counter is zero.
HomeGap(gap, line, pos) ==
  IF pos = 0 THEN line /\ gap \in -1..1
  ELSE gap + Owed(line, TRUE, pos < 0) \in {0, Signed(pos < 0)}
ReturnGap ==
  state = "RETURNING" => HomeGap(yaw_gap + 1, yaw_step, pos_x)
                         /\ HomeGap(pitch_gap, pitch_step, pos_y)

GapInv == /\ BootGap /\ TrackGap /\ HandOverGap
          /\ SearchGap /\ GaveUpGap /\ ReturnGap

-----------------------------------------------------------------------------
(* The clocks.                                                             *)

\* What the proofs need of the durations.
LEMMA StepConstants ==
  /\ DIVIDER \in Nat /\ PULSE_WIDTH \in Nat /\ PULSE_WIDTH = 2 * (DIVIDER + 1)
  /\ TICK_LIMIT \in Nat /\ TICK_LIMIT >= 2 * PULSE_WIDTH
  /\ PACKET_GAP \in Nat /\ PACKET_GAP > 2 * PULSE_WIDTH
  /\ GapMax \in Nat /\ GapMax >= 2 /\ Keys = {}
BY TimingAssumption, GapAssumption, TransmitterAssumption, DividerAssumption,
   ControllerAssumption

\* clk0 rises once in PULSE_WIDTH edges, and Rise counts down to it.
LEMMA RiseCountsDown ==
  ASSUME div_count \in 0..DIVIDER, clk0 \in BOOLEAN, DivideClock
  PROVE  /\ Rise \in 1..PULSE_WIDTH
         /\ Rise' = IF Rise = 1 THEN PULSE_WIDTH ELSE Rise - 1
         /\ (clk0' /\ ~clk0) <=> Rise = 1
<1>1. div_count' = IF div_count = 0 THEN DIVIDER ELSE div_count - 1
  BY DEF DivideClock
<1>2. CASE clk0
  <2>1. Rise = 1 + div_count + (DIVIDER + 1) /\ Rise # 1
    BY <1>2, StepConstants DEF Rise
  <2>2. Rise' = 1 + div_count' + (IF div_count = 0 THEN 0 ELSE DIVIDER + 1)
    BY <1>2 DEF Rise, DivideClock
  <2>. QED
    BY <1>1, <1>2, <2>1, <2>2, StepConstants
<1>3. CASE ~clk0
  <2>1. Rise = 1 + div_count
    BY <1>3, StepConstants DEF Rise
  <2>2. Rise' = 1 + div_count' + (IF div_count = 0 THEN DIVIDER + 1 ELSE 0)
    BY <1>3 DEF Rise, DivideClock
  <2>3. clk0' <=> div_count = 0
    BY <1>3 DEF DivideClock
  <2>4. Rise = 1 <=> div_count = 0
    BY <2>1
  <2>. QED
    BY <1>1, <1>3, <2>1, <2>2, <2>3, <2>4, StepConstants
<1>. QED
  BY <1>2, <1>3

\* The blocks around the controller at a clock edge without buttons.
RisesOn == Rise \in 1..PULSE_WIDTH
           /\ Rise' = IF Rise = 1 THEN PULSE_WIDTH ELSE Rise - 1
LineEdge(line, next, enabled) == next <=> IF Rise = 1 THEN enabled => ~line ELSE line
LinesMove == /\ LineEdge(yaw_step, yaw_step', out_yaw_en')
             /\ LineEdge(pitch_step, pitch_step', out_pitch_en')
TicksOn == /\ clk_count' = IF clk_count >= TICK_LIMIT THEN 0 ELSE clk_count + 1
           /\ step_tick' <=> clk_count >= TICK_LIMIT
BytesArrive ==
  \/ quiet = 0 /\ quiet' = PACKET_GAP - 1 /\ rx_done'
  \/ ~rx_done' /\ ir_data' = ir_data /\ quiet' = IF quiet = 0 THEN 0 ELSE quiet - 1

Surroundings == RisesOn /\ LinesMove /\ TicksOn /\ BytesArrive /\ pressed' = {}

LEMMA SurroundingsMove ==
  ASSUME TransmitterTypeOK, InputsOrdered, Clock
  PROVE  Surroundings
<1>1. DivideClock
  BY DEF Clock, Drive
<1>2. RisesOn /\ ((clk0' /\ ~clk0) <=> Rise = 1)
  BY <1>1, RiseCountsDown DEF TransmitterTypeOK, RisesOn
<1>3. LinesMove
  BY <1>2 DEF Clock, Drive, DriveLine, LinesMove, LineEdge
<1>4. TicksOn
  BY DEF Clock, Tick, TicksOn
<1>5. BytesArrive
  BY DEF Clock, Receive, InputsOrdered, BytesArrive
<1>. QED
  BY <1>2, <1>3, <1>4, <1>5 DEF Surroundings, Clock, InputsOrdered

\* The controller's actions at such an edge.
ControlEdge ==
  \/ BootUp(step_tick)
  \/ IdleWait(on_target)
  \/ on_target /\ state = "TRACKING" /\ TrackTarget(rx_done, Correction)
  \/ ~on_target /\ StartSearch
  \/ ~on_target /\ TrackNothing
  \/ state \in {"SEARCHING", "RETURNING"} /\ on_target /\ Acquire
  \/ state = "SEARCHING" /\ ~on_target /\ GiveUp
  \/ state = "SEARCHING" /\ ~on_target /\ Spiral(step_tick)
  \/ state = "RETURNING" /\ ~on_target /\ pos_x = 0 /\ pos_y = 0 /\ ArriveHome
  \/ /\ state = "RETURNING" /\ ~on_target /\ ~(pos_x = 0 /\ pos_y = 0)
     /\ WalkHome(0, pos_y < 0, step_tick)

LEMMA ControlEdges ==
  ASSUME InputsOrdered, Clock
  PROVE  ControlEdge
BY DEF InputsOrdered, Clock, Control, Tracking, TrackTarget, Searching, Returning, ForcedReturn,
       ControlEdge

-----------------------------------------------------------------------------
(* The pulse.                                                              *)

\* The timer runs on, reloaded if go, and an axis is enabled only in a pulse.
Runs(go) ==
  /\ RunTimer(go)
  /\ out_yaw_en' => Pulsing
  /\ out_pitch_en' => Pulsing

\* For the pulse there are four kinds of edges: outside tracking, in tracking, from
\* the one to the other, and back.
Elsewhere == /\ state # "TRACKING" /\ state' \in State \ {"TRACKING", "FORCED_RETURN"}
             /\ \E go \in BOOLEAN : (go => step_tick) /\ Runs(go)
Following == /\ state = "TRACKING" /\ state' = "TRACKING"
             /\ \E go \in BOOLEAN : (go => rx_done /\ on_target) /\ Runs(go)
HandOver == /\ state \in {"IDLE_WAIT", "SEARCHING", "RETURNING"} /\ state' = "TRACKING"
            /\ on_target /\ RunTimer(FALSE)
            /\ rx_done \/ (Settled /\ ~out_yaw_en' /\ ~out_pitch_en')
Losing == /\ state = "TRACKING" /\ state' = "SEARCHING" /\ Settled
          /\ ~on_target /\ pulse_timer' = 0 /\ ~out_yaw_en' /\ ~out_pitch_en'

LEMMA PulseKinds ==
  ASSUME TransmitterTypeOK, BlindTrackingIsIdle, PulseInv, ControlEdge
  PROVE  Elsewhere \/ Following \/ HandOver \/ Losing
<1> USE DEF PulseInv, InputsOrdered
<1>1. CASE BootUp(step_tick)
  <2>1. Runs(step_tick /\ pos_y < 0)
    BY <1>1 DEF BootUp, Runs, BootYaw
  <2>2. state = "BOOT_UP" /\ state' \in {"BOOT_UP", "IDLE_WAIT"}
    BY <1>1 DEF BootUp
  <2>. QED
    BY <2>1, <2>2 DEF Elsewhere, State
<1>2. CASE IdleWait(on_target)
  <2>1. RunTimer(FALSE) /\ ~out_yaw_en' /\ ~out_pitch_en' /\ state = "IDLE_WAIT"
    BY <1>2 DEF IdleWait
  <2>2. CASE on_target
    BY <1>2, <2>1, <2>2 DEF IdleWait, HandOver, StillAtStart
  <2>3. CASE ~on_target
    BY <1>2, <2>1, <2>3 DEF IdleWait, Elsewhere, Runs, State
  <2>. QED
    BY <2>2, <2>3
<1>3. CASE on_target /\ state = "TRACKING" /\ TrackTarget(rx_done, Correction)
  BY <1>3 DEF TrackTarget, Following, Runs, TransmitterTypeOK
<1>4. CASE ~on_target /\ StartSearch
  BY <1>4 DEF StartSearch, outs, Losing, StillAtStart, Settled
<1>5. CASE ~on_target /\ TrackNothing
  BY <1>5 DEF TrackNothing, outs, Following, Runs, BlindTrackingIsIdle
<1>6. CASE state \in {"SEARCHING", "RETURNING"} /\ on_target /\ Acquire
  BY <1>6 DEF Acquire, HandOver, StillAtStart
<1>7. CASE state = "SEARCHING" /\ ~on_target /\ GiveUp
  BY <1>7 DEF GiveUp, outs, Elsewhere, Runs, StillAtEnd, State
<1>8. CASE state = "SEARCHING" /\ ~on_target /\ Spiral(step_tick)
  BY <1>8 DEF Spiral, SpiralOutputs, Elsewhere, Runs, State, TransmitterTypeOK
<1>9. CASE state = "RETURNING" /\ ~on_target /\ pos_x = 0 /\ pos_y = 0 /\ ArriveHome
  BY <1>9 DEF ArriveHome, outs, Elsewhere, Runs, StillAtEnd, State
<1>10. CASE /\ state = "RETURNING" /\ ~on_target /\ ~(pos_x = 0 /\ pos_y = 0)
            /\ WalkHome(0, pos_y < 0, step_tick)
  BY <1>10 DEF WalkHome, Elsewhere, Runs, State, TransmitterTypeOK
<1>. QED
  BY <1>1, <1>2, <1>3, <1>4, <1>5, <1>6, <1>7, <1>8, <1>9, <1>10 DEF ControlEdge

\* What the types say of the registers that the pulse is about.
PulseTypes ==
  /\ pulse_timer \in 0..PULSE_WIDTH /\ quiet \in 0..PACKET_GAP - 1
  /\ clk_count \in 0..TICK_LIMIT
  /\ yaw_step \in BOOLEAN /\ pitch_step \in BOOLEAN
  /\ out_yaw_en \in BOOLEAN /\ out_pitch_en \in BOOLEAN
  /\ step_tick \in BOOLEAN /\ rx_done \in BOOLEAN /\ on_target \in BOOLEAN

\* An edge that starts no pulse, in the same deadline.
LEMMA PulseGoesOn ==
  ASSUME PulseTypes, PulseTypes', Surroundings, LowOnce, InTime,
         Runs(FALSE), Deadline \in Int, Deadline' \in Int, Deadline' >= Deadline - 1
  PROVE  /\ LowOnce' /\ InTime'
         /\ Deadline <= 0 => Settled'
<1>1. /\ pulse_timer' = IF pulse_timer > 0 THEN pulse_timer - 1 ELSE 0
      /\ out_yaw_en' => pulse_timer > 0
      /\ out_pitch_en' => pulse_timer > 0
  BY DEF Runs, RunTimer, Pulsing
<1>2. /\ ~yaw_step' => pulse_timer' < Rise' /\ Rise' - 1 <= Deadline'
      /\ pulse_timer' > 0 => pulse_timer' + PULSE_WIDTH - 1 <= Deadline'
      /\ Deadline <= 0 => yaw_step'
  BY <1>1, StepConstants
  DEF PulseTypes, Surroundings, RisesOn, LinesMove, LineEdge, LowOnce, InTime, Pulsing
<1>3. /\ ~pitch_step' => pulse_timer' < Rise' /\ Rise' - 1 <= Deadline'
      /\ Deadline <= 0 => pitch_step'
  BY <1>1, StepConstants
  DEF PulseTypes, Surroundings, RisesOn, LinesMove, LineEdge, LowOnce, InTime, Pulsing
<1>4. Deadline <= 0 => ~(pulse_timer > 0)
  BY StepConstants DEF InTime, Pulsing, PulseTypes
<1>5. Deadline <= 0 => ~Pulsing' /\ ~out_yaw_en' /\ ~out_pitch_en'
  BY <1>1, <1>4 DEF Pulsing
<1>. QED
  BY <1>2, <1>3, <1>5 DEF LowOnce, InTime, Settled, Pulsing

\* A pulse is started when nothing is under way.
LEMMA PulseStarts ==
  ASSUME PulseTypes, PulseTypes', Surroundings, Settled, Runs(TRUE),
         Deadline' \in Int, Deadline' >= 2 * PULSE_WIDTH - 1
  PROVE  /\ LowOnce' /\ InTime'
         /\ ~out_yaw_en' /\ ~out_pitch_en' /\ yaw_step' /\ pitch_step'
<1>1. /\ pulse_timer' = PULSE_WIDTH
      /\ ~out_yaw_en' /\ ~out_pitch_en'
  BY DEF Runs, RunTimer, Settled
<1>2. yaw_step' /\ pitch_step'
  BY <1>1 DEF Surroundings, LinesMove, LineEdge, Settled
<1>. QED
  BY <1>1, <1>2, StepConstants DEF LowOnce, InTime, Pulsing

\* A still driver stays still while the timer rests and no axis is enabled.
LEMMA StaysSettled ==
  ASSUME Surroundings, Settled, pulse_timer' = 0, ~out_yaw_en', ~out_pitch_en'
  PROVE  Settled' /\ LowOnce' /\ InTime'
<1>1. yaw_step' /\ pitch_step' /\ ~Pulsing'
  BY DEF Surroundings, LinesMove, LineEdge, Settled, Pulsing
<1>. QED
  BY <1>1 DEF Settled, LowOnce, InTime

\* How far off the deadline is after an edge.
LEMMA DeadlineElsewhere ==
  ASSUME PulseTypes, PulseTypes', Surroundings, state # "TRACKING", state' # "TRACKING"
  PROVE  /\ Deadline \in Int /\ Deadline' \in Int /\ Deadline' >= Deadline - 1
         /\ step_tick' => Deadline <= 0
         /\ clk_count = 0 => Deadline' >= 2 * PULSE_WIDTH - 1
BY StepConstants DEF PulseTypes, Surroundings, TicksOn, Deadline

LEMMA DeadlineTracking ==
  ASSUME PulseTypes, PulseTypes', Surroundings, state = "TRACKING", state' = "TRACKING"
  PROVE  /\ Deadline \in Int /\ Deadline' \in Int /\ Deadline' >= Deadline - 1
         /\ rx_done' \/ ir_data' # ir_data => Deadline <= 0
         /\ quiet = PACKET_GAP - 1 => Deadline' >= 2 * PULSE_WIDTH - 1
<1>1. Deadline \in Int /\ Deadline' \in Int
  BY StepConstants DEF PulseTypes, Deadline
<1>2. quiet' >= quiet - 1
  BY StepConstants DEF PulseTypes, Surroundings, BytesArrive
<1>3. rx_done' \/ ir_data' # ir_data => Deadline <= 0
  BY DEF Surroundings, BytesArrive, Deadline
<1>4. quiet = PACKET_GAP - 1 => quiet' >= 2 * PULSE_WIDTH - 1
  BY StepConstants DEF PulseTypes, Surroundings, BytesArrive
<1>5. Deadline' >= Deadline - 1
  BY <1>2, StepConstants DEF PulseTypes, Deadline
<1>6. quiet = PACKET_GAP - 1 => Deadline' >= 2 * PULSE_WIDTH - 1
  BY <1>4, StepConstants DEF PulseTypes, Deadline
<1>. QED
  BY <1>1, <1>3, <1>5, <1>6

\* The pulse, its step and the places where everything is still, outside tracking.
LEMMA PulseElsewhere ==
  ASSUME PulseTypes, PulseTypes', PulseInv, Surroundings, Elsewhere
  PROVE  LowOnce' /\ InTime' /\ (step_tick' => Settled')
<1>1. PICK go \in BOOLEAN : (go => step_tick) /\ Runs(go)
  BY DEF Elsewhere
<1>2. CASE go
  <2>1. Settled /\ clk_count = 0
    BY <1>1, <1>2 DEF PulseInv, StillAtStart, InputsOrdered, Elsewhere
  <2>2. Deadline' \in Int /\ Deadline' >= 2 * PULSE_WIDTH - 1
    BY <2>1, DeadlineElsewhere DEF Elsewhere
  <2>3. LowOnce' /\ InTime'
    BY <1>1, <1>2, <2>1, <2>2, PulseStarts DEF Runs
  <2>4. ~step_tick'
    BY <2>1, StepConstants DEF Surroundings, TicksOn
  <2>. QED
    BY <2>3, <2>4
<1>3. CASE ~go
  BY <1>1, <1>3, DeadlineElsewhere, PulseGoesOn DEF Elsewhere, PulseInv, Runs
<1>. QED
  BY <1>2, <1>3

\* The same in tracking, where packets take the place of ticks.
LEMMA PulseFollowing ==
  ASSUME PulseTypes, PulseTypes', PulseInv, Surroundings, Following
  PROVE  LowOnce' /\ InTime' /\ (rx_done' \/ ~on_target' => Settled')
<1>1. PICK go \in BOOLEAN : (go => rx_done /\ on_target) /\ Runs(go)
  BY DEF Following
<1>2. CASE go
  <2>1. Settled /\ quiet = PACKET_GAP - 1
    BY <1>1, <1>2 DEF PulseInv, StillAtStart, InputsOrdered, Following
  <2>2. Deadline' \in Int /\ Deadline' >= 2 * PULSE_WIDTH - 1
    BY <2>1, DeadlineTracking DEF Following
  <2>3. LowOnce' /\ InTime'
    BY <1>1, <1>2, <2>1, <2>2, PulseStarts DEF Runs
  <2>4. ~rx_done' /\ on_target'
    BY <1>1, <1>2, <2>1, StepConstants DEF Surroundings, BytesArrive, on_target
  <2>. QED
    BY <2>3, <2>4
<1>3. CASE ~go
  <2>1. Runs(FALSE)
    BY <1>1, <1>3 DEF Runs
  <2>2. LowOnce' /\ InTime' /\ (Deadline <= 0 => Settled')
    BY <2>1, DeadlineTracking, PulseGoesOn DEF Following, PulseInv
  <2>3. CASE rx_done' \/ ir_data' # ir_data
    BY <2>2, <2>3, DeadlineTracking DEF Following
  <2>4. CASE ir_data' = ir_data /\ ~rx_done' /\ ~on_target'
    <3>1. Settled
      BY <2>4 DEF on_target, Following, PulseInv, StillAtStart
    <3>2. pulse_timer' = 0 /\ ~out_yaw_en' /\ ~out_pitch_en'
      BY <2>1, <3>1 DEF Runs, RunTimer, Settled
    <3>. QED
      BY <2>2, <3>1, <3>2, StaysSettled
  <2>. QED
    BY <2>2, <2>3, <2>4
<1>. QED
  BY <1>2, <1>3

\* A deadline of two pulses leaves the time for any pulse and any rising edge.
LEMMA TwoPulses ==
  ASSUME NEW r \in Int, NEW p \in Int, NEW d \in Int, d >= 2 * PULSE_WIDTH - 1,
         r <= PULSE_WIDTH, p <= PULSE_WIDTH - 1
  PROVE  r - 1 <= d /\ p + PULSE_WIDTH - 1 <= d
BY StepConstants

\* A packet takes over what is left of a pulse; the next one comes late enough.
LEMMA PulseHandOver ==
  ASSUME PulseTypes, PulseTypes', PulseInv, Surroundings, HandOver
  PROVE  LowOnce' /\ InTime' /\ (rx_done' \/ ~on_target' => Settled')
<1>1. pulse_timer' = IF pulse_timer > 0 THEN pulse_timer - 1 ELSE 0
  BY DEF HandOver, RunTimer, Pulsing
<1>2. CASE rx_done
  <2>1. quiet = PACKET_GAP - 1
    BY <1>2 DEF PulseInv, InputsOrdered
  <2>2. ~rx_done' /\ on_target'
    BY <2>1, StepConstants DEF HandOver, Surroundings, BytesArrive, on_target
  <2>3. Deadline' \in Int /\ Deadline' >= 2 * PULSE_WIDTH - 1
    BY <2>1, StepConstants DEF HandOver, PulseTypes, Surroundings, BytesArrive, Deadline
  <2>4. ~yaw_step' => pulse_timer' < Rise'
    BY <1>1, StepConstants
    DEF PulseTypes, PulseInv, LowOnce, Surroundings, RisesOn, LinesMove, LineEdge
  <2>5. ~pitch_step' => pulse_timer' < Rise'
    BY <1>1, StepConstants
    DEF PulseTypes, PulseInv, LowOnce, Surroundings, RisesOn, LinesMove, LineEdge
  <2>6. /\ Rise' \in Int /\ Rise' <= PULSE_WIDTH
        /\ pulse_timer' \in Int /\ pulse_timer' <= PULSE_WIDTH - 1
    BY <1>1, StepConstants DEF PulseTypes, Surroundings, RisesOn
  <2>7. /\ Rise' - 1 <= Deadline'
        /\ pulse_timer' + PULSE_WIDTH - 1 <= Deadline'
    BY <2>3, <2>6, TwoPulses, Zenon
  <2>8. InTime'
    BY <2>7 DEF InTime
  <2>. QED
    BY <2>2, <2>4, <2>5, <2>8 DEF LowOnce
<1>3. CASE ~rx_done
  <2>1. Settled /\ ~out_yaw_en' /\ ~out_pitch_en'
    BY <1>3 DEF HandOver
  <2>2. pulse_timer' = 0
    BY <1>1, <2>1 DEF Settled, Pulsing
  <2>. QED
    BY <2>1, <2>2, StaysSettled
<1>. QED
  BY <1>2, <1>3 DEF PulseTypes

\* A search starts in stillness.
LEMMA PulseLosing ==
  ASSUME Surroundings, Losing PROVE Settled' /\ LowOnce' /\ InTime'
BY StaysSettled DEF Losing

\* Every edge keeps the pulse in its bounds.
LEMMA PulseBounds ==
  ASSUME PulseTypes, PulseTypes', PulseInv, Surroundings,
         Elsewhere \/ Following \/ HandOver \/ Losing
  PROVE  /\ LowOnce' /\ InTime'
         /\ step_tick' /\ state' # "TRACKING" => Settled'
         /\ (rx_done' \/ ~on_target') /\ state' = "TRACKING" => Settled'
<1>1. CASE Elsewhere
  BY <1>1, PulseElsewhere DEF Elsewhere
<1>2. CASE Following
  BY <1>2, PulseFollowing DEF Following
<1>3. CASE HandOver
  BY <1>3, PulseHandOver DEF HandOver
<1>4. CASE Losing
  BY <1>4, PulseLosing DEF Losing
<1>. QED
  BY <1>1, <1>2, <1>3, <1>4

\* A byte that newly shows the target has just arrived.
LEMMA NewByte == Surroundings /\ ~on_target /\ on_target' => rx_done'
BY DEF Surroundings, BytesArrive, on_target

\* Where the controller looks at a byte that is not new nothing is under way.
LEMMA StaleByte ==
  ASSUME PulseTypes, PulseInv, Surroundings, ControlEdge
  PROVE  /\ state' = "IDLE_WAIT" /\ on_target' /\ ~rx_done' => Settled'
         /\ state' \in {"SEARCHING", "RETURNING"} /\ on_target' => rx_done'
<1>1. CASE BootUp(step_tick)
  <2>1. SUFFICES ASSUME state' = "IDLE_WAIT" PROVE Settled'
    BY <1>1 DEF BootUp
  <2>2. state = "BOOT_UP" /\ step_tick /\ ~(pos_y < 0)
    BY <1>1, <2>1 DEF BootUp
  <2>3. Settled
    BY <2>2 DEF PulseInv, StillAtStart
  <2>4. pulse_timer' = 0 /\ ~out_yaw_en' /\ ~out_pitch_en'
    BY <1>1, <2>2, <2>3 DEF BootUp, RunTimer, Settled
  <2>. QED
    BY <2>3, <2>4, StaysSettled
<1>2. CASE IdleWait(on_target)
  <2>1. state' = "IDLE_WAIT" => ~on_target
    BY <1>2 DEF IdleWait
  <2>2. state' \in {"IDLE_WAIT", "TRACKING"}
    BY <1>2 DEF IdleWait
  <2>. QED
    BY <2>1, <2>2, NewByte
<1>3. CASE state' = "TRACKING"
  BY <1>3
<1>4. CASE state \notin {"BOOT_UP", "IDLE_WAIT"} /\ state' # "TRACKING"
  <2>1. ~on_target
    BY <1>4 DEF ControlEdge, BootUp, IdleWait, TrackTarget, Acquire
  <2>. QED
    BY <2>1, NewByte
<1>. QED
  BY <1>1, <1>2, <1>3, <1>4 DEF ControlEdge, StartSearch, TrackNothing

\* An axis that is not enabled keeps its line high.
LEMMA QuietLines ==
  ASSUME Surroundings, yaw_step, pitch_step, ~out_yaw_en', ~out_pitch_en'
  PROVE  yaw_step' /\ pitch_step'
BY DEF Surroundings, LinesMove, LineEdge

\* A state that ends at once is entered in stillness, and stays still.
LEMMA EndsStill ==
  ASSUME PulseInv, Surroundings, ControlEdge
  PROVE  StillAtEnd'
<1> SUFFICES ASSUME \/ state' = "SEARCHING" /\ Exhausted'
                    \/ state' = "RETURNING" /\ pos_x' = 0 /\ pos_y' = 0
             PROVE  ~out_yaw_en' /\ ~out_pitch_en' /\ yaw_step' /\ pitch_step'
  BY DEF StillAtEnd
<1> USE DEF PulseInv
<1>1. CASE ~on_target /\ StartSearch
  <2>1. Settled /\ ~out_yaw_en' /\ ~out_pitch_en'
    BY <1>1 DEF StartSearch, outs, StillAtStart, Settled
  <2>. QED
    BY <2>1, QuietLines DEF Settled
<1>2. CASE state = "SEARCHING" /\ ~on_target /\ GiveUp
  <2>1. ~out_yaw_en' /\ ~out_pitch_en' /\ yaw_step /\ pitch_step
    BY <1>2 DEF GiveUp, outs, StillAtEnd
  <2>. QED
    BY <2>1, QuietLines
<1>3. CASE state = "SEARCHING" /\ ~on_target /\ Spiral(step_tick)
  <2>1. step_tick
    BY <1>3 DEF Spiral, Exhausted, spiral
  <2>2. Settled
    BY <1>3, <2>1 DEF StillAtStart
  <2>3. ~out_yaw_en' /\ ~out_pitch_en'
    BY <1>3, <2>2 DEF Spiral, SpiralOutputs, Settled
  <2>. QED
    BY <2>2, <2>3, QuietLines DEF Settled
<1>4. CASE /\ state = "RETURNING" /\ ~on_target /\ ~(pos_x = 0 /\ pos_y = 0)
           /\ WalkHome(0, pos_y < 0, step_tick)
  <2>1. step_tick
    BY <1>4 DEF WalkHome
  <2>2. Settled
    BY <1>4, <2>1 DEF StillAtStart
  <2>3. ~out_yaw_en' /\ ~out_pitch_en'
    BY <1>4, <2>2 DEF WalkHome, Settled
  <2>. QED
    BY <2>2, <2>3, QuietLines DEF Settled
<1>5. CASE BootUp(step_tick)
  BY <1>5 DEF BootUp
<1>6. CASE IdleWait(on_target)
  BY <1>6 DEF IdleWait
<1>7. CASE \/ on_target /\ state = "TRACKING" /\ TrackTarget(rx_done, Correction)
           \/ ~on_target /\ TrackNothing
           \/ state \in {"SEARCHING", "RETURNING"} /\ on_target /\ Acquire
           \/ state = "RETURNING" /\ ~on_target /\ pos_x = 0 /\ pos_y = 0 /\ ArriveHome
  BY <1>7 DEF TrackTarget, TrackNothing, Acquire, ArriveHome
<1>. QED
  BY <1>1, <1>2, <1>3, <1>4, <1>5, <1>6, <1>7 DEF ControlEdge

\* A state other than BOOT_UP is never left for it, and in it the yaw motor rests.
LEMMA BootYawStep ==
  ASSUME PulseInv, ControlEdge
  PROVE  BootYaw' /\ (state' = "BOOT_UP" => BootUp(step_tick))
<1> SUFFICES ASSUME state' = "BOOT_UP"
             PROVE  BootUp(step_tick) /\ ~out_yaw_en' /\ ~out_yaw_dir'
  BY DEF BootYaw
<1>1. BootUp(step_tick)
  BY DEF ControlEdge, IdleWait, TrackTarget, StartSearch, TrackNothing, Acquire, GiveUp,
         Spiral, ArriveHome, WalkHome
<1>. QED
  BY <1>1 DEF BootUp, PulseInv, BootYaw

\* Every clock edge of the board keeps the invariant of the pulse.
LEMMA PulseStep ==
  ASSUME TransmitterTypeOK, TransmitterTypeOK', BlindTrackingIsIdle, PulseInv, Clock
  PROVE  PulseInv'
<1>1. PulseTypes /\ PulseTypes'
  BY DEF TransmitterTypeOK, TypeOK, PulseTypes, Packet, on_target
<1>2. Surroundings /\ ControlEdge
  BY SurroundingsMove, ControlEdges DEF PulseInv
<1>3. Elsewhere \/ Following \/ HandOver \/ Losing
  BY <1>2, PulseKinds
<1>4. LowOnce' /\ InTime'
  BY <1>1, <1>2, <1>3, PulseBounds
<1>5. StillAtStart'
  BY <1>1, <1>2, <1>3, PulseBounds, StaleByte DEF StillAtStart
<1>6. InputsOrdered'
  <2>1. state' # "FORCED_RETURN"
    BY <1>3 DEF Elsewhere, Following, HandOver, Losing
  <2>2. step_tick' => clk_count' = 0
    BY <1>2 DEF Surroundings, TicksOn
  <2>3. rx_done' => quiet' = PACKET_GAP - 1
    BY <1>2 DEF Surroundings, BytesArrive
  <2>. QED
    BY <1>2, <2>1, <2>2, <2>3 DEF InputsOrdered, Surroundings
<1>. QED
  BY <1>2, <1>4, <1>5, <1>6, EndsStill, BootYawStep DEF PulseInv

-----------------------------------------------------------------------------
(* The account.                                                            *)

\* What an edge adds to the account of an axis.
YawChange == Step(yaw_step, yaw_step', out_yaw_dir') - Counted(pos_x, pos_x')
PitchChange == Step(pitch_step, pitch_step', out_pitch_dir') - Counted(pos_y, pos_y')

GapTypes == yaw_gap \in Int /\ pitch_gap \in Int /\ by_packet \in BOOLEAN

Opens == \/ state' # state /\ state' # "RETURNING"
         \/ state = "TRACKING" /\ state' = state /\ rx_done

\* The cap is never reached.
LEMMA NotCapped == \A gap \in -2..2 : Capped(gap) = gap
BY StepConstants DEF Capped

LEMMA ChangeIsSmall == YawChange \in -2..2 /\ PitchChange \in -2..2
BY DEF YawChange, PitchChange, Step, Counted

\* The account is kept or opened anew.
LEMMA TallyKeeps ==
  ASSUME Tally, GapTypes, ~Opens
  PROVE  /\ yaw_gap' = Capped(yaw_gap + YawChange)
         /\ pitch_gap' = Capped(pitch_gap + PitchChange)
         /\ by_packet' = by_packet
<1>1. /\ yaw_gap' = Capped(yaw_gap + Step(yaw_step, yaw_step', out_yaw_dir')
                             - Counted(pos_x, pos_x'))
      /\ pitch_gap' = Capped(pitch_gap + Step(pitch_step, pitch_step', out_pitch_dir')
                               - Counted(pos_y, pos_y'))
      /\ by_packet' = by_packet
  BY DEF Tally, Opens
<1>2. /\ yaw_gap + Step(yaw_step, yaw_step', out_yaw_dir') - Counted(pos_x, pos_x')
           = yaw_gap + YawChange
      /\ pitch_gap + Step(pitch_step, pitch_step', out_pitch_dir') - Counted(pos_y, pos_y')
           = pitch_gap + PitchChange
  BY DEF GapTypes, YawChange, PitchChange, Step, Counted
<1>. QED
  BY <1>1, <1>2

LEMMA TallyOpens ==
  ASSUME Tally, Opens
  PROVE  /\ yaw_gap' = YawChange /\ pitch_gap' = PitchChange
         /\ by_packet' <=> state' = state
<1>1. /\ yaw_gap' = Capped(0 + Step(yaw_step, yaw_step', out_yaw_dir')
                             - Counted(pos_x, pos_x'))
      /\ pitch_gap' = Capped(0 + Step(pitch_step, pitch_step', out_pitch_dir')
                               - Counted(pos_y, pos_y'))
      /\ by_packet' <=> state' = state
  BY DEF Tally, Opens
<1>2. /\ 0 + Step(yaw_step, yaw_step', out_yaw_dir') - Counted(pos_x, pos_x') = YawChange
      /\ 0 + Step(pitch_step, pitch_step', out_pitch_dir') - Counted(pos_y, pos_y')
           = PitchChange
  BY DEF YawChange, PitchChange, Step, Counted
<1>. QED
  BY <1>1, <1>2, NotCapped, ChangeIsSmall

LEMMA GapTypesStep == GapTypes /\ Tally => GapTypes'
<1> SUFFICES ASSUME GapTypes, Tally PROVE GapTypes'
  OBVIOUS
<1>1. \A gap \in Int : Capped(gap) \in Int
  BY StepConstants DEF Capped
<1>2. CASE Opens
  <2>1. yaw_gap' \in Int /\ pitch_gap' \in Int
    BY <1>2, TallyOpens, ChangeIsSmall
  <2>2. by_packet' \in BOOLEAN
    BY <1>2 DEF Tally, Opens
  <2>. QED
    BY <2>1, <2>2 DEF GapTypes
<1>3. CASE ~Opens
  BY <1>1, <1>3, TallyKeeps, ChangeIsSmall DEF GapTypes
<1>. QED
  BY <1>2, <1>3

\* What a pulse owes is made or still owed after an edge: not both, not neither.
LEMMA YawGoesOn ==
  ASSUME NEW enabled \in BOOLEAN, PulseTypes, PulseTypes', Surroundings, LowOnce,
         RunTimer(FALSE), out_yaw_en' <=> Pulsing /\ enabled
  PROVE  /\ Coming(yaw_step, enabled)
               <=> (yaw_step' /\ ~yaw_step) \/ ~yaw_step' \/ (enabled /\ Rise' <= pulse_timer')
         /\ yaw_step' /\ ~yaw_step => ~(Rise' <= pulse_timer')
BY StepConstants
DEF PulseTypes, Surroundings, RisesOn, LinesMove, LineEdge, LowOnce, RunTimer, Pulsing, Coming

LEMMA PitchGoesOn ==
  ASSUME NEW enabled \in BOOLEAN, PulseTypes, PulseTypes', Surroundings, LowOnce,
         RunTimer(FALSE), out_pitch_en' <=> Pulsing /\ enabled
  PROVE  /\ Coming(pitch_step, enabled)
               <=> (pitch_step' /\ ~pitch_step) \/ ~pitch_step'
                     \/ (enabled /\ Rise' <= pulse_timer')
         /\ pitch_step' /\ ~pitch_step => ~(Rise' <= pulse_timer')
BY StepConstants
DEF PulseTypes, Surroundings, RisesOn, LinesMove, LineEdge, LowOnce, RunTimer, Pulsing, Coming

\* Where nothing is under way nothing is owed, and the edge makes no step.
LEMMA SettledOwes ==
  ASSUME PulseTypes, Surroundings, Settled
  PROVE  ~(Rise <= pulse_timer) /\ pulse_timer = 0
BY DEF PulseTypes, Surroundings, RisesOn, Settled, Pulsing

\* An account with at most one step owed is far from its cap.
LEMMA OwesOneStep ==
  \A line, enabled, dir : /\ Signed(dir) \in {-1, 1}
                         /\ Owed(line, enabled, dir) \in {0, Signed(dir)}
BY DEF Owed, Signed

LEMMA SmallGap ==
  \A gap \in Int, way \in {-1, 1} : \A owed \in {0, way} :
    gap + owed \in {way - 1, 0, way} => gap \in -2..2 /\ gap + owed \in -2..2
OBVIOUS

\* An axis that counts nothing passes on what it owes, made or still to come.
LEMMA YawPassesOn ==
  ASSUME NEW enabled \in BOOLEAN, PulseTypes, PulseTypes', Surroundings, LowOnce,
         RunTimer(FALSE), out_yaw_en' <=> Pulsing /\ enabled,
         GapTypes, Tally, ~Opens, pos_x' = pos_x, out_yaw_dir' \in BOOLEAN,
         yaw_gap \in -2..2 /\ yaw_gap + Owed(yaw_step, enabled, out_yaw_dir') \in -2..2
  PROVE  yaw_gap' + (IF ~yaw_step' \/ (enabled /\ Rise' <= pulse_timer')
                     THEN Signed(out_yaw_dir') ELSE 0)
           = yaw_gap + Owed(yaw_step, enabled, out_yaw_dir')
<1>1. YawChange = IF yaw_step' /\ ~yaw_step THEN Signed(out_yaw_dir') ELSE 0
  BY DEF YawChange, Step, Counted, Signed
<1>2. yaw_gap + YawChange \in -2..2
  BY <1>1 DEF Owed, Signed, Coming, GapTypes
<1>3. yaw_gap' = yaw_gap + YawChange
  BY <1>2, TallyKeeps, NotCapped
<1>4. /\ Coming(yaw_step, enabled)
            <=> (yaw_step' /\ ~yaw_step) \/ ~yaw_step' \/ (enabled /\ Rise' <= pulse_timer')
      /\ yaw_step' /\ ~yaw_step => ~(Rise' <= pulse_timer')
  BY YawGoesOn, Zenon
<1>5. yaw_gap' \in Int
  BY <1>2, <1>3
<1>6. CASE yaw_step' /\ ~yaw_step
  <2>1. yaw_gap' = yaw_gap + Signed(out_yaw_dir')
    BY <1>1, <1>3, <1>6
  <2>2. Owed(yaw_step, enabled, out_yaw_dir') = Signed(out_yaw_dir')
    BY <1>6 DEF Owed, Coming
  <2>. QED
    BY <1>4, <1>5, <1>6, <2>1, <2>2
<1>7. CASE ~(yaw_step' /\ ~yaw_step)
  <2>1. yaw_gap' = yaw_gap
    BY <1>1, <1>3, <1>7 DEF GapTypes
  <2>2. Owed(yaw_step, enabled, out_yaw_dir')
          = IF ~yaw_step' \/ (enabled /\ Rise' <= pulse_timer')
            THEN Signed(out_yaw_dir') ELSE 0
    BY <1>4, <1>7, Zenon DEF Owed
  <2>. QED
    BY <2>1, <2>2
<1>. QED
  BY <1>6, <1>7

\* A new pulse owes its step.
LEMMA NewPulseOwes ==
  ASSUME Surroundings, RunTimer(TRUE) PROVE Rise' <= pulse_timer'
BY StepConstants DEF Surroundings, RisesOn, RunTimer

LEMMA PitchPassesOn ==
  ASSUME NEW enabled \in BOOLEAN, PulseTypes, PulseTypes', Surroundings, LowOnce,
         RunTimer(FALSE), out_pitch_en' <=> Pulsing /\ enabled,
         GapTypes, Tally, ~Opens, pos_y' = pos_y, out_pitch_dir' \in BOOLEAN,
         pitch_gap \in -2..2 /\ pitch_gap + Owed(pitch_step, enabled, out_pitch_dir') \in -2..2
  PROVE  pitch_gap' + (IF ~pitch_step' \/ (enabled /\ Rise' <= pulse_timer')
                     THEN Signed(out_pitch_dir') ELSE 0)
           = pitch_gap + Owed(pitch_step, enabled, out_pitch_dir')
<1>1. PitchChange = IF pitch_step' /\ ~pitch_step THEN Signed(out_pitch_dir') ELSE 0
  BY DEF PitchChange, Step, Counted, Signed
<1>2. pitch_gap + PitchChange \in -2..2
  BY <1>1 DEF Owed, Signed, Coming, GapTypes
<1>3. pitch_gap' = pitch_gap + PitchChange
  BY <1>2, TallyKeeps, NotCapped
<1>4. /\ Coming(pitch_step, enabled)
            <=> (pitch_step' /\ ~pitch_step) \/ ~pitch_step' \/ (enabled /\ Rise' <= pulse_timer')
      /\ pitch_step' /\ ~pitch_step => ~(Rise' <= pulse_timer')
  BY PitchGoesOn, Zenon
<1>5. pitch_gap' \in Int
  BY <1>2, <1>3
<1>6. CASE pitch_step' /\ ~pitch_step
  <2>1. pitch_gap' = pitch_gap + Signed(out_pitch_dir')
    BY <1>1, <1>3, <1>6
  <2>2. Owed(pitch_step, enabled, out_pitch_dir') = Signed(out_pitch_dir')
    BY <1>6 DEF Owed, Coming
  <2>. QED
    BY <1>4, <1>5, <1>6, <2>1, <2>2
<1>7. CASE ~(pitch_step' /\ ~pitch_step)
  <2>1. pitch_gap' = pitch_gap
    BY <1>1, <1>3, <1>7 DEF GapTypes
  <2>2. Owed(pitch_step, enabled, out_pitch_dir')
          = IF ~pitch_step' \/ (enabled /\ Rise' <= pulse_timer')
            THEN Signed(out_pitch_dir') ELSE 0
    BY <1>4, <1>7, Zenon DEF Owed
  <2>. QED
    BY <2>1, <2>2
<1>. QED
  BY <1>6, <1>7

\* An axis that is started from stillness makes no step on that edge.
LEMMA StartsStill ==
  ASSUME PulseTypes, Surroundings, Settled, out_yaw_en' <=> FALSE, out_pitch_en' <=> FALSE
  PROVE  /\ yaw_step' /\ pitch_step'
         /\ YawChange = 0 - Counted(pos_x, pos_x')
         /\ PitchChange = 0 - Counted(pos_y, pos_y')
<1>1. yaw_step' /\ pitch_step'
  BY QuietLines DEF Settled
<1>2. Step(yaw_step, yaw_step', out_yaw_dir') = 0
  BY DEF Step, Settled
<1>3. Step(pitch_step, pitch_step', out_pitch_dir') = 0
  BY DEF Step, Settled
<1>. QED
  BY <1>1, <1>2, <1>3 DEF YawChange, PitchChange

-----------------------------------------------------------------------------
(* The account, state by state.                                            *)

\* What an edge of the board with an account of its steps is.
Edge == /\ PulseTypes /\ PulseTypes' /\ TypeOK /\ TypeOK' /\ ir_data \in Packet
        /\ PulseInv /\ PulseInv' /\ Surroundings /\ ControlEdge
        /\ GapTypes /\ GapTypes' /\ Tally

\* A boot owes a step of the pitch motor and has counted one at each tick.
LEMMA BootGapStep ==
  ASSUME Edge, BootGap PROVE BootGap'
<1> SUFFICES ASSUME state' = "BOOT_UP"
             PROVE  /\ yaw_gap' = IF yaw_step' THEN -1 ELSE 0
                    /\ pitch_gap' + (IF ~pitch_step' \/ (TRUE /\ Rise' <= pulse_timer')
                                     THEN Signed(TRUE) ELSE 0) = 1
  BY DEF BootGap, Owed, Coming
<1>1. BootUp(step_tick) /\ ~Opens
  BY BootYawStep DEF Edge, BootUp, Opens
<1>2. /\ pos_x' = pos_x /\ ~out_yaw_en' /\ ~out_yaw_dir'
      /\ out_pitch_dir' /\ (out_pitch_en' <=> Pulsing)
  BY <1>1 DEF BootUp, Edge, PulseInv, BootYaw
<1>3. yaw_gap' = IF yaw_step' THEN -1 ELSE 0
  <2>1. yaw_gap = IF yaw_step THEN -1 ELSE 0
    BY <1>1 DEF BootGap, BootUp
  <2>2. yaw_step => yaw_step'
    BY <1>2 DEF Edge, Surroundings, LinesMove, LineEdge
  <2>3. YawChange = IF yaw_step' /\ ~yaw_step THEN -1 ELSE 0
    BY <1>2 DEF YawChange, Step, Counted
  <2>4. yaw_gap + YawChange = IF yaw_step' THEN -1 ELSE 0
    BY <2>1, <2>2, <2>3
  <2>. QED
    BY <1>1, <2>4, TallyKeeps, NotCapped DEF Edge
<1>4. pitch_gap + Owed(pitch_step, TRUE, TRUE) = 1
  BY <1>1 DEF BootGap, BootUp
<1>5. CASE step_tick /\ pos_y < 0
  <2>1. Settled /\ pulse_timer = 0 /\ ~(Rise <= pulse_timer)
    BY <1>1, <1>5, SettledOwes DEF Edge, PulseInv, StillAtStart, BootUp
  <2>2. pitch_gap = 1
    BY <1>4, <2>1 DEF Owed, Coming, Settled, Edge, GapTypes
  <2>3. Counted(pos_y, pos_y') = 1
    BY <1>1, <1>5, PosAssumption DEF BootUp, Succ, Pos, TypeOK, Edge, Counted
  <2>4. pitch_step' /\ PitchChange = -1
    BY <1>2, <2>1, <2>3, StartsStill DEF Edge, Settled
  <2>5. pitch_gap' = 0
    BY <1>1, <2>2, <2>4, TallyKeeps, NotCapped DEF Edge
  <2>6. Rise' <= pulse_timer'
    BY <1>1, <1>5, NewPulseOwes DEF BootUp, Edge, RunTimer
  <2>. QED
    BY <1>3, <2>4, <2>5, <2>6 DEF Signed
<1>6. CASE ~(step_tick /\ pos_y < 0)
  <2>1. RunTimer(FALSE) /\ pos_y' = pos_y
    BY <1>1, <1>6 DEF BootUp, RunTimer
  <2>2. /\ pitch_gap + Owed(pitch_step, TRUE, out_pitch_dir') = 1
        /\ pitch_gap \in -2..2 /\ pitch_gap + Owed(pitch_step, TRUE, out_pitch_dir') \in -2..2
    <3>1. pitch_gap + Owed(pitch_step, TRUE, out_pitch_dir') = 1 /\ Signed(out_pitch_dir') = 1
      BY <1>2, <1>4 DEF Owed, Signed
    <3>. QED
      BY <3>1, OwesOneStep, SmallGap DEF Edge, GapTypes
  <2>3. out_pitch_en' <=> Pulsing /\ TRUE
    BY <1>2
  <2>4. out_pitch_dir' \in BOOLEAN
    BY <1>2
  <2>5. pitch_gap' + (IF ~pitch_step' \/ (TRUE /\ Rise' <= pulse_timer')
                      THEN Signed(out_pitch_dir') ELSE 0)
          = pitch_gap + Owed(pitch_step, TRUE, out_pitch_dir')
    BY <1>1, <2>1, <2>2, <2>3, <2>4, PitchPassesOn, Zenon DEF Edge, PulseInv
  <2>. QED
    BY <1>2, <1>3, <2>2, <2>5 DEF Signed
<1>. QED
  BY <1>5, <1>6

\* An edge in stillness that starts nothing leaves nothing owed.
LEMMA StillOwesNothing ==
  ASSUME Edge, Settled, RunTimer(FALSE), out_yaw_en' <=> FALSE, out_pitch_en' <=> FALSE
  PROVE  /\ yaw_step' /\ pitch_step' /\ ~(Rise' <= pulse_timer')
         /\ YawChange = 0 - Counted(pos_x, pos_x')
         /\ PitchChange = 0 - Counted(pos_y, pos_y')
<1>1. pulse_timer' = 0
  BY DEF RunTimer, Settled
<1>2. ~(Rise' <= pulse_timer')
  BY <1>1, StepConstants DEF Edge, Surroundings, RisesOn
<1>. QED
  BY <1>2, StartsStill DEF Edge

\* A packet that is followed: the step that is started is the one counted.
LEMMA TrackPacket ==
  ASSUME Edge, state = "TRACKING", rx_done, on_target, TrackTarget(rx_done, Correction)
  PROVE  TrackGap'
<1>1. Settled /\ ir_data' = ir_data /\ state' = state /\ Opens
  BY StepConstants DEF Edge, PulseInv, InputsOrdered, StillAtStart, Surroundings, BytesArrive,
                       Opens, TrackTarget
<1>2. RunTimer(TRUE) /\ (out_yaw_en' <=> FALSE) /\ (out_pitch_en' <=> FALSE)
  BY <1>1 DEF TrackTarget, RunTimer, Settled
<1>3. /\ yaw_step' /\ pitch_step' /\ Rise' <= pulse_timer'
      /\ yaw_gap' = 0 - Counted(pos_x, pos_x') /\ pitch_gap' = 0 - Counted(pos_y, pos_y')
  BY <1>1, <1>2, StartsStill, NewPulseOwes, TallyOpens DEF Edge
<1>4. /\ out_yaw_dir' = ~ir_data.dir_x /\ out_pitch_dir' = ~ir_data.dir_y
      /\ pos_x' = IF ir_data.move_x
                  THEN Clamped(pos_x, ~ir_data.dir_x, YAW_LIMIT) ELSE pos_x
      /\ pos_y' = IF ir_data.move_y
                  THEN Clamped(pos_y, ~ir_data.dir_y, PITCH_LIMIT) ELSE pos_y
  BY DEF TrackTarget, Correction
<1>5. AtLimit(yaw_gap' + (IF ir_data.move_x THEN Signed(~ir_data.dir_x) ELSE 0),
              pos_x', YAW_LIMIT)
  BY <1>3, <1>4, PosAssumption, ControllerAssumption
  DEF AtLimit, Signed, Clamped, Succ, Pred, Counted, Edge, TypeOK, Pos
<1>6. AtLimit(pitch_gap' + (IF ir_data.move_y THEN Signed(~ir_data.dir_y) ELSE 0),
              pos_y', PITCH_LIMIT)
  BY <1>3, <1>4, PosAssumption, ControllerAssumption
  DEF AtLimit, Signed, Clamped, Succ, Pred, Counted, Edge, TypeOK, Pos
<1>. QED
  BY <1>1, <1>3, <1>4, <1>5, <1>6 DEF TrackGap, Owed, Coming

LEMMA TrackGapStep ==
  ASSUME Edge, TrackGap PROVE TrackGap'
<1> SUFFICES ASSUME state' = "TRACKING", by_packet' PROVE TrackGap'
  BY DEF TrackGap
<1>1. state = "TRACKING"
  BY TallyOpens DEF Edge, Opens
<1>2. \/ on_target /\ TrackTarget(rx_done, Correction)
      \/ ~on_target /\ TrackNothing
  BY <1>1 DEF Edge, ControlEdge, BootUp, IdleWait, StartSearch
<1>3. CASE on_target /\ TrackTarget(rx_done, Correction) /\ rx_done
  BY <1>1, <1>3, TrackPacket
<1>4. CASE on_target /\ TrackTarget(rx_done, Correction) /\ ~rx_done
  <2>1. ~Opens /\ by_packet
    BY <1>1, <1>4, TallyKeeps DEF Edge, Opens
  <2>2. /\ RunTimer(FALSE) /\ pos_x' = pos_x /\ pos_y' = pos_y
        /\ out_yaw_dir' = out_yaw_dir /\ out_pitch_dir' = out_pitch_dir
        /\ out_yaw_en' <=> Pulsing /\ ir_data.move_x
        /\ out_pitch_en' <=> Pulsing /\ ir_data.move_y
    BY <1>4 DEF TrackTarget, RunTimer, dirs, Correction
  <2>3. /\ AtLimit(yaw_gap + Owed(yaw_step, ir_data.move_x, out_yaw_dir'), pos_x, YAW_LIMIT)
        /\ AtLimit(pitch_gap + Owed(pitch_step, ir_data.move_y, out_pitch_dir'),
                   pos_y, PITCH_LIMIT)
    BY <1>1, <2>1, <2>2 DEF TrackGap
  <2>4. /\ ir_data.move_x \in BOOLEAN /\ ir_data.move_y \in BOOLEAN
        /\ out_yaw_dir' \in BOOLEAN /\ out_pitch_dir' \in BOOLEAN
    BY DEF Edge, Packet, TypeOK
  <2>5. /\ yaw_gap \in -2..2 /\ yaw_gap + Owed(yaw_step, ir_data.move_x, out_yaw_dir') \in -2..2
        /\ pitch_gap \in -2..2
        /\ pitch_gap + Owed(pitch_step, ir_data.move_y, out_pitch_dir') \in -2..2
    BY <2>3 DEF AtLimit, Owed, Signed, Edge, GapTypes
  <2>6. yaw_gap' + (IF ~yaw_step' \/ (ir_data.move_x /\ Rise' <= pulse_timer')
                    THEN Signed(out_yaw_dir') ELSE 0)
          = yaw_gap + Owed(yaw_step, ir_data.move_x, out_yaw_dir')
    BY <2>1, <2>2, <2>4, <2>5, YawPassesOn, Zenon DEF Edge, PulseInv
  <2>7. pitch_gap' + (IF ~pitch_step' \/ (ir_data.move_y /\ Rise' <= pulse_timer')
                      THEN Signed(out_pitch_dir') ELSE 0)
          = pitch_gap + Owed(pitch_step, ir_data.move_y, out_pitch_dir')
    BY <2>1, <2>2, <2>4, <2>5, PitchPassesOn, Zenon DEF Edge, PulseInv
  <2>8. Rise' <= pulse_timer' => ir_data' = ir_data
    <3>1. rx_done' => Settled'
      BY DEF Edge, PulseInv, StillAtStart
    <3>2. Settled' => pulse_timer' = 0 /\ ~(Rise' <= pulse_timer')
      BY StepConstants
      DEF Edge, Settled, Pulsing, PulseTypes, Surroundings, RisesOn
    <3>. QED
      BY <3>1, <3>2 DEF Edge, Surroundings, BytesArrive
  <2>9. /\ yaw_gap' + Owed(yaw_step, ir_data.move_x, out_yaw_dir)'
             = yaw_gap + Owed(yaw_step, ir_data.move_x, out_yaw_dir')
        /\ pitch_gap' + Owed(pitch_step, ir_data.move_y, out_pitch_dir)'
             = pitch_gap + Owed(pitch_step, ir_data.move_y, out_pitch_dir')
    BY <2>6, <2>7, <2>8, Zenon DEF Owed, Coming
  <2>. QED
    BY <2>2, <2>3, <2>9 DEF TrackGap
<1>5. CASE ~on_target /\ TrackNothing
  <2>1. Settled
    BY <1>1, <1>5 DEF Edge, PulseInv, StillAtStart
  <2>2. /\ RunTimer(FALSE) /\ (out_yaw_en' <=> FALSE) /\ (out_pitch_en' <=> FALSE)
        /\ pos_x' = pos_x /\ pos_y' = pos_y
    BY <1>5, <2>1 DEF TrackNothing, outs, Settled
  <2>3. /\ yaw_step' /\ pitch_step' /\ ~(Rise' <= pulse_timer')
        /\ YawChange = 0 /\ PitchChange = 0
    BY <2>1, <2>2, StillOwesNothing DEF Counted
  <2>4. AtLimit(yaw_gap', pos_x, YAW_LIMIT) /\ AtLimit(pitch_gap', pos_y, PITCH_LIMIT)
    <3>1. CASE Opens
      BY <2>3, <3>1, TallyOpens DEF Edge, AtLimit
    <3>2. CASE ~Opens
      <4>1. by_packet /\ Settled /\ ~(Rise <= pulse_timer)
        BY <2>1, <3>2, TallyKeeps, SettledOwes DEF Edge
      <4>2. yaw_gap + 0 = yaw_gap /\ pitch_gap + 0 = pitch_gap
        BY DEF Edge, GapTypes
      <4>3. AtLimit(yaw_gap, pos_x, YAW_LIMIT) /\ AtLimit(pitch_gap, pos_y, PITCH_LIMIT)
        BY <1>1, <4>1, <4>2 DEF TrackGap, Owed, Coming, Settled
      <4>4. yaw_gap' = yaw_gap /\ pitch_gap' = pitch_gap
        <5>1. yaw_gap \in -2..2 /\ pitch_gap \in -2..2
          BY <4>3 DEF AtLimit
        <5>. QED
          BY <2>3, <3>2, <4>2, <5>1, TallyKeeps, NotCapped DEF Edge
      <4>. QED
        BY <4>3, <4>4
    <3>. QED
      BY <3>1, <3>2
  <2>5. yaw_gap' + 0 = yaw_gap' /\ pitch_gap' + 0 = pitch_gap'
    <3>1. yaw_gap' \in Int /\ pitch_gap' \in Int
      BY Zenon DEF Edge, GapTypes
    <3>2. \A gap \in Int : gap + 0 = gap
      OBVIOUS
    <3>. QED
      BY <3>1, <3>2, Zenon
  <2>. QED
    BY <2>2, <2>3, <2>4, <2>5 DEF TrackGap, Owed, Coming
<1>. QED
  BY <1>2, <1>3, <1>4, <1>5

\* A line that has risen, and one that has no time left to fall, stays high for the
\* rest of the pulse.
LEMMA LineIsDone ==
  ASSUME PulseTypes, PulseTypes', Surroundings, LowOnce, RunTimer(FALSE)
  PROVE  /\ yaw_step' /\ ~yaw_step => pulse_timer' < Rise'
         /\ pitch_step' /\ ~pitch_step => pulse_timer' < Rise'
         /\ pulse_timer < Rise => pulse_timer' < Rise'
         /\ yaw_step /\ pulse_timer < Rise /\ (out_yaw_en' => Pulsing) => yaw_step'
         /\ pitch_step /\ pulse_timer < Rise /\ (out_pitch_en' => Pulsing) => pitch_step'
BY StepConstants
DEF PulseTypes, Surroundings, RisesOn, LinesMove, LineEdge, LowOnce, RunTimer, Pulsing

\* After a hand-over the rest of a pulse is made, and nothing is counted.
LEMMA HandOverGapStep ==
  ASSUME Edge, BlindTrackingIsIdle, HandOverGap PROVE HandOverGap'
<1> SUFFICES ASSUME state' = "TRACKING", ~by_packet' PROVE HandOverGap'
  BY DEF HandOverGap
<1>1. state = "TRACKING" => ~Opens
  BY TallyOpens DEF Edge
<1>2. RunTimer(FALSE) /\ pos_x' = pos_x /\ pos_y' = pos_y
  BY <1>1
  DEF Edge, ControlEdge, Opens, BootUp, IdleWait, TrackTarget, StartSearch, TrackNothing,
      Acquire, GiveUp, Spiral, ArriveHome, WalkHome, dirs, PulseTypes
<1>3. /\ YawChange = IF yaw_step' /\ ~yaw_step THEN Signed(out_yaw_dir') ELSE 0
      /\ PitchChange = IF pitch_step' /\ ~pitch_step THEN Signed(out_pitch_dir') ELSE 0
  BY <1>2 DEF YawChange, PitchChange, Step, Counted, Signed
<1>4. CASE state = "TRACKING"
  <2>1. ~Opens /\ ~by_packet
    BY <1>1, <1>4, TallyKeeps DEF Edge
  <2>2. (out_yaw_en' => Pulsing) /\ (out_pitch_en' => Pulsing)
    BY <1>4
    DEF Edge, ControlEdge, BootUp, IdleWait, TrackTarget, StartSearch, TrackNothing, outs,
        BlindTrackingIsIdle, PulseTypes
  <2>3. OneAtMost(yaw_gap, yaw_step) /\ OneAtMost(pitch_gap, pitch_step)
    BY <1>4, <2>1 DEF HandOverGap
  <2>4. /\ yaw_gap' = yaw_gap + YawChange /\ yaw_gap + YawChange \in -1..1
        /\ pitch_gap' = pitch_gap + PitchChange /\ pitch_gap + PitchChange \in -1..1
    <3>1. yaw_gap + YawChange \in -1..1
      BY <1>3, <2>3 DEF OneAtMost, Signed
    <3>2. pitch_gap + PitchChange \in -1..1
      BY <1>3, <2>3 DEF OneAtMost, Signed
    <3>. QED
      BY <2>1, <3>1, <3>2, TallyKeeps, NotCapped DEF Edge
  <2>5. OneAtMost(yaw_gap, yaw_step)'
    BY <1>2, <1>3, <2>2, <2>3, <2>4, LineIsDone DEF OneAtMost, Edge, PulseInv
  <2>6. OneAtMost(pitch_gap, pitch_step)'
    BY <1>2, <1>3, <2>2, <2>3, <2>4, LineIsDone DEF OneAtMost, Edge, PulseInv
  <2>. QED
    BY <2>5, <2>6 DEF HandOverGap
<1>5. CASE state # "TRACKING"
  <2>1. yaw_gap' = YawChange /\ pitch_gap' = PitchChange
    BY <1>5, TallyOpens DEF Edge, Opens
  <2>2. OneAtMost(yaw_gap, yaw_step)'
    BY <1>2, <1>3, <2>1, LineIsDone DEF OneAtMost, Signed, Edge, PulseInv
  <2>3. OneAtMost(pitch_gap, pitch_step)'
    BY <1>2, <1>3, <2>1, LineIsDone DEF OneAtMost, Signed, Edge, PulseInv
  <2>. QED
    BY <2>2, <2>3 DEF HandOverGap
<1>. QED
  BY <1>4, <1>5

\* What the spiral counts at a tick is a step in its direction.
LEMMA SpiralCounts ==
  ASSUME TypeOK, SpiralMove
  PROVE  /\ Counted(pos_x, pos_x') = Unit(spiral_dir)[1]
         /\ Counted(pos_y, pos_y') = Unit(spiral_dir)[2]
BY PosAssumption DEF TypeOK, SpiralMove, Counted, Succ, Pred, Pos, Unit

\* A tick of the search: nothing is owed any more, the step counted is in the old
\* direction, the one owed in the new.
LEMMA SearchTick ==
  ASSUME Edge, SearchGap, state = "SEARCHING", step_tick, Spiral(step_tick)
  PROVE  SearchGap' /\ yaw_gap' = -1 /\ pitch_gap' = 0
<1>1. Settled /\ pulse_timer = 0 /\ ~(Rise <= pulse_timer) /\ ~Opens
  BY SettledOwes DEF Edge, PulseInv, StillAtStart, Spiral, Opens
<1>2. yaw_gap = Unit(spiral_dir)[1] - 1 /\ pitch_gap = Unit(spiral_dir)[2]
  BY <1>1 DEF SearchGap, Coming, Settled, Edge, GapTypes
<1>3. (out_yaw_en' <=> FALSE) /\ (out_pitch_en' <=> FALSE) /\ RunTimer(TRUE)
  BY <1>1 DEF Spiral, SpiralOutputs, Settled, RunTimer
<1>4. /\ yaw_step' /\ pitch_step' /\ Rise' <= pulse_timer'
      /\ YawChange = 0 - Unit(spiral_dir)[1] /\ PitchChange = 0 - Unit(spiral_dir)[2]
  BY <1>1, <1>3, StartsStill, NewPulseOwes, SpiralCounts DEF Edge, Spiral
<1>5. /\ yaw_gap + YawChange = -1 /\ pitch_gap + PitchChange = 0
  BY <1>2, <1>4 DEF Edge, TypeOK, Unit
<1>6. yaw_gap' = -1 /\ pitch_gap' = 0
  BY <1>1, <1>5, TallyKeeps, NotCapped DEF Edge
<1>7. spiral_dir' \in 0..3
  BY DEF Edge, TypeOK
<1>8. \A d \in 0..3 : /\ -1 + (IF d \in {0, 2} THEN Unit(d)[1] ELSE 0) = Unit(d)[1] - 1
                     /\ 0 + (IF ~(d \in {0, 2}) THEN Unit(d)[2] ELSE 0) = Unit(d)[2]
  BY DEF Unit
<1>9. /\ -1 + (IF AlongYaw' THEN Unit(spiral_dir')[1] ELSE 0) = Unit(spiral_dir')[1] - 1
      /\ 0 + (IF ~AlongYaw' THEN Unit(spiral_dir')[2] ELSE 0) = Unit(spiral_dir')[2]
  BY <1>7, <1>8, Zenon DEF AlongYaw
<1>. QED
  BY <1>4, <1>6, <1>9, Zenon DEF SearchGap, Coming

\* Between the ticks the axis of the leg passes on what it owes.
LEMMA SearchGoesOn ==
  ASSUME Edge, SearchGap, state = "SEARCHING", ~step_tick, Spiral(step_tick)
  PROVE  SearchGap'
<1>1. /\ ~Opens /\ RunTimer(FALSE)
      /\ pos_x' = pos_x /\ pos_y' = pos_y /\ spiral_dir' = spiral_dir
  BY DEF Spiral, RunTimer, spiral, Opens
<1>2. /\ out_yaw_en' <=> Pulsing /\ AlongYaw
      /\ out_pitch_en' <=> Pulsing /\ ~AlongYaw
      /\ AlongYaw => (out_yaw_dir' <=> spiral_dir = 0)
      /\ ~AlongYaw => (out_pitch_dir' <=> spiral_dir = 1)
      /\ out_yaw_dir' \in BOOLEAN /\ out_pitch_dir' \in BOOLEAN
  BY DEF Spiral, SpiralOutputs, AlongYaw, Edge, TypeOK
<1>3. /\ AlongYaw => Unit(spiral_dir)[1] = Signed(out_yaw_dir') /\ Unit(spiral_dir)[2] = 0
      /\ ~AlongYaw => Unit(spiral_dir)[2] = Signed(out_pitch_dir') /\ Unit(spiral_dir)[1] = 0
  BY <1>2 DEF Unit, Signed, AlongYaw, Edge, TypeOK
<1>4. /\ ~yaw_step => AlongYaw
      /\ ~pitch_step => ~AlongYaw
      /\ yaw_gap + (IF Coming(yaw_step, AlongYaw) THEN Unit(spiral_dir)[1] ELSE 0)
           = Unit(spiral_dir)[1] - 1
      /\ pitch_gap + (IF Coming(pitch_step, ~AlongYaw) THEN Unit(spiral_dir)[2] ELSE 0)
           = Unit(spiral_dir)[2]
  BY DEF SearchGap
<1>5. CASE AlongYaw
  <2>1. yaw_gap + Owed(yaw_step, TRUE, out_yaw_dir') = Signed(out_yaw_dir') - 1
    BY <1>3, <1>4, <1>5 DEF Owed, Coming
  <2>2. yaw_gap \in -2..2 /\ yaw_gap + Owed(yaw_step, TRUE, out_yaw_dir') \in -2..2
    BY <2>1, OwesOneStep, SmallGap DEF Edge, GapTypes
  <2>3. out_yaw_en' <=> Pulsing /\ TRUE
    BY <1>2, <1>5
  <2>4. yaw_gap' + (IF ~yaw_step' \/ (TRUE /\ Rise' <= pulse_timer')
                    THEN Signed(out_yaw_dir') ELSE 0)
          = yaw_gap + Owed(yaw_step, TRUE, out_yaw_dir')
    BY <1>1, <1>2, <2>2, <2>3, YawPassesOn, Zenon DEF Edge, PulseInv
  <2>5. pitch_step /\ pitch_gap = 0
    BY <1>3, <1>4, <1>5 DEF Coming, Edge, GapTypes
  <2>6. pitch_step'
    BY <1>2, <1>5, <2>5 DEF Edge, Surroundings, LinesMove, LineEdge
  <2>7. pitch_gap' = 0
    <3>1. PitchChange = 0 /\ 0 + 0 = 0
      BY <1>1, <2>5, <2>6 DEF PitchChange, Step, Counted
    <3>. QED
      BY <1>1, <2>5, <3>1, TallyKeeps, NotCapped DEF Edge
  <2>8. AlongYaw' /\ spiral_dir' = spiral_dir
    BY <1>1, <1>5 DEF AlongYaw
  <2>9. yaw_gap' + (IF Coming(yaw_step, AlongYaw)' THEN Unit(spiral_dir')[1] ELSE 0)
          = Unit(spiral_dir')[1] - 1
    BY <1>3, <1>5, <2>1, <2>4, <2>8, Zenon DEF Coming
  <2>10. pitch_gap' + (IF Coming(pitch_step, ~AlongYaw)' THEN Unit(spiral_dir')[2] ELSE 0)
           = Unit(spiral_dir')[2]
    <3>1. 0 + 0 = 0
      OBVIOUS
    <3>. QED
      BY <1>3, <1>5, <2>6, <2>7, <2>8, <3>1, Zenon DEF Coming
  <2>. QED
    BY <2>6, <2>8, <2>9, <2>10, Zenon DEF SearchGap
<1>6. CASE ~AlongYaw
  <2>1. pitch_gap + Owed(pitch_step, TRUE, out_pitch_dir') = Signed(out_pitch_dir')
    BY <1>3, <1>4, <1>6 DEF Owed, Coming
  <2>2. pitch_gap \in -2..2 /\ pitch_gap + Owed(pitch_step, TRUE, out_pitch_dir') \in -2..2
    BY <2>1, OwesOneStep, SmallGap DEF Edge, GapTypes
  <2>3. out_pitch_en' <=> Pulsing /\ TRUE
    BY <1>2, <1>6
  <2>4. pitch_gap' + (IF ~pitch_step' \/ (TRUE /\ Rise' <= pulse_timer')
                      THEN Signed(out_pitch_dir') ELSE 0)
          = pitch_gap + Owed(pitch_step, TRUE, out_pitch_dir')
    BY <1>1, <1>2, <2>2, <2>3, PitchPassesOn, Zenon DEF Edge, PulseInv
  <2>5. yaw_step /\ yaw_gap = -1
    BY <1>3, <1>4, <1>6 DEF Coming, Edge, GapTypes
  <2>6. yaw_step'
    BY <1>2, <1>6, <2>5 DEF Edge, Surroundings, LinesMove, LineEdge
  <2>7. yaw_gap' = -1
    <3>1. YawChange = 0 /\ -1 + 0 = -1
      BY <1>1, <2>5, <2>6 DEF YawChange, Step, Counted
    <3>. QED
      BY <1>1, <2>5, <3>1, TallyKeeps, NotCapped DEF Edge
  <2>8. ~AlongYaw' /\ spiral_dir' = spiral_dir
    BY <1>1, <1>6 DEF AlongYaw
  <2>9. pitch_gap' + (IF Coming(pitch_step, ~AlongYaw)' THEN Unit(spiral_dir')[2] ELSE 0)
          = Unit(spiral_dir')[2]
    BY <1>3, <1>6, <2>1, <2>4, <2>8, Zenon DEF Coming
  <2>10. yaw_gap' + (IF Coming(yaw_step, AlongYaw)' THEN Unit(spiral_dir')[1] ELSE 0)
           = Unit(spiral_dir')[1] - 1
    <3>1. -1 + 0 = 0 - 1
      OBVIOUS
    <3>. QED
      BY <1>3, <1>6, <2>6, <2>7, <2>8, <3>1, Zenon DEF Coming
  <2>. QED
    BY <2>6, <2>8, <2>9, <2>10, Zenon DEF SearchGap
<1>. QED
  BY <1>5, <1>6

LEMMA SearchGapStep ==
  ASSUME Edge, SearchGap PROVE SearchGap'
<1> SUFFICES ASSUME state' = "SEARCHING" PROVE SearchGap'
  BY DEF SearchGap
<1>1. (~on_target /\ StartSearch) \/ (state = "SEARCHING" /\ Spiral(step_tick))
  BY DEF Edge, ControlEdge, BootUp, IdleWait, TrackTarget, TrackNothing, Acquire, GiveUp,
         ArriveHome, WalkHome
<1>2. CASE ~on_target /\ StartSearch
  <2>1. Settled /\ Opens
    BY <1>2 DEF Edge, PulseInv, StillAtStart, StartSearch, Opens
  <2>2. /\ RunTimer(FALSE) /\ (out_yaw_en' <=> FALSE) /\ (out_pitch_en' <=> FALSE)
        /\ pos_x' = pos_x /\ pos_y' = pos_y /\ spiral_dir' = 0
    BY <1>2, <2>1 DEF StartSearch, outs, Settled, RunTimer
  <2>3. /\ yaw_step' /\ pitch_step' /\ ~(Rise' <= pulse_timer')
        /\ YawChange = 0 /\ PitchChange = 0
    BY <2>1, <2>2, StillOwesNothing DEF Counted
  <2>4. yaw_gap' = 0 /\ pitch_gap' = 0
    BY <2>1, <2>3, TallyOpens DEF Edge
  <2>. QED
    BY <2>2, <2>3, <2>4 DEF SearchGap, Coming, Unit
<1>3. CASE state = "SEARCHING" /\ Spiral(step_tick)
  BY <1>3, SearchTick, SearchGoesOn
<1>. QED
  BY <1>1, <1>2, <1>3

\* The tick that exhausts a search is one of its own: a spiral begins with a leg.
LEMMA GaveUpGapStep ==
  ASSUME Edge, SearchGap, GaveUpGap PROVE GaveUpGap'
<1> SUFFICES ASSUME state' = "SEARCHING", Exhausted' PROVE yaw_gap' = -1 /\ pitch_gap' = 0
  BY DEF GaveUpGap
<1>1. (~on_target /\ StartSearch) \/ (state = "SEARCHING" /\ Spiral(step_tick))
  BY DEF Edge, ControlEdge, BootUp, IdleWait, TrackTarget, TrackNothing, Acquire, GiveUp,
         ArriveHome, WalkHome
<1>2. CASE ~on_target /\ StartSearch
  BY <1>2, LegAssumption, ControllerAssumption DEF StartSearch, Exhausted
<1>3. CASE state = "SEARCHING" /\ Spiral(step_tick) /\ step_tick
  BY <1>3, SearchTick
<1>4. CASE state = "SEARCHING" /\ Spiral(step_tick) /\ ~step_tick
  BY <1>4 DEF Spiral, Exhausted, spiral
<1>. QED
  BY <1>1, <1>2, <1>3, <1>4

\* The walk of an axis home: it counts a step at a tick and owes it then, until it is
\* at zero.
LEMMA YawWalks ==
  ASSUME Edge, state = "RETURNING", HomeGap(yaw_gap + 1, yaw_step, pos_x),
         WalkHome(0, pos_y < 0, step_tick)
  PROVE  HomeGap(yaw_gap + 1, yaw_step, pos_x)'
<1>1. /\ ~Opens /\ pos_x \in Int /\ pos_x' \in Int
      /\ (out_yaw_dir' <=> pos_x < 0) /\ (out_yaw_en' <=> Pulsing /\ pos_x # 0)
      /\ (out_pitch_en' => Pulsing) /\ out_yaw_dir' \in BOOLEAN
  <2>1. pos_x \in Int /\ pos_x' \in Int
    BY PosAssumption DEF Edge, TypeOK, Pos
  <2>2. out_yaw_dir' \in BOOLEAN /\ out_yaw_en' \in BOOLEAN /\ out_pitch_en' \in BOOLEAN
    BY DEF Edge, TypeOK
  <2>3. ~Opens
    BY DEF WalkHome, Opens
  <2>4. /\ out_yaw_dir' = (pos_x < 0) /\ out_yaw_en' = (Pulsing /\ pos_x # 0)
        /\ (out_pitch_en' => Pulsing)
    BY <2>2 DEF WalkHome
  <2>. QED
    BY <2>1, <2>2, <2>3, <2>4
<1>2. Signed(out_yaw_dir') = Signed(pos_x < 0)
  BY <1>1 DEF Signed
<1>3. CASE pos_x = 0
  <2>1. pos_x' = 0 /\ ~out_yaw_en'
    BY <1>1, <1>3 DEF WalkHome, Towards
  <2>2. yaw_step /\ yaw_gap + 1 \in -1..1
    BY <1>3 DEF HomeGap
  <2>3. yaw_step'
    BY <2>1, <2>2 DEF Edge, Surroundings, LinesMove, LineEdge
  <2>4. yaw_gap + YawChange = yaw_gap
    BY <1>3, <2>1, <2>2, <2>3 DEF YawChange, Step, Counted, Edge, GapTypes
  <2>5. yaw_gap \in -2..2
    BY <2>2 DEF Edge, GapTypes
  <2>6. yaw_gap' = yaw_gap
    BY <1>1, <2>4, <2>5, TallyKeeps, NotCapped DEF Edge
  <2>. QED
    BY <2>1, <2>2, <2>3, <2>6 DEF HomeGap
<1>4. CASE pos_x # 0 /\ step_tick
  <2>1. Settled /\ ~(Rise <= pulse_timer)
    BY <1>4, SettledOwes DEF Edge, PulseInv, StillAtStart
  <2>2. RunTimer(TRUE) /\ (out_yaw_en' <=> FALSE) /\ (out_pitch_en' <=> FALSE)
    BY <1>1, <1>4, <2>1 DEF WalkHome, RunTimer, Settled
  <2>3. yaw_step' /\ Rise' <= pulse_timer' /\ YawChange = 0 - Counted(pos_x, pos_x')
    BY <2>1, <2>2, StartsStill, NewPulseOwes DEF Edge
  <2>4. /\ Counted(pos_x, pos_x') = Signed(pos_x < 0)
        /\ pos_x' # 0 => Signed(pos_x' < 0) = Signed(pos_x < 0)
    BY <1>1, <1>4, PosAssumption
    DEF WalkHome, Towards, Succ, Pred, Counted, Signed, Edge, TypeOK, Pos
  <2>5. yaw_gap + 1 \in {0, Signed(pos_x < 0)}
    <3>1. Owed(yaw_step, TRUE, pos_x < 0) = 0
      BY <2>1 DEF Owed, Coming, Settled
    <3>2. yaw_gap + 1 + 0 \in {0, Signed(pos_x < 0)}
      BY <1>4, <3>1, Zenon DEF HomeGap
    <3>3. yaw_gap \in Int
      BY DEF Edge, GapTypes
    <3>. QED
      BY <3>2, <3>3, OwesOneStep
  <2>6. yaw_gap + YawChange \in {-1, -1 - Signed(pos_x < 0)}
    BY <2>3, <2>4, <2>5, OwesOneStep DEF Edge, GapTypes
  <2>7. yaw_gap + YawChange \in -2..2
    BY <2>6, OwesOneStep
  <2>8. yaw_gap' \in {-1, -1 - Signed(pos_x < 0)}
    BY <1>1, <2>6, <2>7, TallyKeeps, NotCapped DEF Edge
  <2>9. \A way \in {-1, 1} : \A gap \in {-1, -1 - way} :
          gap + 1 \in -1..1 /\ gap + 1 + way \in {0, way}
    OBVIOUS
  <2>10. /\ yaw_gap' + 1 \in -1..1
         /\ yaw_gap' + 1 + Signed(pos_x < 0) \in {0, Signed(pos_x < 0)}
    BY <2>8, <2>9, OwesOneStep
  <2>. QED
    BY <2>3, <2>4, <2>10, Zenon DEF HomeGap, Owed, Coming
<1>5. CASE pos_x # 0 /\ ~step_tick
  <2>1. RunTimer(FALSE) /\ pos_x' = pos_x /\ (out_yaw_en' <=> Pulsing /\ TRUE)
    BY <1>1, <1>5 DEF WalkHome, RunTimer
  <2>2. yaw_gap + 1 + Owed(yaw_step, TRUE, out_yaw_dir') \in {0, Signed(out_yaw_dir')}
    BY <1>2, <1>5, Zenon DEF HomeGap, Owed
  <2>3. yaw_gap \in -2..2 /\ yaw_gap + Owed(yaw_step, TRUE, out_yaw_dir') \in -2..2
    <3>1. \A gap \in Int, way \in {-1, 1} : \A owed \in {0, way} :
            gap + 1 + owed \in {0, way} => gap \in -2..2 /\ gap + owed \in -2..2
      OBVIOUS
    <3>. QED
      BY <2>2, <3>1, OwesOneStep DEF Edge, GapTypes
  <2>4. out_yaw_dir' \in BOOLEAN
    BY <1>1
  <2>5. yaw_gap' + (IF ~yaw_step' \/ (TRUE /\ Rise' <= pulse_timer')
                    THEN Signed(out_yaw_dir') ELSE 0)
          = yaw_gap + Owed(yaw_step, TRUE, out_yaw_dir')
    BY <1>1, <2>1, <2>3, <2>4, YawPassesOn, Zenon DEF Edge, PulseInv
  <2>6. Owed(yaw_step, TRUE, pos_x < 0)'
          = IF ~yaw_step' \/ (TRUE /\ Rise' <= pulse_timer')
            THEN Signed(out_yaw_dir') ELSE 0
    BY <1>2, <2>1, Zenon DEF Owed, Coming
  <2>7. \A way \in {-1, 1} : 0 \in Int /\ way \in Int /\ \A owed \in {0, way} : owed \in Int
    OBVIOUS
  <2>8. PICK owed \in Int : owed = Owed(yaw_step, TRUE, out_yaw_dir')
    BY <2>7, OwesOneStep, Zenon
  <2>9. PICK owes \in Int : owes = Owed(yaw_step, TRUE, pos_x < 0)'
    BY <2>6, <2>7, OwesOneStep, Zenon
  <2>10. yaw_gap' + 1 + owes = yaw_gap + 1 + owed
    <3>1. yaw_gap' + owes = yaw_gap + owed
      BY <2>5, <2>6, <2>8, <2>9, Zenon
    <3>2. yaw_gap \in Int /\ yaw_gap' \in Int
      BY DEF Edge, GapTypes
    <3> DEFINE Shifts(gap, next) == next + owes = gap + owed => next + 1 + owes = gap + 1 + owed
    <3>3. \A gap, next \in Int : Shifts(gap, next)
      OBVIOUS
    <3>4. Shifts(yaw_gap, yaw_gap')
      <4> HIDE DEF Shifts
      <4>. QED
        BY <3>2, <3>3, Zenon
    <3>. QED
      BY <3>1, <3>4, Zenon
  <2>11. yaw_gap' + 1 + Owed(yaw_step, TRUE, pos_x < 0)' \in {0, Signed(pos_x < 0)}
    BY <1>2, <2>2, <2>8, <2>9, <2>10, Zenon
  <2>. QED
    BY <1>5, <2>1, <2>11 DEF HomeGap
<1>. QED
  BY <1>3, <1>4, <1>5

LEMMA PitchWalks ==
  ASSUME Edge, state = "RETURNING", HomeGap(pitch_gap, pitch_step, pos_y),
         WalkHome(0, pos_y < 0, step_tick)
  PROVE  HomeGap(pitch_gap, pitch_step, pos_y)'
<1>1. /\ ~Opens /\ pos_y \in Int /\ pos_y' \in Int
      /\ (out_pitch_dir' <=> pos_y < 0) /\ (out_pitch_en' <=> Pulsing /\ pos_y # 0)
      /\ (out_yaw_en' => Pulsing) /\ out_pitch_dir' \in BOOLEAN
  <2>1. pos_y \in Int /\ pos_y' \in Int
    BY PosAssumption DEF Edge, TypeOK, Pos
  <2>2. out_pitch_dir' \in BOOLEAN /\ out_pitch_en' \in BOOLEAN /\ out_yaw_en' \in BOOLEAN
    BY DEF Edge, TypeOK
  <2>3. ~Opens
    BY DEF WalkHome, Opens
  <2>4. /\ out_pitch_dir' = (pos_y < 0) /\ out_pitch_en' = (Pulsing /\ pos_y # 0)
        /\ (out_yaw_en' => Pulsing)
    BY <2>2 DEF WalkHome
  <2>. QED
    BY <2>1, <2>2, <2>3, <2>4
<1>2. Signed(out_pitch_dir') = Signed(pos_y < 0)
  BY <1>1 DEF Signed
<1>3. CASE pos_y = 0
  <2>1. pos_y' = 0 /\ ~out_pitch_en'
    BY <1>1, <1>3 DEF WalkHome, Towards
  <2>2. pitch_step /\ pitch_gap \in -1..1
    BY <1>3 DEF HomeGap
  <2>3. pitch_step'
    BY <2>1, <2>2 DEF Edge, Surroundings, LinesMove, LineEdge
  <2>4. pitch_gap + PitchChange = pitch_gap
    BY <1>3, <2>1, <2>2, <2>3 DEF PitchChange, Step, Counted
  <2>5. pitch_gap \in -2..2
    BY <2>2
  <2>6. pitch_gap' = pitch_gap
    BY <1>1, <2>4, <2>5, TallyKeeps, NotCapped DEF Edge
  <2>. QED
    BY <2>1, <2>2, <2>3, <2>6 DEF HomeGap
<1>4. CASE pos_y # 0 /\ step_tick
  <2>1. Settled /\ ~(Rise <= pulse_timer)
    BY <1>4, SettledOwes DEF Edge, PulseInv, StillAtStart
  <2>2. RunTimer(TRUE) /\ (out_pitch_en' <=> FALSE) /\ (out_yaw_en' <=> FALSE)
    BY <1>1, <1>4, <2>1 DEF WalkHome, RunTimer, Settled
  <2>3. pitch_step' /\ Rise' <= pulse_timer' /\ PitchChange = 0 - Counted(pos_y, pos_y')
    BY <2>1, <2>2, StartsStill, NewPulseOwes DEF Edge
  <2>4. /\ Counted(pos_y, pos_y') = Signed(pos_y < 0)
        /\ pos_y' # 0 => Signed(pos_y' < 0) = Signed(pos_y < 0)
    BY <1>1, <1>4, PosAssumption
    DEF WalkHome, Towards, Succ, Pred, Counted, Signed, Edge, TypeOK, Pos
  <2>5. pitch_gap \in {0, Signed(pos_y < 0)}
    <3>1. Owed(pitch_step, TRUE, pos_y < 0) = 0
      BY <2>1 DEF Owed, Coming, Settled
    <3>2. pitch_gap + 0 \in {0, Signed(pos_y < 0)}
      BY <1>4, <3>1, Zenon DEF HomeGap
    <3>3. pitch_gap \in Int
      BY DEF Edge, GapTypes
    <3>. QED
      BY <3>2, <3>3, OwesOneStep
  <2>6. pitch_gap + PitchChange \in {0, 0 - Signed(pos_y < 0)}
    BY <2>3, <2>4, <2>5, OwesOneStep
  <2>7. pitch_gap + PitchChange \in -2..2
    BY <2>6, OwesOneStep
  <2>8. pitch_gap' \in {0, 0 - Signed(pos_y < 0)}
    BY <1>1, <2>6, <2>7, TallyKeeps, NotCapped DEF Edge
  <2>9. \A way \in {-1, 1} : \A gap \in {0, 0 - way} : gap \in -1..1 /\ gap + way \in {0, way}
    OBVIOUS
  <2>10. pitch_gap' \in -1..1 /\ pitch_gap' + Signed(pos_y < 0) \in {0, Signed(pos_y < 0)}
    BY <2>8, <2>9, OwesOneStep
  <2>. QED
    BY <2>3, <2>4, <2>10, Zenon DEF HomeGap, Owed, Coming
<1>5. CASE pos_y # 0 /\ ~step_tick
  <2>1. RunTimer(FALSE) /\ pos_y' = pos_y /\ (out_pitch_en' <=> Pulsing /\ TRUE)
    BY <1>1, <1>5 DEF WalkHome, RunTimer
  <2>2. pitch_gap + Owed(pitch_step, TRUE, out_pitch_dir') \in {0, Signed(out_pitch_dir')}
    BY <1>2, <1>5, Zenon DEF HomeGap, Owed
  <2>3. pitch_gap \in -2..2 /\ pitch_gap + Owed(pitch_step, TRUE, out_pitch_dir') \in -2..2
    BY <2>2, OwesOneStep, SmallGap DEF Edge, GapTypes
  <2>4. out_pitch_dir' \in BOOLEAN
    BY <1>1
  <2>5. pitch_gap' + (IF ~pitch_step' \/ (TRUE /\ Rise' <= pulse_timer')
                    THEN Signed(out_pitch_dir') ELSE 0)
          = pitch_gap + Owed(pitch_step, TRUE, out_pitch_dir')
    BY <1>1, <2>1, <2>3, <2>4, PitchPassesOn, Zenon DEF Edge, PulseInv
  <2>6. pitch_gap' + Owed(pitch_step, TRUE, pos_y < 0)' \in {0, Signed(pos_y < 0)}
    BY <1>2, <2>1, <2>2, <2>5, Zenon DEF Owed, Coming
  <2>. QED
    BY <1>5, <2>1, <2>6 DEF HomeGap
<1>. QED
  BY <1>3, <1>4, <1>5

LEMMA ReturnGapStep ==
  ASSUME Edge, GaveUpGap, ReturnGap PROVE ReturnGap'
<1> SUFFICES ASSUME state' = "RETURNING" PROVE ReturnGap'
  BY DEF ReturnGap
<1>1. \/ state = "SEARCHING" /\ GiveUp
      \/ state = "RETURNING" /\ WalkHome(0, pos_y < 0, step_tick)
  BY DEF Edge, ControlEdge, BootUp, IdleWait, TrackTarget, StartSearch, TrackNothing, Acquire,
         Spiral, ArriveHome
<1>2. CASE state = "SEARCHING" /\ GiveUp
  <2>1. /\ yaw_step /\ pitch_step /\ ~out_yaw_en' /\ ~out_pitch_en' /\ ~Opens
        /\ pos_x' = pos_x /\ pos_y' = pos_y /\ yaw_gap = -1 /\ pitch_gap = 0
    BY <1>2 DEF GiveUp, outs, Edge, PulseInv, StillAtEnd, Opens, GaveUpGap
  <2>2. yaw_step' /\ pitch_step'
    BY <2>1, QuietLines DEF Edge
  <2>3. YawChange = 0 /\ PitchChange = 0
    BY <2>1, <2>2 DEF YawChange, PitchChange, Step, Counted
  <2>4. yaw_gap' = -1 /\ pitch_gap' = 0
    <3>1. -1 + 0 = -1 /\ 0 + 0 = 0
      OBVIOUS
    <3>. QED
      BY <2>1, <2>3, <3>1, TallyKeeps, NotCapped DEF Edge
  <2>5. HomeGap(yaw_gap + 1, yaw_step, pos_x)'
    BY <2>2, <2>4 DEF HomeGap, Owed, Signed
  <2>6. HomeGap(pitch_gap, pitch_step, pos_y)'
    BY <2>2, <2>4 DEF HomeGap, Owed, Signed
  <2>. QED
    BY <2>5, <2>6 DEF ReturnGap
<1>3. CASE state = "RETURNING" /\ WalkHome(0, pos_y < 0, step_tick)
  BY <1>3, YawWalks, PitchWalks DEF ReturnGap
<1>. QED
  BY <1>1, <1>2, <1>3

-----------------------------------------------------------------------------
(* The invariant of the account, and what it says.                         *)

LEMMA GapStep ==
  ASSUME Edge, BlindTrackingIsIdle, GapInv PROVE GapInv'
BY BootGapStep, TrackGapStep, HandOverGapStep, SearchGapStep, GaveUpGapStep,
   ReturnGapStep DEF GapInv

LEMMA AccountInitial == AccountInit => PulseInv /\ GapTypes /\ GapInv
<1> SUFFICES ASSUME AccountInit PROVE PulseInv /\ GapTypes /\ GapInv
  OBVIOUS
<1> USE DEF AccountInit, TransmitterInit, CtlInit, DriverInit
<1>1. Rise = 1
  BY DEF Rise
<1>2. InputsOrdered /\ LowOnce /\ StillAtEnd /\ BootYaw
  BY <1>1 DEF InputsOrdered, LowOnce, StillAtEnd, BootYaw
<1>3. InTime
  <2>1. Deadline = TICK_LIMIT
    BY StepConstants DEF Deadline
  <2>. QED
    BY <1>1, <2>1, StepConstants DEF InTime, Pulsing
<1>4. StillAtStart
  BY DEF StillAtStart
<1>5. GapTypes
  <2>1. yaw_gap = 0 /\ pitch_gap = 0
    OBVIOUS
  <2>2. by_packet \in BOOLEAN
    BY Zenon
  <2>. QED
    BY <2>1, <2>2 DEF GapTypes
<1>6. BootGap
  <2>1. Owed(pitch_step, TRUE, TRUE) = 1
    BY DEF Owed, Coming, Signed
  <2>2. yaw_gap = 0 /\ pitch_gap = 0 /\ ~yaw_step
    OBVIOUS
  <2>3. 0 + 1 = 1
    OBVIOUS
  <2>4. pitch_gap + Owed(pitch_step, TRUE, TRUE) = 1
    BY <2>1, <2>2, <2>3, Zenon
  <2>5. yaw_gap = IF yaw_step THEN -1 ELSE 0
    BY <2>2, Zenon
  <2>. QED
    BY <2>4, <2>5, Zenon DEF BootGap
<1>7. TrackGap /\ HandOverGap /\ SearchGap /\ GaveUpGap /\ ReturnGap
  BY DEF TrackGap, HandOverGap, SearchGap, GaveUpGap, ReturnGap
<1>. QED
  BY <1>2, <1>3, <1>4, <1>5, <1>6, <1>7 DEF PulseInv, GapInv

\* The account only watches: it is of a run of the board.
LEMMA AccountIsBoard == AccountSpec => TransmitterSpec
<1>1. AccountInit => TransmitterInit
  BY DEF AccountInit
<1>2. [AccountNext]_accountVars => [TransmitterNext]_txVars
  BY DEF AccountNext, accountVars, TransmitterNext
<1>. QED
  BY <1>1, <1>2, PTL DEF AccountSpec, TransmitterSpec

AccountInv == /\ TransmitterTypeOK /\ BlindTrackingIsIdle
              /\ PulseInv /\ GapTypes /\ GapInv

LEMMA EdgeOfBoard ==
  ASSUME TransmitterTypeOK, TransmitterTypeOK', BlindTrackingIsIdle,
         PulseInv, GapTypes, AccountNext
  PROVE  Edge
<1>1. PulseTypes /\ PulseTypes'
  BY DEF TransmitterTypeOK, TypeOK, PulseTypes, Packet, on_target
<1>2. Surroundings /\ ControlEdge
  BY SurroundingsMove, ControlEdges DEF AccountNext, PulseInv
<1>3. PulseInv'
  BY PulseStep DEF AccountNext
<1>4. GapTypes'
  BY GapTypesStep DEF AccountNext
<1>. QED
  BY <1>1, <1>2, <1>3, <1>4 DEF Edge, AccountNext, TransmitterTypeOK

LEMMA AccountStep ==
  ASSUME TransmitterTypeOK, TransmitterTypeOK', BlindTrackingIsIdle, BlindTrackingIsIdle',
         PulseInv, GapTypes, GapInv, [AccountNext]_accountVars
  PROVE  PulseInv' /\ GapTypes' /\ GapInv'
<1>1. CASE AccountNext
  BY <1>1, EdgeOfBoard, GapStep DEF Edge
<1>2. CASE UNCHANGED accountVars
  <2> USE <1>2 DEF accountVars, txVars, ctlVars, driverVars
  <2>1. PulseInv'
    BY DEF PulseInv, InputsOrdered, LowOnce, InTime, StillAtStart, StillAtEnd, BootYaw,
           Settled, Pulsing, Rise, Deadline, Exhausted, on_target
  <2>2. GapTypes'
    BY DEF GapTypes
  <2>3. BootGap' /\ HandOverGap'
    BY DEF GapInv, BootGap, HandOverGap, OneAtMost, Owed, Coming, Rise
  <2>4. TrackGap'
    BY DEF GapInv, TrackGap, Owed, Coming, Rise
  <2>5. SearchGap'
    BY DEF GapInv, SearchGap, AlongYaw, Coming, Rise
  <2>6. GaveUpGap'
    BY DEF GapInv, GaveUpGap, Exhausted
  <2>7. ReturnGap'
    BY DEF GapInv, ReturnGap, HomeGap, Owed, Coming, Rise
  <2>. QED
    BY <2>1, <2>2, <2>3, <2>4, <2>5, <2>6, <2>7 DEF GapInv
<1>. QED
  BY <1>1, <1>2

\* The invariant holds of every run of the board on which no button is touched.
THEOREM AccountSafe == AccountSpec => []AccountInv
<1>1. AccountSpec => [](TransmitterTypeOK /\ BlindTrackingIsIdle)
  BY AccountIsBoard, BoardTypeCorrect, BoardSafe, PTL
<1>2. AccountInit => PulseInv /\ GapTypes /\ GapInv
  BY AccountInitial
<1>3. (TransmitterTypeOK /\ BlindTrackingIsIdle) /\ (TransmitterTypeOK /\ BlindTrackingIsIdle)'
      /\ (PulseInv /\ GapTypes /\ GapInv) /\ [AccountNext]_accountVars
        => (PulseInv /\ GapTypes /\ GapInv)'
  BY AccountStep
<1>4. AccountSpec => [](PulseInv /\ GapTypes /\ GapInv)
  BY <1>1, <1>2, <1>3, PTL DEF AccountSpec
<1>5. TransmitterTypeOK /\ BlindTrackingIsIdle /\ PulseInv /\ GapTypes /\ GapInv => AccountInv
  BY DEF AccountInv
<1>. QED
  BY <1>1, <1>4, <1>5, PTL

\* In stillness nothing is owed.
LEMMA SettledIsPaid ==
  ASSUME TransmitterTypeOK, Settled
  PROVE  ~(Rise <= pulse_timer) /\ yaw_step /\ pitch_step
<1>1. Rise \in Nat /\ Rise >= 1 /\ pulse_timer = 0
  BY StepConstants DEF TransmitterTypeOK, TypeOK, Settled, Pulsing, Rise
<1>. QED
  BY <1>1 DEF Settled

\* Between two packets of a track the counters follow the motors (search_controller.sv
\* with driver.sv): only at a soft limit do they part, by the step not counted.
THEOREM TrackCountsSteps == AccountSpec => []TrackCounts
<1>1. AccountInv => TrackCounts
  <2> SUFFICES ASSUME AccountInv, state = "TRACKING", by_packet, Settled
               PROVE  TrackCounts
    BY DEF TrackCounts
  <2>1. /\ AtLimit(yaw_gap + 0, pos_x, YAW_LIMIT)
        /\ AtLimit(pitch_gap + 0, pos_y, PITCH_LIMIT)
    BY SettledIsPaid DEF AccountInv, GapInv, TrackGap, Owed, Coming
  <2>2. yaw_gap + 0 = yaw_gap /\ pitch_gap + 0 = pitch_gap
    BY DEF AccountInv, GapTypes
  <2>. QED
    BY <2>1, <2>2, Zenon DEF AtLimit, TrackCounts
<1>. QED
  BY <1>1, AccountSafe, PTL

\* A boot loses no step: at each of its ticks the motors are where they were relative to
\* the counters, after the step both make at power-up.
THEOREM BootCountsSteps == AccountSpec => []BootCounts
<1>1. AccountInv => BootCounts
  <2> SUFFICES ASSUME AccountInv, state = "BOOT_UP", step_tick
               PROVE  yaw_gap = -1 /\ pitch_gap = 1
    BY DEF BootCounts
  <2>1. Settled
    BY DEF AccountInv, PulseInv, StillAtStart
  <2>2. ~(Rise <= pulse_timer) /\ yaw_step /\ pitch_step
    BY <2>1, SettledIsPaid DEF AccountInv
  <2>. QED
    BY <2>2 DEF AccountInv, GapInv, BootGap, Owed, Coming, GapTypes
<1>. QED
  BY <1>1, AccountSafe, PTL

\* In a search the laser is off the place the counters have by the difference of the
\* present direction of the spiral and the first one, and by no more.
THEOREM SearchIsSkew == AccountSpec => []SearchSkew
<1>1. AccountInv => SearchSkew
  <2> SUFFICES ASSUME AccountInv, state = "SEARCHING", Settled
               PROVE  /\ yaw_gap = Unit(spiral_dir)[1] - Unit(0)[1]
                      /\ pitch_gap = Unit(spiral_dir)[2] - Unit(0)[2]
    BY DEF SearchSkew
  <2>1. ~(Rise <= pulse_timer) /\ yaw_step /\ pitch_step
    BY SettledIsPaid DEF AccountInv
  <2>2. yaw_gap = Unit(spiral_dir)[1] - 1 /\ pitch_gap = Unit(spiral_dir)[2]
    BY <2>1 DEF AccountInv, GapInv, SearchGap, Coming, GapTypes
  <2>3. spiral_dir \in 0..3
    BY DEF AccountInv, TransmitterTypeOK, TypeOK
  <2>. QED
    BY <2>2, <2>3 DEF Unit
<1>. QED
  BY <1>1, AccountSafe, PTL

\* A packet that ends a search or a return at any moment of a step costs each axis one
\* step at most.
THEOREM HandOverLosesOneStep == AccountSpec => []HandOverLosesAtMostOne
<1>1. AccountInv => HandOverLosesAtMostOne
  BY DEF AccountInv, GapInv, HandOverGap, OneAtMost, HandOverLosesAtMostOne
<1>. QED
  BY <1>1, AccountSafe, PTL

\* From the loss of the target to home: yaw ends one step behind where its counter has
\* it, and each motor within one step of that.
THEOREM HomingErrorBounded == AccountSpec => HomingError
<1>1. ASSUME AccountInv, AccountInv', AccountNext,
             state = "RETURNING", state' = "IDLE_WAIT"
      PROVE  yaw_gap + 1 \in -1..1 /\ pitch_gap \in -1..1
  <2>1. Edge
    BY <1>1, EdgeOfBoard DEF AccountInv
  <2>2. pos_x = 0 /\ pos_y = 0
    BY <1>1, <2>1
    DEF Edge, ControlEdge, BootUp, IdleWait, StartSearch, TrackNothing, Acquire, WalkHome
  <2>. QED
    BY <1>1, <2>2 DEF AccountInv, GapInv, ReturnGap, HomeGap
<1>2. AccountInv /\ AccountInv' /\ [AccountNext]_accountVars
        => [state = "RETURNING" /\ state' = "IDLE_WAIT" =>
              yaw_gap + 1 \in -1..1 /\ pitch_gap \in -1..1]_accountVars
  BY <1>1
<1>. QED
  BY <1>2, AccountSafe, PTL DEF AccountSpec, HomingError
=============================================================================
