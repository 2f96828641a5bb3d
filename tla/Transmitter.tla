----------------------------- MODULE Transmitter -----------------------------
(***************************************************************************)
(* The transmitter board (laser_top.sv): the search controller, the step   *)
(* tick, the step driver and the two push buttons, clocked together by     *)
(* clk50.  The IR receiver appears as what it gives the controller: a      *)
(* latched command byte, and rx_done for one cycle when a packet replaces  *)
(* it.                                                                     *)
(***************************************************************************)
EXTENDS SearchController, StepDriver

CONSTANTS
  TICK_LIMIT,   \* clk_count at which a step tick is raised
  Packets,      \* the command bytes the receiver board may send
  PACKET_GAP,   \* least number of cycles between two packets
  Keys          \* the buttons somebody may press: "reset", "home"

\* The bits of ir_data, as rx_state.sv packs them.
Packet == [on_target : BOOLEAN, dir_y : BOOLEAN, move_y : BOOLEAN,
           dir_x : BOOLEAN, move_x : BOOLEAN]

ASSUME TransmitterAssumption ==
  /\ TICK_LIMIT \in Nat \ {0}
  /\ Packets \subseteq Packet
  /\ PACKET_GAP \in Nat \ {0}
  /\ Keys \subseteq {"reset", "home"}

VARIABLES
  clk_count, step_tick,   \* the step tick generator
  ir_data, rx_done,       \* the output of the IR receiver
  quiet,                  \* cycles before the next packet can be complete
  pressed                 \* the buttons that are down

txVars == <<ctlVars, driverVars, clk_count, step_tick, ir_data, rx_done,
            quiet, pressed>>

NoPacket == [on_target |-> FALSE, dir_y |-> FALSE, move_y |-> FALSE,
             dir_x |-> FALSE, move_x |-> FALSE]

on_target == ir_data.on_target

\* laser_top inverts the direction bits: the receiver reports where the laser
\* is, the motors have to move it back.
Correction == [yaw_en |-> ir_data.move_x, yaw_dir |-> ~ir_data.dir_x,
               pitch_en |-> ir_data.move_y, pitch_dir |-> ~ir_data.dir_y]

TransmitterInit ==
  /\ CtlInit /\ DriverInit
  /\ clk_count = 0 /\ step_tick = FALSE
  /\ ir_data = NoPacket /\ rx_done = FALSE /\ quiet = 0
  /\ pressed = {}

\* Mutant: the tick comes a cycle late.
TickLate ==
  /\ clk_count' = IF clk_count > TICK_LIMIT THEN 0 ELSE clk_count + 1
  /\ step_tick' = (clk_count > TICK_LIMIT)

Tick ==
  /\ clk_count' = IF clk_count >= TICK_LIMIT THEN 0 ELSE clk_count + 1
  /\ step_tick' = (clk_count >= TICK_LIMIT)

\* The IR receiver: reset clears the byte; a packet replaces it, no sooner than
\* a frame lasts after the one before.
Receive ==
  \/ /\ "reset" \in pressed
     /\ ir_data' = NoPacket /\ rx_done' = FALSE
     /\ quiet' = PACKET_GAP - 1
  \/ /\ "reset" \notin pressed /\ quiet = 0
     /\ ir_data' \in Packets /\ rx_done' = TRUE
     /\ quiet' = PACKET_GAP - 1
  \/ /\ "reset" \notin pressed
     /\ rx_done' = FALSE
     /\ quiet' = IF quiet = 0 THEN 0 ELSE quiet - 1
     /\ UNCHANGED ir_data

\* The controller at a clock edge; reset masks return_home, which masks the
\* state machine.
Control ==
  \/ "reset" \in pressed /\ Reset
  \/ "reset" \notin pressed /\ "home" \in pressed /\ ReturnHome
  \/ pressed = {} /\ \/ BootUp(step_tick)
                     \/ IdleWait(on_target)
                     \/ Tracking(on_target, rx_done, Correction)
                     \/ Searching(on_target, step_tick)
                     \/ Returning(on_target, step_tick)
                     \/ ForcedReturn(step_tick)

Clock ==
  /\ Control /\ Tick /\ Receive
  /\ Drive(out_yaw_en', out_pitch_en')
  /\ UNCHANGED pressed

\* KEY[0]: the controller resets at once, the rest with the clock.
PressReset ==
  /\ "reset" \in Keys \ pressed
  /\ pressed' = pressed \cup {"reset"}
  /\ Reset
  /\ UNCHANGED <<driverVars, clk_count, step_tick, ir_data, rx_done, quiet>>

PressHome ==
  /\ "home" \in Keys \ pressed
  /\ pressed' = pressed \cup {"home"}
  /\ UNCHANGED <<ctlVars, driverVars, clk_count, step_tick, ir_data, rx_done,
                 quiet>>

Release ==
  /\ \E key \in pressed : pressed' = pressed \ {key}
  /\ UNCHANGED <<ctlVars, driverVars, clk_count, step_tick, ir_data, rx_done,
                 quiet>>

Press == PressReset \/ PressHome

TransmitterNext == Clock \/ Press \/ Release

TransmitterSpec == TransmitterInit /\ [][TransmitterNext]_txVars

\* The oscillator never stops.
FairTransmitter == TransmitterSpec /\ WF_txVars(Clock)

-----------------------------------------------------------------------------
TransmitterTypeOK ==
  /\ TypeOK
  /\ div_count \in 0..DIVIDER /\ clk0 \in BOOLEAN
  /\ yaw_step \in BOOLEAN /\ pitch_step \in BOOLEAN
  /\ clk_count \in 0..TICK_LIMIT /\ step_tick \in BOOLEAN
  /\ ir_data \in Packet /\ rx_done \in BOOLEAN
  /\ quiet \in 0..PACKET_GAP - 1
  /\ pressed \subseteq Keys

\* A search and a return home end: in finding the target, at home, or by a
\* button, whatever the packets in between.
SearchEnds ==
  [](state \in {"SEARCHING", "RETURNING"} =>
       <>(state \notin {"SEARCHING", "RETURNING"}))

\* Once nobody presses a button any more, a forced return comes home, from any
\* position of the counters.
ForcedReturnEnds ==
  <>[](pressed = {}) => [](state = "FORCED_RETURN" => <>(state = "IDLE_WAIT"))
=============================================================================
