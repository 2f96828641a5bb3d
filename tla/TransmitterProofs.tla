--------------------------- MODULE TransmitterProofs ---------------------------
(***************************************************************************)
(* The transmitter board implements the controller's specification: what   *)
(* laser_top.sv wires to the controller's inputs are always levels that    *)
(* specification allows, and no step of the board changes the controller's *)
(* registers but as one of its edges.  All that is proved of the           *)
(* controller therefore holds on the board.                                *)
(***************************************************************************)
EXTENDS Transmitter, SearchControllerProofs

\* The inductive invariant: the wires between the blocks carry levels.
Wires ==
  /\ step_tick \in BOOLEAN /\ rx_done \in BOOLEAN /\ ir_data \in Packet
  /\ clk_count \in 0..TICK_LIMIT /\ quiet \in 0..PACKET_GAP - 1
  /\ div_count \in 0..DIVIDER /\ clk0 \in BOOLEAN
  /\ yaw_step \in BOOLEAN /\ pitch_step \in BOOLEAN
  /\ pressed \subseteq Keys

\* The byte of the reset receiver is a packet like any other.
LEMMA NoPacketIsPacket == NoPacket \in Packet
BY DEF NoPacket, Packet

\* The wires carry levels after power-up.
LEMMA WiresInit == TransmitterInit => Wires
<1> SUFFICES ASSUME TransmitterInit PROVE Wires
  OBVIOUS
<1> USE DEF TransmitterInit
<1>1. clk_count \in 0..TICK_LIMIT /\ quiet \in 0..PACKET_GAP - 1
  BY TransmitterAssumption
<1>2. div_count \in 0..DIVIDER
  BY DividerAssumption DEF DriverInit
<1>3. /\ clk0 \in BOOLEAN /\ yaw_step \in BOOLEAN /\ pitch_step \in BOOLEAN
      /\ step_tick \in BOOLEAN /\ rx_done \in BOOLEAN
  BY DEF DriverInit
<1>. QED
  BY <1>1, <1>2, <1>3, NoPacketIsPacket DEF Wires

\* The tick generator, the receiver and the driver keep to their levels.
LEMMA ClockKeepsWires == ASSUME Wires, Clock PROVE Wires'
<1> USE DEF Wires, Clock
<1>1. clk_count' \in 0..TICK_LIMIT /\ step_tick' \in BOOLEAN
  BY TransmitterAssumption DEF Tick
<1>2. rx_done' \in BOOLEAN /\ ir_data' \in Packet
  BY NoPacketIsPacket, TransmitterAssumption DEF Receive
<1>3. quiet' \in 0..PACKET_GAP - 1
  BY TransmitterAssumption DEF Receive
<1>4. div_count' \in 0..DIVIDER /\ clk0' \in BOOLEAN
  <2>1. div_count' \in 0..DIVIDER
    BY DividerAssumption DEF Drive, DivideClock
  <2>2. clk0' \in BOOLEAN
    BY Zenon DEF Drive, DivideClock
  <2>. QED
    BY <2>1, <2>2
<1>5. yaw_step' \in BOOLEAN /\ pitch_step' \in BOOLEAN
  BY DEF Drive, DriveLine
<1>. QED
  BY <1>1, <1>2, <1>3, <1>4, <1>5

\* Every step of the board leaves levels on the wires.
LEMMA WiresStep == Wires /\ [TransmitterNext]_txVars => Wires'
<1> SUFFICES ASSUME Wires, [TransmitterNext]_txVars PROVE Wires'
  OBVIOUS
<1>1. CASE Clock
  BY <1>1, ClockKeepsWires
<1>2. CASE Press
  BY <1>2 DEF Press, PressReset, PressHome, Wires, driverVars
<1>3. CASE Release
  BY <1>3 DEF Release, Wires, driverVars
<1>4. CASE UNCHANGED txVars
  BY <1>4 DEF txVars, Wires, driverVars
<1>. QED
  BY <1>1, <1>2, <1>3, <1>4 DEF TransmitterNext

\* The command that laser_top makes of a packet is one the controller accepts.
LEMMA CorrectionIsCommand == ir_data \in Packet => Correction \in Command
BY DEF Packet, Correction, Command

\* What the board does to the controller's registers is a step of the
\* controller or none.
LEMMA ControlIsNext == ASSUME Wires, Control PROVE Next
<1>1. step_tick \in BOOLEAN /\ rx_done \in BOOLEAN /\ on_target \in BOOLEAN
  BY DEF Wires, Packet, on_target
<1>2. Correction \in Command
  BY CorrectionIsCommand DEF Wires
<1>3. CASE Reset \/ ReturnHome
  BY <1>3 DEF Next
<1>4. CASE BootUp(step_tick) \/ ForcedReturn(step_tick)
  BY <1>1, <1>4 DEF Next, ClockEdge
<1>5. CASE IdleWait(on_target)
  BY <1>1, <1>5 DEF Next, ClockEdge
<1>6. CASE Tracking(on_target, rx_done, Correction)
  BY <1>1, <1>2, <1>6 DEF Next, ClockEdge
<1>7. CASE Searching(on_target, step_tick) \/ Returning(on_target, step_tick)
  BY <1>1, <1>7 DEF Next, ClockEdge
<1>. QED
  BY <1>3, <1>4, <1>5, <1>6, <1>7 DEF Control

\* Every step of the board is a step of the controller or leaves it alone.
LEMMA BoardStep == Wires /\ [TransmitterNext]_txVars => [Next]_ctlVars
<1> SUFFICES ASSUME Wires, [TransmitterNext]_txVars PROVE [Next]_ctlVars
  OBVIOUS
<1>1. CASE Clock
  BY <1>1, ControlIsNext DEF Clock
<1>2. CASE PressReset
  BY <1>2 DEF PressReset, Next
<1>3. CASE PressHome \/ Release
  BY <1>3 DEF PressHome, Release
<1>4. CASE UNCHANGED txVars
  BY <1>4 DEF txVars
<1>. QED
  BY <1>1, <1>2, <1>3, <1>4 DEF TransmitterNext, Press

\* The wires carry levels at all times.
THEOREM WiresAlways == TransmitterSpec => []Wires
BY WiresInit, WiresStep, PTL DEF TransmitterSpec

\* The board implements the controller's specification, whoever presses the
\* buttons when and whatever packets arrive.
THEOREM BoardImplementsController == TransmitterSpec => Spec
<1>1. TransmitterInit => CtlInit
  BY DEF TransmitterInit
<1>. QED
  BY <1>1, BoardStep, WiresAlways, PTL DEF TransmitterSpec, Spec

\* Every register of the board keeps its type.
THEOREM BoardTypeCorrect == TransmitterSpec => []TransmitterTypeOK
<1>1. TypeOK /\ Wires => TransmitterTypeOK
  BY DEF Wires, TransmitterTypeOK
<1>. QED
  BY <1>1, BoardImplementsController, TypeCorrect, WiresAlways, PTL

\* On the board too, the flag agrees with the state and blind tracking is still.
THEOREM BoardSafe == TransmitterSpec => [](SeenFlag /\ BlindTrackingIsIdle)
BY BoardImplementsController, SeenFlagAgrees, BlindTrackingStill, PTL
=============================================================================
