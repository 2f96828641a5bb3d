----------------------------- MODULE IrLinkProofs -----------------------------
(***************************************************************************)
(* Theorems about the link, for every value of its timing constants, every *)
(* set of packets, and any use of the reset buttons that Resettable allows:*)
(* the types of both ends and of the air between them, the rest after a    *)
(* burst of packets and, where no burst of light is lost and the two ends  *)
(* fit each other (LinkTiming), that the receiver reads what is sent: no   *)
(* packet is corrupted, and the link implements Mailbox; and where the     *)
(* board of ir_tx is reset and packets keep their distance (ResetTiming),  *)
(* that a packet cut off costs the receiver at most the last bit of one.   *)
(* The transmitter is ir_tx here, on the receiver board, and the receiver  *)
(* ir_rx, on the transmitter board.  What holds of ir_rx alone is          *)
(* IrRxProofs.                                                             *)
(***************************************************************************)
EXTENDS IrLink, IrRxProofs

\* What the proofs need of the constants of the transmitter.
LEMMA TxConstants ==
  /\ BIT_COUNT_RESET_VAL \in Nat /\ BURST_LIMIT \in 0..7
  /\ TX_LIMIT \in Nat /\ JITTER \in Nat /\ LOSS_MAX \in Nat
  /\ Packets \subseteq Byte
BY IrTxAssumption, LinkAssumption

\* The cleared byte is a byte.
LEMMA TxZeroIsByte == Zero \in Byte
BY DEF Zero, Byte

\* What a state does when its level goes on, and when it ends.
LEMMA LevelType ==
  ASSUME IrTxTypeOK, NEW at, NEW level \in BOOLEAN, NEW limit, NEW next \in TxState,
         Hold(at, level, limit) \/ Leave(at, level, limit, next)
  PROVE  tx_state' \in TxState /\ tx_tick' \in Nat /\ message' \in BOOLEAN
<1>1. tx_tick' \in Nat
  BY DEF Hold, Leave, IrTxTypeOK
<1>2. message' \in BOOLEAN /\ tx_state' \in TxState
  BY Zenon DEF Hold, Leave, IrTxTypeOK
<1>. QED
  BY <1>1, <1>2

\* The numbers of the transmitter on an edge.
LEMMA TxEdgeNumbers ==
  ASSUME IrTxTypeOK, NEW start, NEW byte, TxEdge(start, byte)
  PROVE  bit_count' \in Bits /\ burst_counter' \in 0..7
<1> USE DEF IrTxTypeOK
<1>1. CASE TxIdle(start, byte) \/ Header \/ DataBurst \/ Wait
  <2>1. bit_count' \in {bit_count, BIT_COUNT_RESET_VAL}
    BY <1>1 DEF TxIdle, Header, DataBurst, Wait
  <2>2. burst_counter' = burst_counter
    BY <1>1 DEF TxIdle, Header, DataBurst, Wait
  <2>. QED
    BY <2>1, <2>2, TxConstants DEF Bits
<1>2. CASE DataSpace
  <2>1. \/ bit_count' \in {bit_count, 0}
        \/ bit_count # 0 /\ bit_count' = bit_count - 1
    BY <1>2 DEF DataSpace
  <2>2. burst_counter' = burst_counter
    BY <1>2 DEF DataSpace
  <2>. QED
    BY <2>1, <2>2, TxConstants DEF Bits
<1>3. CASE Eof \/ LongWait
  <2>1. bit_count' = bit_count
    BY <1>3 DEF Eof, LongWait
  <2>2. burst_counter' \in {burst_counter, (burst_counter + 1) % 8, 0}
    BY <1>3 DEF Eof, LongWait
  <2>. QED
    BY <2>1, <2>2
<1>. QED
  BY <1>1, <1>2, <1>3 DEF TxEdge

\* Each state of the transmitter keeps its registers in their types.
LEMMA TxEdgeType ==
  ASSUME IrTxTypeOK, NEW start, NEW byte \in Byte, TxEdge(start, byte)
  PROVE  IrTxTypeOK'
<1>1. data_out' \in Byte /\ tx_done' \in BOOLEAN
  BY Zenon DEF IrTxTypeOK, TxEdge, TxIdle, Header, DataBurst, DataSpace, Eof, Wait,
               LongWait
<1>2. tx_state' \in TxState /\ tx_tick' \in Nat /\ message' \in BOOLEAN
  <2>1. CASE TxIdle(start, byte)
    <3>1. tx_state' \in TxState /\ message' \in BOOLEAN
      BY <2>1 DEF TxIdle, TxState, IrTxTypeOK
    <3>2. tx_tick' \in {tx_tick, 0}
      BY <2>1 DEF TxIdle
    <3>. QED
      BY <3>1, <3>2 DEF IrTxTypeOK
  <2>2. CASE Header
    <3>1. "HEADER_SPACE" \in TxState /\ "DATA_BURST" \in TxState
      BY DEF TxState
    <3>. QED
      BY <2>2, <3>1, LevelType, Zenon DEF Header
  <2>3. CASE DataBurst
    <3>1. "DATA_SPACE" \in TxState
      BY DEF TxState
    <3>. QED
      BY <2>3, <3>1, LevelType, Zenon DEF DataBurst
  <2>4. CASE DataSpace
    <3>1. (IF bit_count = 0 THEN "EOF" ELSE "DATA_BURST") \in TxState
      BY DEF TxState
    <3>. QED
      BY <2>4, <3>1, LevelType, Zenon DEF DataSpace
  <2>5. CASE Eof
    <3>1. "WAIT" \in TxState
      BY DEF TxState
    <3>. QED
      BY <2>5, <3>1, LevelType, Zenon DEF Eof
  <2>6. CASE Wait
    <3>1. (IF burst_counter >= BURST_LIMIT THEN "LONG_WAIT" ELSE "IDLE") \in TxState
      BY DEF TxState
    <3>. QED
      BY <2>6, <3>1, LevelType, Zenon DEF Wait
  <2>7. CASE LongWait
    <3>1. "IDLE" \in TxState
      BY DEF TxState
    <3>. QED
      BY <2>7, <3>1, LevelType, Zenon DEF LongWait
  <2>. QED
    BY <2>1, <2>2, <2>3, <2>4, <2>5, <2>6, <2>7 DEF TxEdge
<1>. QED
  BY <1>1, <1>2, TxEdgeNumbers DEF IrTxTypeOK

\* So does an edge under reset.
LEMMA TxResetType ==
  ASSUME IrTxTypeOK, TxReset PROVE IrTxTypeOK'
<1>1. tx_state' \in TxState /\ tx_tick' \in Nat /\ tx_done' \in BOOLEAN
  BY DEF TxReset, TxState
<1>2. bit_count' \in Bits /\ data_out' \in Byte /\ message' \in BOOLEAN
      /\ burst_counter' \in 0..7
  BY Zenon DEF IrTxTypeOK, TxReset
<1>. QED
  BY <1>1, <1>2, Zenon DEF IrTxTypeOK

\* The receiver keeps its types on an edge, under reset or not.
LEMMA RxClockType ==
  ASSUME IrRxTypeOK, NEW level \in BOOLEAN, RxEdge(level) \/ RxReset(level)
  PROVE  IrRxTypeOK'
<1>1. CASE RxEdge(level)
  <2>1. /\ rx_state' \in RxState /\ tick_count' \in 0..TICK_MAX
        /\ rx_bits' \in RxBits /\ shift_reg' \in RxByte /\ recv' \in BOOLEAN
    BY <1>1, FrameType DEF RxEdge
  <2>. QED
    BY <1>1, <2>1 DEF RxEdge, Synchronise, IrRxTypeOK
<1>2. CASE RxReset(level)
  <2>1. rx_bits' \in RxBits /\ tick_count' \in 0..TICK_MAX
    BY <1>2, IrRxAssumption DEF RxReset, RxBits
  <2>. QED
    BY <1>2, <2>1, ZeroIsByte DEF RxReset, Synchronise, IrRxTypeOK, RxState
<1>. QED
  BY <1>1, <1>2

\* The state of the air and the timer, apart from the two ends.
BetweenTypeOK ==
  /\ tx_timer \in 0..TX_LIMIT /\ tx_pulse \in BOOLEAN
  /\ ir_input \in BOOLEAN /\ late \in 0..JITTER
  /\ blocked \in BOOLEAN /\ losses \in 0..LOSS_MAX

\* An edge of the clock keeps what lies between the ends in its type.
LEMMA BetweenType ==
  ASSUME BetweenTypeOK, message \in BOOLEAN, Timer, Air
  PROVE  BetweenTypeOK'
<1>1. tx_timer' \in 0..TX_LIMIT /\ tx_pulse' \in BOOLEAN
  BY TxConstants DEF BetweenTypeOK, Timer
<1>2. late' \in 0..JITTER
  BY TxConstants DEF BetweenTypeOK, Air
<1>3. ir_input' \in BOOLEAN
  BY DEF BetweenTypeOK, Air
<1>4. blocked' \in BOOLEAN
  BY Zenon DEF BetweenTypeOK, Air
<1>5. losses' \in 0..LOSS_MAX
  BY TxConstants DEF BetweenTypeOK, Air
<1>. QED
  BY <1>1, <1>2, <1>3, <1>4, <1>5 DEF BetweenTypeOK

\* A cycle of both boards.
LEMMA ClockType == LinkTypeOK /\ Clock => LinkTypeOK'
<1> SUFFICES ASSUME LinkTypeOK, Clock PROVE LinkTypeOK'
  OBVIOUS
<1>1. IrTxTypeOK'
  <2>1. CASE "tx" \in resetting
    BY <2>1, TxResetType DEF Clock, LinkTypeOK
  <2>2. CASE "tx" \notin resetting /\ Started
    <3>1. PICK packet \in Packets : TxEdge(TRUE, packet)
      BY <2>2 DEF Clock
    <3>2. packet \in Byte
      BY TxConstants
    <3>. QED
      BY <3>1, <3>2, TxEdgeType DEF LinkTypeOK
  <2>3. CASE "tx" \notin resetting /\ ~Started
    <3>1. TxEdge(tx_pulse, data_out)
      BY <2>3 DEF Clock
    <3>2. data_out \in Byte
      BY DEF LinkTypeOK, IrTxTypeOK
    <3>. QED
      BY <3>1, <3>2, TxEdgeType DEF LinkTypeOK
  <2>. QED
    BY <2>1, <2>2, <2>3
<1>2. IrRxTypeOK'
  BY RxClockType DEF Clock, LinkTypeOK
<1>3. BetweenTypeOK'
  BY BetweenType DEF Clock, LinkTypeOK, IrTxTypeOK, BetweenTypeOK
<1>4. (resetting \subseteq exposed)'
  BY DEF Clock, LinkTypeOK
<1>. QED
  BY <1>1, <1>2, <1>3, <1>4 DEF LinkTypeOK, BetweenTypeOK

\* A board pressed or released, or a stutter.
LEMMA ButtonType ==
  LinkTypeOK /\ (Press \/ Release \/ UNCHANGED linkVars) => LinkTypeOK'
<1> SUFFICES ASSUME LinkTypeOK, Press \/ Release \/ UNCHANGED linkVars
             PROVE  LinkTypeOK'
  OBVIOUS
<1>1. UNCHANGED <<irTxVars, irRxVars, tx_timer, tx_pulse, airVars, exposed>>
  BY DEF Press, Release, linkVars
<1>2. IrTxTypeOK'
  BY <1>1 DEF LinkTypeOK, IrTxTypeOK, irTxVars
<1>3. IrRxTypeOK'
  BY <1>1 DEF LinkTypeOK, IrRxTypeOK, irRxVars
<1>4. BetweenTypeOK'
  BY <1>1 DEF LinkTypeOK, BetweenTypeOK, airVars
<1>5. (resetting \subseteq exposed)'
  BY DEF LinkTypeOK, Press, Release, linkVars
<1>. QED
  BY <1>2, <1>3, <1>4, <1>5 DEF LinkTypeOK, BetweenTypeOK

\* Power-up is well typed.
LEMMA LinkTypeInit == LinkInit => LinkTypeOK
<1> SUFFICES ASSUME LinkInit PROVE LinkTypeOK
  OBVIOUS
<1>1. IrTxTypeOK
  <2>1. bit_count \in Bits /\ tx_tick \in Nat /\ burst_counter \in 0..7
    BY TxConstants DEF LinkInit, IrTxInit, Bits
  <2>2. tx_state \in TxState
    BY DEF LinkInit, IrTxInit, TxState
  <2>. QED
    BY <2>1, <2>2, TxZeroIsByte, Zenon DEF LinkInit, IrTxInit, IrTxTypeOK
<1>2. IrRxTypeOK
  <2>1. rx_bits \in RxBits /\ tick_count \in 0..TICK_MAX
    BY IrRxAssumption DEF LinkInit, IrRxInit, RxBits
  <2>. QED
    BY <2>1, ZeroIsByte DEF LinkInit, IrRxInit, IrRxTypeOK, RxState
<1>3. BetweenTypeOK
  <2>1. tx_timer \in 0..TX_LIMIT /\ late \in 0..JITTER /\ losses \in 0..LOSS_MAX
    BY TxConstants DEF LinkInit
  <2>2. tx_pulse \in BOOLEAN /\ ir_input \in BOOLEAN /\ blocked \in BOOLEAN
    BY DEF LinkInit
  <2>. QED
    BY <2>1, <2>2, Zenon DEF BetweenTypeOK
<1>. QED
  BY <1>1, <1>2, <1>3 DEF LinkInit, LinkTypeOK, BetweenTypeOK

\* Every register of both ends of the link keeps its type, in any jitter, loss
\* and use of the reset buttons.
THEOREM LinkTypeCorrect == LinkSpec => []LinkTypeOK
<1>1. LinkTypeOK /\ [LinkNext]_linkVars => LinkTypeOK'
  BY ClockType, ButtonType DEF LinkNext
<1>. QED
  BY <1>1, LinkTypeInit, PTL DEF LinkSpec

-----------------------------------------------------------------------------
\* Why burst_counter >= BURST_LIMIT is seen in time: outside the waits it is
\* below the limit.  A reset of the board in a wait would break this.
Rests ==
  /\ "tx" \notin exposed /\ burst_counter \in Nat
  /\ burst_counter <= BURST_LIMIT
  /\ tx_state \notin {"WAIT", "LONG_WAIT"} => burst_counter < BURST_LIMIT

\* A cycle of the transmitter that is not reset.
LEMMA TxEdgeRests ==
  ASSUME BURST_LIMIT > 0, IrTxTypeOK, Rests, NEW start, NEW byte,
         TxEdge(start, byte), exposed' = exposed
  PROVE  Rests'
<1> USE TxConstants DEF Rests, Hold, Leave
<1>1. CASE TxIdle(start, byte) \/ Header \/ DataBurst \/ DataSpace
  <2>1. burst_counter' = burst_counter /\ tx_state \notin {"WAIT", "LONG_WAIT"}
    BY <1>1 DEF TxIdle, Header, DataBurst, DataSpace
  <2>. QED
    BY <2>1
<1>2. CASE Eof
  <2>1. \/ burst_counter' = burst_counter
        \/ burst_counter' = burst_counter + 1 /\ tx_state' = "WAIT"
    BY <1>2 DEF Eof
  <2>2. tx_state = "EOF"
    BY <1>2 DEF Eof
  <2>. QED
    BY <2>1, <2>2
<1>3. CASE Wait
  BY <1>3 DEF Wait
<1>4. CASE LongWait
  BY <1>4 DEF LongWait
<1>. QED
  BY <1>1, <1>2, <1>3, <1>4 DEF TxEdge

\* Every step of the link keeps the packets of a burst below the limit.
LEMMA RestsStep ==
  ASSUME BURST_LIMIT > 0, LinkTypeOK, Rests, [LinkNext]_linkVars
  PROVE  Rests'
<1>1. CASE Clock
  <2>1. "tx" \notin resetting /\ exposed' = exposed
    BY <1>1 DEF Clock, LinkTypeOK, Rests
  <2>2. PICK start, byte : TxEdge(start, byte)
    BY <1>1, <2>1 DEF Clock
  <2>. QED
    BY <2>1, <2>2, TxEdgeRests DEF LinkTypeOK
<1>2. CASE Press \/ Release \/ UNCHANGED linkVars
  BY <1>2 DEF Press, Release, linkVars, irTxVars, Rests
<1>. QED
  BY <1>1, <1>2 DEF LinkNext

\* ir_tx.sv rests after BURST_LIMIT packets, whatever happens to the other
\* board and to the light, as long as nobody can reset its own.
THEOREM RestsAlways ==
  ASSUME BURST_LIMIT > 0, \A boards \in Resettable : "tx" \notin boards
  PROVE  LinkSpec => []RestsAfterBurst
<1>1. LinkInit => Rests
  BY TxConstants DEF LinkInit, IrTxInit, Rests
<1>2. LinkTypeOK /\ Rests /\ [LinkNext]_linkVars => Rests'
  BY RestsStep
<1>3. Rests => RestsAfterBurst
  BY DEF Rests, RestsAfterBurst
<1>. QED
  BY <1>1, <1>2, <1>3, LinkTypeCorrect, PTL DEF LinkSpec

-----------------------------------------------------------------------------
\* How the two ends fit: every level outlasts the way through the air and the
\* synchroniser, a level that is read JITTER cycles too long or too short still
\* lies in the window that is meant for it and in no other, and none times out.
\* The values of ir_tx.sv and ir_rx.sv satisfy this for every jitter of up to
\* 7,000 cycles (140 us): what is left of DATA_BURST_MAX.
LinkTiming ==
  /\ JITTER + 5 <= TICK_HEADER_BURST /\ JITTER + 5 <= TICK_HEADER_SPACE
  /\ JITTER + 5 <= TICK_DATA_BURST /\ JITTER + 5 <= TICK_DATA_SPACE
  /\ JITTER + 5 <= TICK_WAIT_GAP /\ 4 <= TX_LIMIT
  /\ BURST_MIN + JITTER <= TICK_HEADER_BURST
  /\ TICK_HEADER_BURST + JITTER <= BURST_MAX
  /\ SPACE_MIN + JITTER <= TICK_HEADER_SPACE
  /\ TICK_HEADER_SPACE + JITTER <= SPACE_MAX
  /\ DATA_BURST_MIN + JITTER <= TICK_DATA_BURST
  /\ TICK_DATA_BURST + JITTER <= DATA_BURST_MAX
  /\ TICK_DATA_BURST + JITTER <= BIT_THRESHOLD
  /\ BIT_THRESHOLD + JITTER < TICK_DATA_SPACE
  /\ TICK_DATA_BURST + JITTER < BURST_MIN
  /\ TICK_HEADER_BURST + JITTER < TIMEOUT /\ TICK_HEADER_SPACE + JITTER < TIMEOUT
  /\ TICK_DATA_BURST + JITTER < TIMEOUT /\ TICK_DATA_SPACE + JITTER < TIMEOUT

\* The states that send light.
Lit == tx_state \in {"HEADER_BURST", "DATA_BURST", "EOF"}

\* The states of a packet, the gap after it included.
InPacket == tx_state \notin {"IDLE", "LONG_WAIT"}

\* The tick at which the present state of a packet ends, and that of the state
\* before it.
Limit ==
  CASE tx_state = "HEADER_BURST" -> TICK_HEADER_BURST
    [] tx_state = "HEADER_SPACE" -> TICK_HEADER_SPACE
    [] tx_state = "DATA_SPACE" -> Space(data_out[bit_count])
    [] tx_state = "WAIT" -> TICK_WAIT_GAP
    [] OTHER -> TICK_DATA_BURST

LastLimit ==
  CASE tx_state = "HEADER_SPACE" -> TICK_HEADER_BURST
    [] tx_state = "DATA_BURST" /\ bit_count = LAST_BIT -> TICK_HEADER_SPACE
    [] tx_state = "DATA_BURST" /\ bit_count # LAST_BIT -> Space(data_out[bit_count + 1])
    [] tx_state = "EOF" -> Space(data_out[0])
    [] OTHER -> TICK_DATA_BURST

\* The way of an edge: the transmitter is in a state with light (or darkness)
\* since k ticks.  The registers on the way show the state before or, each a
\* cycle after the one before it, the present one; line is low for light.
Way(lit, k, light, line, lag, sync0, sync) ==
  /\ light <=> IF k = 0 THEN ~lit ELSE lit
  /\ IF line <=> lit THEN k <= JITTER + 1 /\ lag = (IF k = 0 THEN 0 ELSE k - 1)
                     ELSE k >= 2 /\ lag = 0
  /\ IF sync0 <=> lit THEN k <= JITTER + 2 ELSE k >= 3 /\ ~(line <=> lit)
  /\ IF sync <=> lit THEN k <= JITTER + 3 ELSE k >= 4 /\ ~(sync0 <=> lit)

\* What the air makes of the light in a cycle.
Carried(light, line, lag, line2, lag2) ==
  \/ (line2 <=> ~light) /\ lag2 = 0
  \/ (line <=> light) /\ lag < JITTER /\ (line2 <=> line) /\ lag2 = lag + 1

\* Until the synchroniser has taken in the dark after power-up.
Waking(t) == tx_state = "IDLE" /\ ~tx_pulse /\ tx_timer <= t

\* Between packets it is dark everywhere.
Dark ==
  /\ ~message /\ ir_input /\ late = 0
  /\ ir_sync0 \/ Waking(0)
  /\ ir_sync \/ Waking(1)
  /\ prev_level \/ Waking(2)

\* prev_level is the last register on the way, unless a reset has just set it.
Heard ==
  \/ rx_state = "IDLE" /\ prev_level
  \/ IF prev_level <=> Lit THEN tx_tick <= JITTER + 4
                           ELSE tx_tick >= 5 /\ ~(ir_sync <=> Lit)

Light ==
  /\ ~blocked /\ losses = 0
  /\ IF InPacket
     THEN /\ tx_tick <= Limit /\ Heard
          /\ Way(Lit, tx_tick, message, ir_input, late, ir_sync0, ir_sync)
     ELSE Dark
  /\ tx_state = "EOF" => bit_count = 0
  /\ tx_state \in {"HEADER_BURST", "HEADER_SPACE"} => bit_count = LAST_BIT

-----------------------------------------------------------------------------
\* The receiver in a frame while the level it hears goes on.
LEMMA LevelGoesOn ==
  ASSUME IrRxTypeOK, rx_state \notin {"IDLE", "VALIDATE"}, tick_count < TIMEOUT,
         NEW level, RxEdge(level), ir_sync <=> prev_level
  PROVE  /\ rx_state' = rx_state /\ tick_count' = tick_count + 1
         /\ rx_bits' = rx_bits /\ shift_reg' = shift_reg
         /\ (prev_level' <=> prev_level) /\ ~done' /\ data' = data
<1>1. ~TimedOut /\ tick_count < TICK_MAX
  BY IrRxAssumption DEF TimedOut, IrRxTypeOK
<1>2. ir_sync = prev_level
  BY Zenon DEF IrRxTypeOK
<1>3. LevelHolds
  BY <1>1, <1>2, Zenon DEF RxEdge, Frame, Level
<1>4. ~done' /\ data' = data /\ prev_level' = ir_sync
  BY Zenon DEF RxEdge
<1>. QED
  BY <1>1, <1>2, <1>3, <1>4 DEF LevelHolds

\* The receiver in a frame when the level it hears ends.
LEMMA LevelGone ==
  ASSUME IrRxTypeOK, rx_state \notin {"IDLE", "VALIDATE"}, tick_count < TIMEOUT,
         NEW level, RxEdge(level), ~(ir_sync <=> prev_level)
  PROVE  LevelEnds /\ (prev_level' <=> ~prev_level) /\ ~done' /\ data' = data
<1>1. ~TimedOut
  BY IrRxAssumption DEF TimedOut, IrRxTypeOK
<1>2. ir_sync # prev_level
  OBVIOUS
<1>3. LevelEnds
  BY <1>1, <1>2, Zenon DEF RxEdge, Frame, Level
<1>4. ~done' /\ data' = data /\ prev_level' = ir_sync
  BY Zenon DEF RxEdge
<1>. QED
  BY <1>2, <1>3, <1>4, Zenon DEF IrRxTypeOK

\* The receiver in wait for a header: it sets out on every burst that begins.
LEMMA Awaits ==
  ASSUME IrRxTypeOK, rx_state = "IDLE", NEW level, RxEdge(level)
  PROVE  /\ ~done' /\ data' = data /\ (prev_level' <=> ir_sync)
         /\ IF prev_level /\ ~ir_sync
            THEN rx_state' = "HEADER_BURST" /\ tick_count' = 0
            ELSE rx_state' = "IDLE"
<1>1. ~TimedOut /\ rx_state # "VALIDATE"
  BY DEF TimedOut
<1>2. ~done' /\ data' = data /\ (prev_level' <=> ir_sync)
  BY <1>1, Zenon DEF RxEdge
<1>3. CASE ir_sync = prev_level
  <2>1. LevelHolds
    BY <1>1, <1>3, Zenon DEF RxEdge, Frame, Level
  <2>. QED
    BY <1>2, <1>3, <2>1, Zenon DEF LevelHolds, IrRxTypeOK
<1>4. CASE ir_sync # prev_level
  <2>1. LevelEnds
    BY <1>1, <1>4, Zenon DEF RxEdge, Frame, Level
  <2>2. Expected <=> prev_level
    BY DEF Expected
  <2>3. rx_state' = IF prev_level THEN "HEADER_BURST" ELSE "IDLE"
    BY <2>1, <2>2 DEF LevelEnds
  <2>4. tick_count' = 0
    BY <2>1 DEF LevelEnds
  <2>5. prev_level => ~ir_sync
    BY <1>4, Zenon DEF IrRxTypeOK
  <2>. QED
    BY <1>2, <2>3, <2>4, <2>5, Zenon
<1>. QED
  BY <1>3, <1>4

\* A complete frame is delivered in the next cycle.
LEMMA Delivers ==
  ASSUME IrRxTypeOK, rx_state = "VALIDATE", tick_count < TIMEOUT,
         NEW level, RxEdge(level)
  PROVE  /\ rx_state' = "IDLE" /\ done' /\ data' = shift_reg
         /\ (prev_level' <=> ir_sync)
<1>1. ~TimedOut
  BY IrRxAssumption DEF TimedOut, IrRxTypeOK
<1>2. rx_state' = "IDLE"
  BY <1>1, Zenon DEF RxEdge, Frame
<1>. QED
  BY <1>2, Zenon DEF RxEdge

\* A reset takes the receiver out of any frame.
LEMMA Forgets ==
  ASSUME NEW level, RxReset(level)
  PROVE  rx_state' = "IDLE" /\ prev_level' /\ ~done'
BY Zenon DEF RxReset

\* The bits received so far are the first ones of the byte on its way.
Received ==
  \A b \in RxBits : b < rx_bits => shift_reg[b] = data_out[b + (LAST_BIT + 1 - rx_bits)]

\* What the end of a level in its window does.
LEMMA HeaderBurstEnds ==
  ASSUME rx_state = "HEADER_BURST", LevelEnds
  PROVE  /\ Within(BURST_MIN, BURST_MAX) => rx_state' = "HEADER_SPACE"
         /\ ~Within(BURST_MIN, BURST_MAX) => rx_state' = "IDLE"
         /\ tick_count' = 0
<1>1. Expected <=> Within(BURST_MIN, BURST_MAX)
  BY DEF Expected
<1>. QED
  BY <1>1 DEF LevelEnds

LEMMA HeaderSpaceEnds ==
  ASSUME rx_state = "HEADER_SPACE", LevelEnds, Within(SPACE_MIN, SPACE_MAX)
  PROVE  rx_state' = "DATA_BURST" /\ rx_bits' = 0 /\ tick_count' = 0
<1>1. Expected
  BY DEF Expected
<1>. QED
  BY <1>1 DEF LevelEnds

LEMMA DataBurstEnds ==
  ASSUME rx_state = "DATA_BURST", LevelEnds, Within(DATA_BURST_MIN, DATA_BURST_MAX)
  PROVE  /\ rx_state' = "DATA_SPACE" /\ tick_count' = 0
         /\ rx_bits' = rx_bits /\ shift_reg' = shift_reg
<1>1. Expected
  BY DEF Expected
<1>. QED
  BY <1>1 DEF LevelEnds

LEMMA DataSpaceEnds ==
  ASSUME rx_state = "DATA_SPACE", LevelEnds
  PROVE  /\ rx_state' = IF rx_bits = LAST_BIT THEN "VALIDATE" ELSE "DATA_BURST"
         /\ tick_count' = 0
         /\ rx_bits' = IF rx_bits = LAST_BIT THEN rx_bits ELSE rx_bits + 1
         /\ shift_reg' = ShiftIn(tick_count > BIT_THRESHOLD)
<1>1. Expected
  BY DEF Expected
<1>2. rx_state' = IF rx_bits = LAST_BIT THEN "VALIDATE" ELSE "DATA_BURST"
  BY <1>1 DEF LevelEnds
<1>3. /\ tick_count' = 0
      /\ rx_bits' = IF rx_bits = LAST_BIT THEN rx_bits ELSE rx_bits + 1
      /\ shift_reg' = ShiftIn(tick_count > BIT_THRESHOLD)
  BY Zenon DEF LevelEnds
<1>. QED
  BY <1>2, <1>3

-----------------------------------------------------------------------------
\* The transmitter in a packet while its level goes on.
LEMMA SendsOn ==
  ASSUME IrTxTypeOK, InPacket, tx_tick < Limit, NEW start, NEW byte, TxEdge(start, byte)
  PROVE  /\ tx_state' = tx_state /\ tx_tick' = tx_tick + 1
         /\ bit_count' = bit_count /\ data_out' = data_out
         /\ message' <=> Lit
<1> USE DEF Hold, Leave, Limit, Lit, InPacket, IrTxTypeOK
<1>1. CASE Header
  BY <1>1, IrTxAssumption DEF Header
<1>2. CASE DataBurst
  BY <1>2, IrTxAssumption DEF DataBurst
<1>3. CASE DataSpace
  <2>1. tx_state = "DATA_SPACE" /\ tx_tick < Space(data_out[bit_count])
    BY <1>3 DEF DataSpace
  <2>2. Space(data_out[bit_count]) \in Nat
    BY IrTxAssumption DEF Space
  <2>3. ~(tx_tick >= Space(data_out[bit_count]))
    BY <2>1, <2>2
  <2>. QED
    BY <1>3, <2>1, <2>3 DEF DataSpace
<1>4. CASE Eof
  BY <1>4, IrTxAssumption DEF Eof
<1>5. CASE Wait
  BY <1>5, IrTxAssumption DEF Wait
<1>6. CASE TxIdle(start, byte) \/ LongWait
  BY <1>6 DEF TxIdle, LongWait
<1>. QED
  BY <1>1, <1>2, <1>3, <1>4, <1>5, <1>6 DEF TxEdge

\* The state that follows one of a packet.
Following(at) ==
  CASE at = "HEADER_BURST" -> {"HEADER_SPACE"}
    [] at = "DATA_BURST" -> {"DATA_SPACE"}
    [] at = "DATA_SPACE" -> IF bit_count = 0 THEN {"EOF"} ELSE {"DATA_BURST"}
    [] at = "EOF" -> {"WAIT"}
    [] at = "WAIT" -> {"IDLE", "LONG_WAIT"}
    [] OTHER -> {"DATA_BURST"}

\* The transmitter in a packet when its level ends.
LEMMA SendsNext ==
  ASSUME IrTxTypeOK, InPacket, tx_tick >= Limit, NEW start, NEW byte,
         TxEdge(start, byte)
  PROVE  /\ tx_state' \in Following(tx_state) /\ tx_tick' = 0
         /\ bit_count' = (IF tx_state = "DATA_SPACE" /\ bit_count # 0
                          THEN bit_count - 1 ELSE bit_count)
         /\ data_out' = data_out
         /\ message' <=> Lit
<1> USE DEF Hold, Leave, Limit, Lit, InPacket, IrTxTypeOK
<1>1. CASE Header
  BY <1>1, IrTxAssumption DEF Header, Following
<1>2. CASE DataBurst
  BY <1>2, IrTxAssumption DEF DataBurst, Following
<1>3. CASE DataSpace
  <2>1. tx_state = "DATA_SPACE" /\ tx_tick >= Space(data_out[bit_count])
    BY <1>3 DEF DataSpace
  <2>2. Space(data_out[bit_count]) \in Nat
    BY IrTxAssumption DEF Space
  <2>3. ~(tx_tick < Space(data_out[bit_count]))
    BY <2>1, <2>2
  <2>. QED
    BY <1>3, <2>1, <2>3 DEF DataSpace, Following
<1>4. CASE Eof
  BY <1>4, IrTxAssumption DEF Eof, Following
<1>5. CASE Wait
  BY <1>5, IrTxAssumption DEF Wait, Following
<1>6. CASE TxIdle(start, byte) \/ LongWait
  BY <1>6 DEF TxIdle, LongWait
<1>. QED
  BY <1>1, <1>2, <1>3, <1>4, <1>5, <1>6 DEF TxEdge

\* The transmitter between two packets.
LEMMA SendsNothing ==
  ASSUME ~InPacket, NEW start \in BOOLEAN, NEW byte, TxEdge(start, byte)
  PROVE  /\ ~message'
         /\ IF tx_state = "IDLE" /\ start
            THEN /\ tx_state' = "HEADER_BURST" /\ tx_tick' = 0 /\ data_out' = byte
                 /\ bit_count' = BIT_COUNT_RESET_VAL
            ELSE ~InPacket' /\ data_out' = data_out
         /\ tx_state = "LONG_WAIT" \/ start \/ tx_state' = "IDLE"
<1> USE DEF Hold, Leave, InPacket
<1>1. CASE TxIdle(start, byte)
  BY <1>1 DEF TxIdle
<1>2. CASE LongWait
  BY <1>2 DEF LongWait
<1>3. CASE Header \/ DataBurst \/ DataSpace \/ Eof \/ Wait
  BY <1>3 DEF Header, DataBurst, DataSpace, Eof, Wait
<1>. QED
  BY <1>1, <1>2, <1>3 DEF TxEdge

-----------------------------------------------------------------------------
\* The limits of the states, with what the timing says of them.
LEMMA LimitsFit ==
  ASSUME LinkTiming, IrTxTypeOK
  PROVE  /\ JITTER \in Nat
         /\ Limit \in Nat /\ JITTER + 5 <= Limit
         /\ LastLimit \in Nat /\ JITTER + 5 <= LastLimit
         /\ LastLimit + JITTER < TIMEOUT
         /\ tx_state # "WAIT" => Limit + JITTER < TIMEOUT
<1>1. \A bit : Space(bit) \in {TICK_DATA_SPACE, TICK_DATA_BURST}
  BY DEF Space
<1>2. /\ Limit \in {TICK_HEADER_BURST, TICK_HEADER_SPACE, TICK_DATA_BURST,
                    TICK_DATA_SPACE, TICK_WAIT_GAP}
      /\ tx_state # "WAIT" => Limit \in {TICK_HEADER_BURST, TICK_HEADER_SPACE,
                                         TICK_DATA_BURST, TICK_DATA_SPACE}
  BY <1>1 DEF Limit
<1>3. LastLimit \in {TICK_HEADER_BURST, TICK_HEADER_SPACE, TICK_DATA_BURST,
                     TICK_DATA_SPACE}
  BY <1>1 DEF LastLimit
<1>. QED
  BY <1>2, <1>3, IrTxAssumption, LinkAssumption DEF LinkTiming

\* While nothing is lost, the line follows the light, at most JITTER cycles late.
LEMMA AirCarries ==
  ASSUME LOSS_MAX = 0, LinkTypeOK, ~blocked, losses = 0, Air
  PROVE  /\ ~blocked' /\ losses' = 0
         /\ Carried(message, ir_input, late, ir_input', late')
<1>1. ~blocked' /\ losses' = 0
  BY DEF Air
<1>2. ir_input \in BOOLEAN /\ message \in BOOLEAN
  BY DEF LinkTypeOK, IrTxTypeOK
<1>3. (message /\ ~blocked) = message
  BY <1>2
<1>4. \/ ir_input' = ~(message /\ ~blocked) /\ late' = 0
      \/ /\ ir_input = (message /\ ~blocked)
         /\ late < JITTER /\ ir_input' = ir_input /\ late' = late + 1
  BY DEF Air
<1>5. \/ ir_input' = ~message /\ late' = 0
      \/ /\ ir_input = message
         /\ late < JITTER /\ ir_input' = ir_input /\ late' = late + 1
  BY <1>3, <1>4
<1>6. CASE ir_input' = ~message /\ late' = 0
  <2>1. ir_input' <=> ~message
    BY <1>6
  <2>. QED
    BY <1>1, <1>6, <2>1, Zenon DEF Carried
<1>7. CASE /\ ir_input = message
           /\ late < JITTER /\ ir_input' = ir_input /\ late' = late + 1
  BY <1>1, <1>7, Zenon DEF Carried
<1>. QED
  BY <1>5, <1>6, <1>7

\* A cycle of the link in which the board of ir_tx is not reset.
Sends(start, byte) ==
  /\ TxEdge(start, byte) /\ start \in BOOLEAN /\ (start => tx_pulse)
  /\ Timer /\ Air
  /\ RxReset(ir_input) \/ RxEdge(ir_input)

\* The way of the light through the receiver's synchroniser.
LEMMA Synchronises ==
  ASSUME LinkTypeOK, RxReset(ir_input) \/ RxEdge(ir_input)
  PROVE  /\ (ir_sync0' <=> ir_input) /\ (ir_sync' <=> ir_sync0)
         /\ \/ (prev_level' <=> ir_sync)
            \/ prev_level' /\ rx_state' = "IDLE"
<1>1. CASE RxReset(ir_input)
  BY <1>1, Zenon DEF RxReset, Synchronise
<1>2. CASE RxEdge(ir_input)
  BY <1>2, Zenon DEF RxEdge, Synchronise
<1>. QED
  BY <1>1, <1>2

\* The registers on the way have their types.
LEMMA WayTypes ==
  ASSUME LinkTypeOK
  PROVE  /\ Lit \in BOOLEAN /\ tx_tick \in Nat /\ message \in BOOLEAN
         /\ ir_input \in BOOLEAN /\ late \in Nat /\ ir_sync0 \in BOOLEAN
         /\ ir_sync \in BOOLEAN /\ prev_level \in BOOLEAN /\ JITTER \in Nat
<1>1. late \in Nat /\ JITTER \in Nat
  BY LinkAssumption DEF LinkTypeOK
<1>2. tx_tick \in Nat
  BY DEF LinkTypeOK, IrTxTypeOK
<1>3. Lit \in BOOLEAN
  BY DEF Lit
<1>4. /\ message \in BOOLEAN /\ ir_input \in BOOLEAN /\ ir_sync0 \in BOOLEAN
      /\ ir_sync \in BOOLEAN /\ prev_level \in BOOLEAN
  BY Zenon DEF LinkTypeOK, IrTxTypeOK, IrRxTypeOK
<1>. QED
  BY <1>1, <1>2, <1>3, <1>4

\* The light while the transmitter stays in a state of a packet.
LEMMA LightGoesOn ==
  ASSUME LOSS_MAX = 0, LinkTiming, LinkTypeOK, LinkTypeOK', Light, InPacket,
         tx_tick < Limit, NEW start, NEW byte, Sends(start, byte)
  PROVE  Light' /\ InPacket'
<1>1. /\ tx_state' = tx_state /\ tx_tick' = tx_tick + 1
      /\ bit_count' = bit_count /\ data_out' = data_out
      /\ message' <=> Lit
  BY SendsOn DEF LinkTypeOK, Sends
<1>2. (Lit' <=> Lit) /\ (InPacket' <=> InPacket) /\ Limit' = Limit
  BY <1>1 DEF Lit, InPacket, Limit
<1>3. /\ ~blocked' /\ losses' = 0
      /\ Carried(message, ir_input, late, ir_input', late')
  BY AirCarries DEF Light, Sends
<1>4. /\ (ir_sync0' <=> ir_input) /\ (ir_sync' <=> ir_sync0)
      /\ \/ (prev_level' <=> ir_sync)
         \/ prev_level' /\ rx_state' = "IDLE"
  BY Synchronises DEF Sends
<1>5. Way(Lit, tx_tick, message, ir_input, late, ir_sync0, ir_sync)
  BY DEF Light
<1>6. ir_input' \in BOOLEAN /\ late' \in Nat
  BY LinkAssumption DEF LinkTypeOK
<1>7. Way(Lit, tx_tick + 1, Lit, ir_input', late', ir_input, ir_sync0)
  <2>1. CASE Lit
    BY <1>3, <1>5, <1>6, <2>1, WayTypes DEF Way, Carried
  <2>2. CASE ~Lit
    BY <1>3, <1>5, <1>6, <2>2, WayTypes DEF Way, Carried
  <2>. QED
    BY <2>1, <2>2
<1>8. Way(Lit', tx_tick', message', ir_input', late', ir_sync0', ir_sync')
  BY <1>1, <1>2, <1>4, <1>7 DEF Way
<1>9. Heard'
  <2>1. IF ir_sync <=> Lit THEN tx_tick <= JITTER + 3
                           ELSE tx_tick >= 4 /\ ~(ir_sync0 <=> Lit)
    BY <1>5 DEF Way
  <2>2. IF ir_sync <=> Lit THEN tx_tick + 1 <= JITTER + 4
                           ELSE tx_tick + 1 >= 5 /\ ~(ir_sync0 <=> Lit)
    BY <2>1, WayTypes
  <2>. QED
    BY <1>1, <1>2, <1>4, <2>2 DEF Heard
<1>10. tx_tick' <= Limit'
  <2>1. Limit \in Nat /\ tx_tick \in Nat
    BY LimitsFit, WayTypes DEF LinkTypeOK
  <2>. QED
    BY <1>1, <1>2, <2>1
<1>11. /\ tx_state' = "EOF" => bit_count' = 0
       /\ tx_state' \in {"HEADER_BURST", "HEADER_SPACE"} => bit_count' = LAST_BIT
  BY <1>1, Zenon DEF Light
<1>. QED
  BY <1>2, <1>3, <1>8, <1>9, <1>10, <1>11, Zenon DEF Light

\* Where a level of a packet ends, every register on the way shows it.
LEMMA AllShow ==
  ASSUME LinkTiming, LinkTypeOK, Light, InPacket, tx_tick >= Limit
  PROVE  /\ (message <=> Lit) /\ (ir_input <=> ~Lit) /\ late = 0
         /\ (ir_sync0 <=> ~Lit) /\ (ir_sync <=> ~Lit)
         /\ (prev_level <=> ~Lit) \/ (rx_state = "IDLE" /\ prev_level)
<1>1. tx_tick >= JITTER + 5
  BY LimitsFit, WayTypes DEF LinkTypeOK
<1>2. Way(Lit, tx_tick, message, ir_input, late, ir_sync0, ir_sync) /\ Heard
  BY DEF Light
<1>. QED
  BY <1>1, <1>2, WayTypes DEF Way, Heard

\* Light and darkness take turns.
LEMMA TakeTurns ==
  ASSUME InPacket, tx_state' \in Following(tx_state), InPacket'
  PROVE  Lit' <=> ~Lit
BY DEF InPacket, Following, Lit

\* The light when the transmitter enters the next state of a packet.
LEMMA LightTurns ==
  ASSUME LOSS_MAX = 0, LinkTiming, LinkTypeOK, LinkTypeOK', Light, InPacket,
         tx_tick >= Limit, NEW start, NEW byte, Sends(start, byte), InPacket'
  PROVE  Light'
<1>1. /\ tx_state' \in Following(tx_state) /\ tx_tick' = 0
      /\ bit_count' = (IF tx_state = "DATA_SPACE" /\ bit_count # 0
                       THEN bit_count - 1 ELSE bit_count)
      /\ data_out' = data_out
      /\ message' <=> Lit
  BY SendsNext DEF LinkTypeOK, Sends
<1>2. Lit' <=> ~Lit
  BY <1>1, TakeTurns
<1>3. ~blocked' /\ losses' = 0 /\ Carried(message, ir_input, late, ir_input', late')
  BY AirCarries DEF Light, Sends
<1>4. /\ (ir_sync0' <=> ir_input) /\ (ir_sync' <=> ir_sync0)
      /\ \/ (prev_level' <=> ir_sync)
         \/ prev_level' /\ rx_state' = "IDLE"
  BY Synchronises DEF Sends
<1>5. (ir_input' <=> ~Lit) /\ late' = 0
  BY <1>3, AllShow, WayTypes DEF Carried
<1>6. Way(Lit', tx_tick', message', ir_input', late', ir_sync0', ir_sync')
  BY <1>1, <1>2, <1>4, <1>5, AllShow, WayTypes DEF Way
<1>7. Heard'
  BY <1>1, <1>2, <1>4, AllShow, WayTypes DEF Heard
<1>8. tx_tick' <= Limit'
  <2>1. Limit' \in Nat
    BY LimitsFit, IrTxAssumption DEF LinkTypeOK, Limit, Space
  <2>. QED
    BY <1>1, <2>1
<1>9. /\ tx_state' = "EOF" => bit_count' = 0
      /\ tx_state' \in {"HEADER_BURST", "HEADER_SPACE"} => bit_count' = LAST_BIT
  <2>1. CASE tx_state = "HEADER_BURST"
    BY <1>1, <2>1 DEF Light, Following
  <2>2. CASE tx_state = "DATA_SPACE"
    BY <1>1, <2>2 DEF Following
  <2>3. CASE tx_state \notin {"HEADER_BURST", "DATA_SPACE"}
    BY <1>1, <2>3 DEF Following
  <2>. QED
    BY <2>1, <2>2, <2>3
<1>. QED
  BY <1>3, <1>6, <1>7, <1>8, <1>9, Zenon DEF Light

\* The light when a packet is over.
LEMMA LightFades ==
  ASSUME LOSS_MAX = 0, LinkTiming, LinkTypeOK, LinkTypeOK', Light, InPacket,
         tx_tick >= Limit, NEW start, NEW byte, Sends(start, byte), ~InPacket'
  PROVE  Light' /\ tx_state = "WAIT" /\ prev_level /\ ir_sync
<1>1. /\ tx_state' \in Following(tx_state)
      /\ message' <=> Lit
  BY SendsNext DEF LinkTypeOK, Sends
<1>2. tx_state = "WAIT" /\ ~Lit
  BY <1>1 DEF InPacket, Following, Lit
<1>3. ~blocked' /\ losses' = 0 /\ Carried(message, ir_input, late, ir_input', late')
  BY AirCarries DEF Light, Sends
<1>4. /\ (ir_sync0' <=> ir_input) /\ (ir_sync' <=> ir_sync0)
      /\ \/ (prev_level' <=> ir_sync)
         \/ prev_level' /\ rx_state' = "IDLE"
  BY Synchronises DEF Sends
<1>5. ir_input' /\ late' = 0
  BY <1>2, <1>3, AllShow, WayTypes DEF Carried
<1>6. Dark'
  BY <1>1, <1>2, <1>4, <1>5, AllShow DEF Dark
<1>7. tx_state' \notin {"EOF", "HEADER_BURST", "HEADER_SPACE"}
  BY DEF InPacket, LinkTypeOK, IrTxTypeOK, TxState
<1>. QED
  BY <1>2, <1>3, <1>6, <1>7, AllShow, Zenon DEF Light

\* While the receiver takes in the dark after power-up, no packet starts.
LEMMA WakesUp ==
  ASSUME LinkTiming, LinkTypeOK, NEW t \in 0..2, Waking(t),
         NEW start, NEW byte, Sends(start, byte)
  PROVE  Waking(t + 1)'
<1>1. tx_timer < TX_LIMIT /\ tx_timer \in Nat /\ TX_LIMIT \in Nat
  BY LinkAssumption DEF LinkTiming, LinkTypeOK, Waking
<1>2. tx_timer' = tx_timer + 1 /\ ~tx_pulse'
  <2>1. ~(tx_timer >= TX_LIMIT)
    BY <1>1
  <2>. QED
    BY <2>1, Zenon DEF Sends, Timer
<1>3. tx_state = "IDLE" /\ ~start /\ start \in BOOLEAN
  BY DEF Sends, Waking
<1>4. tx_state' = "IDLE"
  BY <1>3, SendsNothing DEF Sends, InPacket
<1>5. tx_timer + 1 <= t + 1
  BY <1>1 DEF Waking
<1>. QED
  BY <1>2, <1>4, <1>5 DEF Waking

\* The dark between packets, and the edge on which it ends.
LEMMA LightAwaits ==
  ASSUME LOSS_MAX = 0, LinkTiming, LinkTypeOK, LinkTypeOK', Light, ~InPacket,
         NEW start, NEW byte, Sends(start, byte)
  PROVE  Light'
<1>1. Dark /\ ~blocked /\ losses = 0
  BY DEF Light
<1>2. ~blocked' /\ losses' = 0 /\ Carried(message, ir_input, late, ir_input', late')
  BY AirCarries DEF Light, Sends
<1>3. /\ (ir_sync0' <=> ir_input) /\ (ir_sync' <=> ir_sync0)
      /\ \/ (prev_level' <=> ir_sync)
         \/ prev_level' /\ rx_state' = "IDLE"
  BY Synchronises DEF Sends
<1>4. ir_input' /\ late' = 0
  BY <1>1, <1>2, WayTypes DEF Carried, Dark
<1>5. ~message'
  BY SendsNothing DEF Sends
<1>6. CASE tx_state = "IDLE" /\ start
  <2>1. /\ tx_state' = "HEADER_BURST" /\ tx_tick' = 0
        /\ bit_count' = BIT_COUNT_RESET_VAL
    BY <1>6, SendsNothing DEF Sends
  <2>2. Lit' /\ InPacket'
    BY <2>1 DEF Lit, InPacket
  <2>3. ir_sync0 /\ ir_sync /\ prev_level
    BY <1>1, <1>6 DEF Dark, Waking, Sends
  <2>4. Way(Lit', tx_tick', message', ir_input', late', ir_sync0', ir_sync')
    BY <1>1, <1>3, <1>4, <1>5, <2>1, <2>2, <2>3, WayTypes DEF Way, Dark
  <2>5. Heard'
    BY <1>3, <2>1, <2>2, <2>3, WayTypes DEF Heard
  <2>6. tx_tick' <= Limit'
    BY <2>1, IrTxAssumption DEF Limit
  <2>7. bit_count' = LAST_BIT /\ tx_state' # "EOF"
    BY <2>1, LinkAssumption
  <2>. QED
    BY <1>2, <2>2, <2>4, <2>5, <2>6, <2>7, Zenon DEF Light
<1>7. CASE ~(tx_state = "IDLE" /\ start)
  <2>1. ~InPacket'
    BY <1>7, SendsNothing DEF Sends
  <2>2. ir_sync0'
    BY <1>1, <1>3 DEF Dark
  <2>3. ir_sync' \/ Waking(1)'
    <3>1. Waking(0) => Waking(1)'
      BY WakesUp
    <3>. QED
      BY <1>1, <1>3, <3>1 DEF Dark
  <2>4. prev_level' \/ Waking(2)'
    <3>1. Waking(1) => Waking(2)'
      BY WakesUp
    <3>. QED
      BY <1>1, <1>3, <3>1 DEF Dark
  <2>5. Dark'
    BY <1>4, <1>5, <2>2, <2>3, <2>4 DEF Dark
  <2>6. tx_state' \notin {"EOF", "HEADER_BURST", "HEADER_SPACE"}
    BY <2>1 DEF InPacket
  <2>. QED
    BY <1>2, <2>1, <2>5, <2>6, Zenon DEF Light
<1>. QED
  BY <1>6, <1>7

-----------------------------------------------------------------------------
\* How long the receiver has heard the present level if the air delays nothing:
\* the registers on the way take five cycles.  It may have heard it for up to
\* JITTER cycles less.
Elapsed == IF prev_level <=> Lit THEN LastLimit + tx_tick - 4 ELSE tx_tick - 5

Fits == Elapsed - JITTER <= tick_count /\ tick_count <= Elapsed

\* The receiver times a burst that may be any burst, and may have begun late: a
\* reset has made it wait for a header in the middle of a packet.
TimesBurst ==
  /\ rx_state = "HEADER_BURST" /\ ~prev_level
  /\ IF InPacket THEN tick_count <= Elapsed ELSE Waking(2) /\ tick_count <= tx_timer

\* In the states that follow, the receiver is where the transmitter is, or, until
\* the edge is through, where it was.
TimesHeaderSpace ==
  /\ rx_state = "HEADER_SPACE" /\ prev_level /\ Fits
  /\ \/ tx_state = "HEADER_SPACE"
     \/ tx_state = "DATA_BURST" /\ bit_count = LAST_BIT

TimesDataBurst ==
  /\ rx_state = "DATA_BURST" /\ ~prev_level /\ Fits /\ Received
  /\ tx_state \in {"DATA_BURST", "DATA_SPACE"} /\ rx_bits = LAST_BIT - bit_count

TimesDataSpace ==
  /\ rx_state = "DATA_SPACE" /\ prev_level /\ Fits /\ Received
  /\ \/ tx_state = "DATA_SPACE" /\ rx_bits = LAST_BIT - bit_count
     \/ tx_state = "DATA_BURST" /\ rx_bits + 1 = LAST_BIT - bit_count
     \/ tx_state = "EOF" /\ rx_bits = LAST_BIT

HasFrame ==
  /\ rx_state = "VALIDATE" /\ ~prev_level /\ tick_count = 0
  /\ tx_state = "EOF" /\ tx_tick <= JITTER + 5 /\ shift_reg = data_out

Follows ==
  \/ rx_state = "IDLE" \/ TimesBurst \/ TimesHeaderSpace \/ TimesDataBurst
  \/ TimesDataSpace \/ HasFrame

\* What the receiver times grows with the time, as long as no edge gets through.
LEMMA TimeGoesOn ==
  ASSUME LinkTiming, LinkTypeOK, Light, InPacket, InPacket',
         rx_state \notin {"IDLE"}, prev_level' <=> prev_level,
         NEW start, NEW byte, Sends(start, byte)
  PROVE  Elapsed' = Elapsed + 1
<1>1. CASE tx_tick < Limit
  <2>1. /\ tx_state' = tx_state /\ tx_tick' = tx_tick + 1
        /\ bit_count' = bit_count /\ data_out' = data_out
    BY <1>1, SendsOn DEF LinkTypeOK, Sends
  <2>2. (Lit' <=> Lit) /\ LastLimit' = LastLimit
    BY <2>1 DEF Lit, LastLimit
  <2>3. LastLimit \in Nat
    BY LimitsFit DEF LinkTypeOK
  <2>. QED
    BY <2>1, <2>2, <2>3, WayTypes DEF Elapsed
<1>2. CASE tx_tick >= Limit
  <2>1. /\ tx_state' \in Following(tx_state) /\ tx_tick' = 0
        /\ bit_count' = (IF tx_state = "DATA_SPACE" /\ bit_count # 0
                         THEN bit_count - 1 ELSE bit_count)
        /\ data_out' = data_out
    BY <1>2, SendsNext DEF LinkTypeOK, Sends
  <2>2. Lit' <=> ~Lit
    BY <2>1, TakeTurns
  <2>3. prev_level <=> ~Lit
    BY <1>2, AllShow
  <2>4. tx_tick = Limit /\ Limit \in Nat
    BY <1>2, LimitsFit, WayTypes DEF Light, LinkTypeOK
  <2>5. LastLimit' = Limit
    <3>1. bit_count \in 0..LAST_BIT /\ LAST_BIT \in Nat
      BY LinkAssumption, IrRxAssumption DEF LinkTypeOK, IrTxTypeOK, Bits
    <3>2. CASE tx_state = "DATA_SPACE" /\ bit_count = 0
      BY <2>1, <3>2 DEF Following, LastLimit, Limit
    <3>3. CASE tx_state = "DATA_SPACE" /\ bit_count # 0
      <4>1. bit_count' + 1 = bit_count /\ bit_count' # LAST_BIT
        BY <2>1, <3>1, <3>3
      <4>. QED
        BY <2>1, <3>3, <4>1 DEF Following, LastLimit, Limit
    <3>4. CASE tx_state \in {"HEADER_BURST", "DATA_BURST", "EOF"}
      BY <2>1, <3>4 DEF Following, LastLimit, Limit
    <3>5. CASE tx_state = "HEADER_SPACE"
      BY <2>1, <3>5 DEF Following, LastLimit, Limit, Light
    <3>6. tx_state # "WAIT"
      BY <2>1 DEF Following, InPacket
    <3>. QED
      BY <3>2, <3>3, <3>4, <3>5, <3>6 DEF InPacket, LinkTypeOK, IrTxTypeOK, TxState
  <2>. QED
    BY <2>1, <2>2, <2>3, <2>4, <2>5, WayTypes DEF Elapsed
<1>. QED
  BY <1>1, <1>2, LimitsFit, WayTypes DEF LinkTypeOK

\* An edge gets through early in a state, and after the full length of the level.
LEMMA EdgeGetsThrough ==
  ASSUME LinkTiming, LinkTypeOK, Light, InPacket, rx_state # "IDLE",
         ~(ir_sync <=> prev_level)
  PROVE  /\ tx_tick \in 4..JITTER + 4 /\ tx_tick < Limit
         /\ (prev_level <=> Lit)
         /\ Elapsed \in LastLimit..LastLimit + JITTER
<1>1. IF ir_sync <=> Lit THEN tx_tick <= JITTER + 3 ELSE tx_tick >= 4
  BY DEF Light, Way
<1>2. IF prev_level <=> Lit THEN tx_tick <= JITTER + 4
                            ELSE tx_tick >= 5 /\ ~(ir_sync <=> Lit)
  BY DEF Light, Heard
<1>3. /\ tx_tick \in 4..JITTER + 4
      /\ (prev_level <=> Lit)
  BY <1>1, <1>2, WayTypes
<1>. QED
  BY <1>3, LimitsFit, WayTypes DEF Elapsed, LinkTypeOK

\* Then the receiver times the level that has begun.
LEMMA TimeBegins ==
  ASSUME LinkTiming, LinkTypeOK, Light, InPacket, rx_state # "IDLE",
         ~(ir_sync <=> prev_level), (prev_level' <=> ~prev_level), tick_count' = 0,
         NEW start, NEW byte, Sends(start, byte)
  PROVE  Fits' /\ tick_count' <= Elapsed' /\ tx_tick' <= JITTER + 5
<1>1. tx_tick \in 4..JITTER + 4 /\ tx_tick < Limit /\ (prev_level <=> Lit)
  BY EdgeGetsThrough
<1>2. tx_state' = tx_state /\ tx_tick' = tx_tick + 1
  BY <1>1, SendsOn DEF LinkTypeOK, Sends
<1>3. Lit' <=> Lit
  BY <1>2 DEF Lit
<1>4. Elapsed' = tx_tick - 4
  BY <1>1, <1>2, <1>3, WayTypes DEF Elapsed
<1>. QED
  BY <1>1, <1>2, <1>4, WayTypes DEF Fits

\* No level of a packet times out.
LEMMA NoTimeout ==
  ASSUME LinkTiming, LinkTypeOK, Light, InPacket, rx_state # "IDLE", Follows
  PROVE  tick_count < TIMEOUT
<1>1. CASE prev_level <=> Lit
  <2>1. tx_tick <= JITTER + 4
    BY <1>1 DEF Light, Heard
  <2>2. Elapsed <= LastLimit + JITTER
    BY <1>1, <2>1, LimitsFit, WayTypes DEF Elapsed, LinkTypeOK
  <2>3. tick_count <= Elapsed \/ tick_count = 0
    BY DEF Follows, TimesBurst, TimesHeaderSpace, TimesDataBurst, TimesDataSpace,
           HasFrame, Fits
  <2>4. LastLimit + JITTER < TIMEOUT /\ LastLimit \in Nat /\ JITTER \in Nat
    BY LimitsFit DEF LinkTypeOK
  <2>5. Elapsed \in Int /\ tick_count \in Nat /\ TIMEOUT \in Nat
    BY <1>1, <2>4, WayTypes, IrRxAssumption DEF Elapsed, LinkTypeOK, IrRxTypeOK
  <2>. QED
    BY <2>2, <2>3, <2>4, <2>5
<1>2. CASE ~(prev_level <=> Lit)
  <2>1. Elapsed = tx_tick - 5 /\ tx_tick <= Limit
    BY <1>2 DEF Elapsed, Light
  <2>2. tick_count <= Elapsed \/ tick_count = 0
    BY DEF Follows, TimesBurst, TimesHeaderSpace, TimesDataBurst, TimesDataSpace,
           HasFrame, Fits
  <2>3. tx_state # "WAIT"
    BY <1>2 DEF Follows, TimesBurst, TimesHeaderSpace, TimesDataBurst, TimesDataSpace,
                HasFrame, Lit
  <2>4. Limit + JITTER < TIMEOUT /\ Limit \in Nat /\ JITTER \in Nat
    BY <2>3, LimitsFit DEF LinkTypeOK
  <2>5. tick_count \in Nat /\ TIMEOUT \in Nat
    BY IrRxAssumption DEF LinkTypeOK, IrRxTypeOK
  <2>. QED
    BY <2>1, <2>2, <2>4, <2>5, WayTypes
<1>. QED
  BY <1>1, <1>2

\* A receiver in a frame goes on with the transmitter as long as no edge gets
\* through.
LEMMA FollowsOn ==
  ASSUME LOSS_MAX = 0, LinkTiming, LinkTypeOK, LinkTypeOK', Light, Follows, InPacket,
         rx_state \notin {"IDLE", "VALIDATE"}, ir_sync <=> prev_level,
         RxEdge(ir_input), NEW start, NEW byte, Sends(start, byte)
  PROVE  Follows'
<1>1. /\ rx_state' = rx_state /\ tick_count' = tick_count + 1
      /\ rx_bits' = rx_bits /\ shift_reg' = shift_reg
      /\ (prev_level' <=> prev_level)
  BY NoTimeout, LevelGoesOn DEF LinkTypeOK
<1>2. InPacket'
  <2>1. tx_state = "WAIT" /\ prev_level => FALSE
    BY DEF Follows, TimesBurst, TimesHeaderSpace, TimesDataBurst, TimesDataSpace,
           HasFrame
  <2>2. CASE tx_tick < Limit
    BY <2>2, LightGoesOn
  <2>3. CASE tx_tick >= Limit
    BY <2>1, <2>3, LightFades
  <2>. QED
    BY <2>2, <2>3, LimitsFit, WayTypes DEF LinkTypeOK
<1>3. Elapsed' = Elapsed + 1
  BY <1>1, <1>2, TimeGoesOn
<1>4. Elapsed \in Int /\ tick_count \in Nat /\ JITTER \in Nat
  BY LimitsFit, WayTypes DEF Elapsed, LinkTypeOK, IrRxTypeOK
<1>5. /\ Fits => Fits'
      /\ tick_count <= Elapsed => tick_count' <= Elapsed'
  BY <1>1, <1>3, <1>4 DEF Fits
<1>6. data_out' = data_out
  BY <1>2, SendsOn, SendsNext, LimitsFit, WayTypes DEF LinkTypeOK, Sends
<1>7. Received => Received'
  BY <1>1, <1>6 DEF Received
<1>8. CASE tx_tick < Limit
  <2>1. tx_state' = tx_state /\ bit_count' = bit_count
    BY <1>8, SendsOn DEF LinkTypeOK, Sends
  <2>2. TimesBurst => TimesBurst'
    BY <1>1, <1>2, <1>5 DEF TimesBurst
  <2>3. TimesHeaderSpace => TimesHeaderSpace'
    BY <1>1, <1>5, <2>1 DEF TimesHeaderSpace
  <2>4. TimesDataBurst => TimesDataBurst'
    BY <1>1, <1>5, <1>7, <2>1 DEF TimesDataBurst
  <2>5. TimesDataSpace => TimesDataSpace'
    BY <1>1, <1>5, <1>7, <2>1 DEF TimesDataSpace
  <2>. QED
    BY <2>2, <2>3, <2>4, <2>5 DEF Follows, HasFrame
<1>9. CASE tx_tick >= Limit
  <2>1. /\ tx_state' \in Following(tx_state)
        /\ bit_count' = (IF tx_state = "DATA_SPACE" /\ bit_count # 0
                         THEN bit_count - 1 ELSE bit_count)
    BY <1>9, SendsNext DEF LinkTypeOK, Sends
  <2>2. prev_level <=> ~Lit
    BY <1>9, AllShow
  <2>3. LAST_BIT \in Nat /\ bit_count \in 0..LAST_BIT /\ rx_bits \in 0..LAST_BIT
    BY LinkAssumption, IrRxAssumption DEF LinkTypeOK, IrTxTypeOK, Bits, IrRxTypeOK,
       RxBits
  <2>4. TimesBurst => TimesBurst'
    BY <1>1, <1>2, <1>5 DEF TimesBurst
  <2>5. TimesHeaderSpace => TimesHeaderSpace'
    <3>1. TimesHeaderSpace => tx_state = "HEADER_SPACE"
      BY <2>2 DEF TimesHeaderSpace, Lit
    <3>. QED
      BY <1>1, <1>5, <2>1, <3>1 DEF TimesHeaderSpace, Following, Light
  <2>6. TimesDataBurst => TimesDataBurst'
    <3>1. TimesDataBurst => tx_state = "DATA_BURST"
      BY <2>2 DEF TimesDataBurst, Lit
    <3>. QED
      BY <1>1, <1>5, <1>7, <2>1, <3>1 DEF TimesDataBurst, Following
  <2>7. TimesDataSpace => TimesDataSpace'
    <3>1. TimesDataSpace => tx_state = "DATA_SPACE" /\ rx_bits = LAST_BIT - bit_count
      BY <2>2 DEF TimesDataSpace, Lit
    <3>2. CASE bit_count = 0
      BY <1>1, <1>5, <1>7, <2>1, <2>3, <3>1, <3>2 DEF TimesDataSpace, Following
    <3>3. CASE bit_count # 0
      BY <1>1, <1>5, <1>7, <2>1, <2>3, <3>1, <3>3 DEF TimesDataSpace, Following
    <3>. QED
      BY <3>2, <3>3
  <2>. QED
    BY <2>4, <2>5, <2>6, <2>7 DEF Follows, HasFrame
<1>. QED
  BY <1>8, <1>9, LimitsFit, WayTypes DEF LinkTypeOK

\* A burst that ends is a header only if the packet has begun with it.
LEMMA BurstEnds ==
  ASSUME LOSS_MAX = 0, LinkTiming, LinkTypeOK, LinkTypeOK', Light, InPacket, TimesBurst,
         ~(ir_sync <=> prev_level), LevelEnds, prev_level' <=> ~prev_level,
         NEW start, NEW byte, Sends(start, byte)
  PROVE  /\ Follows'
         /\ (Fits /\ tx_state = "HEADER_SPACE") => TimesHeaderSpace'
<1>1. rx_state = "HEADER_BURST" /\ ~prev_level /\ tick_count <= Elapsed
  BY DEF TimesBurst
<1>2. /\ Within(BURST_MIN, BURST_MAX) => rx_state' = "HEADER_SPACE"
      /\ ~Within(BURST_MIN, BURST_MAX) => rx_state' = "IDLE"
      /\ tick_count' = 0
  BY <1>1, HeaderBurstEnds
<1>3. /\ tx_tick < Limit /\ (prev_level <=> Lit)
      /\ Elapsed \in LastLimit..LastLimit + JITTER
  BY <1>1, EdgeGetsThrough
<1>4. tx_state' = tx_state
  BY <1>3, SendsOn DEF LinkTypeOK, Sends
<1>5. Fits' /\ prev_level'
  BY <1>1, <1>2, TimeBegins
<1>6. CASE tx_state = "HEADER_SPACE"
  <2>1. Within(BURST_MIN, BURST_MAX) => TimesHeaderSpace'
    BY <1>2, <1>4, <1>5, <1>6 DEF TimesHeaderSpace
  <2>2. Fits => Within(BURST_MIN, BURST_MAX)
    <3>1. LastLimit = TICK_HEADER_BURST
      BY <1>6 DEF LastLimit
    <3>2. tick_count \in Nat
      BY DEF LinkTypeOK, IrRxTypeOK
    <3>. QED
      BY <1>3, <3>1, <3>2, IrTxAssumption, IrRxAssumption, LinkAssumption
         DEF Fits, LinkTiming, Within
  <2>. QED
    BY <1>2, <2>1, <2>2 DEF Follows
<1>7. CASE tx_state # "HEADER_SPACE"
  <2>1. LastLimit = TICK_DATA_BURST
    BY <1>1, <1>3, <1>7 DEF LastLimit, Lit
  <2>2. tick_count \in Nat
    BY DEF LinkTypeOK, IrRxTypeOK
  <2>3. ~Within(BURST_MIN, BURST_MAX)
    BY <1>1, <1>3, <2>1, <2>2, IrTxAssumption, IrRxAssumption, LinkAssumption
       DEF LinkTiming, Within
  <2>. QED
    BY <1>2, <1>7, <2>3 DEF Follows
<1>. QED
  BY <1>6, <1>7

\* The first bit begins when the header's space ends.
LEMMA HeaderEnds ==
  ASSUME LOSS_MAX = 0, LinkTiming, LinkTypeOK, LinkTypeOK', Light, InPacket,
         TimesHeaderSpace,
         ~(ir_sync <=> prev_level), LevelEnds, prev_level' <=> ~prev_level,
         NEW start, NEW byte, Sends(start, byte)
  PROVE  TimesDataBurst'
<1>1. rx_state = "HEADER_SPACE" /\ prev_level /\ Fits
  BY DEF TimesHeaderSpace
<1>2. /\ tx_tick < Limit /\ (prev_level <=> Lit)
      /\ Elapsed \in LastLimit..LastLimit + JITTER
  BY <1>1, EdgeGetsThrough
<1>3. tx_state = "DATA_BURST" /\ bit_count = LAST_BIT
  BY <1>1, <1>2 DEF TimesHeaderSpace, Lit
<1>4. LastLimit = TICK_HEADER_SPACE /\ tick_count \in Nat
  BY <1>3 DEF LastLimit, LinkTypeOK, IrRxTypeOK
<1>5. Within(SPACE_MIN, SPACE_MAX)
  BY <1>1, <1>2, <1>4, IrTxAssumption, IrRxAssumption, LinkAssumption
     DEF Fits, LinkTiming, Within
<1>6. rx_state' = "DATA_BURST" /\ rx_bits' = 0 /\ tick_count' = 0
  BY <1>1, <1>5, HeaderSpaceEnds
<1>7. Fits' /\ ~prev_level'
  BY <1>1, <1>6, TimeBegins
<1>8. tx_state' = tx_state /\ bit_count' = bit_count
  BY <1>2, SendsOn DEF LinkTypeOK, Sends
<1>9. Received'
  BY <1>6 DEF Received, RxBits
<1>10. rx_bits' = LAST_BIT - bit_count'
  BY <1>3, <1>6, <1>8, IrRxAssumption
<1>. QED
  BY <1>3, <1>6, <1>7, <1>8, <1>9, <1>10 DEF TimesDataBurst

\* The space of a bit begins when its burst ends.
LEMMA DataBurstPasses ==
  ASSUME LOSS_MAX = 0, LinkTiming, LinkTypeOK, LinkTypeOK', Light, InPacket,
         TimesDataBurst,
         ~(ir_sync <=> prev_level), LevelEnds, prev_level' <=> ~prev_level,
         NEW start, NEW byte, Sends(start, byte)
  PROVE  TimesDataSpace'
<1>1. rx_state = "DATA_BURST" /\ ~prev_level /\ Fits /\ Received
  BY DEF TimesDataBurst
<1>2. /\ tx_tick < Limit /\ (prev_level <=> Lit)
      /\ Elapsed \in LastLimit..LastLimit + JITTER
  BY <1>1, EdgeGetsThrough
<1>3. tx_state = "DATA_SPACE" /\ rx_bits = LAST_BIT - bit_count
  BY <1>1, <1>2 DEF TimesDataBurst, Lit
<1>4. LastLimit = TICK_DATA_BURST /\ tick_count \in Nat
  BY <1>3 DEF LastLimit, LinkTypeOK, IrRxTypeOK
<1>5. Within(DATA_BURST_MIN, DATA_BURST_MAX)
  BY <1>1, <1>2, <1>4, IrTxAssumption, IrRxAssumption, LinkAssumption
     DEF Fits, LinkTiming, Within
<1>6. /\ rx_state' = "DATA_SPACE" /\ tick_count' = 0
      /\ rx_bits' = rx_bits /\ shift_reg' = shift_reg
  BY <1>1, <1>5, DataBurstEnds
<1>7. Fits' /\ prev_level'
  BY <1>1, <1>6, TimeBegins
<1>8. tx_state' = tx_state /\ bit_count' = bit_count /\ data_out' = data_out
  BY <1>2, SendsOn DEF LinkTypeOK, Sends
<1>9. Received'
  BY <1>1, <1>6, <1>8 DEF Received
<1>. QED
  BY <1>3, <1>6, <1>7, <1>8, <1>9 DEF TimesDataSpace

\* When the space of a bit ends, the bit is known.
LEMMA BitIsRead ==
  ASSUME LinkTiming, LinkTypeOK, Light, InPacket, TimesDataSpace,
         ~(ir_sync <=> prev_level)
  PROVE  /\ tx_tick < Limit /\ tx_state \in {"DATA_BURST", "EOF"}
         /\ LAST_BIT - rx_bits \in Bits
         /\ tx_state = "DATA_BURST" <=> rx_bits # LAST_BIT
         /\ tx_state = "DATA_BURST" => rx_bits + 1 = LAST_BIT - bit_count
         /\ tick_count > BIT_THRESHOLD <=> data_out[LAST_BIT - rx_bits]
<1>1. rx_state = "DATA_SPACE" /\ prev_level /\ Fits
  BY DEF TimesDataSpace
<1>2. /\ tx_tick < Limit /\ (prev_level <=> Lit)
      /\ Elapsed \in LastLimit..LastLimit + JITTER
  BY <1>1, EdgeGetsThrough
<1>3. \/ tx_state = "DATA_BURST" /\ rx_bits + 1 = LAST_BIT - bit_count
      \/ tx_state = "EOF" /\ rx_bits = LAST_BIT
  BY <1>1, <1>2 DEF TimesDataSpace, Lit
<1>4. /\ LAST_BIT \in Nat /\ bit_count \in 0..LAST_BIT /\ rx_bits \in 0..LAST_BIT
      /\ Bits = 0..LAST_BIT
  BY LinkAssumption, IrRxAssumption DEF LinkTypeOK, IrTxTypeOK, Bits, IrRxTypeOK, RxBits
<1>5. LAST_BIT - rx_bits \in Bits
  BY <1>4
<1>6. LastLimit = Space(data_out[LAST_BIT - rx_bits])
  <2>1. CASE tx_state = "DATA_BURST" /\ rx_bits + 1 = LAST_BIT - bit_count
    <3>1. bit_count + 1 = LAST_BIT - rx_bits /\ bit_count # LAST_BIT
      BY <1>4, <2>1
    <3>. QED
      BY <2>1, <3>1 DEF LastLimit
  <2>2. CASE tx_state = "EOF" /\ rx_bits = LAST_BIT
    <3>1. LAST_BIT - rx_bits = 0
      BY <1>4, <2>2
    <3>. QED
      BY <2>2, <3>1 DEF LastLimit
  <2>. QED
    BY <1>3, <2>1, <2>2
<1>7. tick_count \in Nat
  BY DEF LinkTypeOK, IrRxTypeOK
<1>8. tick_count > BIT_THRESHOLD <=> data_out[LAST_BIT - rx_bits]
  <2>1. CASE data_out[LAST_BIT - rx_bits]
    <3>1. LastLimit = TICK_DATA_SPACE
      BY <1>6, <2>1 DEF Space
    <3>2. tick_count > BIT_THRESHOLD
      BY <1>1, <1>2, <1>7, <3>1, IrTxAssumption, IrRxAssumption, LinkAssumption
         DEF Fits, LinkTiming
    <3>. QED
      BY <2>1, <3>2
  <2>2. CASE ~data_out[LAST_BIT - rx_bits]
    <3>1. LastLimit = TICK_DATA_BURST
      BY <1>6, <2>2 DEF Space
    <3>2. ~(tick_count > BIT_THRESHOLD)
      BY <1>1, <1>2, <1>7, <3>1, IrTxAssumption, IrRxAssumption, LinkAssumption
         DEF Fits, LinkTiming
    <3>. QED
      BY <2>2, <3>2
  <2>. QED
    BY <2>1, <2>2
<1>9. tx_state = "DATA_BURST" <=> rx_bits # LAST_BIT
  BY <1>3, <1>4
<1>. QED
  BY <1>2, <1>3, <1>5, <1>8, <1>9

\* Then it is taken in, and with the last one the frame is complete.
LEMMA DataSpacePasses ==
  ASSUME LOSS_MAX = 0, LinkTiming, LinkTypeOK, LinkTypeOK', Light, InPacket,
         TimesDataSpace,
         ~(ir_sync <=> prev_level), LevelEnds, prev_level' <=> ~prev_level,
         NEW start, NEW byte, Sends(start, byte)
  PROVE  TimesDataBurst' \/ HasFrame'
<1>1. rx_state = "DATA_SPACE" /\ prev_level /\ Received
  BY DEF TimesDataSpace
<1>2. /\ tx_tick < Limit /\ tx_state \in {"DATA_BURST", "EOF"}
      /\ LAST_BIT - rx_bits \in Bits
      /\ tx_state = "DATA_BURST" <=> rx_bits # LAST_BIT
      /\ tx_state = "DATA_BURST" => rx_bits + 1 = LAST_BIT - bit_count
      /\ tick_count > BIT_THRESHOLD <=> data_out[LAST_BIT - rx_bits]
  BY BitIsRead
<1>3. /\ rx_state' = IF rx_bits = LAST_BIT THEN "VALIDATE" ELSE "DATA_BURST"
      /\ tick_count' = 0
      /\ rx_bits' = IF rx_bits = LAST_BIT THEN rx_bits ELSE rx_bits + 1
      /\ shift_reg' = ShiftIn(tick_count > BIT_THRESHOLD)
  BY <1>1, DataSpaceEnds
<1>4. Fits' /\ ~prev_level' /\ tx_tick' <= JITTER + 5
  BY <1>1, <1>3, TimeBegins
<1>5. tx_state' = tx_state /\ bit_count' = bit_count /\ data_out' = data_out
  BY <1>2, SendsOn DEF LinkTypeOK, Sends
<1>6. LAST_BIT \in Nat /\ rx_bits \in RxBits /\ bit_count \in 0..LAST_BIT
      /\ RxBits = 0..LAST_BIT /\ Bits = 0..LAST_BIT
  BY LinkAssumption, IrRxAssumption DEF LinkTypeOK, IrTxTypeOK, Bits, IrRxTypeOK, RxBits
<1>7. (tick_count > BIT_THRESHOLD) = data_out[LAST_BIT - rx_bits]
  <2>1. data_out[LAST_BIT - rx_bits] \in BOOLEAN
    BY <1>2 DEF LinkTypeOK, IrTxTypeOK, Byte
  <2>2. (tick_count > BIT_THRESHOLD) \in BOOLEAN
    OBVIOUS
  <2>. QED
    BY <1>2, <2>1, <2>2, Zenon
<1>8. \A b \in RxBits : b <= rx_bits => shift_reg'[b] = data_out[b + (LAST_BIT - rx_bits)]
  <2> SUFFICES ASSUME NEW b \in RxBits, b <= rx_bits
               PROVE  shift_reg'[b] = data_out[b + (LAST_BIT - rx_bits)]
    OBVIOUS
  <2>1. CASE b = 0
    <3>1. shift_reg'[b] = (tick_count > BIT_THRESHOLD)
      BY <1>3, <2>1, Zenon DEF ShiftIn
    <3>2. b + (LAST_BIT - rx_bits) = LAST_BIT - rx_bits
      BY <1>6, <2>1
    <3>. QED
      BY <1>7, <3>1, <3>2
  <2>2. CASE b # 0
    <3>1. shift_reg'[b] = shift_reg[b - 1]
      BY <1>3, <2>2 DEF ShiftIn
    <3>2. b - 1 \in RxBits /\ b - 1 < rx_bits
          /\ (b - 1) + (LAST_BIT + 1 - rx_bits) = b + (LAST_BIT - rx_bits)
      BY <1>6, <2>2
    <3>. QED
      BY <1>1, <3>1, <3>2 DEF Received
  <2>. QED
    BY <2>1, <2>2
<1>9. CASE rx_bits # LAST_BIT
  <2>1. rx_bits' = rx_bits + 1 /\ rx_state' = "DATA_BURST" /\ tx_state = "DATA_BURST"
    BY <1>2, <1>3, <1>9
  <2>2. Received'
    <3>1. \A b \in RxBits : b < rx_bits' => shift_reg'[b] = data_out'[b + (LAST_BIT + 1 - rx_bits')]
      <4> SUFFICES ASSUME NEW b \in RxBits, b < rx_bits'
                   PROVE  shift_reg'[b] = data_out'[b + (LAST_BIT + 1 - rx_bits')]
        OBVIOUS
      <4>1. b <= rx_bits /\ LAST_BIT + 1 - rx_bits' = LAST_BIT - rx_bits
        BY <1>6, <2>1
      <4>. QED
        BY <1>5, <1>8, <4>1
    <3>. QED
      BY <3>1 DEF Received
  <2>3. rx_bits' = LAST_BIT - bit_count'
    BY <1>2, <1>5, <1>6, <2>1
  <2>. QED
    BY <1>4, <1>5, <2>1, <2>2, <2>3 DEF TimesDataBurst
<1>10. CASE rx_bits = LAST_BIT
  <2>1. rx_state' = "VALIDATE" /\ tx_state' = "EOF"
    BY <1>2, <1>3, <1>5, <1>10
  <2>2. \A b \in RxBits : shift_reg'[b] = data_out[b]
    <3> SUFFICES ASSUME NEW b \in RxBits PROVE shift_reg'[b] = data_out[b]
      OBVIOUS
    <3>1. b <= rx_bits /\ b + (LAST_BIT - rx_bits) = b
      BY <1>6, <1>10
    <3>. QED
      BY <1>8, <3>1
  <2>3. shift_reg' = data_out
    <3>1. shift_reg' \in [RxBits -> BOOLEAN]
      BY DEF LinkTypeOK, IrRxTypeOK, RxByte
    <3>2. data_out \in [RxBits -> BOOLEAN]
      BY <1>6 DEF LinkTypeOK, IrTxTypeOK, Byte
    <3>. QED
      BY <2>2, <3>1, <3>2
  <2>. QED
    BY <1>3, <1>4, <1>5, <2>1, <2>3 DEF HasFrame
<1>. QED
  BY <1>9, <1>10

-----------------------------------------------------------------------------
\* The receiver in a packet, when it waits for a header and a burst is about.
LEMMA AwaitsInPacket ==
  ASSUME LOSS_MAX = 0, LinkTiming, LinkTypeOK, LinkTypeOK', Light, InPacket,
         rx_state = "IDLE", RxEdge(ir_input),
         NEW start, NEW byte, Sends(start, byte)
  PROVE  Follows'
<1>1. IF prev_level /\ ~ir_sync
      THEN rx_state' = "HEADER_BURST" /\ tick_count' = 0
      ELSE rx_state' = "IDLE"
  BY Awaits DEF LinkTypeOK
<1>2. prev_level' <=> ir_sync
  BY Awaits DEF LinkTypeOK
<1>3. CASE prev_level /\ ~ir_sync /\ tx_tick < Limit
  <2>1. tx_state' = tx_state /\ tx_tick' = tx_tick + 1 /\ InPacket'
    BY <1>3, SendsOn, LightGoesOn DEF LinkTypeOK, Sends
  <2>2. Lit' <=> Lit
    BY <2>1 DEF Lit
  <2>3. ~Lit \/ tx_tick >= 4
    BY <1>3 DEF Light, Way
  <2>4. LastLimit' \in Nat /\ JITTER + 5 <= LastLimit'
    BY LimitsFit, IrTxAssumption, LinkAssumption DEF LinkTypeOK, LinkTiming, LastLimit, Space
  <2>5. 0 <= Elapsed'
    <3>1. CASE ~Lit
      BY <1>2, <1>3, <2>1, <2>2, <2>4, <3>1, WayTypes DEF Elapsed
    <3>2. CASE Lit /\ tx_tick >= 4
      BY <1>2, <1>3, <2>1, <2>2, <3>2, WayTypes DEF Elapsed
    <3>. QED
      BY <2>3, <3>1, <3>2
  <2>. QED
    BY <1>1, <1>2, <1>3, <2>1, <2>5 DEF Follows, TimesBurst
<1>4. CASE prev_level /\ ~ir_sync /\ tx_tick >= Limit
  <2>1. Lit
    BY <1>4, AllShow
  <2>2. InPacket'
    BY <1>4, LightFades
  <2>3. tx_state' \in Following(tx_state) /\ tx_tick' = 0
    BY <1>4, SendsNext DEF LinkTypeOK, Sends
  <2>4. ~Lit'
    BY <2>1, <2>2, <2>3, TakeTurns
  <2>5. LastLimit' \in Nat /\ JITTER + 5 <= LastLimit'
    BY LimitsFit, IrTxAssumption, LinkAssumption DEF LinkTypeOK, LinkTiming, LastLimit, Space
  <2>6. 0 <= Elapsed'
    <3>1. prev_level' <=> Lit'
      BY <1>2, <1>4, <2>4
    <3>2. 0 <= LastLimit' + 0 - 4
      <4>1. \A n, j \in Nat : j + 5 <= n => 0 <= n + 0 - 4
        OBVIOUS
      <4>2. JITTER \in Nat
        BY LinkAssumption
      <4>. QED
        BY <2>5, <4>1, <4>2, Zenon
    <3>. QED
      BY <2>3, <3>1, <3>2 DEF Elapsed
  <2>. QED
    BY <1>1, <1>2, <1>4, <2>2, <2>6 DEF Follows, TimesBurst
<1>. QED
  BY <1>1, <1>3, <1>4, LimitsFit, WayTypes DEF Follows, LinkTypeOK

\* The receiver between packets hears nothing, or the synchroniser waking up.
LEMMA FollowsInDark ==
  ASSUME LOSS_MAX = 0, LinkTiming, LinkTypeOK, LinkTypeOK', Light, ~InPacket, Follows,
         RxEdge(ir_input), NEW start, NEW byte, Sends(start, byte)
  PROVE  Follows' /\ ~done'
<1>1. rx_state = "IDLE" \/ TimesBurst
  BY DEF Follows, TimesHeaderSpace, TimesDataBurst, TimesDataSpace, HasFrame, InPacket
<1>2. ir_sync \/ Waking(1)
  BY DEF Light, Dark
<1>3. CASE rx_state = "IDLE"
  <2>1. /\ ~done'
        /\ (prev_level' <=> ir_sync)
        /\ IF prev_level /\ ~ir_sync
           THEN rx_state' = "HEADER_BURST" /\ tick_count' = 0
           ELSE rx_state' = "IDLE"
    BY <1>3, Awaits DEF LinkTypeOK
  <2>2. CASE prev_level /\ ~ir_sync
    <3>1. Waking(2)'
      BY <1>2, <2>2, WakesUp
    <3>2. ~InPacket'
      BY <3>1 DEF Waking, InPacket
    <3>3. tx_timer' \in Nat
      BY DEF LinkTypeOK
    <3>. QED
      BY <2>1, <2>2, <3>1, <3>2, <3>3 DEF Follows, TimesBurst
  <2>. QED
    BY <2>1, <2>2 DEF Follows
<1>4. CASE TimesBurst
  <2>1. /\ rx_state = "HEADER_BURST" /\ ~prev_level /\ Waking(2)
        /\ tick_count <= tx_timer
    BY <1>4 DEF TimesBurst
  <2>2. tick_count \in Nat /\ tx_timer \in Nat
    BY DEF LinkTypeOK, IrRxTypeOK
  <2>3. tick_count <= 2 /\ tick_count < TIMEOUT /\ tick_count < BURST_MIN
    BY <2>1, <2>2, IrTxAssumption, IrRxAssumption, LinkAssumption DEF Waking, LinkTiming
  <2>4. CASE ~ir_sync
    <3>1. /\ rx_state' = rx_state /\ tick_count' = tick_count + 1
          /\ (prev_level' <=> prev_level) /\ ~done'
      BY <2>1, <2>3, <2>4, LevelGoesOn DEF LinkTypeOK
    <3>2. Waking(1)
      BY <1>2, <2>4
    <3>3. Waking(2)'
      BY <3>2, WakesUp
    <3>4. ~InPacket'
      BY <3>3 DEF Waking, InPacket
    <3>5. tx_timer' = tx_timer + 1
      <4>1. tx_timer < TX_LIMIT
        BY <2>2, <3>2, LinkAssumption DEF Waking, LinkTiming
      <4>. QED
        BY <2>2, <4>1, LinkAssumption DEF Sends, Timer
    <3>. QED
      BY <2>1, <2>2, <3>1, <3>3, <3>4, <3>5 DEF Follows, TimesBurst
  <2>5. CASE ir_sync
    <3>1. LevelEnds /\ ~done'
      BY <2>1, <2>3, <2>5, LevelGone DEF LinkTypeOK
    <3>2. ~Within(BURST_MIN, BURST_MAX)
      BY <2>2, <2>3, IrRxAssumption DEF Within
    <3>. QED
      BY <2>1, <3>1, <3>2, HeaderBurstEnds DEF Follows
  <2>. QED
    BY <2>4, <2>5
<1>. QED
  BY <1>1, <1>3, <1>4

\* A frame that is complete is delivered while the last burst is still sent.
LEMMA FrameLeaves ==
  ASSUME LinkTiming, LinkTypeOK, HasFrame, RxEdge(ir_input)
  PROVE  rx_state' = "IDLE" /\ done' /\ data' = data_out
<1>1. tick_count < TIMEOUT
  BY IrRxAssumption DEF HasFrame
<1>. QED
  BY <1>1, Delivers DEF HasFrame, LinkTypeOK

\* Nothing but a complete frame is delivered.
LEMMA OnlyFrames ==
  ASSUME RxEdge(ir_input) \/ RxReset(ir_input), done'
  PROVE  rx_state = "VALIDATE" /\ RxEdge(ir_input)
BY DEF RxEdge, RxReset

\* An edge that gets through to a receiver in a frame.
LEMMA FollowsEdge ==
  ASSUME LOSS_MAX = 0, LinkTiming, LinkTypeOK, LinkTypeOK', Light, Follows, InPacket,
         rx_state \notin {"IDLE", "VALIDATE"}, ~(ir_sync <=> prev_level),
         RxEdge(ir_input), NEW start, NEW byte, Sends(start, byte)
  PROVE  Follows'
<1>1. LevelEnds /\ (prev_level' <=> ~prev_level)
  BY NoTimeout, LevelGone DEF LinkTypeOK
<1>2. CASE TimesBurst
  BY <1>1, <1>2, BurstEnds
<1>3. CASE TimesHeaderSpace
  BY <1>1, <1>3, HeaderEnds DEF Follows
<1>4. CASE TimesDataBurst
  BY <1>1, <1>4, DataBurstPasses DEF Follows
<1>5. CASE TimesDataSpace
  BY <1>1, <1>5, DataSpacePasses DEF Follows
<1>. QED
  BY <1>2, <1>3, <1>4, <1>5 DEF Follows, HasFrame

\* Whatever the receiver does in a cycle, it follows the transmitter.
LEMMA FollowsStep ==
  ASSUME LOSS_MAX = 0, LinkTiming, LinkTypeOK, LinkTypeOK', Light, Follows,
         NEW start, NEW byte, Sends(start, byte)
  PROVE  Follows'
<1>1. CASE RxReset(ir_input)
  BY <1>1, Forgets DEF Follows
<1>2. CASE RxEdge(ir_input) /\ ~InPacket
  BY <1>2, FollowsInDark
<1>3. CASE RxEdge(ir_input) /\ InPacket
  <2>1. CASE rx_state = "IDLE"
    BY <1>3, <2>1, AwaitsInPacket
  <2>2. CASE rx_state = "VALIDATE"
    <3>1. HasFrame
      BY <2>2 DEF Follows, TimesBurst, TimesHeaderSpace, TimesDataBurst, TimesDataSpace
    <3>. QED
      BY <1>3, <3>1, FrameLeaves DEF Follows
  <2>3. CASE rx_state \notin {"IDLE", "VALIDATE"} /\ (ir_sync <=> prev_level)
    BY <1>3, <2>3, FollowsOn
  <2>4. CASE rx_state \notin {"IDLE", "VALIDATE"} /\ ~(ir_sync <=> prev_level)
    BY <1>3, <2>4, FollowsEdge
  <2>. QED
    BY <2>1, <2>2, <2>3, <2>4
<1>. QED
  BY <1>1, <1>2, <1>3 DEF Sends

\* So does the light.
LEMMA LightStep ==
  ASSUME LOSS_MAX = 0, LinkTiming, LinkTypeOK, LinkTypeOK', Light,
         NEW start, NEW byte, Sends(start, byte)
  PROVE  Light'
<1>1. CASE InPacket /\ tx_tick < Limit
  BY <1>1, LightGoesOn
<1>2. CASE InPacket /\ tx_tick >= Limit
  BY <1>2, LightTurns, LightFades
<1>3. CASE ~InPacket
  BY <1>3, LightAwaits
<1>. QED
  BY <1>1, <1>2, <1>3, LimitsFit, WayTypes DEF LinkTypeOK

\* While a packet is sent, and until its frame is delivered, it is on its way.
Boxed ==
  tx_state \in {"HEADER_BURST", "HEADER_SPACE", "DATA_BURST", "DATA_SPACE"}
    \/ rx_state \in {"DATA_SPACE", "VALIDATE"}
  => box = data_out

\* How the receiver gets to the last states of a frame.
LEMMA LateStates ==
  ASSUME IrRxTypeOK, RxEdge(ir_input) \/ RxReset(ir_input),
         rx_state' \in {"DATA_SPACE", "VALIDATE"}
  PROVE  rx_state \in {"DATA_BURST", "DATA_SPACE"}
<1>1. RxEdge(ir_input)
  BY DEF RxReset
<1>2. ~TimedOut /\ rx_state # "VALIDATE" /\ Level
  BY <1>1 DEF RxEdge, Frame
<1>3. CASE LevelHolds
  BY <1>2, <1>3 DEF LevelHolds
<1>4. CASE LevelEnds
  <2>1. rx_state \in {"IDLE", "HEADER_BURST", "HEADER_SPACE", "DATA_BURST", "DATA_SPACE"}
    BY <1>2 DEF IrRxTypeOK, RxState
  <2>. QED
    BY <1>4, <2>1 DEF LevelEnds
<1>. QED
  BY <1>2, <1>3, <1>4 DEF Level

\* The cycle of both boards, for the proofs above.
LEMMA ClockSends ==
  ASSUME LinkTypeOK, "tx" \notin resetting, Clock
  PROVE  \E start, byte :
           /\ Sends(start, byte)
           /\ Started <=> tx_state = "IDLE" /\ start
           /\ start => byte \in Packets
<1>1. Timer /\ Air /\ (RxReset(ir_input) \/ RxEdge(ir_input))
  BY DEF Clock
<1>2. tx_pulse \in BOOLEAN
  BY DEF LinkTypeOK
<1>3. CASE Started
  <2>1. PICK packet \in Packets : TxEdge(TRUE, packet)
    BY <1>3 DEF Clock
  <2>2. Sends(TRUE, packet)
    BY <1>1, <1>3, <2>1, Zenon DEF Sends, Started
  <2>3. tx_state = "IDLE"
    BY <1>3 DEF Started
  <2>. QED
    BY <1>3, <2>2, <2>3
<1>4. CASE ~Started
  <2>1. TxEdge(tx_pulse, data_out)
    BY <1>4 DEF Clock
  <2>2. ~(tx_state = "IDLE" /\ tx_pulse)
    BY <1>4 DEF Started
  <2>3. CASE tx_pulse
    <3>1. TxEdge(FALSE, data_out)
      BY <2>1, <2>2, <2>3 DEF TxEdge, TxIdle
    <3>2. Sends(FALSE, data_out)
      BY <1>1, <3>1, Zenon DEF Sends
    <3>. QED
      BY <1>4, <3>2
  <2>4. CASE ~tx_pulse
    <3>1. TxEdge(FALSE, data_out)
      BY <1>2, <2>1, <2>4 DEF TxEdge, TxIdle
    <3>2. Sends(FALSE, data_out)
      BY <1>1, <3>1, Zenon DEF Sends
    <3>. QED
      BY <1>4, <3>2
  <2>. QED
    BY <2>3, <2>4
<1>. QED
  BY <1>3, <1>4

\* What a cycle does to the byte that is being sent.
LEMMA ByteKept ==
  ASSUME LinkTypeOK, NEW start, NEW byte, Sends(start, byte),
         ~(tx_state = "IDLE" /\ start)
  PROVE  data_out' = data_out
<1>1. CASE InPacket
  BY <1>1, SendsOn, SendsNext, LimitsFit, WayTypes, IrTxAssumption
     DEF LinkTypeOK, Sends, IrTxTypeOK, Limit, Space
<1>2. CASE ~InPacket
  BY <1>2, SendsNothing DEF Sends
<1>. QED
  BY <1>1, <1>2

\* Where the transmitter is after a cycle in which no packet starts.
LEMMA StateKept ==
  ASSUME LinkTypeOK, NEW start, NEW byte, Sends(start, byte),
         ~(tx_state = "IDLE" /\ start),
         tx_state' \in {"HEADER_BURST", "HEADER_SPACE", "DATA_BURST", "DATA_SPACE", "EOF"}
  PROVE  \/ tx_state \in {"HEADER_BURST", "HEADER_SPACE", "DATA_BURST", "DATA_SPACE"}
         \/ tx_state = "EOF" /\ tx_state' = "EOF"
<1>1. InPacket
  <2>1. InPacket'
    BY DEF InPacket
  <2>. QED
    BY <2>1, SendsNothing DEF Sends
<1>2. tx_tick < Limit \/ tx_tick >= Limit
  BY IrTxAssumption DEF LinkTypeOK, IrTxTypeOK, Limit, Space
<1>3. tx_state' = tx_state \/ tx_state' \in Following(tx_state)
  BY <1>1, <1>2, SendsOn, SendsNext DEF LinkTypeOK, Sends
<1>. QED
  BY <1>1, <1>3 DEF Following, InPacket, LinkTypeOK, IrTxTypeOK, TxState

\* The packet on its way is the one that is sent.
LEMMA BoxedStep ==
  ASSUME LOSS_MAX = 0, LinkTiming, LinkTypeOK, LinkTypeOK', Light, Follows, Follows',
         Boxed, "tx" \notin exposed, Clock
  PROVE  Boxed'
<1>1. PICK start, byte : Sends(start, byte) /\ (Started <=> tx_state = "IDLE" /\ start)
  BY ClockSends DEF LinkTypeOK
<1>2. box' = IF Started THEN data_out' ELSE IF done' THEN None ELSE box
  BY DEF Clock, History
<1>3. CASE Started
  BY <1>2, <1>3 DEF Boxed
<1>4. CASE ~Started /\ done'
  <2>1. rx_state = "VALIDATE" /\ RxEdge(ir_input)
    BY <1>1, <1>4, OnlyFrames DEF Sends
  <2>2. HasFrame
    BY <2>1 DEF Follows, TimesBurst, TimesHeaderSpace, TimesDataBurst, TimesDataSpace
  <2>3. rx_state' = "IDLE"
    BY <2>1, <2>2, FrameLeaves
  <2>4. tx_state' \notin {"HEADER_BURST", "HEADER_SPACE", "DATA_BURST", "DATA_SPACE"}
    BY <1>1, <1>4, <2>2, StateKept DEF HasFrame
  <2>. QED
    BY <2>3, <2>4 DEF Boxed
<1>5. CASE ~Started /\ ~done'
  <2>1. box' = box /\ data_out' = data_out
    BY <1>1, <1>2, <1>5, ByteKept
  <2>2. CASE tx_state' \in {"HEADER_BURST", "HEADER_SPACE", "DATA_BURST", "DATA_SPACE"}
    BY <1>1, <1>5, <2>1, <2>2, StateKept DEF Boxed
  <2>3. CASE rx_state' \in {"DATA_SPACE", "VALIDATE"}
    <3>1. rx_state \in {"DATA_BURST", "DATA_SPACE"}
      BY <1>1, <2>3, LateStates DEF Sends, LinkTypeOK
    <3>2. rx_state = "DATA_BURST" => tx_state \in {"DATA_BURST", "DATA_SPACE"}
      BY DEF Follows, TimesBurst, TimesHeaderSpace, TimesDataBurst, TimesDataSpace,
             HasFrame
    <3>. QED
      BY <2>1, <3>1, <3>2 DEF Boxed
  <2>. QED
    BY <2>2, <2>3 DEF Boxed
<1>. QED
  BY <1>3, <1>4, <1>5

\* Why a packet that is delivered is the one on its way: as long as nobody resets
\* the board of ir_tx, the receiver is where the transmitter is, or waits for
\* a header, or times a burst that no window takes for one.
Agreed == "tx" \notin exposed => Light /\ Follows /\ Boxed

LEMMA AgreedInit == LinkInit => Agreed
<1> SUFFICES ASSUME LinkInit PROVE Agreed
  OBVIOUS
<1>1. /\ tx_state = "IDLE" /\ rx_state = "IDLE" /\ tx_timer = 0 /\ late = 0
      /\ losses = 0
  BY DEF LinkInit, IrTxInit, IrRxInit
<1>2. ~tx_pulse /\ ~message /\ ~blocked /\ ir_input
  BY DEF LinkInit, IrTxInit
<1>3. Light
  BY <1>1, <1>2 DEF Light, Dark, Waking, InPacket
<1>4. Follows /\ Boxed
  BY <1>1 DEF Follows, Boxed
<1>. QED
  BY <1>3, <1>4 DEF Agreed

LEMMA AgreedStep ==
  ASSUME LOSS_MAX = 0, LinkTiming, LinkTypeOK, LinkTypeOK', Agreed, [LinkNext]_linkVars
  PROVE  Agreed'
<1>1. CASE Clock
  <2> SUFFICES ASSUME "tx" \notin exposed' PROVE (Light /\ Follows /\ Boxed)'
    BY DEF Agreed
  <2>1. "tx" \notin exposed
    BY <1>1 DEF Clock
  <2>2. Light /\ Follows /\ Boxed
    BY <2>1 DEF Agreed
  <2>3. PICK start, byte : Sends(start, byte)
    BY <1>1, <2>1, ClockSends DEF LinkTypeOK
  <2>4. Light' /\ Follows'
    BY <2>2, <2>3, LightStep, FollowsStep
  <2>. QED
    BY <1>1, <2>1, <2>2, <2>4, BoxedStep
<1>2. CASE Press \/ Release \/ UNCHANGED linkVars
  <2>1. UNCHANGED <<irTxVars, irRxVars, tx_timer, tx_pulse, airVars, exposed, box>>
    BY <1>2 DEF Press, Release, linkVars
  <2>2. Light' <=> Light
    BY <2>1 DEF irTxVars, irRxVars, airVars, Light, Dark, Waking, InPacket, Heard, Way,
                Lit, Limit, Space
  <2>3. Follows' <=> Follows
    BY <2>1 DEF irTxVars, irRxVars, Follows, TimesBurst, TimesHeaderSpace, TimesDataBurst,
                TimesDataSpace, HasFrame, Fits, Elapsed, LastLimit, Space, Lit, InPacket,
                Waking, Received
  <2>4. Boxed' <=> Boxed
    BY <2>1 DEF irTxVars, irRxVars, Boxed
  <2>. QED
    BY <2>1, <2>2, <2>3, <2>4 DEF Agreed
<1>. QED
  BY <1>1, <1>2 DEF LinkNext

\* The agreement of the two ends holds in every jitter up to JITTER, and whatever
\* happens to the board of ir_rx.
THEOREM AgreedAlways ==
  ASSUME LOSS_MAX = 0, LinkTiming
  PROVE  LinkSpec => []Agreed
<1>1. LinkTypeOK /\ LinkTypeOK' /\ Agreed /\ [LinkNext]_linkVars => Agreed'
  BY AgreedStep
<1>. QED
  BY <1>1, AgreedInit, LinkTypeCorrect, PTL DEF LinkSpec

\* ir_rx delivers what ir_tx sends, bit for bit, as long as no burst is swallowed
\* and nobody resets the receiver board, however late the edges come and whenever
\* the transmitter board is reset.
THEOREM NothingCorrupted ==
  ASSUME LOSS_MAX = 0, LinkTiming
  PROVE  LinkSpec => NeverCorrupt
<1>1. LinkTypeOK /\ Agreed /\ [LinkNext]_linkVars
      => [~done /\ done' /\ "tx" \notin exposed => data' = box]_linkVars
  <2> SUFFICES ASSUME LinkTypeOK, Agreed, LinkNext, ~done, done', "tx" \notin exposed
               PROVE  data' = box
    OBVIOUS
  <2>1. Clock
    <3>1. Press \/ Release => done' = done
      BY DEF Press, Release, irRxVars
    <3>. QED
      BY <3>1 DEF LinkNext
  <2>2. Follows /\ Boxed
    BY DEF Agreed
  <2>3. rx_state = "VALIDATE" /\ RxEdge(ir_input)
    BY <2>1, OnlyFrames DEF Clock
  <2>4. HasFrame
    BY <2>2, <2>3 DEF Follows, TimesBurst, TimesHeaderSpace, TimesDataBurst,
                      TimesDataSpace
  <2>5. data' = data_out
    BY <2>3, <2>4, FrameLeaves
  <2>. QED
    BY <2>2, <2>3, <2>5 DEF Boxed
<1>. QED
  BY <1>1, AgreedAlways, LinkTypeCorrect, PTL DEF LinkSpec, NeverCorrupt

-----------------------------------------------------------------------------
\* While nobody resets a board, prev_level is the last register on the way, the
\* receiver takes part in every packet from its first edge on, and it waits for a
\* header only if there is no packet on its way, or none of it has got through.
Undisturbed ==
  IF InPacket THEN IF prev_level <=> Lit THEN tx_tick <= JITTER + 4
                                         ELSE tx_tick >= 5 /\ ~(ir_sync <=> Lit)
              ELSE (prev_level => ir_sync) /\ (ir_sync => ir_sync0)

InStep ==
  /\ rx_state = "IDLE" =>
       \/ ~InPacket /\ box = None
       \/ tx_state = "WAIT" /\ box = None
       \/ tx_state = "EOF" /\ ~prev_level /\ box = None
       \/ tx_state = "HEADER_BURST" /\ prev_level
  /\ rx_state = "HEADER_BURST" => tx_state \in {"HEADER_BURST", "HEADER_SPACE"} /\ Fits
  /\ Undisturbed

\* A cycle in which neither board is reset.
LEMMA UndisturbedStep ==
  ASSUME LOSS_MAX = 0, LinkTiming, LinkTypeOK, LinkTypeOK', Light, Undisturbed,
         RxEdge(ir_input), NEW start, NEW byte, Sends(start, byte)
  PROVE  Undisturbed'
<1>1. /\ (ir_sync0' <=> ir_input) /\ (ir_sync' <=> ir_sync0)
      /\ (prev_level' <=> ir_sync)
  BY Zenon DEF RxEdge, Synchronise
<1>2. CASE InPacket /\ tx_tick < Limit
  <2>1. tx_state' = tx_state /\ tx_tick' = tx_tick + 1 /\ InPacket'
    BY <1>2, SendsOn, LightGoesOn DEF LinkTypeOK, Sends
  <2>2. Lit' <=> Lit
    BY <2>1 DEF Lit
  <2>3. IF ir_sync <=> Lit THEN tx_tick <= JITTER + 3
                           ELSE tx_tick >= 4 /\ ~(ir_sync0 <=> Lit)
    BY <1>2 DEF Light, Way
  <2>4. IF ir_sync <=> Lit THEN tx_tick + 1 <= JITTER + 4
                           ELSE tx_tick + 1 >= 5 /\ ~(ir_sync0 <=> Lit)
    BY <2>3, WayTypes
  <2>. QED
    BY <1>1, <2>1, <2>2, <2>4 DEF Undisturbed
<1>3. CASE InPacket /\ tx_tick >= Limit /\ InPacket'
  <2>1. tx_state' \in Following(tx_state) /\ tx_tick' = 0
    BY <1>3, SendsNext DEF LinkTypeOK, Sends
  <2>2. Lit' <=> ~Lit
    BY <1>3, <2>1, TakeTurns
  <2>3. ir_sync <=> ~Lit
    BY <1>3, AllShow
  <2>4. 0 <= JITTER + 4
    BY LinkAssumption
  <2>. QED
    BY <1>1, <1>3, <2>1, <2>2, <2>3, <2>4 DEF Undisturbed
<1>4. CASE InPacket /\ tx_tick >= Limit /\ ~InPacket'
  <2>1. ~Lit
    BY <1>4, LightFades DEF Lit
  <2>. QED
    BY <1>1, <1>4, <2>1, AllShow DEF Undisturbed
<1>5. CASE ~InPacket /\ ~InPacket'
  BY <1>1, <1>5 DEF Undisturbed, Light, Dark
<1>6. CASE ~InPacket /\ InPacket'
  <2>1. /\ tx_state = "IDLE" /\ start
        /\ tx_state' = "HEADER_BURST" /\ tx_tick' = 0
    BY <1>6, SendsNothing DEF Sends
  <2>2. ir_sync
    BY <1>6, <2>1 DEF Light, Dark, Waking, Sends
  <2>3. Lit'
    BY <2>1 DEF Lit
  <2>4. 0 <= JITTER + 4
    BY LinkAssumption
  <2>. QED
    BY <1>1, <1>6, <2>1, <2>2, <2>3, <2>4 DEF Undisturbed
<1>. QED
  BY <1>2, <1>3, <1>4, <1>5, <1>6, LimitsFit, WayTypes DEF LinkTypeOK

\* The receiver in wait for a header when a packet starts, or none.
LEMMA InStepAwaits ==
  ASSUME LOSS_MAX = 0, LinkTiming, LinkTypeOK, LinkTypeOK', Light, InStep, Undisturbed',
         rx_state = "IDLE", RxEdge(ir_input),
         NEW start, NEW byte, Sends(start, byte),
         (tx_state = "IDLE" /\ start) \/ box' = box
  PROVE  InStep'
<1>1. /\ ~done'
      /\ (prev_level' <=> ir_sync)
      /\ IF prev_level /\ ~ir_sync
         THEN rx_state' = "HEADER_BURST" /\ tick_count' = 0
         ELSE rx_state' = "IDLE"
  BY Awaits DEF LinkTypeOK
<1>2. CASE tx_state = "IDLE" /\ start
  <2>1. ir_sync
    BY <1>2 DEF Light, Dark, Waking, InPacket, Sends
  <2>2. tx_state' = "HEADER_BURST"
    BY <1>2, SendsNothing DEF Sends, InPacket
  <2>. QED
    BY <1>1, <2>1, <2>2 DEF InStep
<1>3. CASE ~InPacket /\ ~(tx_state = "IDLE" /\ start)
  <2>1. ~InPacket'
    BY <1>3, SendsNothing DEF Sends
  <2>2. rx_state' = "IDLE"
    BY <1>1, <1>3 DEF InStep, Undisturbed
  <2>3. box = None
    BY <1>3 DEF InStep, InPacket
  <2>. QED
    BY <1>3, <2>1, <2>2, <2>3 DEF InStep
<1>4. CASE tx_state = "WAIT"
  <2>1. InPacket /\ ~Lit
    BY <1>4 DEF InPacket, Lit
  <2>2. rx_state' = "IDLE"
    BY <1>1, <2>1 DEF InStep, Undisturbed
  <2>3. box' = None
    BY <1>4 DEF InStep, InPacket
  <2>4. tx_state' \in {"WAIT", "IDLE", "LONG_WAIT"}
    BY <1>4, <2>1, SendsOn, SendsNext, LimitsFit, WayTypes DEF Following, Sends, LinkTypeOK
  <2>. QED
    BY <2>2, <2>3, <2>4 DEF InStep, InPacket
<1>5. CASE tx_state = "EOF"
  <2>1. InPacket /\ Lit
    BY <1>5 DEF InPacket, Lit
  <2>2. ~prev_level /\ box' = None
    BY <1>5 DEF InStep, InPacket
  <2>3. ~ir_sync
    BY <2>1, <2>2 DEF InStep, Undisturbed
  <2>4. tx_state' \in {"EOF", "WAIT"}
    BY <1>5, <2>1, SendsOn, SendsNext, LimitsFit, WayTypes DEF Following, Sends, LinkTypeOK
  <2>. QED
    BY <1>1, <2>2, <2>3, <2>4 DEF InStep
<1>6. CASE tx_state = "HEADER_BURST"
  <2>1. InPacket /\ Lit /\ prev_level
    BY <1>6 DEF InStep, InPacket, Lit
  <2>2. tx_tick <= JITTER + 4
    BY <2>1 DEF InStep, Undisturbed
  <2>3. tx_tick < Limit
    BY <2>2, LimitsFit, WayTypes DEF LinkTypeOK
  <2>4. tx_state' = "HEADER_BURST" /\ tx_tick' = tx_tick + 1
    BY <1>6, <2>1, <2>3, SendsOn DEF Sends, LinkTypeOK
  <2>5. CASE ir_sync
    BY <1>1, <2>4, <2>5 DEF InStep
  <2>6. CASE ~ir_sync
    <3>1. tx_tick >= 4
      BY <2>1, <2>6 DEF Light, Way
    <3>2. rx_state' = "HEADER_BURST" /\ tick_count' = 0 /\ ~prev_level'
      BY <1>1, <2>1, <2>6
    <3>3. Lit'
      BY <2>4 DEF Lit
    <3>4. Fits'
      BY <2>2, <2>4, <3>1, <3>2, <3>3, WayTypes DEF Fits, Elapsed
    <3>. QED
      BY <2>4, <3>2, <3>4 DEF InStep
  <2>. QED
    BY <2>5, <2>6
<1>. QED
  BY <1>2, <1>3, <1>4, <1>5, <1>6 DEF InStep

\* The receiver on the header's burst.
LEMMA InStepBurst ==
  ASSUME LOSS_MAX = 0, LinkTiming, LinkTypeOK, LinkTypeOK', Light, Follows, InStep,
         Undisturbed', rx_state = "HEADER_BURST", RxEdge(ir_input),
         NEW start, NEW byte, Sends(start, byte)
  PROVE  InStep'
<1>1. InPacket /\ TimesBurst /\ Fits /\ tx_state \in {"HEADER_BURST", "HEADER_SPACE"}
  BY DEF InStep, Follows, TimesHeaderSpace, TimesDataBurst, TimesDataSpace, HasFrame,
         InPacket
<1>2. tick_count < TIMEOUT
  BY <1>1, NoTimeout
<1>3. CASE ir_sync <=> prev_level
  <2>1. /\ rx_state' = rx_state /\ tick_count' = tick_count + 1
        /\ (prev_level' <=> prev_level)
    BY <1>2, <1>3, LevelGoesOn DEF LinkTypeOK
  <2>2. tx_state' \in {"HEADER_BURST", "HEADER_SPACE"}
    <3>1. CASE tx_tick < Limit
      BY <1>1, <3>1, SendsOn DEF Sends, LinkTypeOK
    <3>2. CASE tx_tick >= Limit
      <4>1. Lit
        BY <1>1, <3>2, AllShow DEF TimesBurst
      <4>2. tx_state = "HEADER_BURST"
        BY <1>1, <4>1 DEF Lit
      <4>. QED
        BY <1>1, <3>2, <4>2, SendsNext DEF Sends, LinkTypeOK, Following
    <3>. QED
      BY <3>1, <3>2, LimitsFit, WayTypes DEF LinkTypeOK
  <2>3. InPacket'
    BY <2>2 DEF InPacket
  <2>4. Elapsed' = Elapsed + 1
    BY <1>1, <2>1, <2>3, TimeGoesOn
  <2>5. Elapsed \in Int /\ tick_count \in Nat /\ JITTER \in Nat
    BY LimitsFit, WayTypes DEF Elapsed, LinkTypeOK, IrRxTypeOK
  <2>6. Fits'
    BY <1>1, <2>1, <2>4, <2>5 DEF Fits
  <2>. QED
    BY <2>1, <2>2, <2>6 DEF InStep
<1>4. CASE ~(ir_sync <=> prev_level)
  <2>1. LevelEnds /\ (prev_level' <=> ~prev_level)
    BY <1>2, <1>4, LevelGone DEF LinkTypeOK
  <2>2. prev_level <=> Lit
    BY <1>1, <1>4, EdgeGetsThrough
  <2>3. tx_state = "HEADER_SPACE"
    BY <1>1, <2>2 DEF TimesBurst, Lit
  <2>4. TimesHeaderSpace'
    BY <1>1, <1>4, <2>1, <2>3, BurstEnds
  <2>. QED
    BY <2>4 DEF InStep, TimesHeaderSpace
<1>. QED
  BY <1>3, <1>4

\* The receiver later in a packet, its delivery included.
LEMMA InStepLater ==
  ASSUME LOSS_MAX = 0, LinkTiming, LinkTypeOK, LinkTypeOK', Light, Follows, InStep,
         Undisturbed', rx_state \notin {"IDLE", "HEADER_BURST"}, RxEdge(ir_input),
         NEW start, NEW byte, Sends(start, byte),
         done' => box' = None
  PROVE  InStep'
<1>1. InPacket
  BY DEF Follows, TimesBurst, TimesHeaderSpace, TimesDataBurst, TimesDataSpace, HasFrame,
         InPacket
<1>2. tick_count < TIMEOUT
  BY <1>1, NoTimeout
<1>3. CASE rx_state = "VALIDATE"
  <2>1. HasFrame
    BY <1>3 DEF Follows, TimesBurst, TimesHeaderSpace, TimesDataBurst, TimesDataSpace
  <2>2. rx_state' = "IDLE" /\ done'
    BY <2>1, FrameLeaves
  <2>3. Lit /\ ~prev_level /\ tx_state = "EOF"
    BY <2>1 DEF HasFrame, Lit
  <2>4. ~ir_sync
    BY <1>1, <2>3 DEF InStep, Undisturbed
  <2>5. ~prev_level'
    BY <2>4 DEF RxEdge
  <2>6. tx_state' \in {"EOF", "WAIT"}
    BY <1>1, <2>3, SendsOn, SendsNext, LimitsFit, WayTypes DEF Following, Sends, LinkTypeOK
  <2>. QED
    BY <2>2, <2>5, <2>6 DEF InStep
<1>4. CASE rx_state # "VALIDATE" /\ (ir_sync <=> prev_level)
  <2>1. rx_state' = rx_state
    BY <1>2, <1>4, LevelGoesOn DEF LinkTypeOK
  <2>. QED
    BY <2>1 DEF InStep
<1>5. CASE rx_state # "VALIDATE" /\ ~(ir_sync <=> prev_level)
  <2>1. LevelEnds /\ (prev_level' <=> ~prev_level)
    BY <1>2, <1>5, LevelGone DEF LinkTypeOK
  <2>2. TimesDataBurst' \/ TimesDataSpace' \/ HasFrame'
    BY <1>1, <1>5, <2>1, HeaderEnds, DataBurstPasses, DataSpacePasses
       DEF Follows, TimesBurst, HasFrame
  <2>3. rx_state' \notin {"IDLE", "HEADER_BURST"}
    BY <2>2 DEF TimesDataBurst, TimesDataSpace, HasFrame
  <2>. QED
    BY <2>3 DEF InStep
<1>. QED
  BY <1>3, <1>4, <1>5

\* Nobody resets a board, and the two ends agree in every cycle.
Reliable == exposed = {} /\ Light /\ Follows /\ Boxed /\ InStep

\* What a cycle is to the mailbox: a packet sent, one delivered, or nothing.
LEMMA MailboxStep ==
  ASSUME LOSS_MAX = 0, LinkTiming, LinkTypeOK, LinkTypeOK', Reliable, Clock
  PROVE  /\ Reliable'
         /\ Delivered!Send \/ Delivered!Deliver \/ UNCHANGED <<box, data>>
<1>1. "tx" \notin exposed /\ exposed' = {} /\ resetting = {}
  BY DEF Reliable, Clock, LinkTypeOK
<1>2. RxEdge(ir_input)
  BY <1>1 DEF Clock
<1>3. PICK start, byte : /\ Sends(start, byte)
                         /\ Started <=> tx_state = "IDLE" /\ start
                         /\ start => byte \in Packets
  BY <1>1, ClockSends
<1>4. Light /\ Follows /\ Boxed /\ InStep /\ Undisturbed
  BY DEF Reliable, InStep
<1>5. Light' /\ Follows'
  BY <1>3, <1>4, LightStep, FollowsStep
<1>6. Boxed'
  BY <1>1, <1>4, <1>5, BoxedStep
<1>7. Undisturbed'
  BY <1>2, <1>3, <1>4, UndisturbedStep
<1>8. box' = IF Started THEN data_out' ELSE IF done' THEN None ELSE box
  BY DEF Clock, History
<1>9. done' <=> rx_state = "VALIDATE"
  BY <1>2 DEF RxEdge
<1>10. rx_state # "VALIDATE" => data' = data
  BY <1>2, Zenon DEF RxEdge
<1>11. CASE Started
  <2>1. tx_state = "IDLE" /\ start
    BY <1>3, <1>11
  <2>2. rx_state = "IDLE"
    <3>1. rx_state # "HEADER_BURST"
      BY <1>4, <2>1 DEF InStep
    <3>. QED
      BY <1>4, <2>1, <3>1 DEF Follows, TimesBurst, TimesHeaderSpace, TimesDataBurst,
                              TimesDataSpace, HasFrame
  <2>3. box = None
    BY <1>4, <2>1, <2>2 DEF InStep
  <2>4. box' = data_out' /\ data_out' = byte /\ byte \in Packets
    BY <1>3, <1>8, <1>11, <2>1, SendsNothing DEF Sends, InPacket
  <2>5. InStep'
    BY <1>2, <1>3, <1>4, <1>7, <2>1, <2>2, InStepAwaits
  <2>6. Delivered!Send
    BY <1>10, <2>2, <2>3, <2>4 DEF Delivered!Send
  <2>. QED
    BY <1>1, <1>5, <1>6, <2>5, <2>6 DEF Reliable
<1>12. CASE ~Started /\ rx_state = "VALIDATE"
  <2>1. HasFrame
    BY <1>4, <1>12 DEF Follows, TimesBurst, TimesHeaderSpace, TimesDataBurst,
                       TimesDataSpace
  <2>2. data' = data_out /\ box = data_out
    BY <1>2, <1>4, <1>12, <2>1, FrameLeaves DEF Boxed
  <2>3. data_out # None
    BY LinkAssumption DEF LinkTypeOK, IrTxTypeOK
  <2>4. box' = None
    BY <1>8, <1>9, <1>12
  <2>5. InStep'
    BY <1>2, <1>3, <1>4, <1>7, <1>12, <2>4, InStepLater
  <2>6. Delivered!Deliver
    BY <2>2, <2>3, <2>4 DEF Delivered!Deliver
  <2>. QED
    BY <1>1, <1>5, <1>6, <2>5, <2>6 DEF Reliable
<1>13. CASE ~Started /\ rx_state # "VALIDATE"
  <2>1. box' = box /\ data' = data /\ ~done'
    BY <1>8, <1>9, <1>10, <1>13
  <2>2. InStep'
    <3>1. CASE rx_state = "IDLE"
      BY <1>2, <1>3, <1>4, <1>7, <2>1, <3>1, InStepAwaits
    <3>2. CASE rx_state = "HEADER_BURST"
      BY <1>2, <1>3, <1>4, <1>7, <3>2, InStepBurst
    <3>3. CASE rx_state \notin {"IDLE", "HEADER_BURST"}
      BY <1>2, <1>3, <1>4, <1>7, <2>1, <3>3, InStepLater
    <3>. QED
      BY <3>1, <3>2, <3>3
  <2>. QED
    BY <1>1, <1>5, <1>6, <2>1, <2>2 DEF Reliable
<1>. QED
  BY <1>11, <1>12, <1>13

\* At power-up no packet is on its way.
LEMMA ReliableInit ==
  ASSUME \A boards \in Resettable : boards = {}, LinkInit
  PROVE  Reliable /\ Delivered!Init
<1>1. exposed = {} /\ box = None
  BY DEF LinkInit
<1>2. Light /\ Follows /\ Boxed
  BY <1>1, AgreedInit DEF Agreed
<1>3. rx_state = "IDLE" /\ ~InPacket
  BY DEF LinkInit, IrTxInit, IrRxInit, InPacket
<1>4. ~prev_level /\ ~ir_sync
  BY DEF LinkInit, IrRxInit
<1>5. InStep
  BY <1>1, <1>3, <1>4 DEF InStep, Undisturbed
<1>. QED
  BY <1>1, <1>2, <1>5 DEF Reliable, Delivered!Init

\* Nobody presses a button, or nothing happens.
LEMMA ReliableRests ==
  ASSUME LinkTypeOK, Reliable, Press \/ Release \/ UNCHANGED linkVars
  PROVE  Reliable' /\ UNCHANGED <<box, data>>
<1>1. UNCHANGED <<irTxVars, irRxVars, tx_timer, tx_pulse, airVars, exposed, box>>
  BY DEF Press, Release, linkVars
<1>2. (Light' <=> Light) /\ (Follows' <=> Follows) /\ (Boxed' <=> Boxed)
  <2>1. Light' <=> Light
    BY <1>1 DEF irTxVars, irRxVars, airVars, Light, Dark, Waking, InPacket, Heard, Way,
                Lit, Limit, Space
  <2>2. Follows' <=> Follows
    BY <1>1 DEF irTxVars, irRxVars, Follows, TimesBurst, TimesHeaderSpace, TimesDataBurst,
                TimesDataSpace, HasFrame, Fits, Elapsed, LastLimit, Space, Lit, InPacket,
                Waking, Received
  <2>3. Boxed' <=> Boxed
    BY <1>1 DEF irTxVars, irRxVars, Boxed
  <2>. QED
    BY <2>1, <2>2, <2>3
<1>3. InStep' <=> InStep
  BY <1>1 DEF irTxVars, irRxVars, InStep, Undisturbed, Fits, Elapsed, LastLimit, Space,
              Lit, InPacket
<1>. QED
  BY <1>1, <1>2, <1>3 DEF Reliable, irRxVars

\* The two ends stay in step through every packet.
THEOREM ReliableAlways ==
  ASSUME LOSS_MAX = 0, LinkTiming, \A boards \in Resettable : boards = {}
  PROVE  LinkSpec => []Reliable
<1>1. LinkTypeOK /\ LinkTypeOK' /\ Reliable /\ [LinkNext]_linkVars => Reliable'
  BY MailboxStep, ReliableRests DEF LinkNext
<1>. QED
  BY <1>1, ReliableInit, LinkTypeCorrect, PTL DEF LinkSpec

\* The link is a mailbox: what ir_tx is given to send ir_rx delivers, once,
\* unchanged, and before the next packet starts, however late the edges come.
THEOREM LinkIsMailbox ==
  ASSUME LOSS_MAX = 0, LinkTiming, \A boards \in Resettable : boards = {}
  PROVE  LinkSpec => ReliableMailbox
<1>1. LinkTypeOK /\ LinkTypeOK' /\ Reliable /\ [LinkNext]_linkVars
      => [Delivered!Send \/ Delivered!Deliver]_<<box, data>>
  BY MailboxStep, ReliableRests DEF LinkNext
<1>. QED
  BY <1>1, ReliableInit, ReliableAlways, LinkTypeCorrect, PTL
     DEF LinkSpec, ReliableMailbox, Delivered!Spec

-----------------------------------------------------------------------------
\* The time a packet takes: its header, a bit that is zero and one that is one.
HeaderTime == TICK_HEADER_BURST + TICK_HEADER_SPACE + 2
ShortBit == 2 * TICK_DATA_BURST + 2
LongBit == TICK_DATA_BURST + TICK_DATA_SPACE + 2

\* From the start of a packet to its n-th bit, if every bit takes so many cycles.
UpTo(n, bit) == HeaderTime + n * bit

\* The longest packet, with its gap.
LongestPacket == UpTo(LAST_BIT + 1, LongBit) + TICK_DATA_BURST + TICK_WAIT_GAP + 2

\* The slots of the timer: the longest packet fits in one, and in two with the rest;
\* MAX_AGE is two slots, and what two packets may differ by.
LinkSlots ==
  /\ LongestPacket < TX_LIMIT
  /\ LongestPacket + TICK_LONG_WAIT + 1 < 2 * TX_LIMIT
  /\ 2 * TX_LIMIT + JITTER + UpTo(LAST_BIT + 1, LongBit) - UpTo(LAST_BIT + 1, ShortBit) + 1
       <= MAX_AGE

\* From the start of the packet to the start of the present state.
Begun(bit) ==
  CASE tx_state = "HEADER_SPACE" -> TICK_HEADER_BURST + 1
    [] tx_state = "DATA_BURST" -> UpTo(LAST_BIT - bit_count, bit)
    [] tx_state = "DATA_SPACE" -> UpTo(LAST_BIT - bit_count, bit) + TICK_DATA_BURST + 1
    [] tx_state = "EOF" -> UpTo(LAST_BIT + 1, bit)
    [] tx_state = "WAIT" -> UpTo(LAST_BIT + 1, bit) + TICK_DATA_BURST + 1
    [] tx_state = "LONG_WAIT" ->
         UpTo(LAST_BIT + 1, bit) + TICK_DATA_BURST + TICK_WAIT_GAP + 2
    [] OTHER -> 0

\* Where the transmitter is in a packet.
TxOrder ==
  /\ InPacket => tx_tick <= Limit
  /\ tx_state = "EOF" => bit_count = 0
  /\ tx_state \in {"HEADER_BURST", "HEADER_SPACE"} => bit_count = LAST_BIT

LEMMA LightInOrder == Light => TxOrder
BY DEF Light, TxOrder

\* The packet has started t cycles ago.
Since(t) == Begun(ShortBit) + tx_tick < t /\ t <= Begun(LongBit) + tx_tick + 1

\* The earliest that a packet is delivered, in cycles after the pulse.
Earliest == UpTo(LAST_BIT + 1, ShortBit) + 7

\* No packet outlasts its slot, no rest after a burst of packets the next one, and
\* so the age of a command is less than two slots and the time to the delivery.
OnTime ==
  /\ age \in Nat /\ (tx_pulse => tx_timer = 0)
  /\ InPacket => /\ ~tx_pulse /\ Since(tx_timer)
                 /\ age + Earliest <= IF box = None THEN tx_timer
                                                    ELSE tx_timer + 2 * (TX_LIMIT + 1)
  /\ tx_state = "LONG_WAIT" =>
       /\ tx_tick <= TICK_LONG_WAIT
       /\ \/ Since(tx_timer) /\ age + Earliest <= tx_timer
          \/ /\ Since(tx_timer + TX_LIMIT + 1)
             /\ age + Earliest <= tx_timer + TX_LIMIT + 1
  /\ tx_state = "IDLE" =>
       age + Earliest <= tx_timer + (IF tx_pulse THEN 2 ELSE 1) * (TX_LIMIT + 1)

\* What the bits add to the time.
LEMMA UpToGrows ==
  ASSUME NEW n \in 0..LAST_BIT, NEW bit \in Nat
  PROVE  /\ UpTo(n, bit) \in Nat /\ UpTo(LAST_BIT + 1, bit) \in Nat
         /\ UpTo(n + 1, bit) = UpTo(n, bit) + bit
         /\ UpTo(n + 1, bit) <= UpTo(LAST_BIT + 1, bit)
<1>1. LAST_BIT \in Nat /\ HeaderTime \in Nat
  BY IrTxAssumption, LinkAssumption DEF HeaderTime
<1>2. \A i, j \in Nat : i * j \in Nat
  OBVIOUS
<1>3. n * bit \in Nat /\ (LAST_BIT + 1) * bit \in Nat /\ (LAST_BIT - n) * bit \in Nat
  BY <1>1, <1>2
<1>4. (n + 1) * bit = n * bit + bit
  OBVIOUS
<1>5. (LAST_BIT + 1) * bit = (n + 1) * bit + (LAST_BIT - n) * bit
  BY <1>1
<1>6. (n + 1) * bit <= (LAST_BIT + 1) * bit
  BY <1>3, <1>4, <1>5
<1>. QED
  BY <1>1, <1>3, <1>4, <1>6 DEF UpTo

\* The numbers of the schedule.
LEMMA SlotTypes ==
  ASSUME LinkTypeOK
  PROVE  /\ bit_count \in 0..LAST_BIT /\ LAST_BIT \in Nat
         /\ TICK_HEADER_BURST \in Nat /\ TICK_HEADER_SPACE \in Nat
         /\ TICK_DATA_BURST \in Nat /\ TICK_DATA_SPACE \in Nat
         /\ TICK_WAIT_GAP \in Nat /\ TICK_LONG_WAIT \in Nat
         /\ tx_tick \in Nat /\ tx_timer \in 0..TX_LIMIT /\ TX_LIMIT \in Nat
         /\ ShortBit \in Nat /\ LongBit \in Nat
BY IrTxAssumption, LinkAssumption
   DEF LinkTypeOK, IrTxTypeOK, Bits, ShortBit, LongBit

\* The time before the present state is a number of cycles.
LEMMA BegunTypes ==
  ASSUME LinkTypeOK
  PROVE  Begun(ShortBit) \in Nat /\ Begun(LongBit) \in Nat
<1>1. LAST_BIT - bit_count \in 0..LAST_BIT
  BY SlotTypes
<1>2. /\ UpTo(LAST_BIT - bit_count, ShortBit) \in Nat /\ UpTo(LAST_BIT + 1, ShortBit) \in Nat
      /\ UpTo(LAST_BIT - bit_count, LongBit) \in Nat /\ UpTo(LAST_BIT + 1, LongBit) \in Nat
  BY <1>1, SlotTypes, UpToGrows
<1>. QED
  BY <1>2, SlotTypes DEF Begun

LEMMA BegunNat == LinkTypeOK => Begun(ShortBit) \in Nat /\ Begun(LongBit) \in Nat
BY BegunTypes

\* The time of the packet, on a cycle in which its state goes on or ends.
LEMMA PacketProgress ==
  ASSUME LinkTiming, LinkTypeOK, TxOrder, InPacket, NEW start, NEW byte,
         TxEdge(start, byte), tx_state' # "IDLE"
  PROVE  /\ Begun(ShortBit)' + tx_tick' <= Begun(ShortBit) + tx_tick + 1
         /\ Begun(LongBit) + tx_tick + 1 <= Begun(LongBit)' + tx_tick'
<1>1. CASE tx_tick < Limit
  <2>1. tx_state' = tx_state /\ tx_tick' = tx_tick + 1 /\ bit_count' = bit_count
    BY <1>1, SendsOn DEF LinkTypeOK
  <2>2. Begun(ShortBit)' = Begun(ShortBit) /\ Begun(LongBit)' = Begun(LongBit)
    BY <2>1 DEF Begun
  <2>. QED
    BY <2>1, <2>2, BegunTypes, SlotTypes
<1>2. CASE tx_tick = Limit
  <2>1. /\ tx_state' \in Following(tx_state) /\ tx_tick' = 0
        /\ bit_count' = (IF tx_state = "DATA_SPACE" /\ bit_count # 0
                         THEN bit_count - 1 ELSE bit_count)
    BY <1>2, SendsNext, LimitsFit DEF LinkTypeOK
  <2> DEFINE n == LAST_BIT - bit_count
  <2>2. n \in 0..LAST_BIT /\ LAST_BIT - (bit_count - 1) = n + 1
    BY SlotTypes
  <2>3. /\ UpTo(n, ShortBit) \in Nat /\ UpTo(n + 1, ShortBit) = UpTo(n, ShortBit) + ShortBit
        /\ UpTo(n, LongBit) \in Nat /\ UpTo(n + 1, LongBit) = UpTo(n, LongBit) + LongBit
        /\ UpTo(LAST_BIT + 1, ShortBit) \in Nat /\ UpTo(LAST_BIT + 1, LongBit) \in Nat
    BY <2>2, SlotTypes, UpToGrows
  <2> HIDE DEF n
  <2>4. CASE tx_state = "HEADER_BURST"
    <3>1. tx_state' = "HEADER_SPACE" /\ Limit = TICK_HEADER_BURST
      BY <2>1, <2>4 DEF Following, Limit
    <3>2. \A bit : Begun(bit) = 0
      BY <2>4 DEF Begun
    <3>3. Begun(ShortBit)' = TICK_HEADER_BURST + 1 /\ Begun(LongBit)' = TICK_HEADER_BURST + 1
      BY <3>1 DEF Begun
    <3>. QED
      BY <1>2, <2>1, <3>1, <3>2, <3>3, SlotTypes
  <2>5. CASE tx_state = "HEADER_SPACE"
    <3>1. tx_state' = "DATA_BURST" /\ Limit = TICK_HEADER_SPACE /\ bit_count' = LAST_BIT
      BY <2>1, <2>5 DEF Following, Limit, TxOrder
    <3>2. \A bit : Begun(bit) = TICK_HEADER_BURST + 1
      BY <2>5 DEF Begun
    <3>3. \A bit \in Nat : UpTo(0, bit) = HeaderTime
      BY SlotTypes DEF UpTo, HeaderTime
    <3>4. LAST_BIT - bit_count' = 0
      BY <3>1, SlotTypes
    <3>5. Begun(ShortBit)' = UpTo(0, ShortBit) /\ Begun(LongBit)' = UpTo(0, LongBit)
      BY <3>1, <3>4 DEF Begun, ShortBit, LongBit
    <3>. QED
      BY <1>2, <2>1, <3>1, <3>2, <3>3, <3>5, SlotTypes DEF HeaderTime
  <2>6. CASE tx_state = "DATA_BURST"
    <3>1. tx_state' = "DATA_SPACE" /\ Limit = TICK_DATA_BURST /\ bit_count' = bit_count
      BY <2>1, <2>6 DEF Following, Limit
    <3>2. \A bit : Begun(bit) = UpTo(n, bit)
      BY <2>6 DEF Begun, n
    <3>3. /\ Begun(ShortBit)' = UpTo(n, ShortBit) + TICK_DATA_BURST + 1
          /\ Begun(LongBit)' = UpTo(n, LongBit) + TICK_DATA_BURST + 1
      BY <3>1 DEF Begun, n, ShortBit, LongBit
    <3>. QED
      BY <1>2, <2>1, <2>3, <3>1, <3>2, <3>3, SlotTypes
  <2>7. CASE tx_state = "DATA_SPACE"
    <3>1. Limit \in {TICK_DATA_BURST, TICK_DATA_SPACE} /\ TICK_DATA_BURST <= TICK_DATA_SPACE
      <4>1. TICK_DATA_BURST <= TICK_DATA_SPACE
        BY SlotTypes, IrRxAssumption, LinkAssumption DEF LinkTiming
      <4>. QED
        BY <2>7, <4>1 DEF Limit, Space
    <3>2. \A bit : Begun(bit) = UpTo(n, bit) + TICK_DATA_BURST + 1
      BY <2>7 DEF Begun, n
    <3>3. Begun(ShortBit)' = UpTo(n + 1, ShortBit) /\ Begun(LongBit)' = UpTo(n + 1, LongBit)
      <4>1. CASE bit_count = 0
        <5>1. tx_state' = "EOF" /\ n + 1 = LAST_BIT + 1
          BY <2>1, <2>7, <4>1, SlotTypes DEF Following, n
        <5>. QED
          BY <5>1 DEF Begun, ShortBit, LongBit
      <4>2. CASE bit_count # 0
        <5>1. tx_state' = "DATA_BURST" /\ LAST_BIT - bit_count' = n + 1
          BY <2>1, <2>2, <2>7, <4>2 DEF Following
        <5>. QED
          BY <5>1 DEF Begun, ShortBit, LongBit
      <4>. QED
        BY <4>1, <4>2
    <3>. QED
      BY <1>2, <2>1, <2>3, <3>1, <3>2, <3>3, SlotTypes DEF ShortBit, LongBit
  <2>8. CASE tx_state = "EOF"
    <3>1. tx_state' = "WAIT" /\ Limit = TICK_DATA_BURST
      BY <2>1, <2>8 DEF Following, Limit
    <3>2. \A bit : Begun(bit) = UpTo(LAST_BIT + 1, bit)
      BY <2>8 DEF Begun
    <3>3. /\ Begun(ShortBit)' = UpTo(LAST_BIT + 1, ShortBit) + TICK_DATA_BURST + 1
          /\ Begun(LongBit)' = UpTo(LAST_BIT + 1, LongBit) + TICK_DATA_BURST + 1
      BY <3>1 DEF Begun, ShortBit, LongBit
    <3>. QED
      BY <1>2, <2>1, <2>3, <3>1, <3>2, <3>3, SlotTypes
  <2>9. CASE tx_state = "WAIT"
    <3>1. tx_state' = "LONG_WAIT" /\ Limit = TICK_WAIT_GAP
      BY <2>1, <2>9 DEF Following, Limit
    <3>2. \A bit : Begun(bit) = UpTo(LAST_BIT + 1, bit) + TICK_DATA_BURST + 1
      BY <2>9 DEF Begun
    <3>3. /\ Begun(ShortBit)'
               = UpTo(LAST_BIT + 1, ShortBit) + TICK_DATA_BURST + TICK_WAIT_GAP + 2
          /\ Begun(LongBit)'
               = UpTo(LAST_BIT + 1, LongBit) + TICK_DATA_BURST + TICK_WAIT_GAP + 2
      BY <3>1 DEF Begun, ShortBit, LongBit
    <3>. QED
      BY <1>2, <2>1, <2>3, <3>1, <3>2, <3>3, SlotTypes
  <2>. QED
    BY <2>4, <2>5, <2>6, <2>7, <2>8, <2>9 DEF InPacket, LinkTypeOK, IrTxTypeOK, TxState
<1>. QED
  BY <1>1, <1>2, LimitsFit, SlotTypes DEF TxOrder, LinkTypeOK

\* How much of the slot a packet may take, until it is delivered and with its gap.
LEMMA PacketFits ==
  ASSUME LinkTiming, LinkTypeOK, TxOrder, InPacket
  PROVE  /\ Begun(ShortBit) \in Nat /\ Begun(LongBit) \in Nat
         /\ Begun(LongBit) + tx_tick + 1 <= LongestPacket
         /\ tx_state \notin {"EOF", "WAIT"}
              => Begun(LongBit) + tx_tick + 1 <= UpTo(LAST_BIT + 1, LongBit)
<1> DEFINE n == LAST_BIT - bit_count
<1>1. n \in 0..LAST_BIT
  BY SlotTypes
<1>2. /\ UpTo(n, ShortBit) \in Nat /\ UpTo(LAST_BIT + 1, ShortBit) \in Nat
      /\ UpTo(n, LongBit) \in Nat /\ UpTo(LAST_BIT + 1, LongBit) \in Nat
      /\ UpTo(n, LongBit) + LongBit <= UpTo(LAST_BIT + 1, LongBit)
      /\ HeaderTime <= UpTo(n, LongBit)
  <2>1. \A i, j \in Nat : i * j \in Nat
    OBVIOUS
  <2>2. n * LongBit \in Nat /\ HeaderTime \in Nat
    BY <1>1, <2>1, SlotTypes DEF HeaderTime
  <2>3. HeaderTime <= UpTo(n, LongBit)
    BY <2>2 DEF UpTo
  <2>4. UpTo(n + 1, LongBit) = UpTo(n, LongBit) + LongBit
        /\ UpTo(n + 1, LongBit) <= UpTo(LAST_BIT + 1, LongBit)
    BY <1>1, SlotTypes, UpToGrows
  <2>. QED
    BY <1>1, <2>3, <2>4, SlotTypes, UpToGrows
<1>3. TICK_DATA_BURST <= TICK_DATA_SPACE
  BY SlotTypes, IrRxAssumption, LinkAssumption DEF LinkTiming
<1>4. Begun(ShortBit) \in Nat /\ Begun(LongBit) \in Nat
  BY BegunTypes
<1>5. tx_tick <= Limit
  BY DEF TxOrder
<1>6. CASE tx_state = "HEADER_BURST"
  BY <1>2, <1>4, <1>5, <1>6, SlotTypes DEF Begun, Limit, HeaderTime, LongBit, LongestPacket
<1>7. CASE tx_state = "HEADER_SPACE"
  BY <1>2, <1>4, <1>5, <1>7, SlotTypes DEF Begun, Limit, HeaderTime, LongBit, LongestPacket
<1>8. CASE tx_state = "DATA_BURST"
  BY <1>2, <1>4, <1>5, <1>8, SlotTypes DEF Begun, Limit, LongBit, LongestPacket
<1>9. CASE tx_state = "DATA_SPACE"
  <2>1. Begun(LongBit) = UpTo(n, LongBit) + TICK_DATA_BURST + 1
    BY <1>9 DEF Begun
  <2>2. Limit <= TICK_DATA_SPACE
    BY <1>3, <1>9, SlotTypes DEF Limit, Space
  <2>. QED
    BY <1>2, <1>4, <1>5, <1>9, <2>1, <2>2, SlotTypes, LimitsFit
       DEF LongBit, LongestPacket, LinkTypeOK
<1>10. CASE tx_state \in {"EOF", "WAIT"}
  BY <1>2, <1>4, <1>5, <1>10, SlotTypes DEF Begun, Limit, LongestPacket
<1>. QED
  BY <1>6, <1>7, <1>8, <1>9, <1>10 DEF InPacket, LinkTypeOK, IrTxTypeOK, TxState

\* The longest and the shortest packet.
LEMMA WholePacket ==
  ASSUME LinkTiming, LinkSlots, LinkTypeOK
  PROVE  /\ UpTo(LAST_BIT + 1, ShortBit) \in Nat /\ UpTo(LAST_BIT + 1, LongBit) \in Nat
         /\ UpTo(LAST_BIT + 1, ShortBit) <= UpTo(LAST_BIT + 1, LongBit)
         /\ Earliest \in Nat /\ Earliest < TX_LIMIT
<1>1. LAST_BIT \in 0..LAST_BIT
  BY SlotTypes
<1>2. /\ UpTo(LAST_BIT + 1, ShortBit) \in Nat /\ UpTo(LAST_BIT + 1, LongBit) \in Nat
  BY <1>1, SlotTypes, UpToGrows
<1>3. ShortBit <= LongBit /\ ShortBit \in Nat /\ LongBit \in Nat
  BY SlotTypes, IrRxAssumption, LinkAssumption DEF LinkTiming, ShortBit, LongBit
<1>4. \A k \in Nat : k * ShortBit <= k * LongBit
  BY <1>3
<1>5. /\ (LAST_BIT + 1) * ShortBit <= (LAST_BIT + 1) * LongBit
      /\ (LAST_BIT + 1) * ShortBit \in Nat /\ (LAST_BIT + 1) * LongBit \in Nat
  BY <1>3, <1>4, SlotTypes
<1>6. UpTo(LAST_BIT + 1, ShortBit) <= UpTo(LAST_BIT + 1, LongBit)
  BY <1>5, SlotTypes DEF UpTo, HeaderTime
<1>7. 5 <= TICK_DATA_BURST /\ 5 <= TICK_WAIT_GAP
  BY SlotTypes, LinkAssumption DEF LinkTiming
<1>. QED
  BY <1>2, <1>6, <1>7, SlotTypes DEF LinkSlots, LongestPacket, Earliest

\* A packet still to be delivered at its last burst has been heard by then.
LEMMA DeliveredSoon ==
  ASSUME LinkTypeOK, Reliable, box # None
  PROVE  /\ InPacket /\ tx_state # "WAIT"
         /\ tx_state = "EOF" => tx_tick <= JITTER + 5
<1>1. Follows /\ InStep /\ Undisturbed
  BY DEF Reliable, InStep
<1>2. JITTER \in Nat /\ tx_tick \in Nat
  BY LinkAssumption, SlotTypes
<1>3. CASE rx_state = "IDLE"
  BY <1>1, <1>3 DEF InStep, InPacket
<1>4. CASE rx_state # "IDLE"
  <2>1. TimesBurst => tx_state \in {"HEADER_BURST", "HEADER_SPACE"}
    BY <1>1 DEF TimesBurst, InStep
  <2>2. TimesDataSpace /\ tx_state = "EOF" => tx_tick <= JITTER + 4
    BY <1>1 DEF TimesDataSpace, Undisturbed, InPacket, Lit
  <2>. QED
    BY <1>1, <1>2, <1>4, <2>1, <2>2 DEF Follows, TimesHeaderSpace, TimesDataBurst,
                                        TimesDataSpace, HasFrame, InPacket
<1>. QED
  BY <1>3, <1>4

\* The age of a command on time.
LEMMA OnTimeIsFresh ==
  ASSUME LinkTiming, LinkSlots, LinkTypeOK, Reliable, OnTime
  PROVE  FreshCommand
<1>1. /\ TX_LIMIT \in Nat /\ tx_timer \in 0..TX_LIMIT /\ JITTER \in Nat /\ tx_tick \in Nat
      /\ age \in Nat /\ MAX_AGE \in Nat
      /\ MAX_AGE >= 2 * TX_LIMIT + JITTER + UpTo(LAST_BIT + 1, LongBit)
                      - UpTo(LAST_BIT + 1, ShortBit) + 1
  BY SlotTypes, LinkAssumption DEF LinkSlots, OnTime
<1>2. CASE box # None
  <2>1. InPacket /\ tx_state # "WAIT" /\ (tx_state = "EOF" => tx_tick <= JITTER + 5)
    BY <1>2, DeliveredSoon
  <2>2. /\ age + Earliest <= tx_timer + 2 * (TX_LIMIT + 1)
        /\ tx_timer <= Begun(LongBit) + tx_tick + 1
    BY <1>2, <2>1 DEF OnTime, Since
  <2>3. tx_timer <= UpTo(LAST_BIT + 1, LongBit) + JITTER + 6
    <3>1. CASE tx_state = "EOF"
      <4>1. Begun(LongBit) = UpTo(LAST_BIT + 1, LongBit)
        BY <3>1 DEF Begun
      <4>. QED
        BY <1>1, <2>1, <2>2, <3>1, <4>1, WholePacket
    <3>2. CASE tx_state # "EOF"
      BY <1>1, <2>1, <2>2, <3>2, PacketFits, LightInOrder, WholePacket
         DEF Reliable
    <3>. QED
      BY <3>1, <3>2
  <2>. QED
    BY <1>1, <2>2, <2>3, WholePacket DEF Earliest, FreshCommand
<1>3. CASE box = None
  <2>1. tx_state \in TxState
    BY DEF LinkTypeOK, IrTxTypeOK
  <2>2. \/ age + Earliest <= tx_timer + TX_LIMIT + 1
        \/ tx_timer = 0 /\ age + Earliest <= 2 * (TX_LIMIT + 1)
    <3>1. CASE InPacket
      BY <1>1, <1>3, <3>1, WholePacket DEF OnTime
    <3>2. CASE tx_state = "LONG_WAIT"
      BY <1>1, <3>2, WholePacket DEF OnTime
    <3>3. CASE tx_state = "IDLE"
      BY <1>1, <3>3, WholePacket DEF OnTime
    <3>. QED
      BY <3>1, <3>2, <3>3 DEF InPacket
  <2>. QED
    BY <1>1, <2>2, WholePacket DEF Earliest, FreshCommand
<1>. QED
  BY <1>2, <1>3

LEMMA OnTimeBegins ==
  ASSUME LinkTiming, LinkSlots, LinkTypeOK, LinkInit
  PROVE  OnTime
<1>1. tx_state = "IDLE" /\ ~tx_pulse /\ tx_timer = 0 /\ age = 0
  BY DEF LinkInit, IrTxInit
<1>2. Earliest <= TX_LIMIT + 1 /\ Earliest \in Nat /\ TX_LIMIT \in Nat
  BY WholePacket, SlotTypes
<1>3. age + Earliest <= tx_timer + 1 * (TX_LIMIT + 1)
  BY <1>1, <1>2
<1>. QED
  BY <1>1, <1>3 DEF OnTime, InPacket

\* What a cycle does to the timer and to the age.
LEMMA TimePasses ==
  ASSUME LinkTypeOK, LinkTypeOK', OnTime, Clock, exposed = {}
  PROVE  /\ TX_LIMIT \in Nat /\ tx_timer \in 0..TX_LIMIT /\ tx_timer' \in 0..TX_LIMIT
         /\ IF tx_timer = TX_LIMIT THEN tx_timer' = 0 /\ tx_pulse'
                                   ELSE tx_timer' = tx_timer + 1 /\ ~tx_pulse'
         /\ age \in Nat /\ age' \in Nat /\ age' <= age + 1
<1>1. TX_LIMIT \in Nat /\ tx_timer \in 0..TX_LIMIT /\ tx_timer' \in 0..TX_LIMIT
  BY LinkAssumption DEF LinkTypeOK
<1>2. tx_timer' = (IF tx_timer >= TX_LIMIT THEN 0 ELSE tx_timer + 1)
  BY DEF Clock, Timer
<1>3. tx_pulse' <=> tx_timer >= TX_LIMIT
  BY DEF Clock, Timer
<1>4. age' = IF done' THEN 0 ELSE IF age > MAX_AGE THEN age ELSE age + 1
  BY DEF Clock, History
<1>5. age \in Nat
  BY DEF OnTime
<1>6. age' \in Nat /\ age' <= age + 1
  BY <1>4, <1>5
<1>. QED
  BY <1>1, <1>2, <1>3, <1>5, <1>6

\* The age in a cycle: with e added at most t before it, and t + 1 after it.
LEMMA Ages ==
  ASSUME NEW new \in Nat, NEW old \in Nat, new <= old + 1, NEW e \in Nat,
         NEW t \in Nat, old + e <= t
  PROVE  new + e <= t + 1
OBVIOUS

\* A cycle of a packet.
LEMMA OnTimeInPacket ==
  ASSUME LOSS_MAX = 0, LinkTiming, LinkSlots, LinkTypeOK, LinkTypeOK', Reliable,
         Reliable', OnTime, Clock, InPacket
  PROVE  OnTime'
<1>1. exposed = {} /\ resetting = {} /\ Light /\ Follows /\ Undisturbed
  BY DEF Reliable, InStep, LinkTypeOK
<1>2. PICK start, byte : TxEdge(start, byte)
  BY <1>1, ClockSends DEF Sends
<1>3. /\ TX_LIMIT \in Nat /\ tx_timer \in 0..TX_LIMIT /\ tx_tick \in Nat /\ tx_tick' \in Nat
      /\ age \in Nat /\ age' \in Nat /\ age' <= age + 1
      /\ Begun(ShortBit) \in Nat /\ Begun(LongBit) \in Nat
      /\ Earliest \in Nat
  <2>1. tx_tick' \in Nat
    BY DEF LinkTypeOK, IrTxTypeOK
  <2>2. age \in Nat /\ age' \in Nat /\ age' <= age + 1
    BY <1>1, TimePasses
  <2>. QED
    BY <2>1, <2>2, WholePacket, BegunTypes, SlotTypes
<1>4. /\ Begun(ShortBit) + tx_tick < tx_timer /\ tx_timer <= Begun(LongBit) + tx_tick + 1
      /\ age + Earliest <= IF box = None THEN tx_timer ELSE tx_timer + 2 * (TX_LIMIT + 1)
  BY DEF OnTime, Since
<1>5. tx_timer < TX_LIMIT
  BY <1>1, <1>3, <1>4, PacketFits, LightInOrder, WholePacket, SlotTypes
     DEF LinkSlots, LongestPacket
<1>6. tx_timer' = tx_timer + 1 /\ ~tx_pulse'
  BY <1>1, <1>3, <1>5, TimePasses
<1>7. tx_state' # "IDLE" => Since(tx_timer)'
  <2> HAVE tx_state' # "IDLE"
  <2>1. /\ Begun(ShortBit)' + tx_tick' <= Begun(ShortBit) + tx_tick + 1
        /\ Begun(LongBit) + tx_tick + 1 <= Begun(LongBit)' + tx_tick'
    BY <1>1, <1>2, PacketProgress, LightInOrder
  <2>3. (Begun(ShortBit) \in Nat /\ Begun(LongBit) \in Nat)'
    BY BegunNat, PTL
  <2>2. Begun(ShortBit)' + tx_tick' < tx_timer + 1
        /\ tx_timer + 1 <= Begun(LongBit)' + tx_tick' + 1
    BY <1>3, <1>4, <2>1, <2>3
  <2>. QED
    BY <1>6, <2>2 DEF Since
<1>8. ~Started
  BY DEF Started, InPacket
<1>9. CASE InPacket'
  <2>4. tx_timer \in Nat /\ tx_timer + 2 * (TX_LIMIT + 1) \in Nat
    BY <1>3
  <2>1. age' + Earliest <= IF box' = None THEN tx_timer + 1
                           ELSE tx_timer + 2 * (TX_LIMIT + 1) + 1
    <3>1. CASE done'
      <4>1. box' = None /\ age' = 0
        BY <1>8, <3>1 DEF Clock, History
      <4>2. rx_state = "VALIDATE"
        <5>1. RxEdge(ir_input)
          BY <1>1 DEF Clock
        <5>. QED
          BY <3>1, <5>1 DEF RxEdge
      <4>3. HasFrame
        BY <1>1, <4>2 DEF Follows, TimesBurst, TimesHeaderSpace, TimesDataBurst,
                          TimesDataSpace
      <4>4. tx_state = "EOF" /\ tx_tick >= 5
        BY <1>1, <4>3 DEF HasFrame, Undisturbed, Lit, InPacket
      <4>5. Begun(ShortBit) = UpTo(LAST_BIT + 1, ShortBit)
        BY <4>4 DEF Begun
      <4>6. Earliest <= tx_timer + 1
        BY <1>3, <1>4, <4>4, <4>5, WholePacket DEF Earliest
      <4>. QED
        BY <1>3, <4>1, <4>6
    <3>2. CASE ~done'
      <4>1. box' = box
        BY <1>8, <3>2 DEF Clock, History
      <4>2. CASE box = None
        <5>1. age + Earliest <= tx_timer
          BY <1>4, <4>2, Zenon
        <5>2. age' + Earliest <= tx_timer + 1
          BY <1>3, <2>4, <5>1, Ages, Zenon
        <5>. QED
          BY <4>1, <4>2, <5>2, Zenon
      <4>3. CASE box # None
        <5>1. age + Earliest <= tx_timer + 2 * (TX_LIMIT + 1)
          BY <1>4, <4>3, Zenon
        <5>2. age' + Earliest <= tx_timer + 2 * (TX_LIMIT + 1) + 1
          BY <1>3, <2>4, <5>1, Ages, Zenon
        <5>. QED
          BY <4>1, <4>3, <5>2, Zenon
      <4>. QED
        BY <4>2, <4>3
    <3>. QED
      BY <3>1, <3>2
  <2>2. tx_state' \notin {"IDLE", "LONG_WAIT"}
    BY <1>9 DEF InPacket
  <2>3. Earliest' = Earliest
    BY DEF Earliest, UpTo, HeaderTime, ShortBit
  <2>5. tx_timer' + 2 * (TX_LIMIT + 1) = tx_timer + 2 * (TX_LIMIT + 1) + 1
    BY <1>3, <1>6
  <2>6. age' + Earliest <= IF box' = None THEN tx_timer' ELSE tx_timer' + 2 * (TX_LIMIT + 1)
    BY <1>6, <2>1, <2>5, Zenon
  <2>. QED
    BY <1>3, <1>6, <1>7, <1>9, <2>2, <2>3, <2>6 DEF OnTime
<1>10. CASE ~InPacket'
  <2>1. tx_state' \in {"IDLE", "LONG_WAIT"}
    BY <1>10 DEF InPacket
  <2>2. tx_tick \in Nat /\ Limit \in Nat /\ tx_tick >= Limit
    BY <1>2, <1>3, <1>10, LimitsFit, SendsOn DEF LinkTypeOK, InPacket
  <2>3. tx_state' \in Following(tx_state) /\ tx_tick' = 0
    BY <1>2, <2>2, SendsNext DEF LinkTypeOK
  <2>4. tx_state = "WAIT"
    BY <2>1, <2>3 DEF Following, InPacket, LinkTypeOK, IrTxTypeOK, TxState
  <2>5. box = None
    BY <2>4, DeliveredSoon
  <2>6. age' + Earliest <= tx_timer + 1
    <3>1. age + Earliest <= tx_timer
      BY <1>4, <2>5, Zenon
    <3>2. tx_timer \in Nat
      BY <1>3
    <3>. QED
      BY <1>3, <3>1, <3>2, Ages, Zenon
  <2>7. age' + Earliest <= tx_timer'
    BY <1>6, <2>6, Zenon
  <2>8. age' + Earliest <= tx_timer' + 1 * (TX_LIMIT + 1)
    <3>1. \A n \in Int : n <= tx_timer + 1 => n <= tx_timer + 1 + 1 * (TX_LIMIT + 1)
      BY <1>3
    <3>2. age' + Earliest \in Int
      BY <1>3
    <3>. QED
      BY <1>6, <2>6, <3>1, <3>2, Zenon
  <2>9. 0 <= TICK_LONG_WAIT
    BY SlotTypes
  <2>. QED
    BY <1>3, <1>6, <1>7, <1>10, <2>1, <2>3, <2>7, <2>8, <2>9 DEF OnTime
<1>. QED
  BY <1>9, <1>10

\* A cycle between packets.
LEMMA OnTimeBetween ==
  ASSUME LOSS_MAX = 0, LinkTiming, LinkSlots, LinkTypeOK, LinkTypeOK', Reliable,
         Reliable', OnTime, Clock, ~InPacket
  PROVE  OnTime'
<1>1. exposed = {} /\ resetting = {}
  BY DEF Reliable, LinkTypeOK
<1>2. PICK start, byte : /\ Sends(start, byte)
                         /\ Started <=> tx_state = "IDLE" /\ start
                         /\ start => byte \in Packets
  BY <1>1, ClockSends
<1>3. /\ TX_LIMIT \in Nat \ {0} /\ tx_timer \in 0..TX_LIMIT /\ tx_tick \in Nat
      /\ tx_tick' \in Nat /\ age \in Nat /\ age' \in Nat /\ age' <= age + 1
      /\ Earliest \in Nat /\ TICK_LONG_WAIT \in Nat
      /\ Begun(ShortBit) \in Nat /\ Begun(LongBit) \in Nat
  <2>1. tx_tick' \in Nat /\ TX_LIMIT \in Nat \ {0}
    BY LinkAssumption DEF LinkTypeOK, IrTxTypeOK
  <2>2. age \in Nat /\ age' \in Nat /\ age' <= age + 1
    BY <1>1, TimePasses
  <2>. QED
    BY <2>1, <2>2, WholePacket, BegunTypes, SlotTypes
<1>4. IF tx_timer = TX_LIMIT THEN tx_timer' = 0 /\ tx_pulse'
                             ELSE tx_timer' = tx_timer + 1 /\ ~tx_pulse'
  BY <1>1, TimePasses
<1>5. tx_pulse => tx_timer = 0
  BY DEF OnTime
<1>6. tx_pulse' => tx_timer' = 0
  BY <1>4
<1>7. CASE Started
  <2>1. tx_state = "IDLE" /\ start /\ tx_pulse
    BY <1>2, <1>7 DEF Started
  <2>2. /\ tx_state' = "HEADER_BURST" /\ tx_tick' = 0 /\ data_out' = byte
    BY <1>2, <2>1, SendsNothing DEF InPacket, Sends
  <2>3. tx_timer = 0 /\ tx_timer' = 1 /\ ~tx_pulse'
    BY <1>3, <1>4, <1>5, <2>1
  <2>4. box' = byte /\ byte # None
    BY <1>2, <1>7, <2>1, <2>2, LinkAssumption DEF Clock, History
  <2>5. age + Earliest <= tx_timer + 2 * (TX_LIMIT + 1)
    BY <2>1 DEF OnTime
  <2>6. age' + Earliest <= tx_timer' + 2 * (TX_LIMIT + 1)
    <3>1. tx_timer + 2 * (TX_LIMIT + 1) \in Nat
          /\ tx_timer' + 2 * (TX_LIMIT + 1) = tx_timer + 2 * (TX_LIMIT + 1) + 1
      BY <1>3, <2>3
    <3>2. age' + Earliest <= tx_timer + 2 * (TX_LIMIT + 1) + 1
      BY <1>3, <2>5, <3>1, Ages, Zenon
    <3>. QED
      BY <3>1, <3>2, Zenon
  <2>7. Since(tx_timer)'
    <3>1. Begun(ShortBit)' = 0 /\ Begun(LongBit)' = 0
      BY <2>2 DEF Begun
    <3>. QED
      BY <2>2, <2>3, <3>1 DEF Since
  <2>. QED
    BY <1>3, <2>2, <2>3, <2>4, <2>6, <2>7 DEF OnTime, InPacket
<1>8. CASE tx_state = "IDLE" /\ ~Started
  <2>1. ~tx_pulse
    BY <1>1, <1>8 DEF Started
  <2>2. tx_state' = "IDLE"
    BY <1>2, <1>8, SendsNothing DEF Sends
  <2>3. age + Earliest <= tx_timer + 1 * (TX_LIMIT + 1)
    BY <1>8, <2>1 DEF OnTime
  <2>4. age' + Earliest <= tx_timer' + (IF tx_pulse' THEN 2 ELSE 1) * (TX_LIMIT + 1)
    BY <1>3, <1>4, <2>3
  <2>. QED
    BY <1>3, <1>6, <2>2, <2>4 DEF OnTime, InPacket
<1>9. CASE tx_state = "LONG_WAIT"
  <2>1. LongWait
    BY <1>2, <1>9 DEF Sends, TxEdge, TxIdle, Header, DataBurst, DataSpace, Eof, Wait,
                      Hold, Leave
  <2>2. /\ tx_tick <= TICK_LONG_WAIT
        /\ \/ Since(tx_timer) /\ age + Earliest <= tx_timer
           \/ /\ Since(tx_timer + TX_LIMIT + 1)
              /\ age + Earliest <= tx_timer + TX_LIMIT + 1
    BY <1>9 DEF OnTime
  <2>3. Begun(LongBit) + TICK_LONG_WAIT + 1 < 2 * TX_LIMIT
    <3>1. Begun(LongBit) = UpTo(LAST_BIT + 1, LongBit) + TICK_DATA_BURST + TICK_WAIT_GAP + 2
      BY <1>9 DEF Begun
    <3>. QED
      BY <3>1, SlotTypes, WholePacket DEF LinkSlots, LongestPacket
  <2>4. \/ /\ tx_timer' = tx_timer + 1 /\ ~tx_pulse'
           /\ Since(tx_timer) /\ age + Earliest <= tx_timer
        \/ /\ tx_timer = TX_LIMIT /\ tx_timer' = 0 /\ tx_pulse'
           /\ Since(tx_timer) /\ age + Earliest <= tx_timer
        \/ /\ tx_timer' = tx_timer + 1 /\ ~tx_pulse'
           /\ Since(tx_timer + TX_LIMIT + 1)
           /\ age + Earliest <= tx_timer + TX_LIMIT + 1
    <3>1. CASE Since(tx_timer) /\ age + Earliest <= tx_timer
      BY <1>4, <3>1
    <3>2. CASE Since(tx_timer + TX_LIMIT + 1) /\ age + Earliest <= tx_timer + TX_LIMIT + 1
      <4>1. tx_timer # TX_LIMIT
        BY <1>3, <2>2, <2>3, <3>2 DEF Since
      <4>. QED
        BY <1>4, <3>2, <4>1
    <3>. QED
      BY <2>2, <3>1, <3>2
  <2>5. CASE tx_state' = "LONG_WAIT"
    <3>1. tx_tick' = tx_tick + 1 /\ tx_tick < TICK_LONG_WAIT
      BY <2>1, <2>5 DEF LongWait, Hold, Leave
    <3>2. Begun(ShortBit)' = Begun(ShortBit) /\ Begun(LongBit)' = Begun(LongBit)
      BY <1>9, <2>5 DEF Begun, ShortBit, LongBit, UpTo, HeaderTime
    <3>3. tx_tick' <= TICK_LONG_WAIT
      BY <1>3, <3>1
    <3>4. \/ Since(tx_timer)' /\ age' + Earliest <= tx_timer'
          \/ /\ Since(tx_timer + TX_LIMIT + 1)'
             /\ age' + Earliest <= tx_timer' + TX_LIMIT + 1
      BY <1>3, <2>4, <3>1, <3>2 DEF Since
    <3>. QED
      BY <1>3, <1>6, <2>5, <3>3, <3>4 DEF OnTime, InPacket
  <2>6. CASE tx_state' # "LONG_WAIT"
    <3>1. tx_state' = "IDLE"
      BY <2>1, <2>6, <1>9 DEF LongWait, Hold, Leave
    <3>2. age' + Earliest <= tx_timer' + (IF tx_pulse' THEN 2 ELSE 1) * (TX_LIMIT + 1)
      BY <1>3, <2>4
    <3>. QED
      BY <1>3, <1>6, <3>1, <3>2 DEF OnTime, InPacket
  <2>. QED
    BY <2>5, <2>6
<1>. QED
  BY <1>7, <1>8, <1>9 DEF InPacket

\* No packet outlasts its slot, and no rest the slot after it.
THEOREM OnTimeAlways ==
  ASSUME LOSS_MAX = 0, LinkTiming, LinkSlots, \A boards \in Resettable : boards = {}
  PROVE  LinkSpec => []OnTime
<1>1. /\ LinkTypeOK /\ LinkTypeOK' /\ Reliable /\ Reliable' /\ OnTime /\ [LinkNext]_linkVars
      => OnTime'
  <2> SUFFICES ASSUME LinkTypeOK, LinkTypeOK', Reliable, Reliable', OnTime,
                      [LinkNext]_linkVars
               PROVE  OnTime'
    OBVIOUS
  <2>1. CASE Clock
    BY <2>1, OnTimeInPacket, OnTimeBetween
  <2>2. CASE Press \/ Release \/ UNCHANGED linkVars
    BY <2>2 DEF Press, Release, linkVars, irTxVars, OnTime, InPacket, Since, Begun, UpTo,
                Earliest, HeaderTime, ShortBit, LongBit
  <2>. QED
    BY <2>1, <2>2 DEF LinkNext
<1>. QED
  BY <1>1, OnTimeBegins, ReliableAlways, LinkTypeCorrect, PTL DEF LinkSpec

\* A command is at most two slots old, and what two packets may differ by: the rest
\* after a burst of packets costs one slot and no more.
THEOREM FreshAlways ==
  ASSUME LOSS_MAX = 0, LinkTiming, LinkSlots, \A boards \in Resettable : boards = {}
  PROVE  LinkSpec => []FreshCommand
<1>1. LinkTypeOK /\ Reliable /\ OnTime => FreshCommand
  BY OnTimeIsFresh
<1>. QED
  BY <1>1, OnTimeAlways, ReliableAlways, LinkTypeCorrect, PTL

-----------------------------------------------------------------------------
\* What else the proofs need of the times where the board of ir_tx may be reset:
\* after the longest packet the rest of the slot outlasts a burst of a bit, and a level
\* that goes on from the first burst of a packet times out before the next packet; the
\* burst of a header is far too long for that of a bit.
ResetTiming ==
  /\ LongestPacket + JITTER + 7 + DATA_BURST_MAX < TX_LIMIT
  /\ TIMEOUT + JITTER + 8 + DATA_BURST_MAX < TX_LIMIT
  /\ DATA_BURST_MAX + JITTER + 5 < TICK_HEADER_BURST

\* The beginning of a burst on its way, 1, 2, 3 or up to 4 + JITTER - late cycles from
\* the receiver's state machine.
Due1 == prev_level /\ ~ir_sync
Due2 == ir_sync /\ ~ir_sync0
Due3 == ir_sync0 /\ ~ir_input
Due4 == ir_input /\ message

\* No burst is about to begin, and at most one is.
Fading == ~Due1 /\ ~Due2 /\ ~Due3 /\ ~Due4
OneBurst == (Due1 => ~Due3) /\ (Due1 \/ Due2 => ~Due4)

\* The burst on its way has been heard by the t-th cycle of the slot.
HeardBy(t) ==
  /\ ~tx_pulse /\ tx_timer >= 1
  /\ Due1 => tx_timer + 1 <= t
  /\ Due2 => tx_timer + 2 <= t
  /\ Due3 => tx_timer + 3 <= t
  /\ Due4 => tx_timer + 4 + JITTER - late <= t

\* The level that the receiver times has begun by the t-th cycle of the slot.
BeganBy(t) == ~tx_pulse /\ tx_timer <= tick_count + t

\* The cycles of a slot by which the first burst of a packet has been heard, and the last.
FirstHeard == JITTER + 6
LastHeard == LongestPacket + JITTER + 6

\* No window takes the present burst for that of a bit.
TooLong == tick_count > DATA_BURST_MAX

\* The bits in the receiver are the first ones of p, all but the last one of them.
Prefix(p) == \A b \in RxBits : b < rx_bits => shift_reg[b] = p[b + (LAST_BIT + 1 - rx_bits)]
Nearly(p) == \A b \in RxBits \ {0} : shift_reg[b] = p[b]

\* A space of t cycles is read as the bit; so is the present one if a burst ends it
\* that is on its way.
Right(t, bit) == bit <=> t > BIT_THRESHOLD
Good(bit) ==
  /\ Due1 => Right(tick_count, bit)
  /\ Due2 => Right(tick_count + 1, bit)
  /\ Due3 => Right(tick_count + 2, bit)
  /\ Due4 => Right(tick_count + 3, bit) /\ Right(tick_count + 3 + JITTER - late, bit)

\* The receiver without its transmitter: d is the byte started last, p the one before.
Adrift(d, p) ==
  /\ OneBurst /\ (Fading \/ HeardBy(LastHeard))
  /\ rx_state = "DATA_BURST" =>
       \/ TooLong
       \/ Fading /\ BeganBy(LastHeard + 1) /\ Prefix(d)
       \/ Fading /\ BeganBy(FirstHeard + 1)
  /\ rx_state = "DATA_SPACE" =>
       \/ Prefix(d) /\ Good(d[LAST_BIT - rx_bits])
       \/ ~Fading /\ HeardBy(FirstHeard) /\ Prefix(p)
       \/ Fading /\ BeganBy(FirstHeard + 2 + DATA_BURST_MAX)
  /\ rx_state = "VALIDATE" => Nearly(d) \/ Nearly(p)

\* The receiver times the levels that it is meant to.
Levels ==
  /\ rx_state \in {"HEADER_BURST", "DATA_BURST", "VALIDATE"} => ~prev_level
  /\ rx_state \in {"HEADER_SPACE", "DATA_SPACE"} => prev_level

-----------------------------------------------------------------------------
\* An edge without reset that leaves the receiver in a frame.
LEMMA InFrame ==
  ASSUME IrRxTypeOK, NEW level, RxEdge(level), rx_state' # "IDLE"
  PROVE  /\ rx_state # "VALIDATE" /\ (prev_level' <=> ir_sync)
         /\ rx_state = "IDLE" \/ tick_count < TIMEOUT
         /\ (ir_sync <=> prev_level) => LevelHolds
         /\ ~(ir_sync <=> prev_level) => LevelEnds
<1>1. ~TimedOut /\ rx_state # "VALIDATE" /\ Level
  BY Zenon DEF RxEdge, Frame
<1>2. rx_state = "IDLE" \/ tick_count < TIMEOUT
  BY <1>1, IrRxAssumption DEF TimedOut, IrRxTypeOK
<1>3. prev_level' <=> ir_sync
  BY Zenon DEF RxEdge
<1>4. (ir_sync = prev_level) <=> (ir_sync <=> prev_level)
  BY DEF IrRxTypeOK
<1>. QED
  BY <1>1, <1>2, <1>3, <1>4, Zenon DEF Level

\* What the receiver does while a level goes on in a frame.
LEMMA HoldsInFrame ==
  ASSUME IrRxTypeOK, LevelHolds, tick_count < TIMEOUT
  PROVE  /\ rx_state' = rx_state /\ tick_count' = tick_count + 1
         /\ rx_bits' = rx_bits /\ shift_reg' = shift_reg
BY IrRxAssumption DEF LevelHolds, IrRxTypeOK

\* Where the state that an edge leads to comes from.
LEMMA EndsInto ==
  ASSUME IrRxTypeOK, LevelEnds, rx_state # "VALIDATE"
  PROVE  /\ tick_count' = 0
         /\ rx_state' = "HEADER_BURST" => rx_state = "IDLE"
         /\ rx_state' = "HEADER_SPACE" => rx_state = "HEADER_BURST"
         /\ rx_state' = "DATA_BURST" =>
              \/ rx_state = "HEADER_SPACE" /\ rx_bits' = 0
              \/ rx_state = "DATA_SPACE" /\ rx_bits # LAST_BIT
         /\ rx_state' = "DATA_SPACE" =>
              /\ rx_state = "DATA_BURST" /\ ~TooLong
              /\ rx_bits' = rx_bits /\ shift_reg' = shift_reg
         /\ rx_state' = "VALIDATE" => rx_state = "DATA_SPACE" /\ rx_bits = LAST_BIT
<1>1. tick_count' = 0
  BY DEF LevelEnds
<1>2. rx_state' \in RxState
  BY DEF LevelEnds, IrRxTypeOK, RxState
<1>3. CASE rx_state = "IDLE"
  BY <1>1, <1>3 DEF LevelEnds
<1>4. CASE rx_state = "HEADER_BURST"
  BY <1>1, <1>4 DEF LevelEnds
<1>5. CASE rx_state = "HEADER_SPACE"
  BY <1>1, <1>5 DEF LevelEnds
<1>6. CASE rx_state = "DATA_BURST"
  <2>1. Expected => tick_count <= DATA_BURST_MAX
    BY <1>6 DEF Expected, Within
  <2>2. Expected => ~TooLong
    BY <2>1, IrRxAssumption DEF TooLong, IrRxTypeOK
  <2>3. rx_state' = IF Expected THEN "DATA_SPACE" ELSE "IDLE"
    BY <1>6 DEF LevelEnds
  <2>4. rx_bits' = rx_bits /\ shift_reg' = shift_reg
    BY <1>6 DEF LevelEnds
  <2>. QED
    BY <1>1, <1>6, <2>2, <2>3, <2>4
<1>7. CASE rx_state = "DATA_SPACE"
  <2>1. rx_state' = IF rx_bits = LAST_BIT THEN "VALIDATE" ELSE "DATA_BURST"
    BY <1>7, DataSpaceEnds
  <2>. QED
    BY <1>1, <1>7, <2>1
<1>. QED
  BY <1>3, <1>4, <1>5, <1>6, <1>7 DEF IrRxTypeOK, RxState

\* The receiver keeps to its levels.
LEMMA LevelsStep ==
  ASSUME IrRxTypeOK, Levels, NEW level, RxEdge(level)
  PROVE  Levels'
<1>1. CASE rx_state' = "IDLE"
  BY <1>1 DEF Levels
<1>2. CASE rx_state' # "IDLE" /\ (ir_sync <=> prev_level)
  <2>1. LevelHolds /\ (prev_level' <=> prev_level)
    BY <1>2, InFrame
  <2>. QED
    BY <2>1 DEF LevelHolds, Levels
<1>3. CASE rx_state' # "IDLE" /\ ~(ir_sync <=> prev_level)
  <2>1. LevelEnds /\ (prev_level' <=> ~prev_level) /\ rx_state # "VALIDATE"
    BY <1>3, InFrame
  <2>2. rx_state = "IDLE" => prev_level
    BY <1>3, <2>1 DEF LevelEnds, Expected
  <2>. QED
    BY <2>1, <2>2, EndsInto DEF Levels
<1>. QED
  BY <1>1, <1>2, <1>3

\* A bit of q that is read right is taken in; the last one may be read wrong.
LEMMA BitTaken ==
  ASSUME IrRxTypeOK, rx_state = "DATA_SPACE", LevelEnds, NEW q, Prefix(q)
  PROVE  /\ rx_bits # LAST_BIT /\ q[LAST_BIT - rx_bits] = (tick_count > BIT_THRESHOLD)
              => Prefix(q)'
         /\ rx_bits = LAST_BIT => Nearly(q)'
<1>1. /\ rx_bits' = IF rx_bits = LAST_BIT THEN rx_bits ELSE rx_bits + 1
      /\ shift_reg' = ShiftIn(tick_count > BIT_THRESHOLD)
  BY DataSpaceEnds
<1>2. LAST_BIT \in Nat /\ rx_bits \in RxBits /\ RxBits = 0..LAST_BIT
  BY IrRxAssumption DEF IrRxTypeOK, RxBits
<1>3. \A b \in RxBits : b # 0 /\ b <= rx_bits => shift_reg'[b] = q[b + (LAST_BIT - rx_bits)]
  <2> SUFFICES ASSUME NEW b \in RxBits, b # 0, b <= rx_bits
               PROVE  shift_reg'[b] = q[b + (LAST_BIT - rx_bits)]
    OBVIOUS
  <2>1. shift_reg'[b] = shift_reg[b - 1]
    BY <1>1 DEF ShiftIn
  <2>2. b - 1 \in RxBits /\ b - 1 < rx_bits
        /\ (b - 1) + (LAST_BIT + 1 - rx_bits) = b + (LAST_BIT - rx_bits)
    BY <1>2
  <2>. QED
    BY <2>1, <2>2 DEF Prefix
<1>4. CASE rx_bits = LAST_BIT
  <2> SUFFICES ASSUME NEW b \in RxBits \ {0} PROVE shift_reg'[b] = q[b]
    BY <1>4 DEF Nearly
  <2>1. b <= rx_bits /\ b + (LAST_BIT - rx_bits) = b
    BY <1>2, <1>4
  <2>. QED
    BY <1>3, <2>1
<1>5. CASE rx_bits # LAST_BIT /\ q[LAST_BIT - rx_bits] = (tick_count > BIT_THRESHOLD)
  <2> SUFFICES ASSUME NEW b \in RxBits, b < rx_bits'
               PROVE  shift_reg'[b] = q[b + (LAST_BIT + 1 - rx_bits')]
    BY <1>5 DEF Prefix
  <2>1. b <= rx_bits /\ LAST_BIT + 1 - rx_bits' = LAST_BIT - rx_bits
    BY <1>1, <1>2, <1>5
  <2>2. CASE b = 0
    <3>1. shift_reg'[b] = (tick_count > BIT_THRESHOLD)
      BY <1>1, <2>2, Zenon DEF ShiftIn
    <3>2. b + (LAST_BIT - rx_bits) = LAST_BIT - rx_bits
      BY <1>2, <2>2
    <3>. QED
      BY <1>5, <2>1, <3>1, <3>2
  <2>3. CASE b # 0
    BY <1>3, <2>1, <2>3
  <2>. QED
    BY <2>2, <2>3
<1>. QED
  BY <1>4, <1>5

-----------------------------------------------------------------------------
\* Until the end of a slot the timer goes on.
LEMMA TimerGoesOn ==
  ASSUME LinkTypeOK, Timer, tx_timer < TX_LIMIT
  PROVE  tx_timer' = tx_timer + 1 /\ ~tx_pulse'
<1>1. tx_timer \in Nat /\ TX_LIMIT \in Nat
  BY LinkAssumption DEF LinkTypeOK
<1>2. ~(tx_timer >= TX_LIMIT)
  BY <1>1
<1>. QED
  BY <1>2, Zenon DEF Timer

\* Bursts come closer by a cycle, and none begins as long as no light appears.
LEMMA ComesCloser ==
  ASSUME LOSS_MAX = 0, LinkTypeOK, ~blocked, losses = 0, Air, RxEdge(ir_input),
         message' => message
  PROVE  /\ (Due1' <=> Due2) /\ (Due2' <=> Due3)
         /\ Due3' => Due4
         /\ Due4' => Due4 /\ ~Due3' /\ late < JITTER /\ late' = late + 1
<1>1. Carried(message, ir_input, late, ir_input', late')
  BY AirCarries
<1>2. /\ (ir_sync0' <=> ir_input) /\ (ir_sync' <=> ir_sync0)
      /\ (prev_level' <=> ir_sync)
  BY Zenon DEF RxEdge, Synchronise
<1>. QED
  BY <1>1, <1>2, Zenon DEF Carried, Due1, Due2, Due3, Due4

\* So none is about to begin if none was.
LEMMA StaysFading ==
  ASSUME LOSS_MAX = 0, LinkTypeOK, ~blocked, losses = 0, Air, RxEdge(ir_input),
         message' => message, OneBurst
  PROVE  /\ OneBurst' /\ (Fading => Fading') /\ (Due1 => Fading')
BY ComesCloser, Zenon DEF OneBurst, Fading, Due1, Due2, Due3, Due4

\* And the time at which one is heard stays.
LEMMA StillHeardBy ==
  ASSUME LOSS_MAX = 0, LinkTypeOK, LinkTypeOK', ~blocked, losses = 0, Air, Timer,
         RxEdge(ir_input), message' => message,
         ~Fading, NEW t \in Nat, t <= TX_LIMIT, HeardBy(t)
  PROVE  tx_timer + 1 <= t /\ tx_timer' = tx_timer + 1 /\ ~tx_pulse' /\ HeardBy(t)'
<1>1. /\ tx_timer \in Nat /\ TX_LIMIT \in Nat /\ JITTER \in Nat /\ late \in 0..JITTER
      /\ late' \in 0..JITTER
  BY LinkAssumption DEF LinkTypeOK
<1>2. tx_timer + 1 <= t
  BY <1>1 DEF Fading, HeardBy
<1>3. tx_timer' = tx_timer + 1 /\ ~tx_pulse'
  BY <1>1, <1>2, TimerGoesOn
<1>4. /\ Due1' => tx_timer' + 1 <= t
      /\ Due2' => tx_timer' + 2 <= t
      /\ Due3' => tx_timer' + 3 <= t
  BY <1>1, <1>3, ComesCloser DEF HeardBy
<1>5. Due4' => tx_timer' + 4 + JITTER - late' <= t
  <2> HAVE Due4'
  <2>1. Due4 /\ late' = late + 1
    BY ComesCloser
  <2>2. tx_timer + 4 + JITTER - late <= t
    BY <2>1 DEF HeardBy
  <2>. QED
    BY <1>1, <1>3, <2>1, <2>2
<1>6. tx_timer' >= 1
  BY <1>1, <1>3
<1>. QED
  BY <1>2, <1>3, <1>4, <1>5, <1>6, Zenon DEF HeardBy

\* The time at which the level began stays, in the same slot.
LEMMA StillBeganBy ==
  ASSUME LinkTypeOK, Timer, NEW t \in Nat, BeganBy(t), tick_count + t < TX_LIMIT,
         tick_count' = tick_count + 1
  PROVE  BeganBy(t)'
<1>1. tx_timer \in Nat /\ tick_count \in Nat /\ TX_LIMIT \in Nat
  BY LinkAssumption DEF LinkTypeOK, IrRxTypeOK
<1>2. tx_timer < TX_LIMIT
  BY <1>1 DEF BeganBy
<1>3. tx_timer' = tx_timer + 1 /\ ~tx_pulse'
  BY <1>2, TimerGoesOn
<1>. QED
  BY <1>1, <1>3 DEF BeganBy

\* The times of the bounds.
LEMMA ResetTimes ==
  ASSUME ResetTiming
  PROVE  /\ FirstHeard \in Nat /\ LastHeard \in Nat /\ LongestPacket \in Nat
         /\ TX_LIMIT \in Nat /\ DATA_BURST_MAX \in Nat /\ TIMEOUT \in Nat /\ JITTER \in Nat
         /\ FirstHeard <= LastHeard
         /\ LastHeard + 1 + DATA_BURST_MAX < TX_LIMIT
         /\ TIMEOUT + FirstHeard + 2 + DATA_BURST_MAX < TX_LIMIT
<1>1. /\ LAST_BIT \in 0..LAST_BIT /\ LongBit \in Nat
      /\ TICK_DATA_BURST \in Nat /\ TICK_WAIT_GAP \in Nat
  BY IrTxAssumption, LinkAssumption DEF LongBit
<1>2. UpTo(LAST_BIT + 1, LongBit) \in Nat
  BY <1>1, UpToGrows
<1>3. LongestPacket \in Nat
  BY <1>1, <1>2 DEF LongestPacket
<1>. QED
  BY <1>3, IrRxAssumption, LinkAssumption DEF ResetTiming, FirstHeard, LastHeard

\* Good stays so as the burst comes closer.
LEMMA StaysGood ==
  ASSUME LOSS_MAX = 0, LinkTypeOK, LinkTypeOK', ~blocked, losses = 0, Air,
         RxEdge(ir_input), message' => message, ~Due1,
         tick_count' = tick_count + 1, NEW bit, Good(bit)
  PROVE  Good(bit)'
<1>1. /\ tick_count \in Nat /\ JITTER \in Nat /\ late \in 0..JITTER
      /\ late' \in 0..JITTER /\ BIT_THRESHOLD \in Nat
  BY LinkAssumption, IrRxAssumption DEF LinkTypeOK, IrRxTypeOK
<1>2. /\ Due1' => Right(tick_count + 1, bit)
      /\ Due2' => Right(tick_count + 1 + 1, bit)
  BY <1>1, ComesCloser DEF Good
<1>3. Due3' => Right(tick_count + 1 + 2, bit)
  BY <1>1, ComesCloser DEF Good
<1>4. Due4' => /\ Right(tick_count + 1 + 3, bit)
               /\ Right(tick_count + 1 + 3 + JITTER - late', bit)
  <2> HAVE Due4'
  <2>1. late < JITTER /\ late' = late + 1
        /\ Right(tick_count + 3, bit) /\ Right(tick_count + 3 + JITTER - late, bit)
    BY ComesCloser DEF Good
  <2>. QED
    BY <1>1, <2>1 DEF Right
<1>. QED
  BY <1>2, <1>3, <1>4 DEF Good, Right

\* A cycle in which no light appears, for the receiver without its transmitter.
Drifts ==
  /\ LOSS_MAX = 0 /\ LinkTypeOK /\ LinkTypeOK' /\ Levels /\ ~blocked /\ losses = 0
  /\ Air /\ Timer /\ RxEdge(ir_input) /\ (message' => message)

\* The receiver enters a burst of a bit, or stays in it.
LEMMA DriftsInBurst ==
  ASSUME ResetTiming, Drifts, NEW d \in Byte, NEW p, Adrift(d, p),
         rx_state' = "DATA_BURST"
  PROVE  \/ TooLong'
         \/ Fading' /\ BeganBy(LastHeard + 1)' /\ Prefix(d)'
         \/ Fading' /\ BeganBy(FirstHeard + 1)'
<1>1. /\ rx_state # "VALIDATE" /\ (rx_state = "IDLE" \/ tick_count < TIMEOUT)
      /\ (ir_sync <=> prev_level) => LevelHolds
      /\ ~(ir_sync <=> prev_level) => LevelEnds
  BY InFrame DEF Drifts, LinkTypeOK
<1>2. IrRxTypeOK /\ tick_count \in Nat /\ tx_timer \in Nat
  BY DEF Drifts, LinkTypeOK, IrRxTypeOK
<1>3. OneBurst' /\ (Fading => Fading') /\ (Due1 => Fading')
  BY StaysFading DEF Drifts, Adrift
<1>4. CASE ir_sync <=> prev_level
  <2>1. rx_state = "DATA_BURST"
    BY <1>1, <1>4 DEF LevelHolds
  <2>2. /\ tick_count' = tick_count + 1
        /\ rx_bits' = rx_bits /\ shift_reg' = shift_reg
    BY <1>1, <1>2, <1>4, <2>1, HoldsInFrame
  <2>3. TooLong => TooLong'
    BY <1>2, <2>2, ResetTimes DEF TooLong
  <2>4. Prefix(d) => Prefix(d)'
    BY <2>2 DEF Prefix
  <2>5. ~TooLong /\ BeganBy(LastHeard + 1) => BeganBy(LastHeard + 1)'
    BY <1>2, <2>2, StillBeganBy, ResetTimes DEF TooLong, Drifts
  <2>6. ~TooLong /\ BeganBy(FirstHeard + 1) => BeganBy(FirstHeard + 1)'
    BY <1>2, <2>2, StillBeganBy, ResetTimes DEF TooLong, Drifts
  <2>. QED
    BY <1>3, <2>1, <2>3, <2>4, <2>5, <2>6, Zenon DEF Adrift
<1>5. CASE ~(ir_sync <=> prev_level)
  <2>1. /\ LevelEnds /\ tick_count' = 0
        /\ \/ rx_state = "HEADER_SPACE" /\ rx_bits' = 0
           \/ rx_state = "DATA_SPACE" /\ rx_bits # LAST_BIT
    BY <1>1, <1>2, <1>5, EndsInto
  <2>2. Due1 /\ Fading' /\ ~Fading
    BY <1>3, <1>5, <2>1 DEF Levels, Drifts, Due1, Fading
  <2>3. \A t \in Nat : t <= TX_LIMIT /\ HeardBy(t) => BeganBy(t + 1)'
    <3> TAKE t \in Nat
    <3> HAVE t <= TX_LIMIT /\ HeardBy(t)
    <3>1. tx_timer + 1 <= t /\ tx_timer' = tx_timer + 1 /\ ~tx_pulse'
      BY <2>2, StillHeardBy DEF Drifts
    <3>. QED
      BY <1>2, <2>1, <3>1 DEF BeganBy
  <2>4. BeganBy(LastHeard + 1)'
    <3>1. HeardBy(LastHeard)
      BY <2>2 DEF Adrift
    <3>. QED
      BY <2>3, <3>1, ResetTimes
  <2>5. CASE rx_state = "HEADER_SPACE"
    <3>1. Prefix(d)'
      BY <2>1, <2>5 DEF Prefix, RxBits
    <3>. QED
      BY <2>2, <2>4, <3>1
  <2>6. CASE rx_state = "DATA_SPACE" /\ Prefix(d) /\ Good(d[LAST_BIT - rx_bits])
    <3>1. Right(tick_count, d[LAST_BIT - rx_bits])
      BY <2>2, <2>6 DEF Good
    <3>2. d[LAST_BIT - rx_bits] = (tick_count > BIT_THRESHOLD)
      <4>1. LAST_BIT - rx_bits \in Bits
        BY <1>2, IrRxAssumption, LinkAssumption DEF IrRxTypeOK, RxBits, Bits
      <4>2. d[LAST_BIT - rx_bits] \in BOOLEAN
        BY <4>1 DEF Byte
      <4>. QED
        BY <3>1, <4>2 DEF Right
    <3>3. Prefix(d)'
      BY <1>2, <2>1, <2>6, <3>2, BitTaken
    <3>. QED
      BY <2>2, <2>4, <3>3
  <2>7. CASE rx_state = "DATA_SPACE" /\ HeardBy(FirstHeard)
    BY <2>2, <2>3, <2>7, ResetTimes
  <2>. QED
    BY <2>1, <2>2, <2>5, <2>6, <2>7 DEF Adrift
<1>. QED
  BY <1>4, <1>5

\* The receiver enters a space, or stays in it.
LEMMA DriftsInSpace ==
  ASSUME ResetTiming, Drifts, NEW d \in Byte, NEW p, Adrift(d, p),
         rx_state' = "DATA_SPACE"
  PROVE  \/ Prefix(d)' /\ Good(d[LAST_BIT - rx_bits])'
         \/ ~Fading' /\ HeardBy(FirstHeard)' /\ Prefix(p)'
         \/ Fading' /\ BeganBy(FirstHeard + 2 + DATA_BURST_MAX)'
<1>1. /\ rx_state # "VALIDATE" /\ (rx_state = "IDLE" \/ tick_count < TIMEOUT)
      /\ (ir_sync <=> prev_level) => LevelHolds
      /\ ~(ir_sync <=> prev_level) => LevelEnds
  BY InFrame DEF Drifts, LinkTypeOK
<1>2. IrRxTypeOK /\ tick_count \in Nat /\ tx_timer \in Nat
  BY DEF Drifts, LinkTypeOK, IrRxTypeOK
<1>3. OneBurst' /\ (Fading => Fading') /\ (Due1 => Fading')
  BY StaysFading DEF Drifts, Adrift
<1>4. CASE ir_sync <=> prev_level
  <2>1. rx_state = "DATA_SPACE" /\ ~Due1
    BY <1>1, <1>4 DEF LevelHolds, Due1
  <2>2. /\ tick_count' = tick_count + 1
        /\ rx_bits' = rx_bits /\ shift_reg' = shift_reg
    BY <1>1, <1>2, <1>4, <2>1, HoldsInFrame
  <2>3. CASE Prefix(d) /\ Good(d[LAST_BIT - rx_bits])
    <3>1. Prefix(d)'
      BY <2>2, <2>3 DEF Prefix
    <3>2. \A bit : Good(bit) => Good(bit)'
      BY <2>1, <2>2, StaysGood DEF Drifts
    <3>3. Good(d[LAST_BIT - rx_bits])'
      BY <2>2, <2>3, <3>2 DEF Good
    <3>. QED
      BY <3>1, <3>3
  <2>4. CASE ~Fading /\ HeardBy(FirstHeard) /\ Prefix(p)
    <3>1. Prefix(p)'
      BY <2>2, <2>4 DEF Prefix
    <3>2. /\ tx_timer + 1 <= FirstHeard /\ tx_timer' = tx_timer + 1 /\ ~tx_pulse'
          /\ HeardBy(FirstHeard)'
      BY <2>4, StillHeardBy, ResetTimes DEF Drifts
    <3>3. BeganBy(FirstHeard + 2 + DATA_BURST_MAX)'
      BY <1>2, <2>2, <3>2, ResetTimes DEF BeganBy
    <3>. QED
      BY <3>1, <3>2, <3>3
  <2>5. CASE Fading /\ BeganBy(FirstHeard + 2 + DATA_BURST_MAX)
    BY <1>1, <1>2, <1>3, <2>1, <2>2, <2>5, StillBeganBy, ResetTimes DEF Drifts
  <2>. QED
    BY <2>1, <2>3, <2>4, <2>5 DEF Adrift
<1>5. CASE ~(ir_sync <=> prev_level)
  <2>1. /\ rx_state = "DATA_BURST" /\ ~TooLong /\ tick_count' = 0
        /\ rx_bits' = rx_bits /\ shift_reg' = shift_reg
    BY <1>1, <1>2, <1>5, EndsInto
  <2>2. CASE Fading /\ Prefix(d)
    <3>1. Prefix(d)'
      BY <2>1, <2>2 DEF Prefix
    <3>2. Good(d[LAST_BIT - rx_bits])'
      BY <1>3, <2>2 DEF Good, Fading
    <3>. QED
      BY <3>1, <3>2
  <2>3. CASE Fading /\ BeganBy(FirstHeard + 1)
    <3>1. tx_timer < TX_LIMIT /\ tx_timer <= FirstHeard + 1 + DATA_BURST_MAX
      BY <1>2, <2>1, <2>3, ResetTimes DEF BeganBy, TooLong
    <3>2. tx_timer' = tx_timer + 1 /\ ~tx_pulse'
      BY <3>1, TimerGoesOn DEF Drifts
    <3>. QED
      BY <1>2, <1>3, <2>1, <2>3, <3>1, <3>2, ResetTimes DEF BeganBy
  <2>. QED
    BY <2>1, <2>2, <2>3 DEF Adrift
<1>. QED
  BY <1>4, <1>5

\* The receiver without its transmitter, in a cycle in which no light appears.
LEMMA AdriftStep ==
  ASSUME ResetTiming, Drifts, NEW d \in Byte, NEW p, Adrift(d, p)
  PROVE  Adrift(d, p)'
<1>1. OneBurst' /\ (Fading => Fading')
  BY StaysFading DEF Drifts, Adrift
<1>2. Fading' \/ HeardBy(LastHeard)'
  <2>1. ~Fading => HeardBy(LastHeard)'
    BY StillHeardBy, ResetTimes DEF Drifts, Adrift
  <2>. QED
    BY <1>1, <2>1
<1>3. rx_state' = "VALIDATE" => Nearly(d)' \/ Nearly(p)'
  <2> HAVE rx_state' = "VALIDATE"
  <2>1. /\ rx_state # "VALIDATE"
        /\ (ir_sync <=> prev_level) => LevelHolds
        /\ ~(ir_sync <=> prev_level) => LevelEnds
    BY InFrame DEF Drifts, LinkTypeOK
  <2>2. /\ ~(ir_sync <=> prev_level) /\ LevelEnds
        /\ rx_state = "DATA_SPACE" /\ rx_bits = LAST_BIT
    BY <2>1, EndsInto DEF LevelHolds, Drifts, LinkTypeOK
  <2>3. ~Fading
    BY <2>2 DEF Levels, Drifts, Due1, Fading
  <2>4. Prefix(d) \/ Prefix(p)
    BY <2>2, <2>3 DEF Adrift
  <2>. QED
    BY <2>2, <2>4, BitTaken DEF Drifts, LinkTypeOK
<1>. QED
  BY <1>1, <1>2, <1>3, DriftsInBurst, DriftsInSpace DEF Adrift

-----------------------------------------------------------------------------
\* The packet has begun at tx_timer = 0.
Timed == (tx_pulse => tx_timer = 0) /\ (InPacket => ~tx_pulse /\ Since(tx_timer))

\* The first burst of a packet, for a receiver that may still be in the packet p: the
\* burst of a header is too long to be taken for one of its bits.
Begins(p) ==
  /\ OneBurst
  /\ message <=> tx_tick >= 1
  /\ tx_tick = 0 => Fading
  /\ Due4 => late = tx_tick - 1
  /\ ir_input => tx_tick <= JITTER + 1
  /\ ir_sync0 => tx_tick <= JITTER + 2
  /\ ir_sync => tx_tick <= JITTER + 3
  /\ prev_level => tx_tick <= JITTER + 4
  /\ rx_state = "DATA_BURST" =>
       TooLong \/ (Fading /\ message /\ tx_tick <= tick_count + JITTER + 5)
  /\ rx_state = "DATA_SPACE" => Prefix(p)
  /\ rx_state = "VALIDATE" => Nearly(p)

\* A reset in that burst.
LEMMA CutAtStart ==
  ASSUME ResetTiming, LinkTypeOK, Levels, tx_state = "HEADER_BURST", Timed,
         NEW d, NEW p, Begins(p)
  PROVE  Adrift(d, p)
<1>1. /\ tx_tick \in Nat /\ tx_timer \in Nat /\ tick_count \in Nat /\ late \in Nat
      /\ JITTER \in Nat /\ DATA_BURST_MAX \in Nat
      /\ FirstHeard \in Nat /\ LastHeard \in Nat /\ FirstHeard <= LastHeard
  BY LinkAssumption, ResetTimes DEF LinkTypeOK, IrTxTypeOK, IrRxTypeOK
<1>2. tx_timer = tx_tick + 1 /\ ~tx_pulse
  <2>1. Begun(ShortBit) = 0 /\ Begun(LongBit) = 0
    BY DEF Begun
  <2>. QED
    BY <1>1, <2>1 DEF Timed, Since, InPacket
<1>3. ~Fading => HeardBy(FirstHeard)
  <2> HAVE ~Fading
  <2>1. Due1 => tx_timer + 1 <= FirstHeard
    BY <1>1, <1>2 DEF Begins, Due1, FirstHeard
  <2>2. Due2 => tx_timer + 2 <= FirstHeard
    BY <1>1, <1>2 DEF Begins, Due2, FirstHeard
  <2>3. Due3 => tx_timer + 3 <= FirstHeard
    BY <1>1, <1>2 DEF Begins, Due3, FirstHeard
  <2>4. Due4 => tx_timer + 4 + JITTER - late <= FirstHeard
    BY <1>1, <1>2 DEF Begins, Due4, FirstHeard
  <2>5. tx_timer >= 1
    BY <1>1, <1>2
  <2>. QED
    BY <1>2, <2>1, <2>2, <2>3, <2>4, <2>5, Zenon DEF HeardBy
<1>4. HeardBy(FirstHeard) => HeardBy(LastHeard)
  <2> HAVE HeardBy(FirstHeard)
  <2>1. /\ Due1 => tx_timer + 1 <= LastHeard
        /\ Due2 => tx_timer + 2 <= LastHeard
        /\ Due3 => tx_timer + 3 <= LastHeard
    BY <1>1 DEF HeardBy
  <2>2. Due4 => tx_timer + 4 + JITTER - late <= LastHeard
    BY <1>1 DEF HeardBy
  <2>. QED
    BY <2>1, <2>2 DEF HeardBy
<1>5. rx_state = "DATA_BURST" => TooLong \/ (Fading /\ BeganBy(FirstHeard + 1))
  BY <1>1, <1>2 DEF Begins, BeganBy, FirstHeard
<1>6. rx_state = "DATA_SPACE" => BeganBy(FirstHeard + 2 + DATA_BURST_MAX)
  <2> HAVE rx_state = "DATA_SPACE"
  <2>1. tx_tick <= JITTER + 4
    BY DEF Levels, Begins
  <2>. QED
    BY <1>1, <1>2, <2>1 DEF BeganBy, FirstHeard
<1>. QED
  BY <1>3, <1>4, <1>5, <1>6 DEF Adrift, Begins

\* Where the light is in order, every burst on its way is the present one.
LEMMA OnItsWay ==
  ASSUME LinkTypeOK, Light, Undisturbed
  PROVE  /\ OneBurst
         /\ ~(InPacket /\ Lit) => Fading
         /\ InPacket /\ Lit =>
              /\ ~prev_level => Fading
              /\ Due1 => tx_tick \in 4..JITTER + 4
              /\ Due2 => tx_tick \in 3..JITTER + 3
              /\ Due3 => tx_tick \in 2..JITTER + 2
              /\ Due4 => tx_tick \in 1..JITTER + 1 /\ late = tx_tick - 1
<1> USE WayTypes DEF Due1, Due2, Due3, Due4
<1>1. CASE ~InPacket
  BY <1>1 DEF Light, Dark, Undisturbed, OneBurst, Fading
<1>2. CASE InPacket /\ ~Lit
  <2>1. /\ ~Due1 /\ ~Due2 /\ ~Due3 /\ ~Due4
    BY <1>2 DEF Light, Way, Undisturbed
  <2>. QED
    BY <1>2, <2>1 DEF OneBurst, Fading
<1>3. CASE InPacket /\ Lit
  <2>1. /\ message <=> tx_tick # 0
        /\ IF ir_input THEN tx_tick <= JITTER + 1 /\ late = (IF tx_tick = 0 THEN 0 ELSE tx_tick - 1)
                       ELSE tx_tick >= 2
        /\ IF ir_sync0 THEN tx_tick <= JITTER + 2 ELSE tx_tick >= 3 /\ ~ir_input
        /\ IF ir_sync THEN tx_tick <= JITTER + 3 ELSE tx_tick >= 4 /\ ~ir_sync0
    BY <1>3 DEF Light, Way
  <2>2. IF prev_level THEN tx_tick <= JITTER + 4 ELSE tx_tick >= 5 /\ ~ir_sync
    BY <1>3 DEF Undisturbed
  <2>3. OneBurst /\ (~prev_level => Fading)
    BY <2>1, <2>2 DEF OneBurst, Fading
  <2>. QED
    BY <1>3, <2>1, <2>2, <2>3
<1>. QED
  BY <1>1, <1>2, <1>3

\* A burst of a packet begins while the packet lasts.
LEMMA HeardInSlot ==
  ASSUME LinkTiming, LinkTypeOK, Light, Timed, InPacket, ResetTiming
  PROVE  /\ ~tx_pulse /\ tx_timer \in 1..LongestPacket
         /\ HeardBy(LastHeard) /\ BeganBy(LastHeard + 1)
<1>1. /\ tx_tick \in Nat /\ tx_timer \in Nat /\ late \in Nat /\ JITTER \in Nat
      /\ tick_count \in Nat /\ LastHeard \in Nat /\ LongestPacket \in Nat
  BY WayTypes, ResetTimes DEF LinkTypeOK, IrRxTypeOK
<1>2. Begun(LongBit) \in Nat /\ Begun(ShortBit) \in Nat
  BY BegunTypes
<1>3. Begun(LongBit) + tx_tick + 1 <= LongestPacket
  BY PacketFits, LightInOrder
<1>4. ~tx_pulse /\ tx_timer \in 1..LongestPacket
  BY <1>1, <1>2, <1>3 DEF Timed, Since
<1>5. /\ tx_timer + 4 + JITTER - late <= LastHeard
      /\ tx_timer + 3 <= LastHeard
  BY <1>1, <1>4 DEF LastHeard
<1>. QED
  BY <1>1, <1>4, <1>5 DEF HeardBy, BeganBy

\* A burst that ends the space of a bit ends it in time.
LEMMA SpaceIsGood ==
  ASSUME LinkTiming, LinkTypeOK, Light, Undisturbed, TimesDataSpace
  PROVE  Good(data_out[LAST_BIT - rx_bits])
<1>1. InPacket /\ prev_level
  BY DEF TimesDataSpace, InPacket
<1>2. CASE tx_state = "DATA_SPACE"
  BY <1>1, <1>2, OnItsWay DEF Lit, Fading, Good
<1>3. CASE tx_state # "DATA_SPACE"
  <2>1. Lit /\ Elapsed = LastLimit + tx_tick - 4
    BY <1>1, <1>3 DEF TimesDataSpace, Lit, Elapsed
  <2>2. /\ LAST_BIT \in Nat /\ bit_count \in 0..LAST_BIT /\ rx_bits \in 0..LAST_BIT
        /\ Bits = 0..LAST_BIT
    BY LinkAssumption, IrRxAssumption DEF LinkTypeOK, IrTxTypeOK, Bits, IrRxTypeOK, RxBits
  <2> DEFINE bit == data_out[LAST_BIT - rx_bits]
  <2>3. LastLimit = Space(bit)
    <3>1. CASE tx_state = "DATA_BURST" /\ rx_bits + 1 = LAST_BIT - bit_count
      <4>1. bit_count + 1 = LAST_BIT - rx_bits /\ bit_count # LAST_BIT
        BY <2>2, <3>1
      <4>. QED
        BY <3>1, <4>1 DEF LastLimit
    <3>2. CASE tx_state = "EOF" /\ rx_bits = LAST_BIT
      <4>1. LAST_BIT - rx_bits = 0
        BY <2>2, <3>2
      <4>. QED
        BY <3>2, <4>1 DEF LastLimit
    <3>. QED
      BY <1>3, <3>1, <3>2 DEF TimesDataSpace
  <2> HIDE DEF bit
  <2>4. /\ tick_count \in Nat /\ tx_tick \in Nat /\ JITTER \in Nat /\ late \in Nat
        /\ TICK_DATA_BURST \in Nat /\ TICK_DATA_SPACE \in Nat /\ BIT_THRESHOLD \in Nat
    BY WayTypes, IrTxAssumption, IrRxAssumption DEF LinkTypeOK, IrRxTypeOK
  <2>5. \A t \in Nat : LastLimit - JITTER <= t /\ t <= LastLimit + JITTER => Right(t, bit)
    <3>1. CASE bit
      BY <2>3, <2>4, <3>1 DEF Space, LinkTiming, Right
    <3>2. CASE ~bit
      BY <2>3, <2>4, <3>2 DEF Space, LinkTiming, Right
    <3>. QED
      BY <3>1, <3>2
  <2>6. LastLimit \in Nat
    BY <2>3, <2>4 DEF Space
  <2>7. /\ LastLimit + tx_tick - 4 - JITTER <= tick_count
        /\ tick_count <= LastLimit + tx_tick - 4
    <3>1. Fits
      BY DEF TimesDataSpace
    <3>. QED
      BY <2>1, <2>4, <2>6, <3>1 DEF Fits
  <2>8. Due1 => Right(tick_count, bit)
    BY <1>1, <2>1, <2>4, <2>5, <2>6, <2>7, OnItsWay
  <2>9. Due2 => Right(tick_count + 1, bit)
    BY <1>1, <2>1, <2>4, <2>5, <2>6, <2>7, OnItsWay
  <2>10. Due3 => Right(tick_count + 2, bit)
    BY <1>1, <2>1, <2>4, <2>5, <2>6, <2>7, OnItsWay
  <2>11. Due4 => Right(tick_count + 3, bit) /\ Right(tick_count + 3 + JITTER - late, bit)
    <3> HAVE Due4
    <3>1. tx_tick \in 1..JITTER + 1 /\ late = tx_tick - 1
      BY <1>1, <2>1, OnItsWay
    <3>2. tick_count + 3 + JITTER - late \in Nat
          /\ LastLimit - JITTER <= tick_count + 3 + JITTER - late
          /\ tick_count + 3 + JITTER - late <= LastLimit + JITTER
      BY <2>4, <2>6, <2>7, <3>1
    <3>3. LastLimit - JITTER <= tick_count + 3 /\ tick_count + 3 <= LastLimit + JITTER
      BY <2>4, <2>6, <2>7, <3>1
    <3>. QED
      BY <2>4, <2>5, <3>2, <3>3
  <2>. QED
    BY <2>8, <2>9, <2>10, <2>11 DEF Good, bit
<1>. QED
  BY <1>2, <1>3

\* The receiver between the first burst of a packet and its bits.
InSpace ==
  \/ rx_state \in {"IDLE", "HEADER_BURST"}
  \/ rx_state = "HEADER_SPACE" /\ Fits
  \/ rx_state = "DATA_BURST" /\ TooLong

\* A reset later in a packet, or between packets.
LEMMA CutLater ==
  ASSUME LinkTiming, ResetTiming, LinkTypeOK, Light, Undisturbed, Timed,
         Follows \/ InSpace, NEW p
  PROVE  Adrift(data_out, p)
<1>1. OneBurst
  BY OnItsWay
<1>2. Fading \/ HeardBy(LastHeard)
  BY OnItsWay, HeardInSlot
<1>3. rx_state = "DATA_BURST" => TooLong \/ TimesDataBurst
  BY DEF Follows, InSpace, TimesBurst, TimesHeaderSpace, TimesDataSpace, HasFrame
<1>4. TimesDataBurst => Fading /\ BeganBy(LastHeard + 1) /\ Prefix(data_out)
  <2> HAVE TimesDataBurst
  <2>1. InPacket /\ ~prev_level
    BY DEF TimesDataBurst, InPacket
  <2>2. Prefix(data_out)
    BY DEF TimesDataBurst, Received, Prefix
  <2>. QED
    BY <2>1, <2>2, OnItsWay, HeardInSlot
<1>5. rx_state = "DATA_SPACE" => TimesDataSpace
  BY DEF Follows, InSpace, TimesBurst, TimesHeaderSpace, TimesDataBurst, HasFrame
<1>6. TimesDataSpace => Prefix(data_out)
  BY DEF TimesDataSpace, Received, Prefix
<1>7. rx_state = "VALIDATE" => Nearly(data_out)
  BY DEF Follows, InSpace, TimesBurst, TimesHeaderSpace, TimesDataBurst, TimesDataSpace,
         HasFrame, Nearly
<1>. QED
  BY <1>1, <1>2, <1>3, <1>4, <1>5, <1>6, <1>7, SpaceIsGood DEF Adrift

-----------------------------------------------------------------------------
\* A packet starts: no burst is on its way any more, and none of the packet d either.
LEMMA StartsAfresh ==
  ASSUME ResetTiming, Drifts, NEW d \in Byte, NEW p, Adrift(d, p), tx_pulse,
         tx_tick' = 0, ~message'
  PROVE  Begins(d)'
<1>1. Fading /\ Fading' /\ OneBurst'
  BY StaysFading DEF Adrift, HeardBy, Drifts
<1>2. JITTER \in Nat
  BY ResetTimes
<1>3. IrRxTypeOK /\ tick_count \in Nat
  BY DEF Drifts, LinkTypeOK, IrRxTypeOK
<1>4. ASSUME rx_state' # "IDLE"
      PROVE  /\ rx_state # "VALIDATE" /\ (rx_state = "IDLE" \/ tick_count < TIMEOUT)
             /\ (ir_sync <=> prev_level) => LevelHolds
             /\ ~(ir_sync <=> prev_level) => LevelEnds
  BY <1>4, InFrame DEF Drifts, LinkTypeOK
<1>5. ~(prev_level /\ ~ir_sync)
  BY <1>1 DEF Fading, Due1
<1>6. rx_state = "DATA_BURST" => TooLong
  BY DEF Adrift, BeganBy
<1>7. rx_state' = "DATA_BURST" => TooLong'
  <2> HAVE rx_state' = "DATA_BURST"
  <2>1. ir_sync <=> prev_level
    BY <1>3, <1>4, <1>5, EndsInto DEF Levels, Drifts
  <2>2. LevelHolds /\ rx_state = "DATA_BURST" /\ tick_count < TIMEOUT
    BY <1>4, <2>1 DEF LevelHolds
  <2>3. tick_count' = tick_count + 1
    BY <1>3, <2>2, HoldsInFrame
  <2>. QED
    BY <1>3, <1>6, <2>2, <2>3, ResetTimes DEF TooLong
<1>8. rx_state' = "DATA_SPACE" => Prefix(d)'
  <2> HAVE rx_state' = "DATA_SPACE"
  <2>1. ir_sync <=> prev_level
    BY <1>3, <1>4, <1>6, EndsInto
  <2>2. LevelHolds /\ rx_state = "DATA_SPACE" /\ tick_count < TIMEOUT
    BY <1>4, <2>1 DEF LevelHolds
  <2>3. rx_bits' = rx_bits /\ shift_reg' = shift_reg
    BY <1>3, <2>2, HoldsInFrame
  <2>4. Prefix(d)
    BY <2>2 DEF Adrift, HeardBy, BeganBy
  <2>. QED
    BY <2>3, <2>4 DEF Prefix
<1>9. rx_state' # "VALIDATE"
  BY <1>3, <1>4, <1>5, EndsInto DEF Levels, Drifts, LevelHolds
<1>. QED
  BY <1>1, <1>2, <1>7, <1>8, <1>9 DEF Begins, Fading, Due4

\* The first burst goes on.
LEMMA StartGoesOn ==
  ASSUME ResetTiming, LOSS_MAX = 0, LinkTypeOK, LinkTypeOK', Levels, ~blocked, losses = 0,
         Air, RxEdge(ir_input), message', tx_tick' = tx_tick + 1,
         NEW p, Begins(p)
  PROVE  Begins(p)'
<1>1. /\ tx_tick \in Nat /\ JITTER \in Nat /\ tick_count \in Nat /\ late \in Nat
      /\ late' \in Nat /\ IrRxTypeOK
  BY WayTypes, LinkAssumption DEF LinkTypeOK, IrRxTypeOK
<1>2. Carried(message, ir_input, late, ir_input', late')
  BY AirCarries
<1>3. /\ (ir_sync0' <=> ir_input) /\ (ir_sync' <=> ir_sync0)
      /\ (prev_level' <=> ir_sync)
  BY Zenon DEF RxEdge, Synchronise
<1>4. /\ OneBurst' /\ (Due1 => Fading') /\ (message /\ Fading => Fading')
      /\ Due4' => late' = tx_tick
      /\ ir_input' => tx_tick <= JITTER
  <2>1. CASE tx_tick = 0
    <3>1. ~message /\ Fading
      BY <2>1 DEF Begins
    <3>2. ~Due1' /\ ~Due2' /\ ~Due3'
      BY <1>2, <1>3, <3>1, Zenon DEF Carried, Due1, Due2, Due3, Due4, Fading
    <3>3. Due4' => late' = 0
      BY <1>2, <3>1, Zenon DEF Carried, Due4, Fading
    <3>. QED
      BY <1>1, <2>1, <3>1, <3>2, <3>3 DEF OneBurst, Fading
  <2>2. CASE tx_tick # 0
    <3>1. message
      BY <1>1, <2>2 DEF Begins
    <3>2. OneBurst' /\ (Due1 => Fading') /\ (Fading => Fading')
      BY <3>1, StaysFading DEF Begins
    <3>3. Due4' => Due4 /\ late < JITTER /\ late' = late + 1
      BY <3>1, ComesCloser
    <3>4. Due4' => late' = tx_tick /\ tx_tick <= JITTER
      BY <1>1, <3>3 DEF Begins
    <3>. QED
      BY <3>1, <3>2, <3>4 DEF Due4
  <2>. QED
    BY <2>1, <2>2
<1>5. ASSUME rx_state' # "IDLE"
      PROVE  /\ rx_state # "VALIDATE" /\ (rx_state = "IDLE" \/ tick_count < TIMEOUT)
             /\ (ir_sync <=> prev_level) => LevelHolds
             /\ ~(ir_sync <=> prev_level) => LevelEnds
  BY <1>5, InFrame DEF LinkTypeOK
<1>6. rx_state' = "DATA_BURST" =>
        TooLong' \/ (Fading' /\ tx_tick + 1 <= tick_count' + JITTER + 5)
  <2> HAVE rx_state' = "DATA_BURST"
  <2>1. CASE ir_sync <=> prev_level
    <3>1. LevelHolds /\ rx_state = "DATA_BURST" /\ tick_count < TIMEOUT
      BY <1>5, <2>1 DEF LevelHolds
    <3>2. tick_count' = tick_count + 1
      BY <1>1, <3>1, HoldsInFrame
    <3>3. TooLong => TooLong'
      BY <1>1, <3>2, ResetTimes DEF TooLong
    <3>4. TooLong \/ (Fading /\ message /\ tx_tick <= tick_count + JITTER + 5)
      BY <3>1 DEF Begins
    <3>. QED
      BY <1>1, <1>4, <3>2, <3>3, <3>4
  <2>2. CASE ~(ir_sync <=> prev_level)
    <3>1. /\ tick_count' = 0
          /\ rx_state \in {"HEADER_SPACE", "DATA_SPACE"}
      BY <1>1, <1>5, <2>2, EndsInto
    <3>2. prev_level /\ Due1
      BY <2>2, <3>1 DEF Levels, Due1
    <3>3. tx_tick <= JITTER + 4
      BY <3>2 DEF Begins
    <3>. QED
      BY <1>1, <1>4, <3>1, <3>2, <3>3
  <2>. QED
    BY <2>1, <2>2
<1>7. rx_state' = "DATA_SPACE" => Prefix(p)'
  <2> HAVE rx_state' = "DATA_SPACE"
  <2>1. CASE ir_sync <=> prev_level
    <3>1. LevelHolds /\ rx_state = "DATA_SPACE" /\ tick_count < TIMEOUT
      BY <1>5, <2>1 DEF LevelHolds
    <3>2. rx_bits' = rx_bits /\ shift_reg' = shift_reg
      BY <1>1, <3>1, HoldsInFrame
    <3>. QED
      BY <3>1, <3>2 DEF Begins, Prefix
  <2>2. CASE ~(ir_sync <=> prev_level)
    <3>1. rx_state = "DATA_BURST" /\ ~TooLong
      BY <1>1, <1>5, <2>2, EndsInto
    <3>2. Fading /\ message /\ ir_sync
      BY <2>2, <3>1 DEF Begins, Levels
    <3>. QED
      BY <3>2 DEF Fading, Due2, Due3, Due4
  <2>. QED
    BY <2>1, <2>2
<1>8. rx_state' = "VALIDATE" => Nearly(p)'
  <2> HAVE rx_state' = "VALIDATE"
  <2>1. LevelEnds /\ rx_state = "DATA_SPACE" /\ rx_bits = LAST_BIT
    BY <1>1, <1>5, EndsInto DEF LevelHolds
  <2>2. Prefix(p)
    BY <2>1 DEF Begins
  <2>. QED
    BY <1>1, <2>1, <2>2, BitTaken
<1>9. /\ ir_sync0' => tx_tick + 1 <= JITTER + 2
      /\ ir_sync' => tx_tick + 1 <= JITTER + 3
      /\ prev_level' => tx_tick + 1 <= JITTER + 4
  BY <1>1, <1>3 DEF Begins
<1>10. /\ tx_tick' >= 1 /\ tx_tick' # 0 /\ tx_tick' - 1 = tx_tick
       /\ ir_input' => tx_tick' <= JITTER + 1
  BY <1>1, <1>4
<1>. QED
  BY <1>4, <1>6, <1>7, <1>8, <1>9, <1>10 DEF Begins

\* The first burst ends: the light is in order again.
LEMMA StartEnds ==
  ASSUME LOSS_MAX = 0, LinkTiming, ResetTiming, LinkTypeOK, LinkTypeOK', Levels, ~blocked,
         losses = 0, tx_state = "HEADER_BURST", TxOrder, tx_tick >= Limit,
         NEW p, Begins(p), RxEdge(ir_input), NEW start, NEW byte, Sends(start, byte)
  PROVE  tx_state' = "HEADER_SPACE" /\ Light' /\ Undisturbed' /\ InSpace'
<1>1. InPacket /\ Lit
  BY DEF InPacket, Lit
<1>2. /\ tx_state' = "HEADER_SPACE" /\ tx_tick' = 0 /\ bit_count' = bit_count /\ message'
  BY <1>1, SendsNext DEF Sends, LinkTypeOK, Following
<1>3. InPacket' /\ ~Lit' /\ bit_count' = LAST_BIT
  BY <1>2 DEF InPacket, Lit, TxOrder
<1>4. /\ tx_tick \in Nat /\ JITTER \in Nat /\ tick_count \in Nat
      /\ DATA_BURST_MAX \in Nat /\ IrRxTypeOK
  BY WayTypes, ResetTimes DEF LinkTypeOK, IrRxTypeOK
<1>5. tx_tick >= JITTER + 5 /\ tx_tick > DATA_BURST_MAX + JITTER + 5
  BY <1>4, IrTxAssumption DEF Limit, LinkTiming, ResetTiming
<1>6. message /\ ~ir_input /\ ~ir_sync0 /\ ~ir_sync /\ ~prev_level
  BY <1>4, <1>5 DEF Begins
<1>7. /\ ~blocked' /\ losses' = 0
      /\ Carried(message, ir_input, late, ir_input', late')
  BY AirCarries DEF Sends
<1>8. ~ir_input' /\ late' = 0
  BY <1>6, <1>7, Zenon DEF Carried
<1>9. ~ir_sync0' /\ ~ir_sync' /\ ~prev_level'
  BY <1>6, Zenon DEF RxEdge, Synchronise
<1>10. Way(Lit', tx_tick', message', ir_input', late', ir_sync0', ir_sync')
  BY <1>2, <1>3, <1>4, <1>8, <1>9 DEF Way
<1>11. Heard' /\ Undisturbed'
  BY <1>2, <1>3, <1>4, <1>9 DEF Heard, Undisturbed
<1>12. tx_tick' <= Limit'
  BY <1>2, IrTxAssumption DEF Limit
<1>13. Light'
  BY <1>2, <1>3, <1>7, <1>10, <1>11, <1>12, Zenon DEF Light
<1>14. InSpace'
  <2>1. CASE rx_state' = "IDLE"
    BY <2>1 DEF InSpace
  <2>2. CASE rx_state' # "IDLE"
    <3>1. /\ rx_state # "VALIDATE" /\ (rx_state = "IDLE" \/ tick_count < TIMEOUT)
          /\ LevelHolds
      BY <1>4, <1>6, <2>2, InFrame
    <3>2. rx_state' = rx_state
      BY <3>1 DEF LevelHolds
    <3>3. rx_state \in {"HEADER_BURST", "DATA_BURST"}
      BY <1>4, <1>6, <2>2, <3>1, <3>2 DEF Levels, IrRxTypeOK, RxState
    <3>4. CASE rx_state = "HEADER_BURST"
      BY <3>2, <3>4 DEF InSpace
    <3>5. CASE rx_state = "DATA_BURST"
      <4>1. TooLong
        BY <1>4, <1>5, <3>5 DEF Begins, TooLong
      <4>2. tick_count' = tick_count + 1
        BY <1>4, <3>1, <3>5, HoldsInFrame
      <4>3. TooLong'
        BY <1>4, <4>1, <4>2 DEF TooLong
      <4>. QED
        BY <3>2, <3>5, <4>3 DEF InSpace
    <3>. QED
      BY <3>3, <3>4, <3>5
  <2>. QED
    BY <2>1, <2>2
<1>. QED
  BY <1>2, <1>11, <1>13, <1>14

\* The space after it goes on.
LEMMA SpaceGoesOn ==
  ASSUME LOSS_MAX = 0, LinkTiming, ResetTiming, LinkTypeOK, LinkTypeOK', Levels,
         tx_state = "HEADER_SPACE", tx_tick < Limit, Light, Undisturbed, InSpace,
         RxEdge(ir_input), NEW start, NEW byte, Sends(start, byte)
  PROVE  tx_state' = "HEADER_SPACE" /\ InSpace'
<1>1. InPacket /\ ~Lit
  BY DEF InPacket, Lit
<1>2. tx_state' = "HEADER_SPACE"
  BY <1>1, SendsOn DEF Sends, LinkTypeOK
<1>3. IrRxTypeOK /\ tick_count \in Nat /\ DATA_BURST_MAX \in Nat
  BY ResetTimes DEF LinkTypeOK, IrRxTypeOK
<1>4. CASE rx_state' = "IDLE"
  BY <1>2, <1>4 DEF InSpace
<1>5. CASE rx_state' # "IDLE" /\ rx_state = "HEADER_SPACE"
  <2>1. Follows
    BY <1>5 DEF InSpace, Follows, TimesHeaderSpace, Levels
  <2>2. Follows'
    BY <2>1, FollowsStep
  <2>3. rx_state' = "HEADER_BURST" \/ (rx_state' = "HEADER_SPACE" /\ Fits')
    BY <1>2, <1>5, <2>2 DEF Follows, TimesBurst, TimesHeaderSpace, TimesDataBurst,
                            TimesDataSpace, HasFrame
  <2>. QED
    BY <1>2, <2>3 DEF InSpace
<1>6. CASE rx_state' # "IDLE" /\ rx_state # "HEADER_SPACE"
  <2>1. /\ (rx_state = "IDLE" \/ tick_count < TIMEOUT)
        /\ (ir_sync <=> prev_level) => LevelHolds
        /\ ~(ir_sync <=> prev_level) => LevelEnds /\ (prev_level' <=> ~prev_level)
        /\ rx_state # "VALIDATE"
    BY <1>3, <1>6, InFrame
  <2>2. CASE ir_sync <=> prev_level
    <3>1. rx_state' = rx_state /\ LevelHolds
      BY <2>1, <2>2 DEF LevelHolds
    <3>2. CASE rx_state = "HEADER_BURST"
      BY <1>2, <3>1, <3>2 DEF InSpace
    <3>3. CASE rx_state = "DATA_BURST" /\ TooLong
      <4>1. tick_count' = tick_count + 1
        BY <1>3, <2>1, <3>1, <3>3, HoldsInFrame
      <4>2. TooLong'
        BY <1>3, <3>3, <4>1 DEF TooLong
      <4>. QED
        BY <1>2, <3>1, <3>3, <4>2 DEF InSpace
    <3>. QED
      BY <1>6, <3>1, <3>2, <3>3 DEF InSpace
  <2>3. CASE ~(ir_sync <=> prev_level)
    <3>1. LevelEnds /\ tick_count' = 0
      BY <1>3, <2>1, <2>3, EndsInto
    <3>2. rx_state' \in {"HEADER_BURST", "HEADER_SPACE"}
      BY <1>3, <1>6, <2>1, <3>1, EndsInto DEF InSpace, IrRxTypeOK, RxState, LinkTypeOK
    <3>3. rx_state' = "HEADER_SPACE" => rx_state # "IDLE"
      BY <1>3, <2>1, <3>1, EndsInto
    <3>4. rx_state' = "HEADER_SPACE" => Fits'
      BY <1>1, <2>1, <2>3, <3>1, <3>3, TimeBegins
    <3>. QED
      BY <1>2, <3>2, <3>4 DEF InSpace
  <2>. QED
    BY <2>2, <2>3
<1>. QED
  BY <1>2, <1>4, <1>5, <1>6

\* Where it ends the receiver has heard the first burst as it was, or waits for a header.
LEMMA SpaceEnds ==
  ASSUME LinkTiming, LinkTypeOK, Levels, tx_state = "HEADER_SPACE", tx_tick >= Limit,
         Light, InSpace
  PROVE  Follows
<1>1. InPacket /\ ~Lit
  BY DEF InPacket, Lit
<1>2. prev_level
  BY <1>1, AllShow
<1>. QED
  BY <1>2 DEF InSpace, Levels, Follows, TimesHeaderSpace

-----------------------------------------------------------------------------
\* Why a packet of which a reset cuts off the end spoils no bit but the last: until the
\* next packet starts the receiver is adrift with the bits that it has, and hears the
\* header of that packet as the end of its space and then as a burst that no bit has.
Cutting ==
  /\ ~blocked /\ losses = 0 /\ TxOrder /\ Levels /\ Timed
  /\ tx_state = "IDLE" => Adrift(data_out, previous)
  /\ tx_state = "HEADER_BURST" => Begins(previous)
  /\ tx_state = "HEADER_SPACE" => InSpace
  /\ tx_state \notin {"IDLE", "HEADER_BURST"} => Light /\ Undisturbed
  /\ tx_state \notin {"IDLE", "HEADER_BURST", "HEADER_SPACE"} => Follows

\* In every state of the transmitter the receiver is where a reset may leave it.
LEMMA AlwaysAdrift ==
  ASSUME LinkTiming, ResetTiming, LinkTypeOK, Cutting
  PROVE  Adrift(data_out, previous)
<1>1. CASE tx_state = "IDLE"
  BY <1>1 DEF Cutting
<1>2. CASE tx_state = "HEADER_BURST"
  BY <1>2, CutAtStart DEF Cutting
<1>3. CASE tx_state \notin {"IDLE", "HEADER_BURST"}
  BY <1>3, CutLater DEF Cutting
<1>. QED
  BY <1>1, <1>2, <1>3

LEMMA CutLaterHere ==
  ASSUME LinkTiming, ResetTiming
  PROVE  LinkTypeOK /\ Light /\ Undisturbed /\ Timed /\ Follows => Adrift(data_out, previous)
BY CutLater

\* It stays there in a cycle in which no light appears and no packet starts.
LEMMA StaysAdrift ==
  ASSUME ResetTiming, Drifts, Adrift(data_out, previous),
         data_out' = data_out, previous' = previous
  PROVE  Adrift(data_out, previous)'
<1>1. PICK d \in Byte : d = data_out
  BY DEF Drifts, LinkTypeOK, IrTxTypeOK
<1>2. PICK p : p = previous
  OBVIOUS
<1>3. Adrift(d, p)'
  BY <1>1, <1>2, AdriftStep
<1>4. data_out' = d /\ previous' = p
  BY <1>1, <1>2
<1>. QED
  BY <1>3, <1>4 DEF Adrift, Prefix, Nearly, Good, Right

\* A packet outlasts no slot.
LEMMA TimedStep ==
  ASSUME LinkTiming, ResetTiming, LinkTypeOK, LinkTypeOK', TxOrder, Timed, InPacket, Timer,
         NEW start, NEW byte, TxEdge(start, byte)
  PROVE  Timed'
<1>1. /\ Begun(ShortBit) \in Nat /\ Begun(LongBit) \in Nat
      /\ Begun(LongBit) + tx_tick + 1 <= LongestPacket
  BY PacketFits
<1>2. /\ LongestPacket \in Nat /\ LongestPacket < TX_LIMIT
      /\ tx_timer \in Nat /\ TX_LIMIT \in Nat /\ tx_tick \in Nat /\ tx_tick' \in Nat
  BY SlotTypes, ResetTimes DEF ResetTiming, LinkTypeOK, IrTxTypeOK
<1>3. Begun(ShortBit) + tx_tick < tx_timer /\ tx_timer <= Begun(LongBit) + tx_tick + 1
  BY DEF Timed, Since
<1>4. tx_timer < TX_LIMIT
  BY <1>1, <1>2, <1>3
<1>5. tx_timer' = tx_timer + 1 /\ ~tx_pulse'
  BY <1>4, TimerGoesOn
<1>6. ASSUME InPacket' PROVE Since(tx_timer)'
  <2>1. tx_state' # "IDLE"
    BY <1>6 DEF InPacket
  <2>2. /\ Begun(ShortBit)' + tx_tick' <= Begun(ShortBit) + tx_tick + 1
        /\ Begun(LongBit) + tx_tick + 1 <= Begun(LongBit)' + tx_tick'
    BY <2>1, PacketProgress
  <2>3. (Begun(ShortBit) \in Nat /\ Begun(LongBit) \in Nat)'
    BY BegunNat, PTL
  <2>4. Begun(ShortBit)' + tx_tick' < tx_timer + 1
        /\ tx_timer + 1 <= Begun(LongBit)' + tx_tick' + 1
    BY <1>1, <1>2, <1>3, <2>2, <2>3
  <2>. QED
    BY <1>5, <2>4 DEF Since
<1>. QED
  BY <1>5, <1>6 DEF Timed

\* The board of ir_tx is held in reset.
LEMMA CutByReset ==
  ASSUME LOSS_MAX = 0, LinkTiming, ResetTiming, LinkTypeOK, LinkTypeOK', Cutting,
         TxReset, Timer, Air, RxEdge(ir_input), previous' = previous
  PROVE  Cutting'
<1>1. /\ tx_state' = "IDLE" /\ message' = message /\ data_out' = data_out
  BY Zenon DEF TxReset
<1>2. Drifts
  BY <1>1 DEF Drifts, Cutting
<1>3. Adrift(data_out, previous)'
  BY <1>1, <1>2, AlwaysAdrift, StaysAdrift
<1>4. ~blocked' /\ losses' = 0
  BY AirCarries DEF Cutting
<1>5. Levels'
  BY LevelsStep DEF Cutting, LinkTypeOK
<1>6. TxOrder'
  BY <1>1 DEF TxOrder, InPacket
<1>7. Timed'
  BY <1>1 DEF Timed, InPacket, Timer
<1>. QED
  BY <1>1, <1>3, <1>4, <1>5, <1>6, <1>7 DEF Cutting

\* A packet starts.
LEMMA CutByStart ==
  ASSUME LOSS_MAX = 0, LinkTiming, ResetTiming, LinkTypeOK, LinkTypeOK', Cutting,
         NEW byte, Sends(TRUE, byte), tx_state = "IDLE", RxEdge(ir_input),
         previous' = data_out
  PROVE  Cutting'
<1>1. /\ ~message' /\ tx_state' = "HEADER_BURST" /\ tx_tick' = 0
      /\ bit_count' = BIT_COUNT_RESET_VAL
  BY SendsNothing DEF Sends, InPacket
<1>2. tx_pulse /\ Drifts
  BY <1>1 DEF Drifts, Cutting, Sends
<1>3. PICK d \in Byte : d = data_out
  BY DEF LinkTypeOK, IrTxTypeOK
<1>4. PICK p : p = previous
  OBVIOUS
<1>5. Begins(d)'
  <2>1. Adrift(d, p)
    BY <1>3, <1>4 DEF Cutting
  <2>. QED
    BY <1>1, <1>2, <2>1, StartsAfresh
<1>6. Begins(previous)'
  <2>1. previous' = d
    BY <1>3
  <2>. QED
    BY <1>5, <2>1 DEF Begins, Prefix, Nearly
<1>7. ~blocked' /\ losses' = 0
  BY AirCarries DEF Cutting, Sends
<1>8. Levels'
  BY LevelsStep DEF Cutting, LinkTypeOK
<1>9. TxOrder'
  <2>1. 0 <= Limit'
    BY <1>1, IrTxAssumption DEF Limit
  <2>. QED
    BY <1>1, <2>1, LinkAssumption DEF TxOrder
<1>10. Timed'
  <2>1. tx_timer = 0 /\ tx_timer < TX_LIMIT
    BY <1>2, LinkAssumption DEF Cutting, Timed
  <2>2. tx_timer' = 1 /\ ~tx_pulse'
    BY <2>1, TimerGoesOn DEF Sends
  <2>3. Begun(ShortBit)' = 0 /\ Begun(LongBit)' = 0
    BY <1>1 DEF Begun, ShortBit, LongBit
  <2>. QED
    BY <1>1, <2>2, <2>3 DEF Timed, Since
<1>. QED
  BY <1>1, <1>6, <1>7, <1>8, <1>9, <1>10 DEF Cutting

\* The transmitter waits for the next slot.
LEMMA CutByWaiting ==
  ASSUME LOSS_MAX = 0, LinkTiming, ResetTiming, LinkTypeOK, LinkTypeOK', Cutting,
         NEW byte, Sends(FALSE, byte), tx_state = "IDLE", RxEdge(ir_input),
         previous' = previous
  PROVE  Cutting'
<1>1. ~message' /\ tx_state' = "IDLE" /\ data_out' = data_out
  BY SendsNothing DEF Sends, InPacket
<1>2. Drifts
  BY <1>1 DEF Drifts, Cutting, Sends
<1>3. Adrift(data_out, previous)'
  BY <1>1, <1>2, AlwaysAdrift, StaysAdrift
<1>4. ~blocked' /\ losses' = 0
  BY AirCarries DEF Cutting, Sends
<1>5. Levels'
  BY LevelsStep DEF Cutting, LinkTypeOK
<1>6. TxOrder'
  BY <1>1 DEF TxOrder, InPacket
<1>7. Timed'
  BY <1>1 DEF Timed, InPacket, Timer, Sends
<1>. QED
  BY <1>1, <1>3, <1>4, <1>5, <1>6, <1>7 DEF Cutting

\* The header of a packet is sent.
LEMMA CutInHeader ==
  ASSUME LOSS_MAX = 0, LinkTiming, ResetTiming, LinkTypeOK, LinkTypeOK', Cutting,
         NEW start, NEW byte, Sends(start, byte), RxEdge(ir_input),
         tx_state \in {"HEADER_BURST", "HEADER_SPACE"}, previous' = previous
  PROVE  Cutting'
<1>1. InPacket /\ (tx_tick < Limit \/ tx_tick >= Limit) /\ Limit \in Nat /\ tx_tick \in Nat
  BY LimitsFit, WayTypes DEF InPacket, LinkTypeOK
<1>2. ~blocked' /\ losses' = 0
  BY AirCarries DEF Cutting, Sends
<1>3. Levels'
  BY LevelsStep DEF Cutting, LinkTypeOK
<1>4. Timed'
  BY <1>1, TimedStep DEF Cutting, Sends
<1>5. CASE tx_state = "HEADER_BURST" /\ tx_tick < Limit
  <2>1. /\ tx_state' = tx_state /\ tx_tick' = tx_tick + 1
        /\ bit_count' = bit_count /\ message'
    BY <1>1, <1>5, SendsOn DEF Sends, LinkTypeOK, Lit
  <2>2. PICK p : p = previous
    OBVIOUS
  <2>3. Begins(p)'
    BY <1>5, <2>1, <2>2, StartGoesOn DEF Cutting, Sends
  <2>4. Begins(previous)'
    BY <2>2, <2>3 DEF Begins, Prefix, Nearly
  <2>5. TxOrder'
    <3>1. Limit' = Limit
      BY <1>5, <2>1 DEF Limit
    <3>. QED
      BY <1>1, <1>5, <2>1, <3>1 DEF TxOrder, Cutting
  <2>. QED
    BY <1>2, <1>3, <1>4, <1>5, <2>1, <2>4, <2>5 DEF Cutting
<1>6. CASE tx_state = "HEADER_BURST" /\ tx_tick >= Limit
  <2>1. PICK p : p = previous
    OBVIOUS
  <2>2. tx_state' = "HEADER_SPACE" /\ Light' /\ Undisturbed' /\ InSpace'
    BY <1>6, <2>1, StartEnds DEF Cutting
  <2>3. TxOrder'
    BY <2>2, LightInOrder, PTL
  <2>. QED
    BY <1>2, <1>3, <1>4, <2>2, <2>3 DEF Cutting
<1>7. CASE tx_state = "HEADER_SPACE"
  <2>1. Light' /\ Undisturbed'
    BY <1>7, LightStep, UndisturbedStep DEF Cutting
  <2>2. TxOrder'
    BY <2>1, LightInOrder, PTL
  <2>3. CASE tx_tick < Limit
    <3>1. tx_state' = "HEADER_SPACE" /\ InSpace'
      BY <1>7, <2>3, SpaceGoesOn DEF Cutting
    <3>. QED
      BY <1>2, <1>3, <1>4, <2>1, <2>2, <3>1 DEF Cutting
  <2>4. CASE tx_tick >= Limit
    <3>1. Follows'
      BY <1>7, <2>4, SpaceEnds, FollowsStep DEF Cutting
    <3>2. tx_state' = "DATA_BURST"
      BY <1>1, <1>7, <2>4, SendsNext DEF Sends, LinkTypeOK, Following
    <3>. QED
      BY <1>2, <1>3, <1>4, <2>1, <2>2, <3>1, <3>2 DEF Cutting
  <2>. QED
    BY <1>1, <2>3, <2>4
<1>. QED
  BY <1>1, <1>5, <1>6, <1>7

\* The rest of a packet is sent, or the rest after a burst of packets goes on.
LEMMA CutInPacket ==
  ASSUME LOSS_MAX = 0, LinkTiming, ResetTiming, LinkTypeOK, LinkTypeOK', Cutting,
         NEW start, NEW byte, Sends(start, byte), RxEdge(ir_input),
         tx_state \notin {"IDLE", "HEADER_BURST", "HEADER_SPACE"}
  PROVE  Cutting'
<1>1. Light' /\ Undisturbed' /\ Follows'
  BY LightStep, UndisturbedStep, FollowsStep DEF Cutting
<1>2. TxOrder'
  BY <1>1, LightInOrder, PTL
<1>3. ~blocked' /\ losses' = 0
  BY AirCarries DEF Cutting, Sends
<1>4. Levels'
  BY LevelsStep DEF Cutting, LinkTypeOK
<1>5. tx_state' \notin {"HEADER_BURST", "HEADER_SPACE"} /\ Timed'
  <2>1. CASE InPacket
    <3>1. tx_tick < Limit \/ tx_tick >= Limit
      BY LimitsFit, WayTypes DEF LinkTypeOK
    <3>2. tx_state' = tx_state \/ tx_state' \in Following(tx_state)
      BY <2>1, <3>1, SendsOn, SendsNext DEF Sends, LinkTypeOK
    <3>3. Timed'
      BY <2>1, TimedStep DEF Cutting, Sends
    <3>. QED
      BY <2>1, <3>2, <3>3 DEF Following, InPacket, LinkTypeOK, IrTxTypeOK, TxState
  <2>2. CASE ~InPacket
    <3>1. ~InPacket'
      BY <2>2, SendsNothing DEF Sends
    <3>. QED
      BY <3>1 DEF InPacket, Timed, Timer, Sends
  <2>. QED
    BY <2>1, <2>2
<1>6. Adrift(data_out, previous)'
  BY <1>1, <1>5, CutLaterHere, PTL
<1>. QED
  BY <1>1, <1>2, <1>3, <1>4, <1>5, <1>6 DEF Cutting

\* Every cycle in which the board of ir_rx is not in reset.
LEMMA CutStep ==
  ASSUME LOSS_MAX = 0, LinkTiming, ResetTiming, LinkTypeOK, LinkTypeOK', Cutting, Clock,
         "rx" \notin resetting
  PROVE  Cutting'
<1>1. Timer /\ Air /\ RxEdge(ir_input)
  BY DEF Clock
<1>2. previous' = IF Started THEN data_out ELSE previous
  BY DEF Clock, History
<1>3. CASE "tx" \in resetting
  <2>1. TxReset /\ previous' = previous
    BY <1>2, <1>3 DEF Clock, Started
  <2>. QED
    BY <1>1, <2>1, CutByReset
<1>4. CASE "tx" \notin resetting
  <2>1. PICK start, byte : Sends(start, byte) /\ (Started <=> tx_state = "IDLE" /\ start)
    BY <1>4, ClockSends
  <2>2. start \in BOOLEAN
    BY <2>1 DEF Sends
  <2>3. CASE tx_state = "IDLE" /\ start
    <3>1. Sends(TRUE, byte) /\ previous' = data_out
      BY <1>2, <2>1, <2>2, <2>3
    <3>. QED
      BY <1>1, <2>3, <3>1, CutByStart
  <2>4. CASE tx_state = "IDLE" /\ ~start
    <3>1. Sends(FALSE, byte) /\ previous' = previous
      BY <1>2, <2>1, <2>2, <2>4
    <3>. QED
      BY <1>1, <2>4, <3>1, CutByWaiting
  <2>5. CASE tx_state # "IDLE"
    <3>1. previous' = previous
      BY <1>2, <2>1, <2>5
    <3>. QED
      BY <1>1, <2>1, <2>5, <3>1, CutInHeader, CutInPacket
  <2>. QED
    BY <2>3, <2>4, <2>5
<1>. QED
  BY <1>3, <1>4

\* At power-up no packet is about.
LEMMA CutInit == LinkInit => Cutting
<1> SUFFICES ASSUME LinkInit PROVE Cutting
  OBVIOUS
<1>1. /\ tx_state = "IDLE" /\ rx_state = "IDLE" /\ ~tx_pulse /\ ~message
      /\ ~ir_sync0 /\ ~ir_sync /\ ~prev_level /\ ~blocked /\ losses = 0
  BY DEF LinkInit, IrTxInit, IrRxInit
<1>2. TxOrder /\ Levels /\ Timed
  BY <1>1 DEF TxOrder, Levels, Timed, InPacket
<1>3. Adrift(data_out, previous)
  BY <1>1 DEF Adrift, OneBurst, Fading, Due1, Due2, Due3, Due4
<1>. QED
  BY <1>1, <1>2, <1>3 DEF Cutting

\* A button pressed or released, or nothing.
LEMMA CutRests ==
  ASSUME Cutting, Press \/ Release \/ UNCHANGED linkVars
  PROVE  Cutting'
<1>1. UNCHANGED <<irTxVars, irRxVars, tx_timer, tx_pulse, airVars, previous>>
  BY DEF Press, Release, linkVars
<1>2. Light' <=> Light
  BY <1>1 DEF irTxVars, irRxVars, airVars, Light, Dark, Waking, InPacket, Heard, Way,
              Lit, Limit, Space
<1>3. Follows' <=> Follows
  BY <1>1 DEF irTxVars, irRxVars, Follows, TimesBurst, TimesHeaderSpace, TimesDataBurst,
              TimesDataSpace, HasFrame, Fits, Elapsed, LastLimit, Space, Lit, InPacket,
              Waking, Received
<1>4. /\ Undisturbed' <=> Undisturbed
      /\ InSpace' <=> InSpace
  BY <1>1 DEF irTxVars, irRxVars, Undisturbed, InSpace, Fits, Elapsed, LastLimit, Space,
              Lit, InPacket, TooLong
<1>5. /\ TxOrder' <=> TxOrder
      /\ Levels' <=> Levels
  BY <1>1 DEF irTxVars, irRxVars, TxOrder, Levels, InPacket, Limit, Space
<1>6. Timed' <=> Timed
  BY <1>1 DEF irTxVars, Timed, InPacket, Since, Begun, UpTo, HeaderTime, ShortBit, LongBit
<1>7. Adrift(data_out, previous) => Adrift(data_out, previous)'
  BY <1>1 DEF irTxVars, irRxVars, airVars, Adrift, OneBurst, Fading, Due1, Due2, Due3, Due4,
              HeardBy, BeganBy, TooLong, Prefix, Nearly, Good, Right, LastHeard, FirstHeard,
              LongestPacket, UpTo, HeaderTime, LongBit
<1>8. Begins(previous) => Begins(previous)'
  BY <1>1 DEF irTxVars, irRxVars, airVars, Begins, OneBurst, Fading, Due1, Due2, Due3, Due4,
              TooLong, Prefix, Nearly
<1>. QED
  BY <1>1, <1>2, <1>3, <1>4, <1>5, <1>6, <1>7, <1>8 DEF Cutting, irTxVars, airVars

\* As long as nobody resets the board of ir_rx, whatever happens to the other.
NeverMixed == "rx" \notin exposed => Cutting

\* Where only the board of ir_tx is reset, in the middle of a packet or anywhere
\* else, the receiver never mixes the bits of two packets, the last bit aside: the
\* next header's burst is too long for it to go on with the packet that was cut off.
THEOREM NeverMixedAlways ==
  ASSUME LOSS_MAX = 0, LinkTiming, ResetTiming
  PROVE  LinkSpec => []NeverMixed
<1>1. LinkTypeOK /\ LinkTypeOK' /\ NeverMixed /\ [LinkNext]_linkVars => NeverMixed'
  <2> SUFFICES ASSUME LinkTypeOK, LinkTypeOK', NeverMixed, [LinkNext]_linkVars,
                      "rx" \notin exposed'
               PROVE  Cutting'
    BY DEF NeverMixed
  <2>1. exposed' = exposed
    BY DEF LinkNext, Clock, Press, Release, linkVars
  <2>2. Cutting /\ "rx" \notin resetting
    BY <2>1 DEF NeverMixed, LinkTypeOK
  <2>. QED
    BY <2>2, CutStep, CutRests DEF LinkNext
<1>. QED
  BY <1>1, CutInit, LinkTypeCorrect, PTL DEF LinkSpec, NeverMixed

\* A packet that is delivered has, but for its last bit, the bits of the packet started
\* last or of the one before it, whenever one of the boards is reset.
THEOREM OnlyLastBitAlways ==
  ASSUME LOSS_MAX = 0, LinkTiming, ResetTiming,
         \A boards \in Resettable : "tx" \notin boards \/ "rx" \notin boards
  PROVE  LinkSpec => OnlyLastBitSuffers
<1> DEFINE OneBoard == "tx" \notin exposed \/ "rx" \notin exposed
<1>1. LinkInit => OneBoard
  BY DEF LinkInit
<1>2. OneBoard /\ [LinkNext]_linkVars => OneBoard'
  BY DEF LinkNext, Clock, Press, Release, linkVars
<1>3. LinkTypeOK /\ Agreed /\ NeverMixed /\ OneBoard /\ [LinkNext]_linkVars
      => [~done /\ done' => \E packet \in {data_out, previous} :
                              \A b \in Bits \ {0} : data'[b] = packet[b]]_linkVars
  <2> SUFFICES ASSUME LinkTypeOK, Agreed, NeverMixed, OneBoard, LinkNext, ~done, done'
               PROVE  \E packet \in {data_out, previous} :
                        \A b \in Bits \ {0} : data'[b] = packet[b]
    OBVIOUS
  <2>1. Clock
    <3>1. Press \/ Release => done' = done
      BY DEF Press, Release, irRxVars
    <3>. QED
      BY <3>1 DEF LinkNext
  <2>2. rx_state = "VALIDATE" /\ RxEdge(ir_input)
    BY <2>1, OnlyFrames DEF Clock
  <2>3. CASE "tx" \notin exposed
    <3>1. HasFrame
      BY <2>2, <2>3 DEF Agreed, Follows, TimesBurst, TimesHeaderSpace, TimesDataBurst,
                        TimesDataSpace
    <3>2. data' = data_out
      BY <2>2, <3>1, FrameLeaves
    <3>. QED
      BY <3>2
  <2>4. CASE "rx" \notin exposed
    <3>1. Adrift(data_out, previous)
      BY <2>4, AlwaysAdrift DEF NeverMixed
    <3>2. data' = shift_reg /\ RxBits = Bits
      BY <2>2, LinkAssumption DEF RxEdge, RxBits, Bits
    <3>3. Nearly(data_out) \/ Nearly(previous)
      BY <2>2, <3>1 DEF Adrift
    <3>. QED
      BY <3>2, <3>3 DEF Nearly
  <2>. QED
    BY <2>3, <2>4
<1> HIDE DEF OneBoard
<1>. QED
  BY <1>1, <1>2, <1>3, AgreedAlways, NeverMixedAlways, LinkTypeCorrect, PTL
     DEF LinkSpec, OnlyLastBitSuffers
=============================================================================
