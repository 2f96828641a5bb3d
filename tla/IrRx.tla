--------------------------------- MODULE IrRx ---------------------------------
(***************************************************************************)
(* The transmitter board's IR receiver (ir_rx.sv), one step per rising     *)
(* edge of clk50.  The line from the demodulator is active low: a burst is *)
(* a low level.  Levels are timed in tick_count, and the bits of a         *)
(* frame are told apart by the length of their spaces.                     *)
(***************************************************************************)
EXTENDS Integers

CONSTANTS
  LAST_BIT,  \* bit_count at the last bit; 7
  BURST_MIN, BURST_MAX, SPACE_MIN, SPACE_MAX,
  DATA_BURST_MIN, DATA_BURST_MAX,
  BIT_THRESHOLD, TIMEOUT,
  TICK_MAX   \* tick_count saturates here

ASSUME IrRxAssumption ==
  /\ LAST_BIT \in Nat
  /\ BURST_MIN \in Nat /\ BURST_MAX \in Nat /\ SPACE_MIN \in Nat /\ SPACE_MAX \in Nat
  /\ DATA_BURST_MIN \in Nat /\ DATA_BURST_MAX \in Nat
  /\ BIT_THRESHOLD \in Nat /\ TIMEOUT \in Nat \ {0}
  /\ TICK_MAX \in Nat /\ TICK_MAX >= TIMEOUT

VARIABLES
  ir_sync0, ir_sync,      \* the synchroniser, TRUE for high
  rx_state, tick_count, prev_level, rx_bits, shift_reg,
  recv, done, data

irRxVars == <<ir_sync0, ir_sync, rx_state, tick_count, prev_level, rx_bits,
              shift_reg, recv, done, data>>

RxState == {"IDLE", "HEADER_BURST", "HEADER_SPACE", "DATA_BURST", "DATA_SPACE",
            "VALIDATE"}

RxBits == 0..LAST_BIT
RxByte == [RxBits -> BOOLEAN]
RxZero == [b \in RxBits |-> FALSE]

\* The registers without a reset value, the synchroniser, are configured low.
IrRxInit ==
  /\ ir_sync0 = FALSE /\ ir_sync = FALSE
  /\ rx_state = "IDLE" /\ tick_count = 0 /\ prev_level = FALSE
  /\ rx_bits = 0 /\ shift_reg = RxZero
  /\ recv = FALSE /\ done = FALSE /\ data = RxZero

Synchronise(ir_input) == ir_sync0' = ir_input /\ ir_sync' = ir_sync0

\* Mutant: reset leaves the state machine where it is.
RxResetKeepsState(ir_input) ==
  /\ Synchronise(ir_input)
  /\ tick_count' = 0 /\ prev_level' = TRUE
  /\ rx_bits' = 0 /\ shift_reg' = RxZero
  /\ recv' = FALSE /\ done' = FALSE /\ data' = RxZero
  /\ UNCHANGED rx_state

RxReset(ir_input) ==
  /\ Synchronise(ir_input)
  /\ rx_state' = "IDLE" /\ tick_count' = 0 /\ prev_level' = TRUE
  /\ rx_bits' = 0 /\ shift_reg' = RxZero
  /\ recv' = FALSE /\ done' = FALSE /\ data' = RxZero

Within(low, high) == low <= tick_count /\ tick_count <= high

\* Mutant: any burst passes for the burst of a header.
ExpectedAnyHeader ==
  CASE rx_state = "IDLE" -> prev_level
    [] rx_state = "HEADER_BURST" -> TRUE
    [] rx_state = "HEADER_SPACE" -> Within(SPACE_MIN, SPACE_MAX)
    [] rx_state = "DATA_BURST" -> Within(DATA_BURST_MIN, DATA_BURST_MAX)
    [] OTHER -> TRUE

\* Mutant: the bursts of the bits are checked against the header's bounds.
ExpectedWrongBounds ==
  CASE rx_state = "IDLE" -> prev_level
    [] rx_state = "HEADER_BURST" -> Within(BURST_MIN, BURST_MAX)
    [] rx_state = "HEADER_SPACE" -> Within(SPACE_MIN, SPACE_MAX)
    [] rx_state = "DATA_BURST" -> Within(BURST_MIN, BURST_MAX)
    [] OTHER -> TRUE

\* The level that ends now was the one the state waits for.
Expected ==
  CASE rx_state = "IDLE" -> prev_level
    [] rx_state = "HEADER_BURST" -> Within(BURST_MIN, BURST_MAX)
    [] rx_state = "HEADER_SPACE" -> Within(SPACE_MIN, SPACE_MAX)
    [] rx_state = "DATA_BURST" -> Within(DATA_BURST_MIN, DATA_BURST_MAX)
    [] OTHER -> TRUE

\* Mutant: a one is taken in at the wrong end.
ShiftInRight(bit) == [b \in RxBits |-> IF b = LAST_BIT THEN bit ELSE shift_reg[b + 1]]

\* shift_reg <= {shift_reg[6:0], bit}
ShiftIn(bit) == [b \in RxBits |-> IF b = 0 THEN bit ELSE shift_reg[b - 1]]

\* What an edge of the line does, by the state.
LevelEnds ==
  /\ rx_state' =
       IF ~Expected THEN "IDLE"
       ELSE CASE rx_state = "IDLE" -> "HEADER_BURST"
              [] rx_state = "HEADER_BURST" -> "HEADER_SPACE"
              [] rx_state = "HEADER_SPACE" -> "DATA_BURST"
              [] rx_state = "DATA_BURST" -> "DATA_SPACE"
              [] rx_state = "DATA_SPACE" -> IF rx_bits = LAST_BIT THEN "VALIDATE"
                                            ELSE "DATA_BURST"
  /\ recv' = IF rx_state = "IDLE" THEN prev_level \/ recv ELSE Expected /\ recv
  /\ CASE rx_state = "HEADER_SPACE" /\ Expected ->
            rx_bits' = 0 /\ shift_reg' = RxZero
       [] rx_state = "DATA_SPACE" ->
            /\ rx_bits' = IF rx_bits = LAST_BIT THEN rx_bits ELSE rx_bits + 1
            /\ shift_reg' = ShiftIn(tick_count > BIT_THRESHOLD)
       [] OTHER -> UNCHANGED <<rx_bits, shift_reg>>
  /\ tick_count' = 0

\* Mutant: tick_count does not saturate.
LevelHoldsUnbounded ==
  /\ tick_count' = tick_count + 1
  /\ UNCHANGED <<rx_state, recv, rx_bits, shift_reg>>

LevelHolds ==
  /\ tick_count' = IF tick_count < TICK_MAX THEN tick_count + 1 ELSE tick_count
  /\ UNCHANGED <<rx_state, recv, rx_bits, shift_reg>>

\* Mutant: no level times out.
TimedOutNever == FALSE

\* Measured per level, not per frame: every edge clears tick_count.
TimedOut == tick_count >= TIMEOUT /\ rx_state # "IDLE"

Level == IF ir_sync = prev_level THEN LevelHolds ELSE LevelEnds

\* Mutant: a timeout leaves recv on.
FrameKeepsRecv ==
  \/ /\ TimedOut
     /\ rx_state' = "IDLE" /\ recv' = recv /\ tick_count' = 0
     /\ rx_bits' = 0 /\ shift_reg' = RxZero
  \/ /\ ~TimedOut /\ rx_state = "VALIDATE"
     /\ rx_state' = "IDLE" /\ recv' = FALSE
     /\ UNCHANGED <<rx_bits, shift_reg>>
     /\ tick_count' = IF ir_sync # prev_level \/ tick_count = TICK_MAX
                      THEN tick_count ELSE tick_count + 1
  \/ ~TimedOut /\ rx_state # "VALIDATE" /\ Level

Frame ==
  \/ /\ TimedOut
     /\ rx_state' = "IDLE" /\ recv' = FALSE /\ tick_count' = 0
     /\ rx_bits' = 0 /\ shift_reg' = RxZero
  \/ /\ ~TimedOut /\ rx_state = "VALIDATE"
     /\ rx_state' = "IDLE" /\ recv' = FALSE
     /\ UNCHANGED <<rx_bits, shift_reg>>
     /\ tick_count' = IF ir_sync # prev_level \/ tick_count = TICK_MAX
                      THEN tick_count ELSE tick_count + 1
  \/ ~TimedOut /\ rx_state # "VALIDATE" /\ Level

\* An edge without reset.  A complete frame is delivered as it is: nothing is
\* compared.
RxEdge(ir_input) ==
  /\ Synchronise(ir_input)
  /\ prev_level' = ir_sync
  /\ Frame
  /\ done' = (rx_state = "VALIDATE")
  /\ data' = IF rx_state = "VALIDATE" THEN shift_reg ELSE data

-----------------------------------------------------------------------------
IrRxTypeOK ==
  /\ rx_state \in RxState /\ tick_count \in 0..TICK_MAX
  /\ rx_bits \in RxBits /\ shift_reg \in RxByte /\ data \in RxByte
  /\ ir_sync0 \in BOOLEAN /\ ir_sync \in BOOLEAN /\ prev_level \in BOOLEAN
  /\ recv \in BOOLEAN /\ done \in BOOLEAN

\* recv, the output for "a frame is coming in", says exactly that, whichever of
\* the ways out of a frame is taken.
RecvAgrees == recv <=> rx_state # "IDLE"
=============================================================================
