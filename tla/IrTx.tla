--------------------------------- MODULE IrTx ---------------------------------
(***************************************************************************)
(* The receiver board's IR transmitter (ir_tx.sv), one step per rising     *)
(* edge of clk50: a header burst and space, the bits, most significant     *)
(* first, each a burst and a space whose length is the bit, and a last     *)
(* burst; then a gap, and after BURST_LIMIT packets a long one.  message   *)
(* is the signal before the 38 kHz carrier.                                *)
(***************************************************************************)
EXTENDS Integers

CONSTANTS
  BIT_COUNT_RESET_VAL,  \* the first bit sent; 7
  TICK_HEADER_BURST, TICK_HEADER_SPACE,
  TICK_DATA_BURST,      \* data burst, space of a zero, last burst
  TICK_DATA_SPACE,      \* space of a one
  TICK_WAIT_GAP, TICK_LONG_WAIT,
  BURST_LIMIT

ASSUME IrTxAssumption ==
  /\ BIT_COUNT_RESET_VAL \in Nat
  /\ TICK_HEADER_BURST \in Nat /\ TICK_HEADER_SPACE \in Nat
  /\ TICK_DATA_BURST \in Nat /\ TICK_DATA_SPACE \in Nat
  /\ TICK_WAIT_GAP \in Nat /\ TICK_LONG_WAIT \in Nat
  /\ BURST_LIMIT \in 0..7

VARIABLES
  tx_state, tx_tick, bit_count, data_out, message, burst_counter, tx_done

irTxVars == <<tx_state, tx_tick, bit_count, data_out, message, burst_counter,
              tx_done>>

TxState == {"IDLE", "HEADER_BURST", "HEADER_SPACE", "DATA_BURST", "DATA_SPACE",
            "EOF", "WAIT", "LONG_WAIT"}

Bits == 0..BIT_COUNT_RESET_VAL
Byte == [Bits -> BOOLEAN]
Zero == [b \in Bits |-> FALSE]

IrTxInit ==
  /\ tx_state = "IDLE" /\ tx_tick = 0 /\ bit_count = 0
  /\ data_out = Zero /\ message = FALSE /\ burst_counter = 0
  /\ tx_done = FALSE

\* Only these three registers are reset: the carrier stays as it is, and so
\* does the count of packets in the burst.
TxReset ==
  /\ tx_state' = "IDLE" /\ tx_tick' = 0 /\ tx_done' = FALSE
  /\ UNCHANGED <<bit_count, data_out, message, burst_counter>>

TxIdle(start, data) ==
  /\ tx_state = "IDLE"
  /\ message' = FALSE /\ bit_count' = BIT_COUNT_RESET_VAL
  /\ IF start THEN /\ data_out' = data /\ tx_done' = FALSE /\ tx_tick' = 0
                   /\ tx_state' = "HEADER_BURST"
              ELSE UNCHANGED <<data_out, tx_done, tx_tick, tx_state>>
  /\ UNCHANGED burst_counter

\* Every other state drives message with its level and waits for its tick.
Hold(at, level, limit) ==
  /\ tx_state = at /\ message' = level
  /\ tx_tick < limit
  /\ tx_tick' = tx_tick + 1
  /\ tx_state' = tx_state

Leave(at, level, limit, next) ==
  /\ tx_state = at /\ message' = level
  /\ tx_tick >= limit
  /\ tx_tick' = 0
  /\ tx_state' = next

Header ==
  /\ \/ Hold("HEADER_BURST", TRUE, TICK_HEADER_BURST)
     \/ Leave("HEADER_BURST", TRUE, TICK_HEADER_BURST, "HEADER_SPACE")
     \/ Hold("HEADER_SPACE", FALSE, TICK_HEADER_SPACE)
     \/ Leave("HEADER_SPACE", FALSE, TICK_HEADER_SPACE, "DATA_BURST")
  /\ UNCHANGED <<bit_count, data_out, burst_counter, tx_done>>

DataBurst ==
  /\ \/ Hold("DATA_BURST", TRUE, TICK_DATA_BURST)
     \/ Leave("DATA_BURST", TRUE, TICK_DATA_BURST, "DATA_SPACE")
  /\ UNCHANGED <<bit_count, data_out, burst_counter, tx_done>>

\* How long the space after a bit lasts.
Space(bit) == IF bit THEN TICK_DATA_SPACE ELSE TICK_DATA_BURST

DataSpace ==
  LET space == Space(data_out[bit_count]) IN
  /\ \/ Hold("DATA_SPACE", FALSE, space) /\ UNCHANGED bit_count
     \/ /\ Leave("DATA_SPACE", FALSE, space,
                 IF bit_count = 0 THEN "EOF" ELSE "DATA_BURST")
        /\ bit_count' = IF bit_count = 0 THEN 0 ELSE bit_count - 1
  /\ UNCHANGED <<data_out, burst_counter, tx_done>>

Eof ==
  /\ \/ Hold("EOF", TRUE, TICK_DATA_BURST) /\ UNCHANGED <<burst_counter, tx_done>>
     \/ /\ Leave("EOF", TRUE, TICK_DATA_BURST, "WAIT")
        /\ burst_counter' = (burst_counter + 1) % 8
        /\ tx_done' = TRUE
  /\ UNCHANGED <<bit_count, data_out>>

\* Mutant: the long gap comes a packet late.
WaitOneMore ==
  /\ \/ Hold("WAIT", FALSE, TICK_WAIT_GAP)
     \/ Leave("WAIT", FALSE, TICK_WAIT_GAP,
              IF burst_counter > BURST_LIMIT THEN "LONG_WAIT" ELSE "IDLE")
  /\ tx_done' = FALSE
  /\ UNCHANGED <<bit_count, data_out, burst_counter>>

Wait ==
  /\ \/ Hold("WAIT", FALSE, TICK_WAIT_GAP)
     \/ Leave("WAIT", FALSE, TICK_WAIT_GAP,
              IF burst_counter >= BURST_LIMIT THEN "LONG_WAIT" ELSE "IDLE")
  /\ tx_done' = FALSE
  /\ UNCHANGED <<bit_count, data_out, burst_counter>>

LongWait ==
  /\ \/ Hold("LONG_WAIT", FALSE, TICK_LONG_WAIT) /\ UNCHANGED burst_counter
     \/ /\ Leave("LONG_WAIT", FALSE, TICK_LONG_WAIT, "IDLE")
        /\ burst_counter' = 0
  /\ UNCHANGED <<bit_count, data_out, tx_done>>

TxEdge(start, data) ==
  TxIdle(start, data) \/ Header \/ DataBurst \/ DataSpace \/ Eof \/ Wait \/ LongWait

-----------------------------------------------------------------------------
IrTxTypeOK ==
  /\ tx_state \in TxState /\ tx_tick \in Nat
  /\ bit_count \in Bits /\ data_out \in Byte
  /\ message \in BOOLEAN /\ burst_counter \in 0..7 /\ tx_done \in BOOLEAN
=============================================================================
