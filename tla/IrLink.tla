-------------------------------- MODULE IrLink --------------------------------
(***************************************************************************)
(* The infrared link between the boards: the 50 Hz packet timer of         *)
(* rx_state.sv, ir_tx on the receiver board, the air, ir_rx on the         *)
(* transmitter board.  Both boards are stepped together; the difference    *)
(* between their clocks, the carrier and the demodulator are the jitter of *)
(* the air.                                                                *)
(***************************************************************************)
EXTENDS IrTx, IrRx

CONSTANTS
  TX_LIMIT,      \* tx_timer at which a packet is started
  Packets,       \* the bytes the receiver board may have to send
  JITTER,        \* most cycles by which the air delays an edge
  LOSS_MAX,      \* how many bursts the air may swallow
  Resettable,    \* sets of boards: one of them may be reset, "tx" or "rx"
  None,          \* no packet
  MAX_AGE        \* the age of a command is measured up to here

ASSUME LinkAssumption ==
  /\ BIT_COUNT_RESET_VAL = LAST_BIT
  /\ TX_LIMIT \in Nat \ {0} /\ JITTER \in Nat /\ LOSS_MAX \in Nat
  /\ MAX_AGE \in Nat
  /\ Packets \subseteq Byte /\ None \notin Byte
  /\ Resettable \subseteq SUBSET {"tx", "rx"}

VARIABLES
  tx_timer, tx_pulse,   \* rx_state.sv
  ir_input,             \* the line into ir_rx, TRUE for high
  late,                 \* cycles by which ir_input trails the light
  blocked, losses,      \* the present burst is swallowed; how many were
  exposed,              \* the boards that somebody may reset
  resetting,            \* those held in reset
  box,                  \* history: the packet on its way
  previous,             \* history: the packet started before the present one
  age                   \* history: cycles since a delivery, capped

airVars == <<ir_input, late, blocked, losses>>
linkVars == <<irTxVars, irRxVars, tx_timer, tx_pulse, airVars, exposed,
              resetting, box, previous, age>>

LinkInit ==
  /\ IrTxInit /\ IrRxInit
  /\ tx_timer = 0 /\ tx_pulse = FALSE
  /\ ir_input = TRUE /\ late = 0 /\ blocked = FALSE /\ losses = 0
  /\ exposed \in Resettable /\ resetting = {}
  /\ box = None /\ previous = Zero /\ age = 0

\* Mutant: the timer's period is a cycle longer.
TimerLate ==
  /\ tx_timer' = IF tx_timer > TX_LIMIT THEN 0 ELSE tx_timer + 1
  /\ tx_pulse' = (tx_timer > TX_LIMIT)

\* The timer is not reset.
Timer ==
  /\ tx_timer' = IF tx_timer >= TX_LIMIT THEN 0 ELSE tx_timer + 1
  /\ tx_pulse' = (tx_timer >= TX_LIMIT)

\* The demodulator: low while it sees the carrier, each edge up to JITTER
\* cycles late.  Something in the way swallows a burst as a whole.
Air ==
  LET light == message /\ ~blocked IN
  /\ \/ ir_input' = ~light /\ late' = 0
     \/ /\ ir_input = light /\ late < JITTER
        /\ ir_input' = ir_input /\ late' = late + 1
  /\ IF message' /\ ~message
     THEN \/ blocked' = FALSE /\ UNCHANGED losses
          \/ losses < LOSS_MAX /\ blocked' = TRUE /\ losses' = losses + 1
     ELSE UNCHANGED <<blocked, losses>>

Started == "tx" \notin resetting /\ tx_state = "IDLE" /\ tx_pulse

History ==
  /\ box' = IF Started THEN data_out' ELSE IF done' THEN None ELSE box
  /\ previous' = IF Started THEN data_out ELSE previous
  /\ age' = IF done' THEN 0 ELSE IF age > MAX_AGE THEN age ELSE age + 1

Clock ==
  /\ Timer
  /\ IF "tx" \in resetting THEN TxReset
     ELSE IF Started THEN \E packet \in Packets : TxEdge(TRUE, packet)
     ELSE TxEdge(tx_pulse, data_out)
  /\ Air
  /\ IF "rx" \in resetting THEN RxReset(ir_input) ELSE RxEdge(ir_input)
  /\ History
  /\ UNCHANGED <<exposed, resetting>>

Press == \E board \in exposed \ resetting :
           /\ resetting' = resetting \cup {board}
           /\ UNCHANGED <<irTxVars, irRxVars, tx_timer, tx_pulse, airVars,
                          exposed, box, previous, age>>

Release == \E board \in resetting :
             /\ resetting' = resetting \ {board}
             /\ UNCHANGED <<irTxVars, irRxVars, tx_timer, tx_pulse, airVars,
                            exposed, box, previous, age>>

LinkNext == Clock \/ Press \/ Release

LinkSpec == LinkInit /\ [][LinkNext]_linkVars

\* Both oscillators never stop.
FairLink == LinkSpec /\ WF_linkVars(Clock)

-----------------------------------------------------------------------------
LinkTypeOK ==
  /\ IrTxTypeOK /\ IrRxTypeOK
  /\ tx_timer \in 0..TX_LIMIT /\ tx_pulse \in BOOLEAN
  /\ ir_input \in BOOLEAN /\ late \in 0..JITTER
  /\ blocked \in BOOLEAN /\ losses \in 0..LOSS_MAX
  /\ resetting \subseteq exposed

\* The link is a reliable mailbox: whatever the bits and the jitter, the frame
\* that ir_tx generates is the one ir_rx decodes, exactly once and before the
\* next frame starts.
Delivered == INSTANCE Mailbox WITH latest <- data
ReliableMailbox == Delivered!Spec
EveryPacketArrives == Delivered!Arrives

\* A command is fresh: the rest after each burst of packets costs one slot of
\* the timer and no more.
FreshCommand == age <= MAX_AGE

\* ir_tx.sv: "sending 5 packets then rest".
RestsAfterBurst == burst_counter <= BURST_LIMIT

\* As long as the receiver board is not reset, whatever happens to the other, a
\* packet that is delivered is the one on its way, bit for bit.  ir_rx.sv says
\* how it means to make sure: "Validate by checking to see if the data matches
\* the inverted data".
NeverCorrupt ==
  [][~done /\ done' /\ "tx" \notin exposed => data' = box]_linkVars

\* If the receiver board is reset at any moment a packet may be lost, or arrive
\* late with its last bit wrong (the space of the last bit then lasts until the
\* next frame), but the other bits, and so on_target, are those of the packet
\* started last or of the one before it.
OnlyLastBitSuffers ==
  [][~done /\ done' => \E packet \in {data_out, previous} :
                         \A b \in Bits \ {0} : data'[b] = packet[b]]_linkVars

\* The bits of a byte that carry the command; rx_state.sv sends the others as zeros.
CommandBits == Bits \cap 0..4
Sendable == {byte \in Byte : \A b \in Bits \ CommandBits : ~byte[b]}

\* A swallowed burst merges two spaces into one and leaves the receiver short of a
\* bit, which the next header would make up for; nothing compares what is delivered
\* with anything.  The command is intact all the same, that of the packet started
\* last or of the one before it: the gap to the next header times out, except after
\* the packet with five ones, whose gap is the shortest and whose command bits read
\* as ones with a bit missing too.
CommandIntact ==
  [][~done /\ done' => \E packet \in {data_out, previous} :
                         \A b \in CommandBits : data'[b] = packet[b]]_linkVars
=============================================================================
