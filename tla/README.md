# Verification of the SCOPE laser tracker

SCOPE points a laser at a hand-held target with a two-axis stepper gimbal. It is
made of two FPGA boards that are connected by nothing but light:

    transmitter board                            receiver board
    -----------------                            --------------
    search_controller --enable, dir--> driver    adc_qpd_scanner
        ^        ^                        |            | q0..q3
        |        | command, rx_done      motors        v
     step tick   |                        |        qpd_state
                ir_rx                     v            | command (5 bits)
                 ^                      laser ~~~> QPD v
                 |                                 rx_state: 50 Hz timer
                 +~~~~~~~~~~ 38 kHz infrared ~~~~~~~ ir_tx

    on each board: I/O words --> Nios V monitor --> JTAG UART ~~> host

This directory holds TLA+ models of the logic written for it (SystemVerilog) and
of the driver its two monitors print through (C), TLC configurations that check
them on small instances, and proofs, checked by TLAPS, of what holds for every
value of the parameters. Registers, states and parameters have the names they
have in the source.

## 1. Inventory

| Part | Source | State it keeps | Operations | Where |
|---|---|---|---|---|
| Search controller | `search_controller.sv` | one of six states, two signed 16-bit step counters, the spiral (side, step in the leg, direction), a pulse timer, `has_seen_target`, four motor outputs | clock edge in each state; asynchronous reset; `return_home` | `SearchController` |
| Step driver, divider | `driver.sv`, `clkdiv.sv` | divider count, `clk0`, two step lines | divider edge; edge of `clk0` | `StepDriver` |
| Transmitter board | `laser_top.sv` | step-tick counter; the rest is wiring | clock edge, two buttons | `Transmitter`, `StepAccount` |
| IR receiver | `ir_rx.sv` | synchroniser, frame state, level timer, bit count, shift register, output byte | clock edge: level ends, level holds, timeout, delivery; reset | `IrRx`, `IrRxNoise` |
| IR transmitter | `ir_tx.sv` | frame state, tick count, bit count, byte, burst counter | clock edge in each of eight states; partial reset | `IrTx` |
| Packet timer | `rx_state.sv` | `tx_timer`, `tx_pulse` | clock edge | `IrLink` |
| Target detection | `qpd_state.sv` | confidence counter, `on_target`, movement bits and their directions, `micro` | clock edge, asynchronous reset of the confidence, the command and debug words | `QpdState`, `QpdHistory` |
| ADC scanner | `adc_qpd_scanner.sv` | conversion state and count, channel and the one before it, sample, `q0..q3` | clock edge, synchronous reset; the converter | `AdcScanner` |
| Receiver board | `laser_rx.sv`, `rx_state.sv` | wiring | clock edge, `KEY[0]`, any change of light | `ReceiverBoard` |
| JTAG UART driver | `altera_avalon_jtag_uart_*.c`, `alt_alarm_start.c`, `alt_tick.c`, `alt_sys_init.c` | two ring buffers, the enabled interrupts, the watch for the host | boot, write, read, close, interrupt, tick | `JtagUart` |
| Receiver monitor | `laser_rx/…/main.c` | none between two lines | poll the I/O words, unpack, print | `QpdState` (`Line`) |
| Transmitter monitor | `laser.c` | none | poll, print | its writes are those of `JtagUart` |
| Visualizer | `python/…/qpd.py` | the unfinished last line | parse, plot | not modelled |
| Rest of the HAL, generated systems, circuit board | `software/bsp`, `laser_rx/software/bsp`, `ccom*`, `other` | – | vendor code | not modelled |

### How the parts interact, and what is hard

*Everything on a board shares clk50, except the step driver.* The controller
times a motor pulse in clk50 cycles and counts the step at once. The driver
makes the step with `clk0`, a 1 kHz clock of another phase: a pulse must be
exactly one period of it. Between the count and the step, the state, the
direction or the mask of the axis can change.

*The boards share nothing.* Commands reach the controller as a latched byte that
never expires. A packet lasts 8 to 11 ms, packets start every 20 ms, and every
sixth slot is lost to a rest. Either board can be reset at any moment, in the
middle of a packet as well; light can be blocked, delayed or not from the
transmitter at all.

*Two buttons override everything* at any cycle, and hold it for as long as they
are pressed.

*The scanner is a pipeline.* A transfer brings the bits of the channel that the
transfer before it has addressed. The light may change between two of the four
readings that are added up, and a reset can cut a transfer short and leave the
converter on any channel.

*The monitors share two ring buffers with an interrupt.* The thread computes
room and bytes from indices that the interrupt routine moves on before the
thread copies, and waits for the routine to make room, which may have happened
already. The routine turns itself off when there is nothing to do.

What makes each part correct:

- search controller: a lost target is searched for in a complete, bounded,
  self-similar spiral; a search needs a sighting; searches and returns end; no
  register overflows but the step counters, which wrap and must recover;
- driver and board: the counters say where the motors are;
- receiver: no light keeps it busy for longer than a frame may last, it delivers
  nothing that is not a frame, `recv` tells the truth;
- link: what is sent is delivered, once, unchanged and soon; a reset or a
  blocked burst does as little harm as possible;
- receiver board: in a steady light every reading is of its own quadrant, the
  command is true, and `on_target` neither flickers nor hangs on;
- UART driver: each direction is a stream; no byte is lost, doubled, reordered
  or left behind, and no wake-up is lost.

`PROJECT.json` lists every hazard at its line, with the properties that watch it
or the reason why none does yet.

## 2. Modules

| Module | Content |
|---|---|
| `StepPosition` | the wrapping 16-bit step counters |
| `SearchController` | the controller: one action per state and outcome, reset, `return_home`; its type invariant and two invariants |
| `TaxicabSpiral` | abstract: what a search promises, in terms of legs |
| `SearchHistory` | the controller with history variables; the spiral's properties and the refinement mapping |
| `StepDriver` | divider and step lines |
| `Transmitter` | the board: controller, tick, receiver's outputs, driver, buttons; liveness |
| `StepAccount` | the board with motors; an account of steps made and counted |
| `IrTx`, `IrRx` | the two ends of the link |
| `Mailbox` | abstract: what the link promises |
| `IrLink` | timer, transmitter, air, receiver and resets; the refinement to `Mailbox` |
| `IrRxNoise` | the receiver under arbitrary light |
| `QpdState` | target detection, the command and the debug word, and what the monitor makes of it |
| `QpdHistory` | how much light and darkness there was; what the hysteresis promises |
| `AdcScanner` | the scanner and its converter |
| `ReceiverBoard` | scanner, converter, detection, changing light, reset |
| `ByteStream` | abstract: what a direction of the UART promises |
| `JtagUart` | thread, interrupt routine, clock, device and host; the refinements to `ByteStream` |
| `MCSearch`, `MCTransmitter`, `MCSteps`, `MCLink`, `MCNoise`, `MCReceiver`, `MCPackets` | small instances for TLC |
| `SearchControllerProofs`, `SpiralProofs`, `TransmitterProofs`, `StepProofs`, `IrRxProofs`, `IrLinkProofs`, `ReceiverProofs`, `UartProofs` | theorems |

Each module contains, beside the definitions the code is translated to, a few
operators marked `Mutant:`. They are variants of the definition that follows
them with a plausible mistake in it; for each property there is one that breaks
it. They are used by no specification.

### Conventions of the translation

- One step of a model is one rising edge of clk50. A register assigned under
  `<=` is a primed variable; reads are unprimed. Where the source assigns a
  register twice on one edge the last assignment counts (`pulse_timer` in
  `RunTimer`, the timeout at the end of `ir_rx.sv` in `Frame`).
- A one-bit register is a BOOLEAN; bytes are functions from bit numbers to
  BOOLEAN in the link, and records of the five command bits on the board.
- Registers without a reset value are configured low by the FPGA. This matters
  for the step lines: they idle high, so both motors make a step at power-up.
- `clk0` rises as a consequence of a clk50 edge, so the driver samples the
  enables which that edge has set (`Drive(out_yaw_en', out_pitch_en')`).
- `reset` of the controller is asynchronous: `PressReset` changes its registers
  at once, and every edge while the button is down does so again. The receiver
  and the transmitter of the link are reset synchronously, and `ir_tx` only in
  part. Tick generator, driver and packet timer have no reset.
- On the board the receiver is represented by its outputs: a byte from `Packets`
  replaces the latched one, with `rx_done` for one cycle, no two within
  `PACKET_GAP`. That gap is not an assumption about the sender: theorem
  `PacketsApart` shows that no light makes `ir_rx` deliver two packets within
  `FRAME_MIN` cycles, 155,019 with the values of the source, three times
  `PULSE_WIDTH`.
- The converter's value is the level of the channel it is set to at the moment
  convst rises; a complete transfer sets the channel that `sdi` carries, one cut
  short may leave any. The light may
  change between any two edges.
- In `JtagUart` a step of the thread is what lies between two accesses to data
  the interrupt routine shares (the copy of a piece is one step: the routine
  touches none of its slots, which is `CopiesApart`); the sections with
  interrupts disabled are one step. The routine's steps are its accesses; the
  thread stands still meanwhile. Bytes are numbered in the order in which they
  are written or typed; locals are cleared when a call returns. The program may
  make any sequence of writes and reads of up to `MAX_CALL` bytes and of closes,
  blocking or not; what a close returns is left out. The
  driver is the fast one, without an operating system, as configured in both
  packages.
- Modelled as external: the stepper motors (a step on a rising edge of the step
  line), the LTC2308 converter, the UART peripheral and the host, and the air
  with the IR demodulator (each edge up to `JITTER` cycles late; a burst may be
  swallowed as a whole).

## 3. Runs

All constants of the source are parameters, and a run gives them smaller values:

- `link` and `link_loss` divide time by 5,000. A state of `ir_tx` or `ir_rx` with
  a limit of n lasts n + 1 cycles, so n becomes n / 5,000 - 1 (`DATA_BURST_MAX`,
  22,000, is the only one that is not a multiple: it becomes 3), and every sum of
  durations that is compared with another keeps its place. The closest is the
  gap between a packet with k ones and the next header, 594,982 - 20,000·k
  cycles, against the timeout of 500,000: it times out for k up to 4, and not
  for 5. In the runs it is 119 - 4·k against 100.
- `search`, `steps`, `noise`, `receiver` and the `uart` runs have sizes of their
  own. They keep the relations which "Bounds" names, and the properties are
  formulas in the constants.
- `link_reset` keeps the order of the levels and windows, not that of all sums of
  them: its times are chosen so that the gap after a packet may time out and may
  not (see "Bounds").

| Run | Result | What it shows |
|---|---|---|
| `search` | holds | The controller alone, with every level of every input at every edge. The displacement is the closed form of a square ring, the search stays in its area and covers it, implements `TaxicabSpiral`, needs a sighting; blind tracking is still. |
| `steps` | holds | One pulse is one step in tracking and in boot; in a search the path is displaced by the difference of two unit vectors and no more; from the loss of the target to home the error is the step of yaw that the search costs and at most one more per axis; the hand-over from a search or a return to tracking loses at most a step per axis. |
| `live` | holds | Searches and returns end, whatever the packets and buttons; with the buttons left alone, a forced return comes home. |
| `link` | holds | The link implements `Mailbox`, every packet arrives, no command is older than the lost slot makes it, the rest comes after `BURST_LIMIT` packets. |
| `link_reset` | holds | With the receiver board reset at any moments, at most the last bit of a packet is wrong, so `on_target` and three of the four movement bits are always those of a packet. With the transmitter board reset instead, nothing wrong is delivered. |
| `link_loss` | holds | With up to three bursts swallowed, what is delivered has the five command bits of the packet started last or of the one before it, although `VALIDATE` compares nothing: the timeout drops the frame that is short of a bit, except after the command with five ones, whose gap is too short, and that one reads the same with a bit missing. |
| `noise` | holds | In any light a frame takes no less than `FRAME_MIN` and no more than `FRAME_MAX` cycles, and `recv` is true. |
| `receiver` | holds | `Settle` cycles after a change of light or a reset every reading and the movement bits are those of the light (793 cycles, 16 µs, with the values of the source; TLC refutes one less); `on_target` follows with the two times of the hysteresis; the line of the monitor shows the quadrants where they are, and negative offsets as large positive numbers. |
| `uart` | holds | Both directions implement `ByteStream`; what is written arrives as long as the host reads; writes, reads and closes that wait come back. |
| `return` | violated | The counters do not home the gimbal, against page 13 of the report. A search pulses each step in the direction of the step after it, and its last one not at all, so a search that finds nothing leaves the yaw motor a step behind its counter, and home moves by that step every time. The return itself is exact but for one phase of `clk0` in 50,000: it masks the last step of an axis, and inherits from the search a pulse that makes up for it. |
| `limits` | violated | The soft limits hold the counter, not the motor, against page 13 of the report. |
| `uart_gone` | violated | `altera_avalon_jtag_uart_init.c:86` registers an alarm to notice that the host is gone. `alt_sys_init.c:94` calls it before the clock has a rate, the alarm is refused, and a write waits for ever. With the two lines of `alt_sys_init` exchanged the property holds (97,489 states). |

### Bounds, and why they are enough

*search* (254,596 states): pitch 3 as in the source, area 14, so that the side
takes the values 3, 6, …, 15 and the last one exceeds the area, as 201 exceeds
200. Counters of three bits wrap within a single leg, so that every search
crosses the wrap. `PULSE_WIDTH` is 1: alone, the controller looks at the timer
only for being zero. Clamps of both axes lie inside the counters' range.

*steps* (1.1 million states): half a period of `clk0` is two cycles and a pulse
four, the period, as in the source (25,000 and 50,000). The tick comes every
nine cycles: as in the source, one more than a multiple of the period, so that
the phase of `clk0` drifts through all values (500,001 = 10·50,000 + 1). Ticks
and packets leave room for a pulse to finish, as in the source (ten and three
times the pulse). Soft limits of one step and an area of two are reached at
once. The account is capped at `GapMax` = 3, beyond which every property has
failed already. The phases of `clk0` are four, so the one at which the pulse that
a return inherits has no rising edge is one of four here and one of 50,000 on the
board. The account is kept for a board whose buttons nobody touches: holding one
in a pulse runs the motor on without bound.

*live* (184,000 states): both buttons, found or lost at any time, counters of
two bits, so that every walk may wrap.

*link* (99,070 states): the times divided by 5,000, eight bits, jitter of one cycle
(100 µs), and four bytes: two commands, all ones and an alternating byte, which
only another sender could send (the time of a packet depends on its number of
ones only). `MAX_AGE` is the age of a command when the slot in the rest has been
lost: two periods, a packet's length of difference, and jitter. TLC refutes 431,
so 432 is exact. One cycle of these runs stands for 5,000, so the windows are
checked to that resolution; with a jitter of two the data bursts no longer fit.

*link_loss* (11.9 million): the same times and jitter, any three bursts swallowed,
and commands with no, three, four and all five bits set, on both sides of the
timeout. No other byte is sent: `rx_state.sv:36` sets the upper three bits to zero.

*link_reset* (11.5 million): the link with three bits and two bytes, since a
reset may come at any cycle; the initial state says which of the boards somebody
may reset. The gap after the byte without ones times out, the one after the byte
with two does not, so that the exception of `OnlyLastBitSuffers` occurs: with
the last bit included TLC refutes it. With the commands of this board it cannot
occur, as a last space that is cut off lasts for 544,984 cycles at least and
times out; the theorem is for all bytes and times.

*noise* (8,352 states): two bits and short windows; the line may change at
every edge. The proofs cover all other values.

*receiver* (1.2 million states): samples of two bits for twelve, and one, two
and three cycles for the start (2), the conversion (126) and the pause (8);
`Settle` is a formula in all of them. `HORIZON` lies beyond the longest time any
property mentions, so that all of them become due. The lights are a dark one, a
centred one and two whose offsets are beyond the threshold with either sign; the
mixtures of two lights that a scan sees while the light changes have offsets
between the thresholds.

*uart* (354,000 states): rings of three slots and FIFOs of two bytes, calls of
up to three bytes, so that one call wraps the ring, fills it and must wait; four
bytes written, and three typed, one more than the ring holds, so that the read
interrupt is turned off and on again. The proofs cover all sizes for the
streams. *uart_gone* (15,000): six bytes, more than ring and FIFO hold.

### Fairness

Liveness assumes only that the oscillators of both boards run: weak fairness of
`Clock` (`FairTransmitter`, `FairLink`). It always changes the state, so fairness
forces no particular packet, light or button. In `JtagUart` the processor goes on with a call, with the interrupt
routine and with its clock whenever it can (`FairProcessor`); `FairUart` adds
that the host reads, which is what `OutputArrives` and `WriteEnds` are about,
and `uart_gone` does without it. No call need ever be made. Nobody is assumed
ever to press or release a button; `ForcedReturnEnds` says "once nobody presses
one any more".

Deadlock is checked in every run: a clock edge, or a tick, is always possible.

## 4. Theorems

Proved for every value of the constants allowed by the named assumptions of the
modules: durations and limits are natural numbers, pulse and pitch are not zero,
the limits fit the counters, the receiver's level timer saturates no lower than
the timeout, `LOCK` lies below where the confidence saturates, a ring has at
least two slots. Five groups of conditions say how parts fit each other:

| condition | says | in the source |
|---|---|---|
| `TimingAssumption` (`StepAccount`) | a pulse is one period of `clk0`; a tick is at least two pulses long, the gap between packets longer than two | 50,000 = 2·25,000; 500,000; 155,019 |
| `LegAssumption` (`StepAccount`) | a search walks at least its first leg | 3 ≤ 200 |
| `LinkTiming` (hypothesis, `IrLinkProofs`) | every level of `ir_tx` is longer than the jitter and the registers on its way; a level read `JITTER` too long or too short lies in its own window of `ir_rx` and in no other; none times out | holds for `JITTER` up to 7,000 cycles (140 µs), what 15,000 leaves of `DATA_BURST_MAX` = 22,000 |
| `LinkSlots` (hypothesis, `IrLinkProofs`) | the longest packet and its gap fit in a slot of the timer, with the rest in two; `MAX_AGE` is two slots, the jitter, and what two packets may differ by | 665,020 < 1,000,000; 1,265,021 < 2,000,000; `MAX_AGE` from 2,160,001 + `JITTER` (43 ms) |
| `ResetTiming` (hypothesis, `IrLinkProofs`) | what is left of a slot after the longest packet outlasts a data burst; so it does after a level that goes on until it times out; a header burst is too long for a data burst, late as it may be | with 7,000 cycles of jitter 694,027 and 529,008 < 1,000,000; 29,005 < 100,000 |

`GapAssumption` says that the account of steps is kept for a board without
buttons, and capped beyond the values the properties tell apart. The theorems on
the agreement of the link are for `LOSS_MAX` = 0, as a swallowed burst breaks it
(`link_loss` says what remains), and those on `Mailbox` and on the age of a command for a
`Resettable` that lets nobody reset a board, which is what the run `link`
checks. `OnlyLastBitAlways` is for resets of either board, as often as anybody
likes, but not of both boards in one behaviour, which is what `link_reset`
checks. `LinkTiming` is a hypothesis and no assumption because the other theorems
do without it. The instances of `link` do not satisfy it: with data bursts of
three cycles two edges may be on their way at once. They and the theorems
complement each other: the runs divide all times by 5,000, the theorems
hold at the resolution of one cycle and for jitter as long as the windows allow.

**`SearchControllerProofs`.** `TypeCorrect`: the registers keep their types; the
lemmas show that each way of moving a counter keeps its width. `SeenFlagAgrees`
is inductive by itself. `BlindTrackingStill` is inductive together with it:
`Acquire` enters TRACKING from states in which the flag is set.

**`SpiralProofs`.** The position of a search is not determined by how far it has
come but by three registers, so the invariant `SpiralInv` joins the types, the
relation of the registers to the number of turns (`SpiralCounters`) and the
closed form (`SpiralShape`). Neither of the last two is inductive without the
other: the closed form of a leg starts where that of the leg before ends only if
the leg had the length the counters say. `EdgeKinds` classifies all edges into
those that begin, advance, idle or leave a search, so that the induction has
four cases instead of twenty. `CountersAgree`, `ShapeIsSquareRing` and
`SearchStaysInArea` follow, and with the invariant every step maps to a step or
a stutter of `TaxicabSpiral` (`ImplementsTaxicabSpiral`).

That no place of the area is left out (`SearchHasCovered`) needs to know what has
been visited at every moment: `Visited` says that it includes every point of the legs
that are complete, and of the present leg those up to where it has come
(`Met`). A step adds one point to the present leg. What remains is geometry:
four legs make a ring, each ring lies one pitch around the last, and so every
point of the area is within half a pitch, on both axes, of one visited.

**`TransmitterProofs`.** `BoardImplementsController`: what the wires of
`laser_top.sv` carry are inputs the controller's specification allows, so the
board implements it and every theorem about the controller's registers holds on
the board (`BoardTypeCorrect`, `BoardSafe`). The inductive invariant is `Wires`.

**`StepProofs`.** The motors make a step where a line falls, on some rising edge
of `clk0` in the pulse, at a phase that nothing fixes. `PulseInv` says why that
is one edge and not none or two: a line that is low rises with `clk0` again
before the pulse after it (`LowOnce`), and pulse and step are over before the
next tick or packet can start another (`InTime`, against `Deadline`). Hence
nothing is under way where the controller looks at its inputs (`StillAtStart`)
or leaves a state (`StillAtEnd`). `GapInv` then says, state by state, by how much
the steps made and the steps counted differ, with the step that is still to come
(`Coming`). `AccountSafe` proves both together with the types;
`TrackCountsSteps`, `BootCountsSteps`, `SearchIsSkew`, `HandOverLosesOneStep` and
`HomingErrorBounded` follow. A search and the return it ends in are one account:
`GaveUpGap` says what is left of the search when the return begins, a yaw motor
one step behind its counter and the pulse of the last step still to run, and the
return adds one step per axis at most, the one that it masks. `return` shows the
step that the search costs.

**`IrRxProofs`.** `RxTypeCorrect`, `RecvAlwaysAgrees`, and the two bounds of a
frame, `FrameDurations` and `PacketsApart`. The invariant `FrameTime` says for
each state what part of the shortest and of the longest frame lies before the
level that is being timed; for the bits it is a multiple of `rx_bits`. It needs
`tick_count <= TIMEOUT` in a frame, because a saturated timer would lose time.

**`IrLinkProofs`.** `LinkTypeCorrect` for both ends in any jitter, loss and
reset (no run repeats it: `noise` checks the part with counters that could run
away). In this section the transmitter is `ir_tx`, which sits on the receiver
board, and the receiver `ir_rx`, which sits on the transmitter board. `RestsAlways`: the rest comes in time if nobody can reset the sender.
`Rests` strengthens it by "outside the waits the counter is below the limit"; a
reset in a wait breaks exactly this, and TLC finds the late rest.

The agreement of the two ends is three invariants. `Light` is about the way of
an edge: by the tick of the transmitter's state, which of demodulator,
synchroniser and `prev_level` show the level already. `Follows` is about the
receiver: it is in the state that corresponds to the transmitter's, or, until
the edge is through, in the one before; what its timer shows is what has elapsed
of the level, less the jitter at most (`Fits`); and the bits it has are the
first of the byte (`Received`). A receiver that a reset has thrown out of a
packet waits for a header or times a burst that is too short for one
(`TimesBurst`). `Boxed` says that the byte being sent is the one on its way.
None of them is inductive alone: that a level ends in its window needs `Light`
at its beginning and at its end. `AgreedAlways` proves them for any reset of the
board of `ir_rx`, and `NothingCorrupted` follows. If nobody resets a board the
receiver misses no header (`InStep`), and every step of the link maps to a step
or a stutter of `Mailbox` (`ReliableAlways`, `LinkIsMailbox`).

`FreshAlways` bounds the age of the last command. `OnTime` says where each state
of a packet lies in its slot: between where it would be if all bits before it
were zeros and if they were ones. So the pulse of the timer finds the
transmitter idle, or in the rest after a burst of packets, and in the rest only
once.

`NeverMixedAlways` and `OnlyLastBitAlways` are about the reset that `Agreed` does
not survive, that of the board of `ir_tx`. It cuts a level to any length and
leaves the receiver in a frame. What saves the packet is that the timer is not
reset: the next packet starts with the next slot, so at most one burst is on its
way (`OneBurst`), and where a level began is known within its slot (`HeardBy`,
`BeganBy`). The invariant is `Cutting`. Its part `Adrift` says what the receiver
may hold while no packet is being sent. In a space it has either the first bits
of the last byte, and a burst that ends the space makes it the next of them
(`Good`); or those of the byte before, and the burst on its way is that of a
header; or anything, but the space began so early in the slot that it times out
before the next packet. In a burst the level is too long for a bit (`TooLong`),
or no further one is on its way and it began late in a packet, with its first
bits, or early, in a header cut short. So only one bit can be put to a packet cut off
that is not its own. A header in full is then too long for a burst of the frame;
one cut short leaves a frame that times out; and if the bit was the
last of the frame, that is the bit that suffers. `Begins` says the same while the
header is on its way, and from the header's space on `Light` and `Follows` hold
again, or the receiver times a burst too long for a bit or waits for a header
(`InSpace`). TLC checked `NeverMixed` before the proof, on an instance that
satisfies both conditions on the times, with 3.2 million states; the times of the
run `link_reset` are too short for them.

**`ReceiverProofs`.** The counter of the hysteresis goes up and down, and what
it promises is about the light since the last change of `on_target`. The
invariant `Hysteresis` weighs them against each other: on target, the counter
and the darkness so far stay below the maximum (`DroppedInTime`); off target,
the counter is no larger than the number of lit cycles since
(`ReportedAfterEnough`). `BoardTypesAlways` gives the types of all registers
(`ReceiverTypeCorrect`).

The scanner reads each channel one conversion late and shifts it out bit by bit,
so a reading tells the truth only if channel, conversion, transfer and slot of
the reading belong together. `Pipeline` says so for each stage, and how old the
light in it is, as a formula in the cycles since the light changed and the place
in the scan (`Phase`). `SettlesInTime` is that formula at `Settle`. `SteadyInv`
adds the confidence and the movement bits; `TargetIsTold` follows. `LineIsTrue`
is about the numbers the monitor prints. `Value`, what a word of bits stands for,
is a recursive function; instead of an induction, the proofs take the least
length at which a claim about it fails.

**`UartProofs`.** The invariant `Indices` says of each point
of the thread what its copies of the indices are still good for: its own index
is unchanged, and the other side's can only have made more room.
`CopiesAlwaysApart` follows. With it, the contents of ring and FIFO are
consecutive numbers, those of a copy in progress the ones that follow
(`OutputOrderAlways`), or the ones that come first (`InputOrderAlways`), and
every step of the driver maps to a step or a stutter of `ByteStream`
(`OutputIsStream`, `InputIsStream`). The lemmas are about cyclic sequences:
appending, taking and growing a ring at its head and tail. `UartTypesAlways`
adds what the types need: a call never writes more than is left to write
(`Budget`), the rings hold bytes of the two streams (`Rings`), and the enabled
interrupts and the watch on the host keep their ranges (`Watch`).

### Only model-checked

Every invariant of the passing runs is proved, every refinement, and every action
property but one. What remains is

- `CommandIntact`: a swallowed burst ends the agreement of the two ends, so the
  invariants of the link do not apply, and that the command survives depends on
  the five bits of the board and on one comparison of times;
- liveness (`SearchEnds`, `ForcedReturnEnds`, `EveryPacketArrives`,
  `OutputArrives`, `WriteEnds`, `ReadEnds`): out of reach of the
  prover;
- the findings: that a property fails is shown by TLC's counterexample.

## 5. Not modelled, and limits

- The visualizer: it plots the last line and keeps nothing else.
- Of the HAL, all but the UART driver and the clock as the driver sees it. Most
  of the C in this repository is that vendor code, twice: interrupt controllers
  the processor does not have, caches, logging, system-call stubs, headers. The
  two monitors reach little of it, and nothing of it keeps state they use.
  Modelling it would say nothing about SCOPE. `ioctl` of the UART driver is left
  out because with `timeout` at `INT_MAX`, where boot leaves it, it changes
  nothing.
- Of `JtagUart`, the part of `Tick` that calls `Timeout` is never taken: the
  alarm is refused at boot. It is there because the finding is about it.
- Swallowed bursts together with resets, and more than three of them.
- The 38 kHz carrier, metastability, glitches shorter than a clock cycle.
- Contact bounce: a button may be pressed and released between any two edges.
- The account of steps with buttons: with the home button admitted, even for a
  single press, it passes 28 million states without an end in sight. The hazards
  of a held button are listed with that note.
- The closed loop of both boards with a moving target: what each side promises
  the other is checked at the interface (`Packets`, `PACKET_GAP`,
  `FreshCommand`, `OnTargetTells`), not in one state space.
- The line of the monitor is put together at once; `main.c` reads its four words
  one after the other.
- The step counters are modelled with their width; `side_limit` and
  `step_count`, 16 bits, are numbers, and `SpiralCounters` bounds them by 203.
  The sums of four 12-bit readings fit their 16 bits.

Noted while reading, with no property: after boot-up `IDLE_WAIT` waits for a
packet and scans nothing, while `README.md:12` has the transmitter look for the
receiver; a target lost on the very edge on which tracking begins is not
searched for, as the flag is not set yet (`BlindTrackingIsIdle` shows that the
motors are then still); `laser.c:40` does not compile (missing argument);
`main.c:43` prints TL TR BL BR and `qpd.py` reads the columns as TR BR BL TL; a
host that attaches in the middle of a line takes the rest of it for a line
(`qpd.py:59`); `ir_rx.sv:146` says "Validate by checking to see if the data
matches the inverted data" and nothing is compared, so that only the timeout and
the zero bits of `rx_state.sv:36` save a command of which a burst was swallowed
(`CommandIntact`); `ir_tx.sv:26` and `:172` say five and ten packets before the
rest; `ir_tx.sv:65` says the burst counter counts to six; the comment at
`ir_rx.sv:39` calls a timeout per level a total one (`FRAME_MAX` is eight
timeouts and more); packets pass at 41.7 per second, the report says about 70.

## 6. Plan

Done: controller, board, steps, link, receiver under noise, receiver board, UART
driver; proofs of all invariants of the passing runs, of all action properties but
`CommandIntact`, and of the refinements of `TaxicabSpiral`, `Mailbox` and `ByteStream`.

Next, in this order:

1. `Tracker`: both boards at the level of packets and steps with a target that
   moves; lost, searched and found again.
2. `StepAccount` with held buttons, on a coarser clock.
