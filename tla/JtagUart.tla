------------------------------- MODULE JtagUart -------------------------------
(***************************************************************************)
(* The interrupt-driven JTAG UART driver of the board support packages     *)
(* (altera_avalon_jtag_uart_init.c, _write.c, _read.c), as it is built for *)
(* the monitors: one thread, no operating system.  The thread writes,      *)
(* reads and closes; the interrupt routine comes between any two of its    *)
(* accesses to shared data; the UART and the host at the other end of the  *)
(* cable are external.  Bytes are numbered, from 1, in each direction.     *)
(***************************************************************************)
EXTENDS Integers, Sequences

CONSTANTS
  BUF_LEN,          \* slots of each ring; one of them stays free
  TX_FIFO, RX_FIFO, \* bytes in the FIFOs of the UART
  THRESHOLD,        \* bytes in the write FIFO at which it interrupts
  INT_MAX,          \* "don't know if host present"
  DEFAULT_TIMEOUT,  \* alarms without the host after which it is inactive
  TICKS,            \* clock ticks per second
  MAX_CALL,         \* most bytes of a call
  TX_TOTAL,         \* bound: bytes that the program writes
  RX_TOTAL          \* bound: bytes that the host types

ASSUME UartAssumption ==
  /\ BUF_LEN \in Nat /\ BUF_LEN > 1
  /\ TX_FIFO \in Nat \ {0} /\ RX_FIFO \in Nat \ {0}
  /\ THRESHOLD \in Nat /\ THRESHOLD < TX_FIFO
  /\ DEFAULT_TIMEOUT \in Nat /\ INT_MAX \in Nat /\ DEFAULT_TIMEOUT < INT_MAX
  /\ TICKS \in Nat \ {0} /\ MAX_CALL \in Nat
  /\ TX_TOTAL \in Nat /\ RX_TOTAL \in Nat

VARIABLES
  tx_buf, tx_in, tx_out,         \* the ring of the program's output
  rx_buf, rx_in, rx_out,         \* the ring of its input
  irq_enable,                    \* the interrupts that are enabled
  host_inactive, timeout, alarm, \* the watch for the host
  tick_rate, nticks,             \* the system clock
  pc, count, nonblock,           \* the call in progress: bytes left, O_NONBLOCK
  in, out, n, some, copied,      \* its locals; it has read something
  isr, wi, space, avail,         \* the interrupt routine and its locals
  txfifo, rxfifo, ac,            \* the UART; the host has used it
  written, moved, typed, fetched,\* history: the last byte past each point
  taken, printed                 \* what the program, the host got last

txRing == <<tx_buf, tx_in, tx_out>>
rxRing == <<rx_buf, rx_in, rx_out>>
hostWatch == <<host_inactive, timeout, alarm>>
clock == <<tick_rate, nticks>>
locals == <<count, nonblock, in, out, n, some, copied>>
handler == <<isr, wi, space, avail>>
device == <<txfifo, rxfifo, ac>>
txHistory == <<written, moved, printed>>
rxHistory == <<typed, fetched, taken>>
uartVars == <<txRing, rxRing, irq_enable, hostWatch, clock, pc, locals,
              handler, device, txHistory, rxHistory>>

Slots == 0..BUF_LEN - 1

\* i % BUF_LEN, for the indices that occur.
Wrap(i) == IF i < BUF_LEN THEN i ELSE i - BUF_LEN

ASSUME WrapIsModulo == \A i \in 0..2 * BUF_LEN - 1 : Wrap(i) = i % BUF_LEN

\* How many bytes a ring holds.
Held(head, tail) == IF head >= tail THEN head - tail ELSE head + BUF_LEN - tail

\* The rings and FIFOs are empty, the driver's structure holds its static
\* values, and the clock does not run yet.
UartInit ==
  /\ tx_buf = [s \in Slots |-> 0] /\ tx_in = 0 /\ tx_out = 0
  /\ rx_buf = [s \in Slots |-> 0] /\ rx_in = 0 /\ rx_out = 0
  /\ irq_enable = {}
  /\ host_inactive = 0 /\ timeout = DEFAULT_TIMEOUT /\ alarm = FALSE
  /\ tick_rate = 0 /\ nticks = 0
  /\ pc = "init_uart" /\ count = 0 /\ nonblock = FALSE
  /\ in = 0 /\ out = 0 /\ n = 0 /\ some = FALSE /\ copied = <<>>
  /\ isr = "off" /\ wi = FALSE /\ space = 0 /\ avail = FALSE
  /\ txfifo = <<>> /\ rxfifo = <<>> /\ ac = FALSE
  /\ written = 0 /\ moved = 0 /\ typed = 0 /\ fetched = 0
  /\ taken = <<>> /\ printed = <<>>

\* The thread runs when no interrupt is being served.
At(label) == pc = label /\ isr = "off"

\* The locals live as long as the call.
Locals ==
  IF pc' = "idle"
  THEN /\ count' = 0 /\ nonblock' = FALSE /\ some' = FALSE /\ copied' = <<>>
       /\ in' = 0 /\ out' = 0 /\ n' = 0
  ELSE UNCHANGED locals

-----------------------------------------------------------------------------
(* Booting: alt_sys_init starts the UART and then the processor's timer.   *)

\* alt_alarm_start: it refuses while the clock has no rate.
AlarmStart ==
  IF tick_rate # 0 THEN alarm' = TRUE /\ UNCHANGED timeout
  ELSE timeout' = INT_MAX /\ UNCHANGED alarm

InitUart ==
  /\ At("init_uart") /\ pc' = "init_timer"
  /\ irq_enable' = {"RE"} /\ host_inactive' = 0 /\ AlarmStart
  /\ UNCHANGED <<txRing, rxRing, clock, locals, handler, device, txHistory,
                 rxHistory>>

InitTimer ==
  /\ At("init_timer") /\ pc' = "idle"
  /\ tick_rate' = TICKS
  /\ UNCHANGED <<txRing, rxRing, irq_enable, hostWatch, nticks, locals,
                 handler, device, txHistory, rxHistory>>

HostPresent == host_inactive < timeout

\* altera_avalon_jtag_uart_timeout, once a second if it is registered.
Timeout ==
  /\ ac' = FALSE
  /\ host_inactive' = IF ac THEN 0
                      ELSE IF host_inactive < INT_MAX - 2 THEN host_inactive + 1
                      ELSE host_inactive

\* The timer's interrupt.
Tick ==
  /\ isr = "off" /\ tick_rate # 0
  /\ nticks' = (nticks + 1) % TICKS
  /\ IF alarm /\ nticks' = 0 THEN Timeout ELSE UNCHANGED <<ac, host_inactive>>
  /\ UNCHANGED <<txRing, rxRing, irq_enable, timeout, alarm, tick_rate, pc,
                 locals, handler, txfifo, rxfifo, txHistory, rxHistory>>

-----------------------------------------------------------------------------
(* altera_avalon_jtag_uart_write.                                          *)

CallWrite ==
  /\ At("idle") /\ pc' = "w_room"
  /\ count' \in 1..MAX_CALL /\ written + count' <= TX_TOTAL
  /\ nonblock' \in BOOLEAN
  /\ UNCHANGED <<txRing, rxRing, irq_enable, hostWatch, clock, in, out, n,
                 some, copied, handler, device, txHistory, rxHistory>>

\* Mutant: the slot that tells a full ring from an empty one is used as well.
RoomAll(head, tail) ==
  IF head < tail THEN tail - 1 - head ELSE BUF_LEN - head

\* The free slots from head on, up to the end of the array or the one before
\* tail.
Room(head, tail) ==
  IF head < tail THEN tail - 1 - head
  ELSE IF tail > 0 THEN BUF_LEN - head
  ELSE BUF_LEN - 1 - head

AtMost(a, b) == IF a < b THEN a ELSE b

WriteRoom ==
  /\ At("w_room")
  /\ in' = tx_in /\ out' = tx_out
  /\ n' = AtMost(Room(tx_in, tx_out), count)
  /\ pc' = IF n' = 0 THEN "w_kick" ELSE "w_copy"
  /\ UNCHANGED <<txRing, rxRing, irq_enable, hostWatch, clock, count,
                 nonblock, some, copied, handler, device, txHistory,
                 rxHistory>>

\* Mutant: the bytes are copied to where the ring begins to be read.
WriteCopyAtOut ==
  /\ At("w_copy") /\ pc' = "w_publish"
  /\ tx_buf' = [s \in Slots |-> IF s \in out..out + n - 1
                                THEN written + 1 + s - out ELSE tx_buf[s]]
  /\ UNCHANGED <<tx_in, tx_out, rxRing, irq_enable, hostWatch, clock, locals,
                 handler, device, txHistory, rxHistory>>

WriteCopy ==
  /\ At("w_copy") /\ pc' = "w_publish"
  /\ tx_buf' = [s \in Slots |-> IF s \in in..in + n - 1
                                THEN written + 1 + s - in ELSE tx_buf[s]]
  /\ UNCHANGED <<tx_in, tx_out, rxRing, irq_enable, hostWatch, clock, locals,
                 handler, device, txHistory, rxHistory>>

\* Mutant: the index goes on past the end of the ring.
WritePublishUnwrapped ==
  /\ At("w_publish")
  /\ tx_in' = in + n
  /\ count' = count - n /\ written' = written + n
  /\ pc' = IF count' > 0 THEN "w_room" ELSE "w_kick"
  /\ UNCHANGED <<tx_buf, tx_out, rxRing, irq_enable, hostWatch, clock,
                 nonblock, in, out, n, some, copied, handler, device, moved,
                 printed, rxHistory>>

WritePublish ==
  /\ At("w_publish")
  /\ tx_in' = Wrap(in + n)
  /\ count' = count - n /\ written' = written + n
  /\ pc' = IF count' > 0 THEN "w_room" ELSE "w_kick"
  /\ UNCHANGED <<tx_buf, tx_out, rxRing, irq_enable, hostWatch, clock,
                 nonblock, in, out, n, some, copied, handler, device, moved,
                 printed, rxHistory>>

\* Mutant: the interrupt is enabled only by a write that waits.
WriteKickIfWaiting ==
  /\ At("w_kick")
  /\ irq_enable' = IF count > 0 THEN irq_enable \cup {"WE"} ELSE irq_enable
  /\ pc' = IF count > 0 /\ ~nonblock THEN "w_wait" ELSE "idle"
  /\ Locals
  /\ UNCHANGED <<txRing, rxRing, hostWatch, clock, handler, device, txHistory,
                 rxHistory>>

\* Mutant: the wait compares with the index as it is after the interrupt was
\* enabled.
WriteKickRereads ==
  /\ At("w_kick")
  /\ irq_enable' = irq_enable \cup {"WE"}
  /\ IF count > 0 /\ ~nonblock
     THEN /\ pc' = "w_wait" /\ out' = tx_out
          /\ UNCHANGED <<count, nonblock, in, n, some, copied>>
     ELSE pc' = "idle" /\ Locals
  /\ UNCHANGED <<txRing, rxRing, hostWatch, clock, handler, device, txHistory,
                 rxHistory>>

\* Interrupts are disabled around the update of irq_enable.
WriteKick ==
  /\ At("w_kick")
  /\ irq_enable' = irq_enable \cup {"WE"}
  /\ pc' = IF count > 0 /\ ~nonblock THEN "w_wait" ELSE "idle"
  /\ Locals
  /\ UNCHANGED <<txRing, rxRing, hostWatch, clock, handler, device, txHistory,
                 rxHistory>>

\* The loop ends when the interrupt routine has made room, or without a host.
WriteWait ==
  /\ At("w_wait")
  /\ out # tx_out \/ ~HostPresent
  /\ pc' = IF host_inactive > 0 THEN "idle" ELSE "w_room"
  /\ Locals
  /\ UNCHANGED <<txRing, rxRing, irq_enable, hostWatch, clock, handler,
                 device, txHistory, rxHistory>>

\* altera_avalon_jtag_uart_close waits until everything has left the ring.
CallClose ==
  /\ At("idle") /\ pc' = "c_wait" /\ nonblock' \in BOOLEAN
  /\ UNCHANGED <<txRing, rxRing, irq_enable, hostWatch, clock, count, in, out, n,
                 some, copied, handler, device, txHistory, rxHistory>>

CloseWait ==
  /\ At("c_wait") /\ pc' = "idle" /\ Locals
  /\ tx_out = tx_in \/ ~HostPresent \/ nonblock
  /\ UNCHANGED <<txRing, rxRing, irq_enable, hostWatch, clock, handler, device,
                 txHistory, rxHistory>>

-----------------------------------------------------------------------------
(* altera_avalon_jtag_uart_read.                                           *)

CallRead ==
  /\ At("idle") /\ pc' = "r_room"
  /\ count' \in 1..MAX_CALL /\ nonblock' \in BOOLEAN /\ some' = FALSE
  /\ UNCHANGED <<txRing, rxRing, irq_enable, hostWatch, clock, in, out, n,
                 copied, handler, device, txHistory, rxHistory>>

\* The bytes from tail on, up to the end of the array.
Ready(head, tail) == IF head >= tail THEN head - tail ELSE BUF_LEN - tail

ReadRoom ==
  /\ At("r_room")
  /\ LET ready == AtMost(Ready(rx_in, rx_out), count)
     IN /\ pc' = IF ready > 0 THEN "r_copy"
                 ELSE IF some THEN "r_enable"
                 ELSE IF nonblock THEN "idle"
                 ELSE "r_wait"
        /\ IF pc' = "idle" THEN Locals
           ELSE /\ in' = rx_in /\ out' = rx_out /\ n' = ready
                /\ UNCHANGED <<count, nonblock, some, copied>>
  /\ UNCHANGED <<txRing, rxRing, irq_enable, hostWatch, clock, handler,
                 device, txHistory, rxHistory>>

ReadCopy ==
  /\ At("r_copy") /\ pc' = "r_publish"
  /\ copied' = [i \in 1..n |-> rx_buf[out + i - 1]]
  /\ UNCHANGED <<txRing, rxRing, irq_enable, hostWatch, clock, count,
                 nonblock, in, out, n, some, handler, device, txHistory,
                 rxHistory>>

ReadPublish ==
  /\ At("r_publish")
  /\ rx_out' = Wrap(out + n)
  /\ count' = count - n /\ some' = TRUE
  /\ taken' = copied /\ copied' = <<>>
  /\ pc' = IF count' > 0 THEN "r_room" ELSE "r_enable"
  /\ UNCHANGED <<txRing, rx_buf, rx_in, irq_enable, hostWatch, clock,
                 nonblock, in, out, n, handler, device, txHistory, typed,
                 fetched>>

ReadWait ==
  /\ At("r_wait")
  /\ in # rx_in \/ ~HostPresent
  /\ pc' = IF in = rx_in THEN "idle" ELSE "r_room"
  /\ Locals
  /\ UNCHANGED <<txRing, rxRing, irq_enable, hostWatch, clock, handler,
                 device, txHistory, rxHistory>>

\* Mutant: the interrupt that a full ring has turned off stays off.
ReadEnableNot ==
  /\ At("r_enable") /\ pc' = "idle"
  /\ Locals
  /\ UNCHANGED <<irq_enable, txRing, rxRing, hostWatch, clock, handler, device,
                 txHistory, rxHistory>>

ReadEnable ==
  /\ At("r_enable") /\ pc' = "idle"
  /\ irq_enable' = irq_enable \cup {"RE"}
  /\ Locals
  /\ UNCHANGED <<txRing, rxRing, hostWatch, clock, handler, device, txHistory,
                 rxHistory>>

Calls == CallWrite \/ CallClose \/ CallRead

Continue ==
  \/ InitUart \/ InitTimer
  \/ WriteRoom \/ WriteCopy \/ WritePublish \/ WriteKick \/ WriteWait
  \/ CloseWait
  \/ ReadRoom \/ ReadCopy \/ ReadPublish \/ ReadWait \/ ReadEnable

-----------------------------------------------------------------------------
(* altera_avalon_jtag_uart_irq: rounds of reading and writing, as long as  *)
(* the UART has an interrupt pending.                                      *)

ReadPending == "RE" \in irq_enable /\ rxfifo # <<>>
WritePending == "WE" \in irq_enable /\ Len(txfifo) <= THRESHOLD

Interrupt ==
  /\ isr = "off" /\ (ReadPending \/ WritePending)
  /\ isr' = "round"
  /\ UNCHANGED <<txRing, rxRing, irq_enable, hostWatch, clock, pc, locals, wi,
                 space, avail, device, txHistory, rxHistory>>

\* The control register is read once a round.
Round ==
  /\ isr = "round"
  /\ isr' = IF ReadPending THEN "read" ELSE IF WritePending THEN "write"
            ELSE "off"
  /\ wi' = WritePending
  /\ space' = IF WritePending THEN TX_FIFO - Len(txfifo) ELSE 0
  /\ avail' = ReadPending
  /\ UNCHANGED <<txRing, rxRing, irq_enable, hostWatch, clock, pc, locals,
                 device, txHistory, rxHistory>>

\* Mutant: a full ring is not noticed.
RxFullNever == FALSE

RxFull == Wrap(rx_in + 1) = rx_out

IsrReadByte ==
  /\ isr = "read" /\ ~RxFull /\ rxfifo # <<>>
  /\ rx_buf' = [rx_buf EXCEPT ![rx_in] = Head(rxfifo)]
  /\ rx_in' = Wrap(rx_in + 1)
  /\ rxfifo' = Tail(rxfifo) /\ avail' = (rxfifo' # <<>>)
  /\ fetched' = fetched + 1
  /\ UNCHANGED <<txRing, rx_out, irq_enable, hostWatch, clock, pc, locals, isr,
                 wi, space, txfifo, ac, txHistory, typed, taken>>

\* If the ring is full and the UART has more, its interrupt is turned off until
\* the program has read something.
IsrReadDone ==
  /\ isr = "read" /\ (RxFull \/ rxfifo = <<>>)
  /\ irq_enable' = IF RxFull /\ avail THEN irq_enable \ {"RE"} ELSE irq_enable
  /\ isr' = IF wi THEN "write" ELSE "round"
  /\ UNCHANGED <<txRing, rxRing, hostWatch, clock, pc, locals, wi, space,
                 avail, device, txHistory, rxHistory>>

IsrWriteByte ==
  /\ isr = "write" /\ space > 0 /\ tx_out # tx_in
  /\ txfifo' = Append(txfifo, tx_buf[tx_out])
  /\ tx_out' = Wrap(tx_out + 1)
  /\ space' = space - 1 /\ moved' = moved + 1
  /\ UNCHANGED <<tx_buf, tx_in, rxRing, irq_enable, hostWatch, clock, pc,
                 locals, isr, wi, avail, rxfifo, ac, written, printed,
                 rxHistory>>

\* With nothing left to send, its interrupt is turned off.
IsrWriteDone ==
  /\ isr = "write" /\ (space = 0 \/ tx_out = tx_in)
  /\ irq_enable' = IF space > 0 THEN irq_enable \ {"WE"} ELSE irq_enable
  /\ isr' = "round"
  /\ UNCHANGED <<txRing, rxRing, hostWatch, clock, pc, locals, wi, space,
                 avail, device, txHistory, rxHistory>>

Isr == Interrupt \/ Round \/ IsrReadByte \/ IsrReadDone \/ IsrWriteByte
         \/ IsrWriteDone

-----------------------------------------------------------------------------
(* The host.                                                               *)

HostTakes ==
  /\ txfifo # <<>>
  /\ printed' = <<Head(txfifo)>> /\ txfifo' = Tail(txfifo) /\ ac' = TRUE
  /\ UNCHANGED <<txRing, rxRing, irq_enable, hostWatch, clock, pc, locals,
                 handler, rxfifo, written, moved, rxHistory>>

HostTypes ==
  /\ typed < RX_TOTAL /\ Len(rxfifo) < RX_FIFO
  /\ rxfifo' = Append(rxfifo, typed + 1) /\ typed' = typed + 1 /\ ac' = TRUE
  /\ UNCHANGED <<txRing, rxRing, irq_enable, hostWatch, clock, pc, locals,
                 handler, txfifo, txHistory, fetched, taken>>

Host == HostTakes \/ HostTypes

UartNext == Calls \/ Continue \/ Isr \/ Tick \/ Host

UartSpec == UartInit /\ [][UartNext]_uartVars

\* The processor runs: a call that is made goes on whenever it can, and so do
\* the interrupt routine and the clock.  No call need be made.
FairProcessor ==
  /\ UartSpec
  /\ WF_uartVars(Continue) /\ WF_uartVars(Isr) /\ WF_uartVars(Tick)

\* And the host goes on reading.
FairUart == FairProcessor /\ WF_uartVars(HostTakes)

-----------------------------------------------------------------------------
UartTypeOK ==
  /\ tx_buf \in [Slots -> 0..TX_TOTAL] /\ tx_in \in Slots /\ tx_out \in Slots
  /\ rx_buf \in [Slots -> 0..RX_TOTAL] /\ rx_in \in Slots /\ rx_out \in Slots
  /\ irq_enable \subseteq {"RE", "WE"}
  /\ host_inactive \in 0..INT_MAX /\ timeout \in {DEFAULT_TIMEOUT, INT_MAX}
  /\ count \in 0..MAX_CALL /\ in \in Slots /\ out \in Slots /\ n \in Slots
  /\ Len(txfifo) <= TX_FIFO /\ space <= TX_FIFO - Len(txfifo)
  /\ Len(rxfifo) <= RX_FIFO

\* The bytes of a ring, the oldest first.
Content(buf, head, tail) ==
  [i \in 1..Held(head, tail) |-> buf[Wrap(tail + i - 1)]]

\* The output is a stream: every byte that a write takes reaches the host, in
\* order and once, however the interrupt routine cuts the copying short and
\* wherever the ring wraps.
Output == INSTANCE ByteStream WITH
            CAPACITY <- TX_FIFO + BUF_LEN - 1,
            pipe <- txfifo \o Content(tx_buf, tx_in, tx_out),
            next <- written + 1,
            chunk <- printed
OutputStream == Output!StreamSpec

\* As long as the host reads, no byte is left behind in the ring or the FIFO:
\* again and again everything has arrived.
OutputArrives == []<>(moved - Len(txfifo) = written)

\* So is the input: what the host types is what the reads return, with its
\* ring full and the interrupt turned off or not.
Input == INSTANCE ByteStream WITH
           CAPACITY <- RX_FIFO + BUF_LEN - 1,
           pipe <- Content(rx_buf, rx_in, rx_out) \o rxfifo,
           next <- typed + 1,
           chunk <- taken
InputStream == Input!StreamSpec

\* The thread computes the room of a copy from values of the other side's index
\* that may be old when it copies: a copy never touches a slot that is in use.
CopiesApart ==
  /\ pc \in {"w_copy", "w_publish"} =>
       in = tx_in /\ n + Held(tx_in, tx_out) < BUF_LEN
  /\ pc \in {"r_copy", "r_publish"} =>
       out = rx_out /\ n <= Held(rx_in, rx_out)

\* altera_avalon_jtag_uart_write.c: "block until some has been sent".  No
\* wake-up is lost: a blocking write or close comes to its end.
WriteEnds == pc \in {"w_wait", "c_wait"} ~> pc = "idle"

\* altera_avalon_jtag_uart_init.c: "Register an alarm to go off every second to
\* check for presence of host".  A write does not wait for ever for a host that
\* has stopped reading.
GoneHostNoticed == pc = "w_wait" ~> pc # "w_wait"

\* A read that waits when there is input returns it, also if the interrupt had
\* been turned off for want of space.
ReadEnds == pc = "r_wait" /\ typed > fetched ~> pc = "idle"
=============================================================================
