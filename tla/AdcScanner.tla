------------------------------ MODULE AdcScanner ------------------------------
(***************************************************************************)
(* The scanner of the four quadrants (adc_qpd_scanner.sv) and the LTC2308  *)
(* converter it drives.  The converter is external: what it does is taken  *)
(* from the signals the scanner gives it and expects of it.  A conversion  *)
(* is of the channel that the transfer before it has addressed.            *)
(***************************************************************************)
EXTENDS Integers, Sequences, QpdState

CONSTANTS
  START, CONVERT, ACQUIRE,  \* how many cycles the states last
  BITS                      \* bits of a sample, two cycles each

ASSUME AdcAssumption ==
  /\ START \in Nat \ {0} /\ CONVERT \in Nat \ {0, 1} /\ ACQUIRE \in Nat \ {0}
  /\ BITS \in Nat \ {0}

VARIABLES
  state, count, ch, prevch,  \* the scanner
  convst, sck,               \* its outputs; sdi carries ch in a transfer
  sample, q,                 \* the shift register and the four readings
  channel,                   \* converter: the channel it is set to
  conv                       \* converter: the bits it has still to send

scannerVars == <<state, count, ch, prevch, convst, sck, sample, q>>
chipVars == <<channel, conv>>
adcVars == <<scannerVars, chipVars>>

Bit == 0..1
Sample == [1..BITS -> Bit]

Duration == [start |-> START, convert |-> CONVERT, transfer |-> 2 * BITS,
             acquire |-> ACQUIRE]
Following == [start |-> "convert", convert |-> "transfer",
              transfer |-> "acquire", acquire |-> "start"]

\* The number that the bits of a sample stand for, the first one on top.
Value(bits) ==
  LET value[n \in 0..BITS] ==
        IF n = 0 THEN 0 ELSE 2 * value[n - 1] + bits[n]
  IN value[BITS]

Readings == [i \in Quadrants |-> Value(q[i])]

Nothing == [b \in 1..BITS |-> 0]
Blank == [i \in Quadrants |-> Nothing]

\* The scanner powers up low, before any reset; the converter with anything.
AdcInit ==
  /\ state = "start" /\ count = 0 /\ ch = 0 /\ prevch = 0
  /\ convst = FALSE /\ sck = FALSE
  /\ sample = Nothing /\ q = Blank
  /\ channel \in Quadrants /\ conv \in Sample

Goto(s) == state' = s /\ count' = Duration[s] - 1

Sequence == IF count # 0 THEN state' = state /\ count' = count - 1
            ELSE Goto(Following[state])

\* Mutant: the channel remembered is the one that is addressed next.
NextChannelAddressed ==
  IF state = "convert" /\ count' = 0
  THEN ch' = (ch + 1) % 4 /\ prevch' = (ch + 1) % 4
  ELSE UNCHANGED <<ch, prevch>>

\* Mutant: the channels do not start again after the last.
NextChannelOn ==
  IF state = "convert" /\ count' = 0
  THEN ch' = ch + 1 /\ prevch' = ch
  ELSE UNCHANGED <<ch, prevch>>

\* Before each transfer the channel moves on; prevch is the one whose bits the
\* transfer brings.
NextChannel ==
  IF state = "convert" /\ count' = 0
  THEN ch' = (ch + 1) % 4 /\ prevch' = ch
  ELSE UNCHANGED <<ch, prevch>>

Signals ==
  /\ convst' = (state' = "start")
  /\ sck' = (state' = "transfer" /\ count' % 2 = 0)

Shift(sdo) ==
  sample' = IF state = "transfer" /\ ~sck THEN Append(Tail(sample), sdo)
            ELSE sample

\* At the end of a transfer the sample is saved.
Save ==
  q' = IF state = "transfer" /\ state' = "acquire"
       THEN [q EXCEPT ![prevch] = sample] ELSE q

ScannerEdge(sdo) == Sequence /\ NextChannel /\ Signals /\ Shift(sdo) /\ Save

\* All resets are synchronous.
ScannerReset(sdo) ==
  /\ Goto("start") /\ ch' = 0 /\ prevch' = 0
  /\ Signals /\ Shift(sdo)
  /\ q' = Blank

-----------------------------------------------------------------------------
(* The converter.                                                          *)

\* convst takes a sample of the channel the converter is set to.  sck moves the
\* next bit out.  A complete transfer sets the channel; one that reset has cut
\* short may leave any.
Chip(level) ==
  /\ conv' = IF convst' /\ ~convst THEN level[channel]
             ELSE IF sck /\ ~sck' THEN Append(Tail(conv), 0)
             ELSE conv
  /\ IF state = "transfer" /\ state' = "acquire" THEN channel' = ch
     ELSE IF state = "transfer" /\ state' = "start" THEN channel' \in Quadrants
     ELSE UNCHANGED channel

sdo == Head(conv)
=============================================================================
