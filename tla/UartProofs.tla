------------------------------ MODULE UartProofs ------------------------------
(***************************************************************************)
(* The JTAG UART driver for every size of the rings and FIFOs and any      *)
(* interleaving of the thread with the interrupt routine, the timer and    *)
(* the host: a copy of the thread never touches a slot in use, and the     *)
(* driver implements a stream of bytes in each direction, of which none is *)
(* lost, doubled or overtaken.                                             *)
(***************************************************************************)
EXTENDS JtagUart, SequenceTheorems, TLAPS

-----------------------------------------------------------------------------
(* The indices of the two rings.                                           *)

\* What the thread has worked out about a copy stays true until it is done:
\* the interrupt routine only makes room where the thread writes, and only adds
\* bytes where it reads.
Indices ==
  /\ tx_in \in Slots /\ tx_out \in Slots /\ rx_in \in Slots /\ rx_out \in Slots
  /\ in \in Slots /\ out \in Slots /\ n \in Nat /\ count \in Nat
  /\ pc \in {"w_copy", "w_publish"} =>
       /\ in = tx_in /\ n > 0 /\ n <= count /\ in + n <= BUF_LEN
       /\ n + Held(tx_in, tx_out) < BUF_LEN
  /\ pc \in {"r_copy", "r_publish"} =>
       /\ out = rx_out /\ n > 0 /\ n <= count /\ out + n <= BUF_LEN
       /\ n <= Held(rx_in, rx_out)

\* A ring has at least one slot besides the one that stays free.
LEMMA RingSize == BUF_LEN \in Nat /\ BUF_LEN > 1
BY UartAssumption DEF UartAssumption

\* A ring holds fewer bytes than it has slots.
LEMMA HeldInSlots ==
  ASSUME NEW head \in Slots, NEW tail \in Slots
  PROVE  Held(head, tail) \in Slots
BY RingSize DEF Slots, Held

\* A write that fills the room it finds leaves the free slot free, and ends at
\* the end of the array at the latest.
LEMMA RoomFits ==
  ASSUME NEW head \in Slots, NEW tail \in Slots
  PROVE  /\ Room(head, tail) \in Nat
         /\ head + Room(head, tail) <= BUF_LEN
         /\ Room(head, tail) + Held(head, tail) < BUF_LEN
BY RingSize DEF Slots, Held, Room

\* A read takes no more than there is, and ends at the end of the array at the
\* latest.
LEMMA ReadyFits ==
  ASSUME NEW head \in Slots, NEW tail \in Slots
  PROVE  /\ Ready(head, tail) \in Nat
         /\ tail + Ready(head, tail) <= BUF_LEN
         /\ Ready(head, tail) <= Held(head, tail)
BY RingSize DEF Slots, Held, Ready

\* The next index is one of the ring's.
LEMMA WrapInSlots ==
  ASSUME NEW i \in Slots, NEW k \in Nat, i + k <= BUF_LEN
  PROVE  Wrap(i + k) \in Slots
BY RingSize DEF Slots, Wrap

\* Bytes that are put in are held.
LEMMA PutHeld ==
  ASSUME NEW head \in Slots, NEW tail \in Slots, NEW k \in Nat,
         head + k <= BUF_LEN, k + Held(head, tail) < BUF_LEN
  PROVE  Held(Wrap(head + k), tail) = Held(head, tail) + k
BY RingSize DEF Slots, Held, Wrap

\* Bytes that are taken out are not.
LEMMA TakeHeld ==
  ASSUME NEW head \in Slots, NEW tail \in Slots, NEW k \in Nat,
         tail + k <= BUF_LEN, k <= Held(head, tail)
  PROVE  Held(head, Wrap(tail + k)) = Held(head, tail) - k
BY RingSize DEF Slots, Held, Wrap

\* A ring whose indices are equal is empty, and only such a ring is.
LEMMA HeldSome ==
  ASSUME NEW head \in Slots, NEW tail \in Slots
  PROVE  head # tail <=> Held(head, tail) >= 1
BY RingSize DEF Slots, Held

\* A ring that is not full has a slot besides the free one.
LEMMA NotFull ==
  ASSUME NEW head \in Slots, NEW tail \in Slots, Wrap(head + 1) # tail
  PROVE  1 + Held(head, tail) < BUF_LEN
BY RingSize DEF Slots, Held, Wrap

-----------------------------------------------------------------------------
\* The indices at power-up.
LEMMA IndicesInit == UartInit => Indices
BY RingSize DEF UartInit, Indices, Slots

\* A call begins.
LEMMA CallsKeepIndices == ASSUME Indices, Calls PROVE Indices'
<1> USE UartAssumption DEF UartAssumption, Indices, txRing, rxRing, locals
<1>1. CASE CallWrite BY <1>1 DEF CallWrite
<1>2. CASE CallClose BY <1>2 DEF CallClose
<1>3. CASE CallRead BY <1>3 DEF CallRead
<1> QED BY <1>1, <1>2, <1>3 DEF Calls

\* The end of a call clears its locals, any other step of it leaves them.
LEMMA LocalsKept ==
  ASSUME Indices, Locals
  PROVE  /\ in' \in Slots /\ out' \in Slots /\ n' \in Nat /\ count' \in Nat
BY RingSize DEF Indices, Locals, Slots, locals

\* The thread's step that finds room, or none.
LEMMA WriteRoomKeepsIndices == ASSUME Indices, WriteRoom PROVE Indices'
<1>1. /\ UNCHANGED <<tx_in, tx_out, rx_in, rx_out, count>>
      /\ in' = tx_in /\ out' = tx_out
      /\ n' = AtMost(Room(tx_in, tx_out), count)
      /\ pc' = IF n' = 0 THEN "w_kick" ELSE "w_copy"
  BY DEF WriteRoom, txRing, rxRing
<1>2. /\ tx_in \in Slots /\ tx_out \in Slots /\ rx_in \in Slots
      /\ rx_out \in Slots /\ count \in Nat
  BY DEF Indices
<1>3. /\ Room(tx_in, tx_out) \in Nat
      /\ tx_in + Room(tx_in, tx_out) <= BUF_LEN
      /\ Room(tx_in, tx_out) + Held(tx_in, tx_out) < BUF_LEN
  BY <1>2, RoomFits
<1>4. Held(tx_in, tx_out) \in Nat /\ tx_in \in Nat
  BY <1>2, HeldInSlots, RingSize DEF Slots
<1>5. /\ n' \in Nat /\ n' <= count
      /\ tx_in + n' <= BUF_LEN
      /\ n' + Held(tx_in, tx_out) < BUF_LEN
  BY <1>1, <1>2, <1>3, <1>4, RingSize DEF AtMost
<1>6. Held(tx_in, tx_out)' = Held(tx_in, tx_out)
  BY <1>1 DEF Held
<1> QED BY <1>1, <1>2, <1>5, <1>6 DEF Indices

\* The thread's step that finds bytes, or none.
LEMMA ReadRoomKeepsIndices == ASSUME Indices, ReadRoom PROVE Indices'
<1> DEFINE ready == AtMost(Ready(rx_in, rx_out), count)
<1>1. /\ UNCHANGED <<tx_in, tx_out, rx_in, rx_out>>
      /\ pc' = IF ready > 0 THEN "r_copy"
               ELSE IF some THEN "r_enable"
               ELSE IF nonblock THEN "idle" ELSE "r_wait"
      /\ IF pc' = "idle" THEN Locals
         ELSE in' = rx_in /\ out' = rx_out /\ n' = ready /\ count' = count
  BY DEF ReadRoom, txRing, rxRing
<1>2. /\ tx_in \in Slots /\ tx_out \in Slots /\ rx_in \in Slots
      /\ rx_out \in Slots /\ count \in Nat
  BY DEF Indices
<1>3. /\ Ready(rx_in, rx_out) \in Nat
      /\ rx_out + Ready(rx_in, rx_out) <= BUF_LEN
      /\ Ready(rx_in, rx_out) <= Held(rx_in, rx_out)
  BY <1>2, ReadyFits
<1>4. Held(rx_in, rx_out) \in Nat /\ rx_out \in Nat
  BY <1>2, HeldInSlots, RingSize DEF Slots
<1>5. /\ ready \in Nat /\ ready <= count
      /\ rx_out + ready <= BUF_LEN
      /\ ready <= Held(rx_in, rx_out)
  BY <1>2, <1>3, <1>4, RingSize DEF AtMost
<1>6. Held(rx_in, rx_out)' = Held(rx_in, rx_out)
  BY <1>1 DEF Held
<1>7. CASE pc' = "idle"
  <2>1. Locals BY <1>1, <1>7
  <2> QED BY <2>1, <1>1, <1>2, <1>7, LocalsKept DEF Indices
<1>8. CASE pc' # "idle"
  <2> HIDE DEF ready
  <2> QED BY <1>1, <1>2, <1>5, <1>6, <1>8 DEF Indices
<1> QED BY <1>7, <1>8

\* The new bytes are put in.
LEMMA WritePublishKeepsIndices == ASSUME Indices, WritePublish PROVE Indices'
<1>1. /\ pc = "w_publish" /\ tx_in' = Wrap(in + n) /\ count' = count - n
      /\ UNCHANGED <<tx_out, rx_in, rx_out, in, out, n>>
      /\ pc' \in {"w_room", "w_kick"}
  BY DEF WritePublish, At, rxRing
<1>2. /\ in \in Slots /\ n \in Nat /\ in + n <= BUF_LEN /\ n <= count
      /\ count \in Nat
  BY <1>1 DEF Indices
<1>3. tx_in' \in Slots /\ count' \in Nat
  BY <1>1, <1>2, WrapInSlots
<1> QED BY <1>1, <1>3 DEF Indices

\* The bytes are taken out.
LEMMA ReadPublishKeepsIndices == ASSUME Indices, ReadPublish PROVE Indices'
<1>1. /\ pc = "r_publish" /\ rx_out' = Wrap(out + n) /\ count' = count - n
      /\ UNCHANGED <<tx_in, tx_out, rx_in, in, out, n>>
      /\ pc' \in {"r_room", "r_enable"}
  BY DEF ReadPublish, At, txRing
<1>2. /\ out \in Slots /\ n \in Nat /\ out + n <= BUF_LEN /\ n <= count
      /\ count \in Nat
  BY <1>1 DEF Indices
<1>3. rx_out' \in Slots /\ count' \in Nat
  BY <1>1, <1>2, WrapInSlots
<1> QED BY <1>1, <1>3 DEF Indices

\* Every step of the thread in a call, or at boot, keeps the indices.
LEMMA ContinueKeepsIndices == ASSUME Indices, Continue PROVE Indices'
<1> USE DEF txRing, rxRing, locals, At
<1>1. CASE InitUart BY <1>1 DEF InitUart, Indices
<1>2. CASE InitTimer BY <1>2 DEF InitTimer, Indices
<1>3. CASE WriteRoom BY <1>3, WriteRoomKeepsIndices
<1>4. CASE WriteCopy BY <1>4 DEF WriteCopy, Indices, Held
<1>5. CASE WritePublish BY <1>5, WritePublishKeepsIndices
<1>6. CASE WriteKick BY <1>6, LocalsKept DEF WriteKick, Indices
<1>7. CASE WriteWait BY <1>7, LocalsKept DEF WriteWait, Indices
<1>8. CASE CloseWait BY <1>8, LocalsKept DEF CloseWait, Indices
<1>9. CASE ReadRoom BY <1>9, ReadRoomKeepsIndices
<1>10. CASE ReadCopy BY <1>10 DEF ReadCopy, Indices, Held
<1>11. CASE ReadPublish BY <1>11, ReadPublishKeepsIndices
<1>12. CASE ReadWait BY <1>12, LocalsKept DEF ReadWait, Indices
<1>13. CASE ReadEnable BY <1>13, LocalsKept DEF ReadEnable, Indices
<1> QED BY <1>1, <1>2, <1>3, <1>4, <1>5, <1>6, <1>7, <1>8, <1>9, <1>10,
           <1>11, <1>12, <1>13 DEF Continue

\* The interrupt routine takes a byte of the output: a copy that is under way
\* has more room than it thought.
LEMMA IsrWriteKeepsIndices == ASSUME Indices, IsrWriteByte PROVE Indices'
<1>1. /\ tx_out # tx_in /\ tx_out' = Wrap(tx_out + 1)
      /\ UNCHANGED <<tx_in, rx_in, rx_out, in, out, n, count, pc>>
  BY DEF IsrWriteByte, rxRing, locals
<1>2. tx_in \in Slots /\ tx_out \in Slots BY DEF Indices
<1>3. tx_out + 1 <= BUF_LEN /\ 1 <= Held(tx_in, tx_out)
  BY <1>1, <1>2, HeldSome, RingSize DEF Slots
<1>4. tx_out' \in Slots
  BY <1>1, <1>2, <1>3, WrapInSlots
<1>5. Held(tx_in, tx_out)' = Held(tx_in, tx_out) - 1
  BY <1>1, <1>2, <1>3, TakeHeld DEF Held
<1>6. Held(rx_in, rx_out)' = Held(rx_in, rx_out)
  BY <1>1 DEF Held
<1>7. Held(tx_in, tx_out) \in Nat /\ BUF_LEN \in Nat
  BY <1>2, HeldInSlots, RingSize DEF Slots
<1> QED BY <1>1, <1>4, <1>5, <1>6, <1>7 DEF Indices

\* The interrupt routine brings a byte of the input: a copy that is under way
\* finds more than it counted on.
LEMMA IsrReadKeepsIndices == ASSUME Indices, IsrReadByte PROVE Indices'
<1>1. /\ ~RxFull /\ rx_in' = Wrap(rx_in + 1)
      /\ UNCHANGED <<tx_in, tx_out, rx_out, in, out, n, count, pc>>
  BY DEF IsrReadByte, txRing, locals
<1>2. rx_in \in Slots /\ rx_out \in Slots BY DEF Indices
<1>3. rx_in + 1 <= BUF_LEN /\ 1 + Held(rx_in, rx_out) < BUF_LEN
  BY <1>1, <1>2, NotFull, RingSize DEF Slots, RxFull
<1>4. rx_in' \in Slots
  BY <1>1, <1>2, <1>3, WrapInSlots
<1>5. Held(rx_in, rx_out)' = Held(rx_in, rx_out) + 1
  BY <1>1, <1>2, <1>3, PutHeld DEF Held
<1>6. Held(tx_in, tx_out)' = Held(tx_in, tx_out)
  BY <1>1 DEF Held
<1>7. Held(rx_in, rx_out) \in Nat /\ BUF_LEN \in Nat
  BY <1>2, HeldInSlots, RingSize DEF Slots
<1> QED BY <1>1, <1>4, <1>5, <1>6, <1>7 DEF Indices

\* So does every step of the driver, the clock and the host.
LEMMA StepsKeepIndices == ASSUME Indices, [UartNext]_uartVars PROVE Indices'
<1> DEFINE Still == UNCHANGED <<tx_in, tx_out, rx_in, rx_out, in, out, n, count, pc>>
<1>1. Still => Indices' BY DEF Indices, Held
<1>2. CASE Interrupt \/ Round \/ IsrReadDone \/ IsrWriteDone
  BY <1>1, <1>2 DEF Interrupt, Round, IsrReadDone, IsrWriteDone, txRing, rxRing, locals
<1>3. CASE Tick \/ Host
  BY <1>1, <1>3 DEF Tick, Host, HostTakes, HostTypes, txRing, rxRing, locals
<1>4. CASE UNCHANGED uartVars
  BY <1>1, <1>4 DEF uartVars, txRing, rxRing, locals
<1>5. CASE Isr
  BY <1>2, <1>5, IsrReadKeepsIndices, IsrWriteKeepsIndices DEF Isr
<1> QED BY <1>3, <1>4, <1>5, CallsKeepIndices, ContinueKeepsIndices DEF UartNext

\* The inductive invariant of the indices.
THEOREM IndicesAlways == UartSpec => []Indices
<1>1. UartInit => Indices BY IndicesInit
<1>2. Indices /\ [UartNext]_uartVars => Indices' BY StepsKeepIndices
<1> QED BY <1>1, <1>2, PTL DEF UartSpec

\* Whatever the interrupt routine does between the thread's look at the indices
\* and its copy, the copy touches no slot that is in use.
THEOREM CopiesAlwaysApart == UartSpec => []CopiesApart
<1>1. Indices => CopiesApart BY DEF Indices, CopiesApart
<1> QED BY <1>1, IndicesAlways, PTL

-----------------------------------------------------------------------------
(* Sequences of numbered bytes.                                            *)

\* The numbers after a up to b.
Span(a, b) == [i \in 1..b - a |-> a + i]

\* A span is a sequence of as many numbers.
LEMMA SpanIsSeq ==
  ASSUME NEW a \in Nat, NEW b \in Nat, a <= b
  PROVE  /\ Span(a, b) \in Seq(Nat) /\ Len(Span(a, b)) = b - a
         /\ DOMAIN Span(a, b) = 1..b - a
         /\ \A i \in 1..b - a : Span(a, b)[i] = a + i
<1>1. b - a \in Nat OBVIOUS
<1>2. \A i \in 1..b - a : a + i \in Nat OBVIOUS
<1>3. Span(a, b) \in [1..b - a -> Nat] BY <1>2 DEF Span
<1>4. Span(a, b) \in Seq(Nat) BY <1>1, <1>3, SeqDef
<1>5. Len(Span(a, b)) = b - a
  BY <1>1, <1>4, LenProperties DEF Span
<1> QED BY <1>4, <1>5 DEF Span

\* What agrees with a span in length and elements is the span.
LEMMA SpanEqual ==
  ASSUME NEW a \in Nat, NEW b \in Nat, a <= b, NEW s \in Seq(Nat),
         Len(s) = b - a, \A i \in 1..Len(s) : s[i] = a + i
  PROVE  s = Span(a, b)
<1> DEFINE t == Span(a, b)
<1>1. t \in Seq(Nat) /\ Len(t) = b - a /\ \A i \in 1..b - a : t[i] = a + i
  BY SpanIsSeq
<1> HIDE DEF t
<1>2. Len(s) = Len(t) BY <1>1
<1>3. \A i \in 1..Len(s) : s[i] = t[i] BY <1>1
<1>4. s = t BY <1>1, <1>2, <1>3, SeqEqual, Zenon
<1> QED BY <1>4 DEF t

\* Spans that adjoin make a span.
LEMMA SpanConcat ==
  ASSUME NEW a \in Nat, NEW b \in Nat, NEW c \in Nat, a <= b, b <= c
  PROVE  Span(a, b) \o Span(b, c) = Span(a, c)
<1> DEFINE s == Span(a, b)  t == Span(b, c)
<1>1. /\ s \in Seq(Nat) /\ Len(s) = b - a /\ \A i \in 1..b - a : s[i] = a + i
      /\ t \in Seq(Nat) /\ Len(t) = c - b /\ \A i \in 1..c - b : t[i] = b + i
  BY SpanIsSeq
<1> HIDE DEF s, t
<1>2. /\ s \o t \in Seq(Nat) /\ Len(s \o t) = Len(s) + Len(t)
      /\ \A i \in 1..Len(s) + Len(t) :
           (s \o t)[i] = IF i <= Len(s) THEN s[i] ELSE t[i - Len(s)]
  BY <1>1, ConcatProperties
<1>3. Len(s \o t) = c - a BY <1>1, <1>2
<1>4. ASSUME NEW i \in 1..c - a PROVE (s \o t)[i] = a + i
  <2>1. CASE i <= b - a BY <2>1, <1>1, <1>2
  <2>2. CASE ~(i <= b - a)
    <3>1. i - (b - a) \in 1..c - b BY <2>2
    <3>2. (s \o t)[i] = t[i - (b - a)] BY <2>2, <1>1, <1>2
    <3> QED BY <3>1, <3>2, <1>1
  <2> QED BY <2>1, <2>2
<1>5. \A i \in 1..Len(s \o t) : (s \o t)[i] = a + i BY <1>3, <1>4
<1>6. a <= c OBVIOUS
<1>7. s \o t = Span(a, c) BY <1>2, <1>3, <1>5, <1>6, SpanEqual, Zenon
<1> QED BY <1>7 DEF s, t

\* The next number at the end of a span.
LEMMA SpanAppend ==
  ASSUME NEW a \in Nat, NEW b \in Nat, a <= b
  PROVE  Append(Span(a, b), b + 1) = Span(a, b + 1)
<1> DEFINE s == Span(a, b)
<1>1. s \in Seq(Nat) /\ Len(s) = b - a /\ \A i \in 1..b - a : s[i] = a + i
  BY SpanIsSeq
<1> HIDE DEF s
<1>2. /\ Append(s, b + 1) \in Seq(Nat) /\ Len(Append(s, b + 1)) = Len(s) + 1
      /\ \A i \in 1..Len(s) : Append(s, b + 1)[i] = s[i]
      /\ Append(s, b + 1)[Len(s) + 1] = b + 1
  BY <1>1, AppendProperties
<1>3. \A i \in 1..Len(Append(s, b + 1)) : Append(s, b + 1)[i] = a + i
  BY <1>1, <1>2
<1>4. Len(Append(s, b + 1)) = (b + 1) - a BY <1>1, <1>2
<1>5. b + 1 \in Nat /\ a <= b + 1 OBVIOUS
<1>6. Append(s, b + 1) = Span(a, b + 1)
  BY <1>2, <1>3, <1>4, <1>5, SpanEqual, Zenon
<1> QED BY <1>6 DEF s

\* A span without its first k numbers, and those.
LEMMA SpanSplit ==
  ASSUME NEW a \in Nat, NEW b \in Nat, NEW k \in Nat, a + k <= b
  PROVE  /\ SubSeq(Span(a, b), 1, k) = Span(a, a + k)
         /\ SubSeq(Span(a, b), k + 1, b - a) = Span(a + k, b)
<1> DEFINE s == Span(a, b)
<1>1. s \in Seq(Nat) /\ Len(s) = b - a /\ \A i \in 1..b - a : s[i] = a + i
  BY SpanIsSeq
<1> HIDE DEF s
<1>2. SubSeq(s, 1, k) = Span(a, a + k)
  <2>1. /\ SubSeq(s, 1, k) \in Seq(Nat)
        /\ Len(SubSeq(s, 1, k)) = IF 1 <= k THEN k - 1 + 1 ELSE 0
        /\ \A i \in 1..k - 1 + 1 : SubSeq(s, 1, k)[i] = s[1 + i - 1]
    BY <1>1, SubSeqProperties
  <2>2. Len(SubSeq(s, 1, k)) = (a + k) - a BY <2>1
  <2>3. \A i \in 1..Len(SubSeq(s, 1, k)) : SubSeq(s, 1, k)[i] = a + i
    BY <2>1, <2>2, <1>1
  <2>4. a + k \in Nat /\ a <= a + k OBVIOUS
  <2> QED BY <2>1, <2>2, <2>3, <2>4, SpanEqual, Zenon
<1>3. SubSeq(s, k + 1, b - a) = Span(a + k, b)
  <2> DEFINE r == SubSeq(s, k + 1, b - a)
  <2>1. /\ r \in Seq(Nat)
        /\ Len(r) = IF k + 1 <= b - a THEN b - a - (k + 1) + 1 ELSE 0
        /\ \A i \in 1..b - a - (k + 1) + 1 : r[i] = s[k + 1 + i - 1]
    BY <1>1, SubSeqProperties
  <2> HIDE DEF r
  <2>2. Len(r) = b - (a + k) BY <2>1
  <2>3. \A i \in 1..Len(r) : r[i] = (a + k) + i
    BY <2>1, <2>2, <1>1
  <2>4. a + k \in Nat OBVIOUS
  <2>5. r = Span(a + k, b) BY <2>1, <2>2, <2>3, <2>4, SpanEqual, Zenon
  <2> QED BY <2>5 DEF r
<1> QED BY <1>2, <1>3 DEF s

\* The first number of a span, and the rest.
LEMMA SpanHeadTail ==
  ASSUME NEW a \in Nat, NEW b \in Nat, a < b
  PROVE  /\ Span(a, b) # <<>>
         /\ Head(Span(a, b)) = a + 1 /\ Tail(Span(a, b)) = Span(a + 1, b)
<1> DEFINE s == Span(a, b)
<1>1. s \in Seq(Nat) /\ Len(s) = b - a /\ \A i \in 1..b - a : s[i] = a + i
  BY SpanIsSeq
<1> HIDE DEF s
<1>2. s # <<>> BY <1>1, EmptySeq
<1>3. Head(s) = a + 1 BY <1>1, <1>2, HeadTailProperties
<1>4. /\ Tail(s) \in Seq(Nat) /\ Len(Tail(s)) = Len(s) - 1
      /\ \A i \in 1..Len(Tail(s)) : Tail(s)[i] = s[i + 1]
  BY <1>1, <1>2, HeadTailProperties
<1>5. \A i \in 1..Len(Tail(s)) : Tail(s)[i] = (a + 1) + i
  BY <1>1, <1>4
<1>6. Len(Tail(s)) = b - (a + 1) BY <1>1, <1>4
<1>7. a + 1 \in Nat /\ a + 1 <= b OBVIOUS
<1>8. Tail(s) = Span(a + 1, b)
  BY <1>4, <1>5, <1>6, <1>7, SpanEqual, Zenon
<1> QED BY <1>2, <1>3, <1>8 DEF s

\* A single number.
LEMMA SpanOne ==
  ASSUME NEW a \in Nat
  PROVE  Span(a, a + 1) = <<a + 1>>
<1>1. <<a + 1>> \in Seq(Nat) /\ Len(<<a + 1>>) = 1 /\ <<a + 1>>[1] = a + 1
  OBVIOUS
<1>2. Len(<<a + 1>>) = (a + 1) - a BY <1>1
<1>3. \A i \in 1..Len(<<a + 1>>) : <<a + 1>>[i] = a + i BY <1>1
<1>4. a + 1 \in Nat /\ a <= a + 1 OBVIOUS
<1>5. Span(a, a + 1) = <<a + 1>>
  BY <1>1, <1>2, <1>3, <1>4, SpanEqual, Zenon
<1> QED BY <1>5

-----------------------------------------------------------------------------
(* Rings.                                                                  *)

\* So many bytes are held.
LEMMA HeldNat ==
  ASSUME NEW head \in Slots, NEW tail \in Slots
  PROVE  Held(head, tail) \in Nat /\ Held(head, tail) < BUF_LEN
BY HeldInSlots, RingSize DEF Slots

\* Where the i-th of the bytes that are held lies.
LEMMA HeldAt ==
  ASSUME NEW tail \in Slots, NEW j \in Slots
  PROVE  Wrap(tail + j) \in Slots /\ Held(Wrap(tail + j), tail) = j
BY RingSize DEF Slots, Held, Wrap

\* The bytes of a ring are numbered, from base + 1 on.
Numbered(buf, head, tail, base) ==
  \A s \in Slots : Held(s, tail) < Held(head, tail) =>
                     buf[s] = base + 1 + Held(s, tail)

\* The content of such a ring.
LEMMA ContentIsSpan ==
  ASSUME NEW buf, NEW head \in Slots, NEW tail \in Slots, NEW base \in Nat,
         Numbered(buf, head, tail, base)
  PROVE  Content(buf, head, tail) = Span(base, base + Held(head, tail))
<1>1. Held(head, tail) \in Nat /\ Held(head, tail) < BUF_LEN
  BY HeldInSlots, RingSize DEF Slots
<1>2. ASSUME NEW i \in 1..Held(head, tail)
      PROVE  buf[Wrap(tail + i - 1)] = base + i
  <2>1. i - 1 \in Slots BY <1>1, RingSize DEF Slots
  <2>2. tail + i - 1 = tail + (i - 1) BY RingSize DEF Slots
  <2>3. /\ Wrap(tail + i - 1) \in Slots
        /\ Held(Wrap(tail + i - 1), tail) = i - 1
    BY <2>1, <2>2, HeldAt
  <2>4. buf[Wrap(tail + i - 1)] = base + 1 + (i - 1)
    BY <1>1, <2>3 DEF Numbered
  <2> QED BY <2>4
<1>3. Content(buf, head, tail) = [i \in 1..Held(head, tail) |-> base + i]
  BY <1>2 DEF Content
<1>4. (base + Held(head, tail)) - base = Held(head, tail) BY <1>1
<1> QED BY <1>3, <1>4 DEF Span

\* The slots of a copy from head on are the ones at the distances that follow.
LEMMA CopySlots ==
  ASSUME NEW head \in Slots, NEW tail \in Slots, NEW k \in Nat,
         head + k <= BUF_LEN, k + Held(head, tail) < BUF_LEN,
         NEW s \in Slots, Held(s, tail) < Held(head, tail) + k
  PROVE  IF Held(s, tail) < Held(head, tail) THEN s \notin head..head + k - 1
         ELSE s \in head..head + k - 1 /\ s - head = Held(s, tail) - Held(head, tail)
BY RingSize DEF Slots, Held

\* A slot that is held when k bytes have been taken was k further before.
LEMMA DistanceBefore ==
  ASSUME NEW head \in Slots, NEW tail \in Slots, NEW k \in Nat,
         tail + k <= BUF_LEN, k <= Held(head, tail),
         NEW s \in Slots,
         Held(s, Wrap(tail + k)) < Held(head, tail) - k
  PROVE  Held(s, tail) = Held(s, Wrap(tail + k)) + k
BY RingSize DEF Slots, Held, Wrap

\* Two slots at the same distance are one.
LEMMA HeldInjective ==
  ASSUME NEW s \in Slots, NEW t \in Slots, NEW tail \in Slots,
         Held(s, tail) = Held(t, tail)
  PROVE  s = t
BY RingSize DEF Slots, Held

-----------------------------------------------------------------------------
(* The output.                                                             *)

\* In the FIFO and then in the ring are the bytes after the last one that the
\* host took, up to the last one written; a copy has the bytes that come next.
OutputOrder ==
  /\ written \in Nat /\ moved \in Nat
  /\ written = moved + Held(tx_in, tx_out)
  /\ \A s \in Slots : Held(s, tx_out) < Held(tx_in, tx_out) =>
                        tx_buf[s] = moved + 1 + Held(s, tx_out)
  /\ pc = "w_publish" => \A s \in in..in + n - 1 : tx_buf[s] = written + 1 + s - in
  /\ Len(txfifo) \in Nat /\ Len(txfifo) <= moved
  /\ txfifo = Span(moved - Len(txfifo), moved)
  /\ space \in Nat /\ space + Len(txfifo) <= TX_FIFO

\* What the output is made of.
outputVars == <<tx_buf, tx_in, tx_out, txfifo, written, moved, in, n, space>>

\* The sizes of the FIFOs.
LEMMA FifoSizes == TX_FIFO \in Nat /\ RX_FIFO \in Nat
BY UartAssumption DEF UartAssumption

\* Nothing is under way at power-up.
LEMMA OutputOrderInit == UartInit => OutputOrder
<1> SUFFICES ASSUME UartInit PROVE OutputOrder OBVIOUS
<1>1. /\ tx_in = 0 /\ tx_out = 0 /\ txfifo = <<>> /\ written = 0 /\ moved = 0
      /\ pc = "init_uart" /\ space = 0
  BY DEF UartInit
<1>2. 0 \in Slots /\ Held(0, 0) = 0 BY RingSize DEF Slots, Held
<1>3. Len(txfifo) = 0 BY <1>1, EmptySeq
<1>4. txfifo = Span(0, 0)
  <2>1. <<>> \in Seq(Nat) /\ Len(<<>>) = 0 - 0 /\ \A i \in 1..Len(<<>>) : <<>>[i] = 0 + i
    BY EmptySeq
  <2>2. 0 \in Nat /\ 0 <= 0 OBVIOUS
  <2> QED BY <1>1, <2>1, <2>2, SpanEqual, Zenon
<1>5. \A s \in Slots : ~(Held(s, tx_out) < Held(tx_in, tx_out))
  BY <1>1, RingSize DEF Slots, Held
<1>6. /\ written = moved + Held(tx_in, tx_out) /\ Len(txfifo) <= moved
      /\ written \in Nat /\ moved \in Nat /\ Len(txfifo) \in Nat
      /\ space \in Nat /\ space + Len(txfifo) <= TX_FIFO
  BY <1>1, <1>2, <1>3, FifoSizes
<1>7. txfifo = Span(moved - Len(txfifo), moved) BY <1>1, <1>3, <1>4
<1>8. pc # "w_publish" BY <1>1
<1> QED BY <1>5, <1>6, <1>7, <1>8, Zenon DEF OutputOrder

\* A step that leaves the output alone, and does not begin a publication.
LEMMA OutputUntouched ==
  ASSUME OutputOrder, UNCHANGED <<tx_buf, tx_in, tx_out, txfifo, written, moved, space>>,
         pc' # "w_publish" \/ (pc = "w_publish" /\ UNCHANGED <<in, n>>)
  PROVE  OutputOrder'
BY DEF OutputOrder, Held

\* The copy writes the bytes that come next, into free slots.
LEMMA WriteCopyOrders == ASSUME Indices, OutputOrder, WriteCopy PROVE OutputOrder'
<1>1. /\ pc = "w_copy" /\ pc' = "w_publish"
      /\ tx_buf' = [s \in Slots |-> IF s \in in..in + n - 1
                                    THEN written + 1 + s - in ELSE tx_buf[s]]
      /\ UNCHANGED <<tx_in, tx_out, written, moved, in, n, txfifo, space>>
  BY DEF WriteCopy, At, locals, handler, device, txHistory
<1>2. /\ tx_in \in Slots /\ tx_out \in Slots /\ n \in Nat /\ in = tx_in
      /\ in + n <= BUF_LEN /\ n + Held(tx_in, tx_out) < BUF_LEN
  BY <1>1 DEF Indices
<1>3. Held(tx_in, tx_out)' = Held(tx_in, tx_out) BY <1>1 DEF Held
<1>4. \A s \in Slots : Held(s, tx_out)' = Held(s, tx_out) BY <1>1 DEF Held
<1>5. ASSUME NEW s \in Slots, Held(s, tx_out) < Held(tx_in, tx_out)
      PROVE  tx_buf'[s] = moved + 1 + Held(s, tx_out)
  <2>1. Held(s, tx_out) < Held(tx_in, tx_out) + n
    BY <1>2, <1>5, HeldInSlots, RingSize DEF Slots
  <2>2. s \notin in..in + n - 1 BY <1>2, <1>5, <2>1, CopySlots
  <2> QED BY <1>1, <1>5, <2>2 DEF OutputOrder
<1>6. ASSUME NEW s \in in..in + n - 1 PROVE tx_buf'[s] = written + 1 + s - in
  <2>1. s \in Slots BY <1>2, RingSize DEF Slots
  <2> QED BY <1>1, <2>1
<1>7. \A s \in Slots : Held(s, tx_out)' < Held(tx_in, tx_out)' =>
                         tx_buf'[s] = moved + 1 + Held(s, tx_out)'
  BY <1>3, <1>4, <1>5
<1> QED BY <1>1, <1>3, <1>6, <1>7 DEF OutputOrder

\* What was copied is now held.
LEMMA WritePublishOrders ==
  ASSUME Indices, OutputOrder, WritePublish PROVE OutputOrder'
<1>1. /\ pc = "w_publish" /\ pc' # "w_publish"
      /\ tx_in' = Wrap(in + n) /\ written' = written + n
      /\ UNCHANGED <<tx_buf, tx_out, moved, in, n, txfifo, space>>
  BY DEF WritePublish, At, handler, device
<1>2. /\ tx_in \in Slots /\ tx_out \in Slots /\ n \in Nat /\ in = tx_in
      /\ in + n <= BUF_LEN /\ n + Held(tx_in, tx_out) < BUF_LEN
  BY <1>1 DEF Indices
<1>3. Held(tx_in, tx_out)' = Held(tx_in, tx_out) + n
  BY <1>1, <1>2, PutHeld DEF Held
<1>4. \A s \in Slots : Held(s, tx_out)' = Held(s, tx_out) BY <1>1 DEF Held
<1>5. /\ written \in Nat /\ moved \in Nat
      /\ written = moved + Held(tx_in, tx_out)
      /\ Held(tx_in, tx_out) \in Nat
  BY <1>2, HeldInSlots, RingSize DEF OutputOrder, Slots
<1>6. ASSUME NEW s \in Slots, Held(s, tx_out) < Held(tx_in, tx_out) + n
      PROVE  tx_buf[s] = moved + 1 + Held(s, tx_out)
  <2>1. CASE Held(s, tx_out) < Held(tx_in, tx_out) BY <2>1 DEF OutputOrder
  <2>2. CASE ~(Held(s, tx_out) < Held(tx_in, tx_out))
    <3>1. /\ s \in in..in + n - 1
          /\ s - in = Held(s, tx_out) - Held(tx_in, tx_out)
      BY <1>2, <1>6, <2>2, CopySlots
    <3>2. tx_buf[s] = written + 1 + s - in BY <1>1, <3>1 DEF OutputOrder
    <3>3. s \in Int /\ in \in Int /\ Held(s, tx_out) \in Int
      BY <1>2, HeldInSlots, RingSize DEF Slots
    <3> QED BY <1>5, <3>1, <3>2, <3>3
  <2> QED BY <2>1, <2>2
<1>7. \A s \in Slots : Held(s, tx_out)' < Held(tx_in, tx_out)' =>
                         tx_buf'[s] = moved' + 1 + Held(s, tx_out)'
  BY <1>1, <1>3, <1>4, <1>6
<1>8. written' \in Nat /\ written' = moved' + Held(tx_in, tx_out)'
  BY <1>1, <1>2, <1>3, <1>5
<1> QED BY <1>1, <1>7, <1>8 DEF OutputOrder

\* The interrupt routine takes the oldest byte of the ring.
LEMMA IsrWriteOrders ==
  ASSUME Indices, OutputOrder, IsrWriteByte PROVE OutputOrder'
<1>1. /\ isr = "write" /\ space > 0 /\ tx_out # tx_in
      /\ txfifo' = Append(txfifo, tx_buf[tx_out])
      /\ tx_out' = Wrap(tx_out + 1)
      /\ space' = space - 1 /\ moved' = moved + 1
      /\ UNCHANGED <<tx_buf, tx_in, written, in, n, pc>>
  BY DEF IsrWriteByte, locals
<1>2. tx_in \in Slots /\ tx_out \in Slots BY DEF Indices
<1>3. /\ written \in Nat /\ moved \in Nat /\ space \in Nat
      /\ written = moved + Held(tx_in, tx_out)
      /\ Len(txfifo) \in Nat /\ Len(txfifo) <= moved
      /\ txfifo = Span(moved - Len(txfifo), moved)
      /\ space + Len(txfifo) <= TX_FIFO
  BY DEF OutputOrder
<1>4. tx_out + 1 <= BUF_LEN /\ 1 <= Held(tx_in, tx_out)
  BY <1>1, <1>2, HeldSome, RingSize DEF Slots
<1>5. Held(tx_in, tx_out)' = Held(tx_in, tx_out) - 1
  BY <1>1, <1>2, <1>4, TakeHeld DEF Held
<1>6. tx_buf[tx_out] = moved + 1
  <2>1. Held(tx_out, tx_out) = 0 BY <1>2, RingSize DEF Slots, Held
  <2>2. Held(tx_out, tx_out) < Held(tx_in, tx_out)
    BY <1>2, <1>4, <2>1, HeldInSlots, RingSize DEF Slots
  <2>3. tx_buf[tx_out] = moved + 1 + Held(tx_out, tx_out)
    BY <1>2, <2>2 DEF OutputOrder
  <2> QED BY <1>3, <2>1, <2>3
<1>7. ASSUME NEW s \in Slots, Held(s, tx_out)' < Held(tx_in, tx_out)'
      PROVE  tx_buf'[s] = moved' + 1 + Held(s, tx_out)'
  <2>1. Held(s, tx_out)' = Held(s, Wrap(tx_out + 1)) BY <1>1 DEF Held
  <2>2. Held(s, tx_out) = Held(s, Wrap(tx_out + 1)) + 1
    BY <1>2, <1>4, <1>5, <1>7, <2>1, DistanceBefore
  <2>3. Wrap(tx_out + 1) \in Slots BY <1>2, <1>4, WrapInSlots
  <2>4. Held(s, Wrap(tx_out + 1)) \in Nat /\ Held(tx_in, tx_out) \in Nat
    BY <1>2, <2>3, HeldInSlots, RingSize DEF Slots
  <2>5. Held(s, tx_out) < Held(tx_in, tx_out)
    BY <1>5, <1>7, <2>1, <2>2, <2>4
  <2>6. tx_buf[s] = moved + 1 + Held(s, tx_out) BY <2>5 DEF OutputOrder
  <2> QED BY <1>1, <1>3, <2>1, <2>2, <2>4, <2>6
<1>8. Len(txfifo') = Len(txfifo) + 1 /\ txfifo' = Span(moved - Len(txfifo), moved + 1)
  <2> DEFINE a == moved - Len(txfifo)
  <2>1. a \in Nat /\ a <= moved BY <1>3
  <2>2. txfifo \in Seq(Nat) BY <1>3, <2>1, SpanIsSeq
  <2>3. moved + 1 \in Nat BY <1>3
  <2>4. txfifo' = Append(txfifo, moved + 1) BY <1>1, <1>6
  <2>5. Len(txfifo') = Len(txfifo) + 1 BY <2>2, <2>3, <2>4, AppendProperties
  <2> HIDE DEF a
  <2>6. Append(Span(a, moved), moved + 1) = Span(a, moved + 1)
    BY <1>3, <2>1, SpanAppend
  <2>7. txfifo = Span(a, moved) BY <1>3 DEF a
  <2>8. txfifo' = Span(a, moved + 1) BY <2>4, <2>6, <2>7
  <2> QED BY <2>5, <2>8 DEF a
<1>9. /\ Len(txfifo') \in Nat /\ Len(txfifo') <= moved'
      /\ moved' - Len(txfifo') = moved - Len(txfifo)
      /\ space' \in Nat /\ space' + Len(txfifo') <= TX_FIFO
      /\ moved' \in Nat
  BY <1>1, <1>3, <1>8, FifoSizes
<1>10. written' \in Nat /\ written' = moved' + Held(tx_in, tx_out)'
  <2>1. Held(tx_in, tx_out) \in Nat BY <1>2, HeldInSlots, RingSize DEF Slots
  <2> QED BY <1>1, <1>3, <1>5, <2>1
<1>11. pc' = "w_publish" => \A s \in (in..in + n - 1)' : tx_buf'[s] = written' + 1 + s - in'
  BY <1>1 DEF OutputOrder
<1> QED BY <1>1, <1>7, <1>8, <1>9, <1>10, <1>11 DEF OutputOrder

\* The host takes the oldest byte of the FIFO.
LEMMA HostTakesOrders ==
  ASSUME OutputOrder, HostTakes
  PROVE  /\ OutputOrder'
         /\ moved - Len(txfifo) \in Nat
         /\ moved' - Len(txfifo') = moved - Len(txfifo) + 1
         /\ moved - Len(txfifo) < moved
         /\ printed' = <<moved - Len(txfifo) + 1>>
<1> DEFINE a == moved - Len(txfifo)
<1>1. /\ txfifo # <<>> /\ printed' = <<Head(txfifo)>> /\ txfifo' = Tail(txfifo)
      /\ UNCHANGED <<tx_buf, tx_in, tx_out, written, moved, in, n, pc, space>>
  BY DEF HostTakes, txRing, locals, handler
<1>2. /\ moved \in Nat /\ Len(txfifo) \in Nat /\ Len(txfifo) <= moved
      /\ txfifo = Span(a, moved) /\ space \in Nat
      /\ space + Len(txfifo) <= TX_FIFO
  BY DEF OutputOrder
<1>3. a \in Nat /\ a <= moved BY <1>2
<1>4. txfifo \in Seq(Nat) BY <1>2, <1>3, SpanIsSeq
<1>5. Len(txfifo) > 0 BY <1>1, <1>4, EmptySeq
<1>6. a < moved BY <1>2, <1>5
<1>7. Len(txfifo') = Len(txfifo) - 1
  BY <1>1, <1>4, HeadTailProperties
<1> HIDE DEF a
<1>8. Head(txfifo) = a + 1 /\ txfifo' = Span(a + 1, moved)
  BY <1>1, <1>2, <1>3, <1>6, SpanHeadTail
<1>9. moved' - Len(txfifo') = a + 1 BY <1>1, <1>2, <1>7 DEF a
<1>10. /\ Len(txfifo') \in Nat /\ Len(txfifo') <= moved'
       /\ txfifo' = Span(moved' - Len(txfifo'), moved')
       /\ space' \in Nat /\ space' + Len(txfifo') <= TX_FIFO
  BY <1>1, <1>2, <1>5, <1>7, <1>8, <1>9, FifoSizes
<1>11. OutputOrder'
  BY <1>1, <1>10 DEF OutputOrder, Held
<1> QED BY <1>1, <1>3, <1>6, <1>8, <1>9, <1>11 DEF a

\* The interrupt routine looks at the room in the FIFO at the start of a round.
LEMMA RoundOrders == ASSUME OutputOrder, Round PROVE OutputOrder'
<1>1. /\ UNCHANGED <<tx_buf, tx_in, tx_out, written, moved, in, n, pc, txfifo>>
      /\ space' = IF WritePending THEN TX_FIFO - Len(txfifo) ELSE 0
  BY DEF Round, txRing, locals, device, txHistory
<1>2. Len(txfifo) \in Nat /\ Len(txfifo) <= TX_FIFO
  BY FifoSizes DEF OutputOrder
<1>3. space' \in Nat /\ space' + Len(txfifo) <= TX_FIFO
  BY <1>1, <1>2, FifoSizes
<1> QED BY <1>1, <1>3 DEF OutputOrder, Held

\* Every step keeps the output in order.
LEMMA StepsOrderOutput ==
  ASSUME Indices, OutputOrder, [UartNext]_uartVars
  PROVE  OutputOrder'
<1> USE DEF txRing, locals, handler, device, txHistory, At
<1>1. CASE Calls
  BY <1>1, OutputUntouched DEF Calls, CallWrite, CallClose, CallRead
<1>2. CASE InitUart \/ InitTimer \/ WriteRoom \/ WriteKick \/ WriteWait
             \/ CloseWait
  BY <1>2, OutputUntouched
  DEF InitUart, InitTimer, WriteRoom, WriteKick, WriteWait, CloseWait
<1>3. CASE ReadRoom \/ ReadCopy \/ ReadPublish \/ ReadWait \/ ReadEnable
  BY <1>3, OutputUntouched
  DEF ReadRoom, ReadCopy, ReadPublish, ReadWait, ReadEnable
<1>4. CASE Interrupt \/ IsrReadByte \/ IsrReadDone \/ IsrWriteDone
  BY <1>4, OutputUntouched
  DEF Interrupt, IsrReadByte, IsrReadDone, IsrWriteDone
<1>5. CASE Tick \/ HostTypes
  BY <1>5, OutputUntouched DEF Tick, HostTypes
<1>6. CASE UNCHANGED uartVars
  BY <1>6, OutputUntouched DEF uartVars
<1>7. CASE Continue
  BY <1>2, <1>3, <1>7, WriteCopyOrders, WritePublishOrders DEF Continue
<1>8. CASE Isr
  BY <1>4, <1>8, RoundOrders, IsrWriteOrders DEF Isr
<1>9. CASE Host
  BY <1>5, <1>9, HostTakesOrders DEF Host
<1> QED BY <1>1, <1>5, <1>6, <1>7, <1>8, <1>9 DEF UartNext

\* A FIFO behind a ring: the numbers of the one adjoin those of the other.
LEMMA FifoAndRing ==
  ASSUME NEW buf, NEW head \in Slots, NEW tail \in Slots,
         NEW a \in Nat, NEW b \in Nat, a <= b, Numbered(buf, head, tail, b)
  PROVE  /\ a <= b + Held(head, tail)
         /\ Span(a, b) \o Content(buf, head, tail) = Span(a, b + Held(head, tail))
<1> DEFINE c == b + Held(head, tail)
<1>1. c \in Nat /\ b <= c /\ a <= c
  BY HeldInSlots, RingSize DEF Slots
<1>2. Content(buf, head, tail) = Span(b, c)
  BY ContentIsSpan, Zenon
<1> HIDE DEF c
<1>3. Span(a, b) \o Span(b, c) = Span(a, c)
  BY <1>1, SpanConcat
<1> QED BY <1>1, <1>2, <1>3 DEF c

\* Only a publication puts bytes into the pipe, and only the host takes one.
LEMMA OutputEnds ==
  ASSUME Indices, OutputOrder, [UartNext]_uartVars, ~WritePublish, ~HostTakes
  PROVE  /\ written' = written /\ printed' = printed
         /\ moved' - Len(txfifo') = moved - Len(txfifo)
<1> USE DEF txRing, locals, handler, device, txHistory, At
<1>1. CASE Calls
  BY <1>1 DEF Calls, CallWrite, CallClose, CallRead
<1>2. CASE InitUart \/ InitTimer \/ WriteRoom \/ WriteKick \/ WriteWait
             \/ CloseWait \/ WriteCopy
  BY <1>2
  DEF InitUart, InitTimer, WriteRoom, WriteKick, WriteWait, CloseWait, WriteCopy
<1>3. CASE ReadRoom \/ ReadCopy \/ ReadPublish \/ ReadWait \/ ReadEnable
  BY <1>3
  DEF ReadRoom, ReadCopy, ReadPublish, ReadWait, ReadEnable
<1>4. CASE Interrupt \/ Round \/ IsrReadByte \/ IsrReadDone \/ IsrWriteDone
  BY <1>4
  DEF Interrupt, Round, IsrReadByte, IsrReadDone, IsrWriteDone
<1>5. CASE IsrWriteByte
  <2>1. /\ txfifo' = Append(txfifo, tx_buf[tx_out]) /\ moved' = moved + 1
        /\ UNCHANGED <<written, printed>>
        /\ tx_out # tx_in
    BY <1>5 DEF IsrWriteByte
  <2>2. /\ moved \in Nat /\ Len(txfifo) \in Nat /\ Len(txfifo) <= moved
        /\ txfifo = Span(moved - Len(txfifo), moved)
    BY DEF OutputOrder
  <2>3. moved - Len(txfifo) \in Nat /\ moved - Len(txfifo) <= moved BY <2>2
  <2>4. txfifo \in Seq(Nat) BY <2>2, <2>3, SpanIsSeq
  <2>5. tx_in \in Slots /\ tx_out \in Slots BY DEF Indices
  <2>6. Held(tx_out, tx_out) = 0 BY <2>5, RingSize DEF Slots, Held
  <2>7. Held(tx_out, tx_out) < Held(tx_in, tx_out)
    BY <2>1, <2>5, RingSize DEF Slots, Held
  <2>8. tx_buf[tx_out] = moved + 1 + Held(tx_out, tx_out)
    BY <2>5, <2>6, <2>7 DEF OutputOrder
  <2>9. tx_buf[tx_out] \in Nat BY <2>2, <2>6, <2>8
  <2>10. Len(txfifo') = Len(txfifo) + 1
    BY <2>1, <2>4, <2>9, AppendProperties
  <2> QED BY <2>1, <2>2, <2>10
<1>6. CASE Tick \/ HostTypes
  BY <1>6 DEF Tick, HostTypes
<1>7. CASE UNCHANGED uartVars
  BY <1>7 DEF uartVars
<1> QED BY <1>1, <1>2, <1>3, <1>4, <1>5, <1>6, <1>7
        DEF UartNext, Continue, Isr, Host

\* The ends of the pipe are those of a stream.
LEMMA OutputStep ==
  ASSUME Indices, Indices', OutputOrder, OutputOrder', [UartNext]_uartVars
  PROVE  [Output!StreamNext]_(Output!streamVars)
<1> DEFINE pipe == txfifo \o Content(tx_buf, tx_in, tx_out)
           a == moved - Len(txfifo)
<1>1. /\ a \in Nat /\ written \in Nat /\ a <= written
      /\ pipe = Span(a, written)
  <2> DEFINE first == moved - Len(txfifo)
  <2>1. /\ tx_in \in Slots /\ tx_out \in Slots BY DEF Indices
  <2>2. /\ moved \in Nat /\ first \in Nat /\ first <= moved
        /\ Numbered(tx_buf, tx_in, tx_out, moved)
    BY DEF OutputOrder, Numbered, Held
  <2>3. /\ written = moved + Held(tx_in, tx_out) /\ written \in Nat
        /\ txfifo = Span(first, moved)
    BY DEF OutputOrder, Held
  <2> HIDE DEF first
  <2>4. /\ first <= moved + Held(tx_in, tx_out)
        /\ Span(first, moved) \o Content(tx_buf, tx_in, tx_out)
             = Span(first, moved + Held(tx_in, tx_out))
    BY <2>1, <2>2, FifoAndRing
  <2>5. pipe = txfifo \o Content(tx_buf, tx_in, tx_out)
    BY DEF Content, Held
  <2> QED BY <2>2, <2>3, <2>4, <2>5 DEF first
<1>2. /\ a' \in Nat /\ written' \in Nat /\ a' <= written'
      /\ pipe' = Span(a', written')
  <2> DEFINE first == moved' - Len(txfifo')
  <2>1. /\ tx_in' \in Slots /\ tx_out' \in Slots BY DEF Indices
  <2>2. /\ moved' \in Nat /\ first \in Nat /\ first <= moved'
        /\ Numbered(tx_buf', tx_in', tx_out', moved')
    BY DEF OutputOrder, Numbered, Held
  <2>3. /\ written' = moved' + Held(tx_in', tx_out') /\ written' \in Nat
        /\ txfifo' = Span(first, moved')
    BY DEF OutputOrder, Held
  <2> HIDE DEF first
  <2>4. /\ first <= moved' + Held(tx_in', tx_out')
        /\ Span(first, moved') \o Content(tx_buf', tx_in', tx_out')
             = Span(first, moved' + Held(tx_in', tx_out'))
    BY <2>1, <2>2, FifoAndRing
  <2>5. pipe' = txfifo' \o Content(tx_buf', tx_in', tx_out')
    BY DEF Content, Held
  <2> QED BY <2>2, <2>3, <2>4, <2>5 DEF first
<1>3. Len(pipe) = written - a BY <1>1, SpanIsSeq
<1>4. tx_in \in Slots /\ tx_out \in Slots BY DEF Indices
<1>5. /\ Held(tx_in, tx_out) \in Nat
      /\ written - a <= TX_FIFO + Held(tx_in, tx_out)
  <2>1. Held(tx_in, tx_out) \in Nat BY <1>4, HeldInSlots, RingSize DEF Slots
  <2>2. /\ written = moved + Held(tx_in, tx_out) /\ moved \in Nat
        /\ space \in Nat /\ space + Len(txfifo) <= TX_FIFO
        /\ Len(txfifo) \in Nat
    BY DEF OutputOrder
  <2> QED BY <2>1, <2>2, FifoSizes
<1>6. CASE WritePublish
  <2>1. /\ written' = written + n /\ printed' = printed /\ a' = a
        /\ n \in Nat /\ n > 0 /\ n + Held(tx_in, tx_out) < BUF_LEN
    BY <1>6 DEF WritePublish, At, device, Indices
  <2> HIDE DEF a, pipe
  <2>2. n \in 1..((TX_FIFO + BUF_LEN - 1) - Len(pipe))
    BY <1>1, <1>3, <1>5, <2>1, FifoSizes, RingSize
  <2>3. [i \in 1..n |-> written + 1 + i - 1] = Span(written, written + n)
    BY <1>1, <2>1 DEF Span
  <2>4. /\ written + n \in Nat /\ written <= written + n
        /\ written' + 1 = written + 1 + n
    BY <1>1, <2>1
  <2>5. Span(a, written) \o Span(written, written + n) = Span(a, written + n)
    BY <1>1, <2>4, SpanConcat, Zenon
  <2>6. pipe' = pipe \o [i \in 1..n |-> written + 1 + i - 1]
    BY <1>1, <1>2, <2>1, <2>3, <2>5, Zenon
  <2>7. \E k \in 1..((TX_FIFO + BUF_LEN - 1) - Len(pipe)) :
          /\ pipe' = pipe \o [i \in 1..k |-> written + 1 + i - 1]
          /\ written' + 1 = written + 1 + k
          /\ printed' = printed
    BY <2>1, <2>2, <2>4, <2>6, Zenon
  <2>8. Output!Put BY <2>7 DEF Output!Put, pipe
  <2> QED BY <2>8 DEF Output!StreamNext
<1>7. CASE HostTakes
  <2>1. /\ a' = a + 1 /\ printed' = <<a + 1>> /\ a < moved
        /\ written' = written
    BY <1>7, HostTakesOrders DEF HostTakes, a
  <2>2. a + 1 <= written BY <1>1, <1>2, <2>1
  <2> HIDE DEF a, pipe
  <2>3. 1 \in 1..Len(pipe) BY <1>1, <1>3, <2>2
  <2>4. /\ SubSeq(Span(a, written), 1, 1) = Span(a, a + 1)
        /\ SubSeq(Span(a, written), 1 + 1, written - a) = Span(a + 1, written)
    BY <1>1, <2>2, SpanSplit, Zenon
  <2>5. Span(a, a + 1) = <<a + 1>> BY <1>1, SpanOne
  <2>6. printed' = SubSeq(pipe, 1, 1)
    BY <1>1, <2>1, <2>4, <2>5, Zenon
  <2>7. pipe' = SubSeq(pipe, 1 + 1, Len(pipe))
    BY <1>1, <1>2, <1>3, <2>1, <2>4, Zenon
  <2>8. Output!Take
    BY <2>1, <2>3, <2>6, <2>7, Zenon DEF Output!Take, pipe
  <2> QED BY <2>8 DEF Output!StreamNext
<1>8. CASE ~WritePublish /\ ~HostTakes
  <2>1. written' = written /\ printed' = printed /\ a' = a
    BY <1>8, OutputEnds
  <2>2. pipe' = pipe BY <1>1, <1>2, <2>1
  <2> QED BY <2>1, <2>2 DEF Output!streamVars
<1> QED BY <1>6, <1>7, <1>8

\* The inductive invariant of the output, with that of the indices.
THEOREM OutputOrderAlways == UartSpec => [](Indices /\ OutputOrder)
<1>1. UartInit => Indices /\ OutputOrder BY IndicesInit, OutputOrderInit
<1>2. Indices /\ OutputOrder /\ [UartNext]_uartVars => (Indices /\ OutputOrder)'
  BY StepsKeepIndices, StepsOrderOutput
<1> QED BY <1>1, <1>2, PTL DEF UartSpec

\* The empty driver is an empty stream.
LEMMA OutputStart == UartInit => Output!StreamInit
<1> SUFFICES ASSUME UartInit PROVE Output!StreamInit OBVIOUS
<1>1. Indices /\ OutputOrder BY IndicesInit, OutputOrderInit
<1>2. written = 0 /\ printed = <<>> /\ moved = 0 /\ txfifo = <<>>
  BY DEF UartInit
<1>3. Len(txfifo) = 0 BY <1>2, EmptySeq
<1>4. /\ tx_in = 0 /\ tx_out = 0 BY DEF UartInit
<1>5. 0 \in Slots /\ Held(0, 0) = 0 BY RingSize DEF Slots, Held
<1>6. txfifo \o Content(tx_buf, tx_in, tx_out) = <<>>
  <2>1. Content(tx_buf, 0, 0) = <<>> BY <1>5 DEF Content
  <2> QED BY <1>2, <1>4, <2>1
<1>7. written + 1 = 1 BY <1>2
<1> QED BY <1>2, <1>6, <1>7 DEF Output!StreamInit

\* The program's output is a stream: what it writes arrives at the host in
\* order, each byte once, however the interrupt routine comes between.
THEOREM OutputIsStream == UartSpec => OutputStream
<1>1. Indices /\ OutputOrder /\ (Indices /\ OutputOrder)' /\ [UartNext]_uartVars
        => [Output!StreamNext]_(Output!streamVars)
  BY OutputStep
<1> QED BY <1>1, OutputStart, OutputOrderAlways, PTL
        DEF UartSpec, OutputStream, Output!StreamSpec

-----------------------------------------------------------------------------
(* The input.                                                              *)

\* The last byte that the program got.
Got == fetched - Held(rx_in, rx_out)

\* In the ring and then in the FIFO are the bytes after that one, up to the last
\* one typed; a read that is about to end has copied the ones that come next.
InputOrder ==
  /\ typed \in Nat /\ fetched \in Nat /\ Got \in Nat
  /\ rx_buf \in [Slots -> Nat]
  /\ Numbered(rx_buf, rx_in, rx_out, Got)
  /\ pc = "r_publish" => copied = Span(Got, Got + n)
  /\ fetched <= typed /\ typed - fetched <= RX_FIFO
  /\ rxfifo = Span(fetched, typed)

\* Nothing is under way at power-up.
LEMMA InputOrderInit == UartInit => InputOrder
<1> SUFFICES ASSUME UartInit PROVE InputOrder OBVIOUS
<1>1. /\ rx_in = 0 /\ rx_out = 0 /\ rxfifo = <<>> /\ typed = 0 /\ fetched = 0
      /\ pc = "init_uart" /\ rx_buf = [s \in Slots |-> 0]
  BY DEF UartInit
<1>2. Held(rx_in, rx_out) = 0 BY <1>1 DEF Held
<1>3. Got = 0 BY <1>1, <1>2 DEF Got
<1>4. rx_buf \in [Slots -> Nat] BY <1>1
<1>5. Numbered(rx_buf, rx_in, rx_out, Got)
  <2>1. \A s \in Slots : ~(Held(s, rx_out) < Held(rx_in, rx_out))
    BY <1>1, <1>2, RingSize DEF Slots, Held
  <2> QED BY <2>1 DEF Numbered
<1>6. rxfifo = Span(fetched, typed)
  <2>1. Span(0, 0) \in Seq(Nat) /\ Len(Span(0, 0)) = 0 BY SpanIsSeq
  <2>2. Span(0, 0) = <<>> BY <2>1, EmptySeq
  <2> QED BY <1>1, <2>2
<1>7. /\ typed \in Nat /\ fetched \in Nat /\ Got \in Nat
      /\ fetched <= typed /\ typed - fetched <= RX_FIFO
  BY <1>1, <1>3, FifoSizes
<1>8. pc # "r_publish" BY <1>1
<1> QED BY <1>4, <1>5, <1>6, <1>7, <1>8, Zenon DEF InputOrder

\* A step that leaves the input alone, and does not end a copy.
LEMMA InputUntouched ==
  ASSUME InputOrder, UNCHANGED <<rx_buf, rx_in, rx_out, rxfifo, typed, fetched>>,
         pc' # "r_publish" \/ (pc = "r_publish" /\ UNCHANGED <<copied, n>>)
  PROVE  InputOrder'
BY DEF InputOrder, Got, Numbered, Held

\* The copy takes the oldest bytes of the ring.
LEMMA ReadCopyOrders == ASSUME Indices, InputOrder, ReadCopy PROVE InputOrder'
<1>1. /\ pc = "r_copy" /\ pc' = "r_publish"
      /\ copied' = [i \in 1..n |-> rx_buf[out + i - 1]]
      /\ UNCHANGED <<rx_buf, rx_in, rx_out, rxfifo, typed, fetched, n>>
  BY DEF ReadCopy, At, rxRing, device, rxHistory
<1>2. /\ rx_in \in Slots /\ rx_out \in Slots /\ n \in Nat /\ out = rx_out
      /\ out + n <= BUF_LEN /\ n <= Held(rx_in, rx_out)
  BY <1>1 DEF Indices
<1>3. ASSUME NEW i \in 1..n PROVE rx_buf[out + i - 1] = Got + i
  <2>1. out + i - 1 \in Slots BY <1>2, RingSize DEF Slots
  <2>2. Held(out + i - 1, rx_out) = i - 1
    BY <1>2, RingSize DEF Slots, Held
  <2>3. i - 1 < Held(rx_in, rx_out)
    BY <1>2, HeldInSlots, RingSize DEF Slots
  <2>4. rx_buf[out + i - 1] = Got + 1 + (i - 1)
    BY <2>1, <2>2, <2>3 DEF InputOrder, Numbered
  <2>5. Got \in Nat BY DEF InputOrder
  <2> QED BY <2>4, <2>5
<1>4. copied' = Span(Got, Got + n)
  <2>1. (Got + n) - Got = n BY <1>2 DEF InputOrder
  <2> QED BY <1>1, <1>3, <2>1 DEF Span
<1>5. Got' = Got BY <1>1 DEF Got, Held
<1>6. Numbered(rx_buf, rx_in, rx_out, Got)' BY <1>1 DEF InputOrder, Numbered, Got, Held
<1> QED BY <1>1, <1>4, <1>5, <1>6 DEF InputOrder

\* What was copied has left the ring, and is what the program got.
LEMMA ReadPublishOrders ==
  ASSUME Indices, InputOrder, ReadPublish
  PROVE  /\ InputOrder'
         /\ n \in Nat /\ n > 0 /\ Got + n <= fetched
         /\ Got' = Got + n /\ taken' = Span(Got, Got + n)
<1>1. /\ pc = "r_publish" /\ pc' # "r_publish"
      /\ rx_out' = Wrap(out + n) /\ taken' = copied
      /\ UNCHANGED <<rx_buf, rx_in, rxfifo, typed, fetched>>
  BY DEF ReadPublish, At, device
<1>2. /\ rx_in \in Slots /\ rx_out \in Slots /\ n \in Nat /\ n > 0 /\ out = rx_out
      /\ rx_out + n <= BUF_LEN /\ n <= Held(rx_in, rx_out)
  BY <1>1 DEF Indices
<1>3. Held(rx_in, rx_out)' = Held(rx_in, rx_out) - n
  BY <1>1, <1>2, TakeHeld DEF Held
<1>4. /\ Held(rx_in, rx_out) \in Nat /\ fetched \in Nat /\ Got \in Nat
  BY <1>2, HeldInSlots, RingSize DEF Slots, InputOrder
<1>5. Got' = Got + n /\ Got + n <= fetched
  BY <1>1, <1>2, <1>3, <1>4 DEF Got
<1>6. ASSUME NEW s \in Slots, Held(s, rx_out)' < Held(rx_in, rx_out)'
      PROVE  rx_buf'[s] = Got' + 1 + Held(s, rx_out)'
  <2>1. Held(s, rx_out)' = Held(s, Wrap(rx_out + n)) BY <1>1, <1>2 DEF Held
  <2>2. Held(s, rx_out) = Held(s, Wrap(rx_out + n)) + n
    BY <1>2, <1>3, <1>6, <2>1, DistanceBefore
  <2>3. Wrap(rx_out + n) \in Slots BY <1>2, WrapInSlots
  <2>4. Held(s, Wrap(rx_out + n)) \in Nat
    BY <2>3, HeldInSlots, RingSize DEF Slots
  <2>5. Held(s, rx_out) < Held(rx_in, rx_out)
    BY <1>2, <1>3, <1>4, <1>6, <2>1, <2>2, <2>4
  <2>6. rx_buf[s] = Got + 1 + Held(s, rx_out)
    BY <2>5 DEF InputOrder, Numbered
  <2> QED BY <1>1, <1>2, <1>4, <1>5, <2>1, <2>2, <2>4, <2>6
<1>7. Numbered(rx_buf, rx_in, rx_out, Got)'
  BY <1>6 DEF Numbered, Held
<1>8. Got' \in Nat BY <1>2, <1>4, <1>5
<1>9. taken' = Span(Got, Got + n) BY <1>1 DEF InputOrder
<1>10. InputOrder' BY <1>1, <1>7, <1>8 DEF InputOrder
<1> QED BY <1>2, <1>5, <1>9, <1>10

\* The interrupt routine brings the byte that comes next.
LEMMA IsrReadOrders ==
  ASSUME Indices, InputOrder, IsrReadByte
  PROVE  InputOrder' /\ Got' = Got
<1>1. /\ ~RxFull /\ rxfifo # <<>>
      /\ rx_buf' = [rx_buf EXCEPT ![rx_in] = Head(rxfifo)]
      /\ rx_in' = Wrap(rx_in + 1) /\ rxfifo' = Tail(rxfifo)
      /\ fetched' = fetched + 1
      /\ UNCHANGED <<rx_out, typed, pc, copied, n>>
  BY DEF IsrReadByte, locals
<1>2. rx_in \in Slots /\ rx_out \in Slots BY DEF Indices
<1>3. rx_in + 1 <= BUF_LEN /\ 1 + Held(rx_in, rx_out) < BUF_LEN
  BY <1>1, <1>2, NotFull, RingSize DEF Slots, RxFull
<1>4. Held(rx_in, rx_out)' = Held(rx_in, rx_out) + 1
  BY <1>1, <1>2, <1>3, PutHeld DEF Held
<1>5. /\ Held(rx_in, rx_out) \in Nat /\ fetched \in Nat /\ typed \in Nat
      /\ Got \in Nat /\ fetched <= typed /\ typed - fetched <= RX_FIFO
      /\ rxfifo = Span(fetched, typed) /\ rx_buf \in [Slots -> Nat]
  <2>1. Held(rx_in, rx_out) \in Nat BY <1>2, HeldNat
  <2> QED BY <2>1 DEF InputOrder
<1>6. Got' = Got
  <2>1. Got' = fetched' - Held(rx_in, rx_out)' BY DEF Got
  <2>2. Got = fetched - Held(rx_in, rx_out) BY DEF Got
  <2> QED BY <1>1, <1>4, <1>5, <2>1, <2>2
<1>7. fetched < typed
  <2>1. rxfifo \in Seq(Nat) /\ Len(rxfifo) = typed - fetched BY <1>5, SpanIsSeq
  <2>2. Len(rxfifo) > 0 BY <1>1, <2>1, EmptySeq
  <2> QED BY <1>5, <2>1, <2>2
<1>8. Head(rxfifo) = fetched + 1 /\ rxfifo' = Span(fetched + 1, typed)
  BY <1>1, <1>5, <1>7, SpanHeadTail
<1>9. rx_buf' \in [Slots -> Nat] BY <1>1, <1>2, <1>5, <1>8
<1>10. ASSUME NEW s \in Slots, Held(s, rx_out)' < Held(rx_in, rx_out)'
       PROVE  rx_buf'[s] = Got' + 1 + Held(s, rx_out)'
  <2>1. Held(s, rx_out)' = Held(s, rx_out) BY <1>1 DEF Held
  <2>2. Held(s, rx_out) \in Nat BY <1>2, HeldInSlots, RingSize DEF Slots
  <2>3. CASE s = rx_in
    <3>1. rx_buf'[s] = fetched + 1 BY <1>1, <1>5, <1>8, <2>3
    <3>2. fetched = Got + Held(rx_in, rx_out) BY <1>5 DEF Got
    <3> QED BY <1>5, <1>6, <2>1, <2>3, <3>1, <3>2
  <2>4. CASE s # rx_in
    <3>1. Held(s, rx_out) # Held(rx_in, rx_out)
      BY <1>2, <2>4, HeldInjective
    <3>2. Held(s, rx_out) < Held(rx_in, rx_out)
      BY <1>4, <1>5, <1>10, <2>1, <2>2, <3>1
    <3>3. rx_buf[s] = Got + 1 + Held(s, rx_out)
      BY <3>2 DEF InputOrder, Numbered
    <3>4. rx_buf'[s] = rx_buf[s] BY <1>1, <1>5, <2>4
    <3> QED BY <1>6, <2>1, <3>3, <3>4
  <2> QED BY <2>3, <2>4
<1>11. Numbered(rx_buf, rx_in, rx_out, Got)'
  BY <1>10 DEF Numbered, Held
<1>12. pc' = "r_publish" => copied' = Span(Got, Got + n)'
  BY <1>1, <1>6 DEF InputOrder
<1>13. /\ typed' \in Nat /\ fetched' \in Nat /\ Got' \in Nat
       /\ fetched' <= typed' /\ typed' - fetched' <= RX_FIFO
       /\ rxfifo' = Span(fetched', typed')
  BY <1>1, <1>5, <1>6, <1>7, <1>8, FifoSizes
<1>14. InputOrder' BY <1>9, <1>11, <1>12, <1>13 DEF InputOrder
<1> QED BY <1>6, <1>14

\* The host types the byte that comes next.
LEMMA HostTypesOrders ==
  ASSUME InputOrder, HostTypes
  PROVE  InputOrder' /\ Got' = Got /\ typed - fetched < RX_FIFO
<1>1. /\ Len(rxfifo) < RX_FIFO
      /\ rxfifo' = Append(rxfifo, typed + 1) /\ typed' = typed + 1
      /\ UNCHANGED <<rx_buf, rx_in, rx_out, fetched, pc, copied, n>>
  BY DEF HostTypes, rxRing, locals
<1>2. /\ typed \in Nat /\ fetched \in Nat /\ fetched <= typed
      /\ rxfifo = Span(fetched, typed)
  BY DEF InputOrder
<1>3. Len(rxfifo) = typed - fetched BY <1>2, SpanIsSeq
<1>4. rxfifo' = Span(fetched, typed + 1) BY <1>1, <1>2, SpanAppend
<1>5. Got' = Got BY <1>1 DEF Got, Held
<1>6. Numbered(rx_buf, rx_in, rx_out, Got)'
  BY <1>1 DEF InputOrder, Numbered, Got, Held
<1>7. /\ typed' \in Nat /\ fetched' <= typed' /\ typed' - fetched' <= RX_FIFO
      /\ typed - fetched < RX_FIFO
  BY <1>1, <1>2, <1>3, FifoSizes
<1>8. InputOrder' BY <1>1, <1>4, <1>5, <1>6, <1>7 DEF InputOrder
<1> QED BY <1>5, <1>7, <1>8

\* Every step keeps the input in order; only the host puts bytes into the pipe,
\* and only the end of a read takes them out.
LEMMA StepsOrderInput ==
  ASSUME Indices, InputOrder, [UartNext]_uartVars
  PROVE  /\ InputOrder'
         /\ ~HostTypes /\ ~ReadPublish =>
              typed' = typed /\ taken' = taken /\ Got' = Got
<1> USE DEF rxRing, locals, handler, device, rxHistory, At
<1> DEFINE Still == /\ UNCHANGED <<rx_buf, rx_in, rx_out, rxfifo, typed, fetched, taken>>
                    /\ pc' # "r_publish" \/ (pc = "r_publish" /\ UNCHANGED <<copied, n>>)
<1>0. Still => InputOrder' /\ typed' = typed /\ taken' = taken /\ Got' = Got
  BY InputUntouched DEF Got, Held
<1>1. CASE Calls
  BY <1>0, <1>1 DEF Calls, CallWrite, CallClose, CallRead
<1>2. CASE InitUart \/ InitTimer \/ ReadRoom \/ ReadWait \/ ReadEnable \/ CloseWait
  BY <1>0, <1>2
  DEF InitUart, InitTimer, ReadRoom, ReadWait, ReadEnable, CloseWait
<1>3. CASE WriteRoom \/ WriteCopy \/ WritePublish \/ WriteKick \/ WriteWait
  BY <1>0, <1>3
  DEF WriteRoom, WriteCopy, WritePublish, WriteKick, WriteWait
<1>4. CASE Interrupt \/ Round \/ IsrWriteByte \/ IsrReadDone \/ IsrWriteDone
  BY <1>0, <1>4
  DEF Interrupt, Round, IsrWriteByte, IsrReadDone, IsrWriteDone
<1>5. CASE Tick \/ HostTakes
  BY <1>0, <1>5 DEF Tick, HostTakes
<1>6. CASE UNCHANGED uartVars
  BY <1>0, <1>6 DEF uartVars
<1>7. CASE ReadCopy
  <2>1. InputOrder' BY <1>7, ReadCopyOrders
  <2>2. typed' = typed /\ taken' = taken /\ Got' = Got
    BY <1>7 DEF ReadCopy, Got, Held
  <2> QED BY <2>1, <2>2
<1>8. CASE ReadPublish
  BY <1>8, ReadPublishOrders
<1>9. CASE IsrReadByte
  <2>1. InputOrder' /\ Got' = Got BY <1>9, IsrReadOrders
  <2>2. typed' = typed /\ taken' = taken BY <1>9 DEF IsrReadByte
  <2> QED BY <2>1, <2>2
<1>10. CASE HostTypes
  BY <1>10, HostTypesOrders
<1> QED BY <1>1, <1>2, <1>3, <1>4, <1>5, <1>6, <1>7, <1>8, <1>9, <1>10
        DEF UartNext, Continue, Isr, Host

\* The ends of the pipe are those of a stream.
LEMMA InputStep ==
  ASSUME Indices, Indices', InputOrder, InputOrder', [UartNext]_uartVars
  PROVE  [Input!StreamNext]_(Input!streamVars)
<1> DEFINE pipe == Content(rx_buf, rx_in, rx_out) \o rxfifo
<1>1. /\ Got \in Nat /\ typed \in Nat /\ Got <= typed
      /\ pipe = Span(Got, typed)
  <2>1. /\ rx_in \in Slots /\ rx_out \in Slots BY DEF Indices
  <2>2. /\ Got \in Nat /\ typed \in Nat /\ Numbered(rx_buf, rx_in, rx_out, Got)
    BY DEF InputOrder
  <2>3. Held(rx_in, rx_out) \in Nat BY <2>1, HeldNat
  <2>4. /\ fetched <= typed /\ rxfifo = Span(fetched, typed)
        /\ fetched \in Nat
    BY DEF InputOrder
  <2>5. Got + Held(rx_in, rx_out) = fetched BY <2>3, <2>4 DEF Got
  <2>6. Got <= fetched BY <2>2, <2>3, <2>4, <2>5
  <2>7. Content(rx_buf, rx_in, rx_out) = Span(Got, Got + Held(rx_in, rx_out))
    BY <2>1, <2>2, ContentIsSpan
  <2>8. Span(Got, fetched) \o Span(fetched, typed) = Span(Got, typed)
    BY <2>2, <2>4, <2>6, SpanConcat
  <2>9. Got <= typed BY <2>2, <2>4, <2>6
  <2>10. pipe = Span(Got, typed) BY <2>4, <2>5, <2>7, <2>8, Zenon
  <2> QED BY <2>2, <2>9, <2>10
<1>2. pipe' = Span(Got', typed')
  <2>1. /\ rx_in' \in Slots /\ rx_out' \in Slots BY DEF Indices
  <2>2. /\ Got' \in Nat /\ typed' \in Nat
        /\ Numbered(rx_buf', rx_in', rx_out', Got')
    BY DEF InputOrder, Numbered, Held
  <2>3. Held(rx_in', rx_out') \in Nat BY <2>1, HeldNat
  <2>4. /\ fetched' <= typed' /\ rxfifo' = Span(fetched', typed')
        /\ fetched' \in Nat
    BY DEF InputOrder
  <2>5. Got' + Held(rx_in', rx_out') = fetched'
    <3>1. Got' = fetched' - Held(rx_in', rx_out') BY DEF Got, Held
    <3> QED BY <2>3, <2>4, <3>1
  <2>6. Got' <= fetched' BY <2>2, <2>3, <2>4, <2>5
  <2>7. Content(rx_buf', rx_in', rx_out') = Span(Got', Got' + Held(rx_in', rx_out'))
    BY <2>1, <2>2, ContentIsSpan
  <2>8. Span(Got', fetched') \o Span(fetched', typed') = Span(Got', typed')
    BY <2>2, <2>4, <2>6, SpanConcat
  <2>9. pipe' = Content(rx_buf', rx_in', rx_out') \o rxfifo'
    BY DEF Content, Held
  <2> QED BY <2>4, <2>5, <2>7, <2>8, <2>9
<1>3. Len(pipe) = typed - Got BY <1>1, SpanIsSeq
<1>4. CASE HostTypes
  <2>1. /\ typed' = typed + 1 /\ taken' = taken /\ Got' = Got
        /\ typed - fetched < RX_FIFO
    BY <1>4, HostTypesOrders DEF HostTypes
  <2>2. Held(rx_in, rx_out) \in Nat /\ Held(rx_in, rx_out) < BUF_LEN
    BY HeldNat DEF Indices
  <2>3. typed - Got < RX_FIFO + BUF_LEN - 1
    <3>1. Got = fetched - Held(rx_in, rx_out) /\ fetched \in Nat
      BY DEF Got, InputOrder
    <3> QED BY <1>1, <2>1, <2>2, <3>1, FifoSizes, RingSize
  <2> HIDE DEF pipe
  <2>4. 1 \in 1..((RX_FIFO + BUF_LEN - 1) - Len(pipe))
    BY <1>1, <1>3, <2>3, FifoSizes, RingSize
  <2>5. [i \in 1..1 |-> typed + 1 + i - 1] = Span(typed, typed + 1)
    BY <1>1 DEF Span
  <2>6. typed + 1 \in Nat /\ typed <= typed + 1 BY <1>1
  <2>7. Span(Got, typed) \o Span(typed, typed + 1) = Span(Got, typed + 1)
    BY <1>1, <2>6, SpanConcat, Zenon
  <2>8. pipe' = pipe \o [i \in 1..1 |-> typed + 1 + i - 1]
    BY <1>1, <1>2, <2>1, <2>5, <2>7, Zenon
  <2>9. typed' + 1 = typed + 1 + 1 BY <2>1
  <2>10. \E k \in 1..((RX_FIFO + BUF_LEN - 1) - Len(pipe)) :
           /\ pipe' = pipe \o [i \in 1..k |-> typed + 1 + i - 1]
           /\ typed' + 1 = typed + 1 + k
           /\ taken' = taken
    BY <2>1, <2>4, <2>8, <2>9, Zenon
  <2>11. Input!Put BY <2>10 DEF Input!Put, pipe
  <2> QED BY <2>11 DEF Input!StreamNext
<1>5. CASE ReadPublish
  <2>1. /\ n \in Nat /\ n > 0 /\ Got + n <= fetched
        /\ Got' = Got + n /\ taken' = Span(Got, Got + n)
    BY <1>5, ReadPublishOrders
  <2>2. typed' = typed BY <1>5 DEF ReadPublish
  <2>3. Got + n <= typed BY <1>1, <2>1 DEF InputOrder
  <2> HIDE DEF pipe
  <2>4. n \in 1..Len(pipe) BY <1>1, <1>3, <2>1, <2>3
  <2>5. /\ SubSeq(Span(Got, typed), 1, n) = Span(Got, Got + n)
        /\ SubSeq(Span(Got, typed), n + 1, typed - Got) = Span(Got + n, typed)
    BY <1>1, <2>1, <2>3, SpanSplit, Zenon
  <2>6. taken' = SubSeq(pipe, 1, n)
    BY <1>1, <2>1, <2>5, Zenon
  <2>7. pipe' = SubSeq(pipe, n + 1, Len(pipe))
    BY <1>1, <1>2, <1>3, <2>1, <2>2, <2>5, Zenon
  <2>8. Input!Take
    BY <2>2, <2>4, <2>6, <2>7, Zenon DEF Input!Take, pipe
  <2> QED BY <2>8 DEF Input!StreamNext
<1>6. CASE ~HostTypes /\ ~ReadPublish
  <2>1. typed' = typed /\ taken' = taken /\ Got' = Got
    BY <1>6, StepsOrderInput
  <2>2. pipe' = pipe BY <1>1, <1>2, <2>1
  <2> QED BY <2>1, <2>2 DEF Input!streamVars
<1> QED BY <1>4, <1>5, <1>6

\* The inductive invariant of the input, with that of the indices.
THEOREM InputOrderAlways == UartSpec => [](Indices /\ InputOrder)
<1>1. UartInit => Indices /\ InputOrder BY IndicesInit, InputOrderInit
<1>2. Indices /\ InputOrder /\ [UartNext]_uartVars => (Indices /\ InputOrder)'
  BY StepsKeepIndices, StepsOrderInput
<1> QED BY <1>1, <1>2, PTL DEF UartSpec

\* The empty driver is an empty stream.
LEMMA InputStart == UartInit => Input!StreamInit
<1> SUFFICES ASSUME UartInit PROVE Input!StreamInit OBVIOUS
<1>1. /\ typed = 0 /\ taken = <<>> /\ rxfifo = <<>> /\ rx_in = 0 /\ rx_out = 0
  BY DEF UartInit
<1>2. Held(0, 0) = 0 BY RingSize DEF Held
<1>3. Content(rx_buf, 0, 0) = <<>> BY <1>2 DEF Content
<1>4. Content(rx_buf, rx_in, rx_out) \o rxfifo = <<>> BY <1>1, <1>3
<1>5. typed + 1 = 1 BY <1>1
<1> QED BY <1>1, <1>4, <1>5 DEF Input!StreamInit

\* The program's input is a stream: what the host types is what its reads return,
\* in order and once, also when the ring is full and the interrupt turned off.
THEOREM InputIsStream == UartSpec => InputStream
<1>1. Indices /\ InputOrder /\ (Indices /\ InputOrder)' /\ [UartNext]_uartVars
        => [Input!StreamNext]_(Input!streamVars)
  BY InputStep
<1> QED BY <1>1, InputStart, InputOrderAlways, PTL
        DEF UartSpec, InputStream, Input!StreamSpec

-----------------------------------------------------------------------------
(* The types.                                                              *)

\* The labels of a write: what it has left still fits the bound.
Writing == pc \in {"w_room", "w_copy", "w_publish", "w_kick", "w_wait"}

Budget ==
  /\ written <= TX_TOTAL /\ typed <= RX_TOTAL
  /\ Writing => written + count <= TX_TOTAL
  /\ count <= MAX_CALL /\ n \in Slots

Rings == tx_buf \in [Slots -> 0..TX_TOTAL] /\ rx_buf \in [Slots -> 0..RX_TOTAL]

Watch ==
  /\ irq_enable \subseteq {"RE", "WE"}
  /\ host_inactive \in 0..INT_MAX /\ timeout \in {DEFAULT_TIMEOUT, INT_MAX}

UartTypes == Budget /\ Rings /\ Watch

\* The indices and the bytes they are the indices of.
Streams == Indices /\ OutputOrder /\ InputOrder

\* What the types need of these.
LEMMA StreamNumbers ==
  ASSUME Streams
  PROVE  /\ written \in Nat /\ typed \in Nat /\ fetched \in Nat /\ fetched <= typed
         /\ count \in Nat /\ n \in Nat /\ TX_TOTAL \in Nat /\ RX_TOTAL \in Nat
         /\ MAX_CALL \in Nat
BY UartAssumption DEF Streams, Indices, OutputOrder, InputOrder, UartAssumption

LEMMA UartTypesInit == UartInit => UartTypes
<1> SUFFICES ASSUME UartInit PROVE UartTypes
  OBVIOUS
<1>1. /\ TX_TOTAL \in Nat /\ RX_TOTAL \in Nat /\ MAX_CALL \in Nat /\ INT_MAX \in Nat
      /\ 0 \in Slots
  BY UartAssumption DEF UartAssumption, Slots
<1>2. Budget
  BY <1>1 DEF UartInit, Budget, Writing
<1>3. Rings
  BY <1>1 DEF UartInit, Rings
<1>4. Watch
  BY <1>1 DEF UartInit, Watch
<1>. QED
  BY <1>2, <1>3, <1>4 DEF UartTypes

\* The watch for the host.
LEMMA WatchStep ==
  ASSUME Watch, [UartNext]_uartVars PROVE Watch'
<1> USE DEF Watch
<1>1. INT_MAX \in Nat /\ DEFAULT_TIMEOUT \in Nat
  BY UartAssumption DEF UartAssumption
<1>2. CASE InitUart
  BY <1>1, <1>2 DEF InitUart, AlarmStart
<1>3. CASE Tick
  <2>1. irq_enable' = irq_enable /\ timeout' = timeout
        /\ (host_inactive' = host_inactive \/ Timeout)
    BY <1>3 DEF Tick
  <2>2. Timeout => host_inactive' \in 0..INT_MAX
    BY <1>1 DEF Timeout
  <2>. QED
    BY <2>1, <2>2
<1>4. CASE WriteKick
  BY <1>4 DEF WriteKick, hostWatch
<1>5. CASE ReadEnable
  BY <1>5 DEF ReadEnable, hostWatch
<1>6. CASE IsrReadDone \/ IsrWriteDone
  BY <1>6 DEF IsrReadDone, IsrWriteDone, hostWatch
<1>7. CASE Calls \/ InitTimer \/ WriteRoom \/ WriteCopy \/ WritePublish \/ WriteWait
           \/ CloseWait
  BY <1>7
  DEF Calls, CallWrite, CallClose, CallRead, InitTimer, WriteRoom, WriteCopy,
      WritePublish, WriteWait, CloseWait, hostWatch
<1>8. CASE ReadRoom \/ ReadCopy \/ ReadPublish \/ ReadWait
  BY <1>8 DEF ReadRoom, ReadCopy, ReadPublish, ReadWait, hostWatch
<1>9. CASE Interrupt \/ Round \/ IsrReadByte \/ IsrWriteByte \/ Host \/ UNCHANGED uartVars
  BY <1>9
  DEF Interrupt, Round, IsrReadByte, IsrWriteByte, Host, HostTakes, HostTypes, hostWatch,
      uartVars
<1>. QED
  BY <1>2, <1>3, <1>4, <1>5, <1>6, <1>7, <1>8, <1>9 DEF UartNext, Continue, Isr

\* The numbers of a call.
LEMMA BudgetLocals ==
  ASSUME Budget, Locals
  PROVE  count' <= MAX_CALL /\ n' \in Slots /\ (count' = count \/ pc' = "idle")
BY UartAssumption DEF UartAssumption, Budget, Locals, locals, Slots

LEMMA BudgetStep ==
  ASSUME Streams, Budget, [UartNext]_uartVars PROVE Budget'
<1> USE DEF Budget
<1>0. /\ written \in Nat /\ typed \in Nat /\ count \in Nat /\ n \in Nat
      /\ TX_TOTAL \in Nat /\ RX_TOTAL \in Nat /\ MAX_CALL \in Nat
  BY StreamNumbers
<1>1. /\ tx_in \in Slots /\ tx_out \in Slots /\ rx_in \in Slots /\ rx_out \in Slots
  BY DEF Streams, Indices
<1>2. CASE CallWrite
  <2>1. count' \in 1..MAX_CALL /\ written + count' <= TX_TOTAL
        /\ n' = n /\ written' = written /\ typed' = typed
    BY <1>2 DEF CallWrite, rxHistory, txHistory
  <2>2. \A c \in 1..MAX_CALL : c <= MAX_CALL
    BY <1>0
  <2>3. count' <= MAX_CALL /\ written' + count' <= TX_TOTAL
    BY <2>1, <2>2, Zenon
  <2>. QED
    BY <2>1, <2>3, Zenon
<1>3. CASE CallRead \/ CallClose
  BY <1>0, <1>3 DEF CallRead, CallClose, rxHistory, txHistory, locals, Writing
<1>4. CASE WriteRoom
  <2>1. /\ Room(tx_in, tx_out) \in Nat /\ Held(tx_in, tx_out) \in Nat
        /\ Room(tx_in, tx_out) + Held(tx_in, tx_out) < BUF_LEN
    BY <1>1, RoomFits, HeldNat
  <2>2. n' = AtMost(Room(tx_in, tx_out), count)
        /\ UNCHANGED <<count, written, typed>> /\ Writing
    BY <1>4 DEF WriteRoom, At, Writing, txHistory, rxHistory
  <2>3. n' \in Slots
    BY <1>0, <2>1, <2>2, RingSize DEF AtMost, Slots
  <2>. QED
    BY <2>2, <2>3
<1>5. CASE WritePublish
  <2>1. pc = "w_publish" /\ count' = count - n /\ written' = written + n
        /\ UNCHANGED <<n, typed>> /\ Writing
    BY <1>5 DEF WritePublish, At, Writing, rxHistory
  <2>2. n <= count
    BY <2>1 DEF Streams, Indices
  <2>. QED
    BY <1>0, <2>1, <2>2
<1>6. CASE WriteKick \/ WriteWait
  <2>1. Locals /\ UNCHANGED <<written, typed>> /\ Writing
    BY <1>6 DEF WriteKick, WriteWait, At, Writing, txHistory, rxHistory
  <2>. QED
    BY <2>1, BudgetLocals DEF Writing
<1>7. CASE ReadRoom
  <2> DEFINE ready == AtMost(Ready(rx_in, rx_out), count)
  <2>1. /\ Ready(rx_in, rx_out) \in Nat /\ Held(rx_in, rx_out) \in Nat
        /\ Ready(rx_in, rx_out) <= Held(rx_in, rx_out) /\ Held(rx_in, rx_out) < BUF_LEN
    BY <1>1, ReadyFits, HeldNat
  <2>2. ready \in Slots
    BY <1>0, <2>1, RingSize DEF AtMost, Slots
  <2>3. UNCHANGED <<written, typed>> /\ (Locals \/ (n' = ready /\ count' = count))
        /\ ~Writing'
    BY <1>7 DEF ReadRoom, Writing, txHistory, rxHistory
  <2> HIDE DEF ready
  <2>. QED
    BY <2>2, <2>3, BudgetLocals
<1>8. CASE ReadPublish
  <2>1. pc = "r_publish" /\ count' = count - n /\ UNCHANGED <<n, written, typed>> /\ ~Writing'
    BY <1>8 DEF ReadPublish, At, Writing, txHistory
  <2>. QED
    BY <1>0, <2>1
<1>9. CASE CloseWait \/ ReadWait \/ ReadEnable
  <2>1. Locals /\ UNCHANGED <<written, typed>> /\ ~Writing'
    BY <1>9 DEF CloseWait, ReadWait, ReadEnable, At, Writing, txHistory, rxHistory
  <2>. QED
    BY <2>1, BudgetLocals
<1>10. CASE HostTypes
  <2>1. typed < RX_TOTAL /\ typed' = typed + 1 /\ UNCHANGED <<pc, count, n, written>>
    BY <1>10 DEF HostTypes, txHistory, locals
  <2>. QED
    BY <1>0, <2>1 DEF Writing
<1>11. CASE InitUart \/ InitTimer \/ WriteCopy \/ ReadCopy
  <2>1. UNCHANGED <<count, n, written, typed>> /\ (Writing' => Writing)
    BY <1>11
    DEF InitUart, InitTimer, WriteCopy, ReadCopy, At, Writing, locals, txHistory, rxHistory
  <2>. QED
    BY <2>1
<1>12. CASE Isr \/ Tick \/ HostTakes \/ UNCHANGED uartVars
  <2>1. UNCHANGED <<pc, count, n, written, typed>>
    BY <1>12
    DEF Isr, Interrupt, Round, IsrReadByte, IsrReadDone, IsrWriteByte, IsrWriteDone, Tick,
        HostTakes, uartVars, locals, txHistory, rxHistory
  <2>. QED
    BY <2>1 DEF Writing
<1>. QED
  BY <1>2, <1>3, <1>4, <1>5, <1>6, <1>7, <1>8, <1>9, <1>10, <1>11, <1>12
  DEF UartNext, Calls, Continue, Host

\* The bytes in the rings are bytes that were written, or typed.
LEMMA RingsStep ==
  ASSUME Streams, Budget, Rings, [UartNext]_uartVars PROVE Rings'
<1> USE DEF Rings
<1>0. /\ written \in Nat /\ typed \in Nat /\ fetched \in Nat /\ count \in Nat /\ n \in Nat
      /\ TX_TOTAL \in Nat /\ RX_TOTAL \in Nat
  BY StreamNumbers
<1>1. CASE WriteCopy
  <2>1. /\ pc = "w_copy" /\ rx_buf' = rx_buf
        /\ tx_buf' = [s \in Slots |-> IF s \in in..in + n - 1
                                      THEN written + 1 + s - in ELSE tx_buf[s]]
    BY <1>1 DEF WriteCopy, At, rxRing
  <2>2. n <= count /\ written + count <= TX_TOTAL /\ in \in Nat
    BY <2>1, RingSize DEF Streams, Indices, Budget, Writing, Slots
  <2>3. \A s \in in..in + n - 1 : written + 1 + s - in \in 0..TX_TOTAL
    BY <1>0, <2>2
  <2>. QED
    BY <2>1, <2>3
<1>2. CASE IsrReadByte
  <2>1. /\ rxfifo # <<>> /\ rx_buf' = [rx_buf EXCEPT ![rx_in] = Head(rxfifo)]
        /\ tx_buf' = tx_buf
    BY <1>2 DEF IsrReadByte, txRing
  <2>2. rxfifo = Span(fetched, typed) /\ fetched <= typed /\ typed <= RX_TOTAL
    BY DEF Streams, InputOrder, Budget
  <2>3. fetched < typed
    <3>1. rxfifo \in Seq(Nat) /\ Len(rxfifo) = typed - fetched
      BY <1>0, <2>2, SpanIsSeq
    <3>2. Len(rxfifo) > 0
      BY <2>1, <3>1, EmptySeq
    <3>. QED
      BY <1>0, <2>2, <3>1, <3>2
  <2>4. Head(rxfifo) = fetched + 1
    BY <1>0, <2>2, <2>3, SpanHeadTail
  <2>5. Head(rxfifo) \in 0..RX_TOTAL
    BY <1>0, <2>2, <2>3, <2>4
  <2>. QED
    BY <2>1, <2>5
<1>3. CASE ~WriteCopy /\ ~IsrReadByte
  <2>1. CASE Calls \/ Tick \/ Host \/ UNCHANGED uartVars
    BY <2>1
    DEF Calls, CallWrite, CallClose, CallRead, Tick, Host, HostTakes, HostTypes, uartVars,
        txRing, rxRing
  <2>2. CASE Isr
    BY <1>3, <2>2
    DEF Isr, Interrupt, Round, IsrReadDone, IsrWriteByte, IsrWriteDone, txRing, rxRing
  <2>3. CASE Continue
    BY <1>3, <2>3
    DEF Continue, InitUart, InitTimer, WriteRoom, WritePublish, WriteKick, WriteWait,
        CloseWait, ReadRoom, ReadCopy, ReadPublish, ReadWait, ReadEnable, txRing, rxRing
  <2>. QED
    BY <2>1, <2>2, <2>3 DEF UartNext
<1>. QED
  BY <1>1, <1>2, <1>3

THEOREM UartTypesAlways == UartSpec => []UartTypes
<1>1. Streams /\ UartTypes /\ [UartNext]_uartVars => UartTypes'
  BY WatchStep, BudgetStep, RingsStep DEF UartTypes
<1>2. Indices /\ OutputOrder /\ InputOrder => Streams
  BY DEF Streams
<1>. QED
  BY <1>1, <1>2, UartTypesInit, OutputOrderAlways, InputOrderAlways, PTL DEF UartSpec

\* The indices stay in the rings, the FIFOs in their sizes, the watch in its range;
\* the rings hold nothing but bytes that were written, or typed.
THEOREM UartTypeCorrect == UartSpec => []UartTypeOK
<1>1. Indices /\ OutputOrder /\ InputOrder /\ UartTypes => UartTypeOK
  <2> SUFFICES ASSUME Streams, UartTypes PROVE UartTypeOK
    BY DEF Streams
  <2>1. /\ written \in Nat /\ typed \in Nat /\ fetched \in Nat /\ fetched <= typed
        /\ count \in Nat /\ n \in Nat /\ MAX_CALL \in Nat
    BY StreamNumbers
  <2>2. count \in 0..MAX_CALL /\ n \in Slots
    BY <2>1 DEF UartTypes, Budget
  <2>3. /\ tx_in \in Slots /\ tx_out \in Slots /\ rx_in \in Slots /\ rx_out \in Slots
        /\ in \in Slots /\ out \in Slots
    BY DEF Streams, Indices
  <2>4. Len(txfifo) <= TX_FIFO /\ space <= TX_FIFO - Len(txfifo)
    BY FifoSizes DEF Streams, OutputOrder
  <2>5. Len(rxfifo) <= RX_FIFO
    <3>1. Len(rxfifo) = typed - fetched
      BY <2>1, SpanIsSeq DEF Streams, InputOrder
    <3>. QED
      BY <3>1 DEF Streams, InputOrder
  <2>. QED
    BY <2>2, <2>3, <2>4, <2>5 DEF UartTypes, Rings, Watch, UartTypeOK
<1>. QED
  BY <1>1, UartTypesAlways, OutputOrderAlways, InputOrderAlways, PTL
=============================================================================
