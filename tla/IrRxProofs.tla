------------------------------ MODULE IrRxProofs ------------------------------
(***************************************************************************)
(* Theorems about the IR receiver under arbitrary light, for every value   *)
(* of its timing constants: the types, the recv flag, and how long a frame *)
(* takes at least and at most.                                             *)
(***************************************************************************)
EXTENDS IrRxNoise, TLAPS

\* An edge of the clock, under reset or not, in any light.
NoiseStep == NoiseEdge \/ NoiseReset

\* A byte with a bit shifted in is a byte.
LEMMA ShiftInIsByte ==
  ASSUME shift_reg \in RxByte, NEW bit \in BOOLEAN PROVE ShiftIn(bit) \in RxByte
BY IrRxAssumption DEF RxByte, RxBits, ShiftIn

\* The cleared register is a byte.
LEMMA ZeroIsByte == RxZero \in RxByte
BY DEF RxZero, RxByte

\* The initial state is well typed.
LEMMA TypeInit == NoiseInit => IrRxTypeOK
<1> SUFFICES ASSUME NoiseInit PROVE IrRxTypeOK
  OBVIOUS
<1> USE DEF NoiseInit, IrRxInit
<1>1. rx_bits \in RxBits /\ tick_count \in 0..TICK_MAX
  BY IrRxAssumption DEF RxBits
<1>2. rx_state \in RxState
  BY DEF RxState
<1>. QED
  BY <1>1, <1>2, ZeroIsByte DEF IrRxTypeOK

\* The end of a level keeps the registers of the frame in their types.
LEMMA LevelEndsType ==
  ASSUME IrRxTypeOK, rx_state # "VALIDATE", LevelEnds
  PROVE  /\ rx_state' \in RxState /\ tick_count' \in 0..TICK_MAX
         /\ rx_bits' \in RxBits /\ shift_reg' \in RxByte /\ recv' \in BOOLEAN
<1> USE DEF IrRxTypeOK, LevelEnds
<1>1. tick_count' \in 0..TICK_MAX /\ rx_state' \in RxState
  BY IrRxAssumption DEF RxState
<1>2. /\ (tick_count > BIT_THRESHOLD) \in BOOLEAN
      /\ Within(BURST_MIN, BURST_MAX) \in BOOLEAN
      /\ Within(SPACE_MIN, SPACE_MAX) \in BOOLEAN
      /\ Within(DATA_BURST_MIN, DATA_BURST_MAX) \in BOOLEAN
  BY DEF Within
<1>3. Expected \in BOOLEAN
  BY <1>2, Zenon DEF Expected
<1>4. rx_bits' \in RxBits
  BY IrRxAssumption DEF RxBits
<1>5. shift_reg' \in RxByte
  <2>1. ShiftIn(tick_count > BIT_THRESHOLD) \in RxByte
    BY <1>2, ShiftInIsByte
  <2>. QED
    BY <2>1, ZeroIsByte
<1>6. recv' \in BOOLEAN
  BY <1>3, Zenon
<1>. QED
  BY <1>1, <1>4, <1>5, <1>6

\* So does a cycle of the state machine, whichever way it goes.
LEMMA FrameType ==
  ASSUME IrRxTypeOK, Frame
  PROVE  /\ rx_state' \in RxState /\ tick_count' \in 0..TICK_MAX
         /\ rx_bits' \in RxBits /\ shift_reg' \in RxByte /\ recv' \in BOOLEAN
<1>1. CASE TimedOut
  <2>1. rx_bits' \in RxBits /\ tick_count' \in 0..TICK_MAX
    BY <1>1, IrRxAssumption DEF Frame, RxBits
  <2>. QED
    BY <1>1, <2>1, ZeroIsByte DEF Frame, RxState
<1>2. CASE ~TimedOut /\ rx_state = "VALIDATE"
  <2>1. tick_count' \in 0..TICK_MAX
    BY <1>2, IrRxAssumption DEF Frame, IrRxTypeOK
  <2>. QED
    BY <1>2, <2>1 DEF Frame, IrRxTypeOK, RxState
<1>3. CASE ~TimedOut /\ rx_state # "VALIDATE" /\ LevelEnds
  BY <1>3, LevelEndsType
<1>4. CASE ~TimedOut /\ rx_state # "VALIDATE" /\ LevelHolds
  BY <1>4, IrRxAssumption DEF LevelHolds, IrRxTypeOK
<1>. QED
  BY <1>1, <1>2, <1>3, <1>4 DEF Frame, Level

\* An edge of the clock keeps every register in its type.
LEMMA TypeStep == IrRxTypeOK /\ [NoiseStep]_noiseVars => IrRxTypeOK'
<1> SUFFICES ASSUME IrRxTypeOK, [NoiseStep]_noiseVars PROVE IrRxTypeOK'
  OBVIOUS
<1>1. ASSUME NEW level \in BOOLEAN, RxEdge(level) PROVE IrRxTypeOK'
  <2>1. /\ rx_state' \in RxState /\ tick_count' \in 0..TICK_MAX
        /\ rx_bits' \in RxBits /\ shift_reg' \in RxByte /\ recv' \in BOOLEAN
    BY <1>1, FrameType DEF RxEdge
  <2>. QED
    BY <1>1, <2>1 DEF RxEdge, Synchronise, IrRxTypeOK
<1>2. ASSUME NEW level \in BOOLEAN, RxReset(level) PROVE IrRxTypeOK'
  <2>1. rx_bits' \in RxBits /\ tick_count' \in 0..TICK_MAX
    BY <1>2, IrRxAssumption DEF RxReset, RxBits
  <2>. QED
    BY <1>2, <2>1, ZeroIsByte DEF RxReset, Synchronise, IrRxTypeOK, RxState
<1>3. CASE UNCHANGED noiseVars
  BY <1>3 DEF noiseVars, irRxVars, IrRxTypeOK
<1>. QED
  BY <1>1, <1>2, <1>3 DEF NoiseStep, NoiseEdge, NoiseReset

\* The registers of the receiver keep their types in any light.
THEOREM RxTypeCorrect == NoiseSpec => []IrRxTypeOK
BY TypeInit, TypeStep, PTL DEF NoiseSpec, NoiseStep

-----------------------------------------------------------------------------
\* recv follows the state through every way out of a frame.
LEMMA RecvStep == RecvAgrees /\ IrRxTypeOK /\ [NoiseStep]_noiseVars => RecvAgrees'
<1> SUFFICES ASSUME RecvAgrees, IrRxTypeOK, [NoiseStep]_noiseVars
             PROVE  RecvAgrees'
  OBVIOUS
<1> USE DEF RecvAgrees
<1>1. ASSUME NEW level \in BOOLEAN, RxReset(level) PROVE RecvAgrees'
  BY <1>1 DEF RxReset
<1>2. ASSUME Frame PROVE RecvAgrees'
  <2>1. CASE TimedOut
    BY <1>2, <2>1 DEF Frame
  <2>2. CASE ~TimedOut /\ rx_state = "VALIDATE"
    BY <1>2, <2>2 DEF Frame
  <2>3. CASE rx_state # "VALIDATE" /\ LevelHolds
    BY <2>3 DEF LevelHolds
  <2>4. CASE rx_state = "IDLE" /\ LevelEnds
    <3>1. Expected <=> prev_level
      BY <2>4 DEF Expected
    <3>. QED
      BY <2>4, <3>1 DEF LevelEnds
  <2>5. CASE rx_state \notin {"IDLE", "VALIDATE"} /\ LevelEnds
    BY <2>5 DEF LevelEnds, IrRxTypeOK, RxState
  <2>. QED
    BY <1>2, <2>1, <2>2, <2>3, <2>4, <2>5 DEF Frame, Level
<1>3. CASE UNCHANGED noiseVars
  BY <1>3 DEF noiseVars, irRxVars
<1>. QED
  BY <1>1, <1>2, <1>3 DEF NoiseStep, NoiseEdge, NoiseReset, RxEdge

\* The output recv says whether a frame is coming in, whatever the light does.
THEOREM RecvAlwaysAgrees == NoiseSpec => []RecvAgrees
<1>1. NoiseInit => RecvAgrees
  BY DEF NoiseInit, IrRxInit, RecvAgrees
<1>. QED
  BY <1>1, RecvStep, RxTypeCorrect, PTL DEF NoiseSpec, NoiseStep

-----------------------------------------------------------------------------
\* The inductive invariant behind the two bounds: how much of the longest, and
\* of the shortest, frame lies before the level that is being timed.
BitMost == (DATA_BURST_MAX + 1) + TIMEOUT
BitLeast == (DATA_BURST_MIN + 1) + 1
HeaderMost == (BURST_MAX + 1) + (SPACE_MAX + 1) + 1
HeaderLeast == (BURST_MIN + 1) + (SPACE_MIN + 1) + 1

Between(least, most) == least + tick_count <= busy /\ busy <= most + tick_count

FrameTime ==
  /\ busy \in Nat
  /\ rx_state = "IDLE" => busy = 0
  /\ rx_state # "IDLE" => tick_count <= TIMEOUT
  /\ rx_state = "HEADER_BURST" => Between(1, 1)
  /\ rx_state = "HEADER_SPACE" => Between(BURST_MIN + 2, BURST_MAX + 2)
  /\ rx_state = "DATA_BURST" => Between(HeaderLeast + rx_bits * BitLeast,
                                        HeaderMost + rx_bits * BitMost)
  /\ rx_state = "DATA_SPACE" =>
       Between(HeaderLeast + rx_bits * BitLeast + DATA_BURST_MIN + 1,
               HeaderMost + rx_bits * BitMost + DATA_BURST_MAX + 1)
  /\ rx_state = "VALIDATE" => FRAME_MIN <= busy /\ busy <= FRAME_MAX

\* Multiples of a bit time are ordered as the numbers of bits are.
LEMMA Multiples ==
  ASSUME NEW k \in Nat, NEW n \in Nat, k <= n, NEW c \in Nat
  PROVE  /\ k * c \in Nat /\ n * c \in Nat /\ k * c <= n * c
         /\ (k + 1) * c = k * c + c
OBVIOUS

\* The constants of a frame, as sums of natural numbers.
LEMMA FrameConstants ==
  /\ BitMost \in Nat /\ BitLeast \in Nat /\ HeaderMost \in Nat /\ HeaderLeast \in Nat
  /\ FRAME_MAX = HeaderMost + (LAST_BIT + 1) * BitMost
  /\ FRAME_MIN = HeaderLeast + (LAST_BIT + 1) * BitLeast
  /\ FRAME_MAX \in Nat /\ FRAME_MIN \in Nat
  /\ FRAME_MAX >= HeaderMost + LAST_BIT * BitMost + BitMost
<1>1. BitMost \in Nat /\ BitLeast \in Nat /\ HeaderMost \in Nat /\ HeaderLeast \in Nat
  BY IrRxAssumption DEF BitMost, BitLeast, HeaderMost, HeaderLeast
<1>2. /\ (LAST_BIT + 1) * BitMost \in Nat /\ (LAST_BIT + 1) * BitLeast \in Nat
      /\ LAST_BIT * BitMost \in Nat
      /\ (LAST_BIT + 1) * BitMost = LAST_BIT * BitMost + BitMost
  BY <1>1, Multiples, IrRxAssumption
<1>3. /\ FRAME_MAX = HeaderMost + (LAST_BIT + 1) * BitMost
      /\ FRAME_MIN = HeaderLeast + (LAST_BIT + 1) * BitLeast
  <2> DEFINE most == (LAST_BIT + 1) * BitMost
             least == (LAST_BIT + 1) * BitLeast
  <2>1. /\ FRAME_MAX = (BURST_MAX + 1) + (SPACE_MAX + 1) + most + 1
        /\ FRAME_MIN = (BURST_MIN + 1) + (SPACE_MIN + 1) + least + 1
    BY DEF FRAME_MAX, FRAME_MIN, BitMost, BitLeast
  <2>2. most \in Nat /\ least \in Nat
    BY <1>2
  <2> HIDE DEF most, least
  <2>3. FRAME_MAX = HeaderMost + most /\ FRAME_MIN = HeaderLeast + least
    BY <2>1, <2>2, IrRxAssumption DEF HeaderMost, HeaderLeast
  <2>. QED
    BY <2>3 DEF most, least
<1>. QED
  BY <1>1, <1>2, <1>3

\* What the invariant says of a frame in progress is within the bounds.
LEMMA TimeBounds ==
  ASSUME FrameTime, IrRxTypeOK
  PROVE  busy <= FRAME_MAX /\ (rx_state = "VALIDATE" => busy >= FRAME_MIN)
<1> USE DEF FrameTime, Between
<1>1. tick_count \in Nat /\ rx_bits \in Nat /\ rx_bits <= LAST_BIT
  BY IrRxAssumption DEF IrRxTypeOK, RxBits
<1>2. rx_bits * BitMost \in Nat /\ rx_bits * BitMost <= LAST_BIT * BitMost
      /\ LAST_BIT * BitMost \in Nat
  BY <1>1, FrameConstants, Multiples, IrRxAssumption
<1>3. BitMost = DATA_BURST_MAX + 1 + TIMEOUT /\ HeaderMost >= BURST_MAX + 3
  BY IrRxAssumption DEF BitMost, HeaderMost
<1>4. CASE rx_state = "DATA_BURST" \/ rx_state = "DATA_SPACE"
  <2> DEFINE bits == rx_bits * BitMost
             all == LAST_BIT * BitMost
  <2>1. /\ bits \in Nat /\ all \in Nat /\ bits <= all
        /\ FRAME_MAX >= HeaderMost + all + BitMost
    BY <1>2, FrameConstants
  <2>2. busy <= HeaderMost + bits + DATA_BURST_MAX + 1 + tick_count
    <3>1. HeaderMost + bits \in Nat
      BY <2>1, FrameConstants
    <3>. QED
      BY <1>1, <1>4, <3>1, IrRxAssumption
  <2>3. tick_count <= TIMEOUT
    BY <1>4
  <2> HIDE DEF bits, all
  <2>. QED
    BY <1>1, <1>3, <1>4, <2>1, <2>2, <2>3, FrameConstants, IrRxAssumption
<1>5. CASE rx_state \in {"IDLE", "HEADER_BURST", "HEADER_SPACE", "VALIDATE"}
  BY <1>1, <1>2, <1>3, <1>5, FrameConstants, IrRxAssumption
<1>. QED
  BY <1>4, <1>5 DEF IrRxTypeOK, RxState

\* What the end of a level adds to the time of the frame.
LEMMA LevelEndsTime ==
  ASSUME FrameTime, IrRxTypeOK, ~TimedOut, rx_state # "VALIDATE", LevelEnds, Watch
  PROVE  FrameTime'
<1>1. tick_count \in Nat /\ rx_bits \in Nat /\ rx_bits <= LAST_BIT
  BY IrRxAssumption DEF IrRxTypeOK, RxBits
<1>2. tick_count' = 0
  BY DEF LevelEnds
<1>3. rx_state' # "IDLE" => busy' = busy + 1
  BY TimeBounds, FrameConstants DEF Watch, FrameTime
<1>4. CASE rx_state' = "IDLE"
  BY <1>4 DEF FrameTime, Watch
<1>5. CASE rx_state = "IDLE" /\ Expected
  BY <1>2, <1>3, <1>5, IrRxAssumption DEF LevelEnds, FrameTime, Between
<1>6. CASE rx_state = "HEADER_BURST" /\ Expected
  <2>1. rx_state' = "HEADER_SPACE"
    BY <1>6 DEF LevelEnds
  <2>2. BURST_MIN <= tick_count /\ tick_count <= BURST_MAX
    BY <1>6 DEF Expected, Within
  <2>. QED
    BY <1>1, <1>2, <1>3, <1>6, <2>1, <2>2, IrRxAssumption DEF FrameTime, Between
<1>7. CASE rx_state = "HEADER_SPACE" /\ Expected
  <2>1. rx_state' = "DATA_BURST" /\ rx_bits' = 0
    BY <1>7 DEF LevelEnds
  <2>2. SPACE_MIN <= tick_count /\ tick_count <= SPACE_MAX
    BY <1>7 DEF Expected, Within
  <2>3. 0 * BitMost = 0 /\ 0 * BitLeast = 0
    BY FrameConstants
  <2>4. HeaderLeast <= busy' /\ busy' <= HeaderMost /\ busy' \in Nat
    BY <1>1, <1>3, <1>7, <2>1, <2>2, IrRxAssumption
       DEF FrameTime, Between, HeaderLeast, HeaderMost
  <2>. QED
    BY <1>2, <2>1, <2>3, <2>4, FrameConstants, IrRxAssumption DEF FrameTime, Between
<1>8. CASE rx_state = "DATA_BURST" /\ Expected
  <2>1. rx_state' = "DATA_SPACE" /\ rx_bits' = rx_bits
    BY <1>8 DEF LevelEnds
  <2>2. DATA_BURST_MIN <= tick_count /\ tick_count <= DATA_BURST_MAX
    BY <1>8 DEF Expected, Within
  <2> DEFINE least == rx_bits * BitLeast
             most == rx_bits * BitMost
  <2>3. least \in Nat /\ most \in Nat
    BY <1>1, Multiples, FrameConstants, IrRxAssumption
  <2>4. HeaderLeast + least + tick_count <= busy /\ busy <= HeaderMost + most + tick_count
    BY <1>8 DEF FrameTime, Between
  <2> HIDE DEF least, most
  <2>5. /\ HeaderLeast + least + DATA_BURST_MIN + 1 <= busy'
        /\ busy' <= HeaderMost + most + DATA_BURST_MAX + 1 /\ busy' \in Nat
    BY <1>1, <1>3, <2>1, <2>2, <2>3, <2>4, FrameConstants, IrRxAssumption
       DEF FrameTime
  <2>6. Between(HeaderLeast + rx_bits * BitLeast + DATA_BURST_MIN + 1,
                HeaderMost + rx_bits * BitMost + DATA_BURST_MAX + 1)'
    BY <1>2, <2>1, <2>3, <2>5, FrameConstants, IrRxAssumption DEF Between, least, most
  <2>. QED
    BY <1>2, <2>1, <2>5, <2>6, IrRxAssumption DEF FrameTime
<1>9. CASE rx_state = "DATA_SPACE"
  <2>1. tick_count < TIMEOUT
    BY <1>1, <1>9, IrRxAssumption DEF TimedOut
  <2> DEFINE least == rx_bits * BitLeast
             most == rx_bits * BitMost
  <2>2. least \in Nat /\ most \in Nat
    BY <1>1, Multiples, FrameConstants, IrRxAssumption
  <2>3. /\ HeaderLeast + least + DATA_BURST_MIN + 1 + tick_count <= busy
        /\ busy <= HeaderMost + most + DATA_BURST_MAX + 1 + tick_count
    BY <1>9 DEF FrameTime, Between
  <2>4. (rx_bits + 1) * BitLeast = least + BitLeast
        /\ (rx_bits + 1) * BitMost = most + BitMost
    BY <1>1, Multiples, FrameConstants, IrRxAssumption
  <2>5. rx_state' # "IDLE"
    BY <1>9 DEF LevelEnds, Expected
  <2> HIDE DEF least, most
  <2>6. /\ HeaderLeast + (least + BitLeast) <= busy'
        /\ busy' <= HeaderMost + (most + BitMost) /\ busy' \in Nat
    BY <1>1, <1>3, <2>1, <2>2, <2>3, <2>5, FrameConstants, IrRxAssumption
       DEF FrameTime, BitLeast, BitMost
  <2>7. CASE rx_bits = LAST_BIT
    <3>1. rx_state' = "VALIDATE"
      BY <1>9, <2>7 DEF LevelEnds, Expected
    <3>2. FRAME_MIN <= busy' /\ busy' <= FRAME_MAX
      BY <2>4, <2>6, <2>7, FrameConstants
    <3>3. FRAME_MIN' = FRAME_MIN /\ FRAME_MAX' = FRAME_MAX
      BY DEF FRAME_MIN, FRAME_MAX
    <3>. QED
      BY <1>2, <2>6, <3>1, <3>2, <3>3, IrRxAssumption DEF FrameTime
  <2>8. CASE rx_bits # LAST_BIT
    <3>1. rx_state' = "DATA_BURST" /\ rx_bits' = rx_bits + 1
      BY <1>9, <2>8 DEF LevelEnds, Expected
    <3>2. Between(HeaderLeast + rx_bits * BitLeast, HeaderMost + rx_bits * BitMost)'
      BY <1>2, <2>2, <2>4, <2>6, <3>1, FrameConstants, IrRxAssumption
         DEF Between, HeaderLeast, HeaderMost, BitLeast, BitMost
    <3>. QED
      BY <1>2, <2>6, <3>1, <3>2, IrRxAssumption DEF FrameTime
  <2>. QED
    BY <2>7, <2>8
<1>10. ~Expected => rx_state' = "IDLE"
  BY DEF LevelEnds
<1>. QED
  BY <1>4, <1>5, <1>6, <1>7, <1>8, <1>9, <1>10 DEF IrRxTypeOK, RxState

\* A level that goes on: the frame and its level grow by the same cycle.
LEMMA LevelHoldsTime ==
  ASSUME FrameTime, IrRxTypeOK, ~TimedOut, rx_state # "VALIDATE", LevelHolds, Watch
  PROVE  FrameTime'
<1>1. rx_state' = rx_state /\ rx_bits' = rx_bits
  BY DEF LevelHolds
<1>2. CASE rx_state = "IDLE"
  BY <1>1, <1>2 DEF FrameTime, Watch
<1>3. CASE rx_state # "IDLE"
  <2>1. tick_count \in Nat /\ tick_count < TIMEOUT
    BY <1>3, IrRxAssumption DEF TimedOut, IrRxTypeOK
  <2>2. tick_count' = tick_count + 1
    BY <2>1, IrRxAssumption DEF LevelHolds
  <2>3. busy' = busy + 1 /\ busy \in Nat
    BY <1>1, <1>3, TimeBounds, FrameConstants DEF Watch, FrameTime
  <2>4. ASSUME NEW least \in Nat, NEW most \in Nat, Between(least, most)
        PROVE  least + tick_count' <= busy' /\ busy' <= most + tick_count'
    BY <2>1, <2>2, <2>3, <2>4 DEF Between
  <2>5. rx_bits * BitLeast \in Nat /\ rx_bits * BitMost \in Nat
    BY Multiples, FrameConstants, IrRxAssumption DEF IrRxTypeOK, RxBits
  <2>6. CASE rx_state = "HEADER_BURST"
    BY <1>1, <2>1, <2>2, <2>3, <2>4, <2>6, IrRxAssumption DEF FrameTime, Between
  <2>7. CASE rx_state = "HEADER_SPACE"
    BY <1>1, <2>1, <2>2, <2>3, <2>4, <2>7, IrRxAssumption DEF FrameTime, Between
  <2>8. CASE rx_state = "DATA_BURST"
    <3>1. Between(HeaderLeast + rx_bits * BitLeast, HeaderMost + rx_bits * BitMost)'
      <4>1. /\ HeaderLeast + rx_bits * BitLeast \in Nat
            /\ HeaderMost + rx_bits * BitMost \in Nat
        BY <2>5, FrameConstants
      <4>2. Between(HeaderLeast + rx_bits * BitLeast, HeaderMost + rx_bits * BitMost)
        BY <2>8 DEF FrameTime
      <4>. QED
        BY <1>1, <2>4, <4>1, <4>2 DEF Between, HeaderLeast, HeaderMost, BitLeast, BitMost
    <3>. QED
      BY <1>1, <2>1, <2>2, <2>3, <2>8, <3>1, IrRxAssumption DEF FrameTime
  <2>9. CASE rx_state = "DATA_SPACE"
    <3>1. Between(HeaderLeast + rx_bits * BitLeast + DATA_BURST_MIN + 1,
                  HeaderMost + rx_bits * BitMost + DATA_BURST_MAX + 1)'
      <4>1. /\ HeaderLeast + rx_bits * BitLeast + DATA_BURST_MIN + 1 \in Nat
            /\ HeaderMost + rx_bits * BitMost + DATA_BURST_MAX + 1 \in Nat
        BY <2>5, FrameConstants, IrRxAssumption
      <4>2. Between(HeaderLeast + rx_bits * BitLeast + DATA_BURST_MIN + 1,
                    HeaderMost + rx_bits * BitMost + DATA_BURST_MAX + 1)
        BY <2>9 DEF FrameTime
      <4>. QED
        BY <1>1, <2>4, <4>1, <4>2 DEF Between, HeaderLeast, HeaderMost, BitLeast, BitMost
    <3>. QED
      BY <1>1, <2>1, <2>2, <2>3, <2>9, <3>1, IrRxAssumption DEF FrameTime
  <2>. QED
    BY <1>3, <2>6, <2>7, <2>8, <2>9 DEF IrRxTypeOK, RxState
<1>. QED
  BY <1>2, <1>3

\* An edge of the clock keeps the account of the time of the frame.
LEMMA TimeStep == FrameTime /\ IrRxTypeOK /\ [NoiseStep]_noiseVars => FrameTime'
<1> SUFFICES ASSUME FrameTime, IrRxTypeOK, [NoiseStep]_noiseVars
             PROVE  FrameTime'
  OBVIOUS
<1>1. ASSUME rx_state' = "IDLE", Watch PROVE FrameTime'
  BY <1>1 DEF FrameTime, Watch
<1>2. ASSUME NEW level \in BOOLEAN, RxReset(level), Watch PROVE FrameTime'
  BY <1>1, <1>2 DEF RxReset
<1>3. ASSUME Frame, Watch PROVE FrameTime'
  <2>1. CASE TimedOut \/ rx_state = "VALIDATE"
    BY <1>1, <1>3, <2>1 DEF Frame
  <2>2. CASE ~TimedOut /\ rx_state # "VALIDATE"
    BY <1>3, <2>2, LevelEndsTime, LevelHoldsTime DEF Frame, Level
  <2>. QED
    BY <2>1, <2>2
<1>4. CASE UNCHANGED noiseVars
  BY <1>4 DEF noiseVars, irRxVars, FrameTime, Between, FRAME_MIN, FRAME_MAX,
              HeaderLeast, HeaderMost, BitLeast, BitMost
<1>. QED
  BY <1>2, <1>3, <1>4 DEF NoiseStep, NoiseEdge, NoiseReset, RxEdge

\* The time of a frame is always accounted for.
THEOREM FrameTimeAlways == NoiseSpec => []FrameTime
<1>1. NoiseInit => FrameTime
  BY DEF NoiseInit, IrRxInit, FrameTime
<1>. QED
  BY <1>1, TimeStep, RxTypeCorrect, PTL DEF NoiseSpec, NoiseStep

\* No light keeps the receiver busy for longer than FRAME_MAX cycles, for all
\* timing constants.
THEOREM FrameDurations == NoiseSpec => []FrameBounded
<1>1. FrameTime /\ IrRxTypeOK => FrameBounded
  BY TimeBounds DEF FrameBounded
<1>. QED
  BY <1>1, FrameTimeAlways, RxTypeCorrect, PTL

\* No two packets are delivered within FRAME_MIN cycles, whatever the light.
THEOREM PacketsApart == NoiseSpec => []FramesApart
<1>1. FrameTime /\ IrRxTypeOK => FramesApart
  BY TimeBounds DEF FramesApart
<1>. QED
  BY <1>1, FrameTimeAlways, RxTypeCorrect, PTL
=============================================================================
