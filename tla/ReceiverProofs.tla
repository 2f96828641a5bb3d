---------------------------- MODULE ReceiverProofs ----------------------------
(***************************************************************************)
(* The receiver board for every threshold, every duration of the scanner's *)
(* states, every length of a sample, every light and every use of the      *)
(* reset button: what the hysteresis of target detection promises for any  *)
(* sequence of readings, and that in a steady light the readings are those *)
(* of their own quadrants.                                                 *)
(***************************************************************************)
EXTENDS ReceiverBoard, SequenceTheorems, WellFoundedInduction, TLAPS

\* The counter leads the darkness that is left before the target is dropped,
\* and trails the light that it took.
Hysteresis ==
  /\ confidence_counter \in 0..TARGET_CONFIDENCE_MAX
  /\ on_target \in BOOLEAN /\ lit \in Nat /\ dark \in Nat
  /\ on_target => confidence_counter + dark <= TARGET_CONFIDENCE_MAX
  /\ ~on_target => lit > LOCK \/ confidence_counter <= lit

\* The assumptions on the thresholds, one by one.
LEMMA Thresholds ==
  TARGET_CONFIDENCE_MAX \in Nat /\ LOCK \in Nat /\ LOCK < TARGET_CONFIDENCE_MAX
BY QpdAssumption DEF QpdAssumption

\* Power-up and reset establish the invariant.
LEMMA HysteresisCleared ==
  ASSUME confidence_counter = 0, on_target = FALSE, lit = 0, dark = 0
  PROVE  Hysteresis
<1>1. confidence_counter \in 0..TARGET_CONFIDENCE_MAX
  BY Thresholds, SMT
<1>2. lit \in Nat /\ dark \in Nat /\ confidence_counter <= lit
  BY SMT
<1> QED BY <1>1, <1>2, Zenon DEF Hysteresis

\* So does every step that clears the confidence.
LEMMA HysteresisRestarted ==
  ASSUME confidence_counter' = 0, on_target' = FALSE, lit' = 0, dark' = 0
  PROVE  Hysteresis'
<1>1. confidence_counter' \in 0..TARGET_CONFIDENCE_MAX
  BY Thresholds, SMT
<1>2. lit' \in Nat /\ dark' \in Nat /\ confidence_counter' <= lit'
  BY SMT
<1> QED BY <1>1, <1>2, Zenon DEF Hysteresis

\* A lit cycle keeps the invariant; a target is reported only if more than LOCK
\* lit cycles came before it.
LEMMA LitCycle ==
  ASSUME Hysteresis, Confidence(TRUE), Remember(TRUE)
  PROVE  Hysteresis' /\ (~on_target /\ on_target' => lit > LOCK)
BY Thresholds DEF Hysteresis, Confidence, Remember

\* A dark cycle keeps the invariant and reports nothing.
LEMMA DarkCycle ==
  ASSUME Hysteresis, Confidence(FALSE), Remember(FALSE)
  PROVE  Hysteresis' /\ ~(~on_target /\ on_target')
<1>1. CASE confidence_counter > 0
  BY <1>1, Thresholds
  DEF Hysteresis, Confidence, Remember
<1>2. CASE ~(confidence_counter > 0)
  <2>1. confidence_counter' = 0
    BY <1>2 DEF Hysteresis, Confidence
  <2>2. on_target' = FALSE
    BY <1>2 DEF Confidence
  <2>3. lit' \in Nat /\ dark' \in Nat
    BY <2>2 DEF Hysteresis, Remember
  <2>4. confidence_counter' <= lit'
    BY <2>1, <2>3
  <2>5. confidence_counter' \in 0..TARGET_CONFIDENCE_MAX
    BY <2>1, Thresholds
  <2> QED BY <2>2, <2>3, <2>4, <2>5, Zenon DEF Hysteresis
<1> QED BY <1>1, <1>2

\* A cycle of the clock on which reset is not held.
LEMMA SeenKeepsHysteresis ==
  ASSUME Hysteresis, NEW reading, Seen(reading)
  PROVE  Hysteresis' /\ (~on_target /\ on_target' => lit > LOCK)
<1> DEFINE bright == Brightness(reading) > SUM_THRESH
<1>1. Confidence(bright) /\ Remember(bright)
  BY DEF Seen, QpdEdge
<1>2. CASE bright
  <2>1. Confidence(TRUE) /\ Remember(TRUE)
    BY <1>1, <1>2 DEF Confidence, Remember
  <2> QED BY <2>1, LitCycle
<1>3. CASE ~bright
  <2>1. Confidence(FALSE) /\ Remember(FALSE)
    BY <1>1, <1>3 DEF Confidence, Remember
  <2> QED BY <2>1, DarkCycle
<1> QED BY <1>2, <1>3

\* Every step of the board keeps the invariant, and reports a target only after
\* enough light.
LEMMA BoardKeepsHysteresis ==
  ASSUME Hysteresis, [ReceiverNext]_boardVars
  PROVE  Hysteresis' /\ (~on_target /\ on_target' => lit > LOCK)
<1>1. ASSUME Edge, reset
      PROVE  Hysteresis' /\ ~on_target'
  <2>1. ResetHeld(Readings) BY <1>1 DEF Edge
  <2>2. /\ confidence_counter' = 0 /\ on_target' = FALSE
        /\ lit' = 0 /\ dark' = 0
    BY <2>1 DEF ResetHeld, QpdReset, ConfReset, Forget
  <2> QED BY <2>2, HysteresisRestarted
<1>2. ASSUME Edge, ~reset
      PROVE  Hysteresis' /\ (~on_target /\ on_target' => lit > LOCK)
  BY <1>2, SeenKeepsHysteresis DEF Edge
<1>3. ASSUME PressReset
      PROVE  Hysteresis' /\ ~on_target'
  <2>1. /\ confidence_counter' = 0 /\ on_target' = FALSE
        /\ lit' = 0 /\ dark' = 0
    BY <1>3 DEF PressReset, ConfReset, Forget
  <2> QED BY <2>1, HysteresisRestarted
<1>4. ASSUME \/ ChangeLight \/ ReleaseReset \/ UNCHANGED boardVars
      PROVE  Hysteresis' /\ on_target' = on_target
  <2>1. UNCHANGED <<qpdVars, histVars>>
    BY <1>4 DEF ChangeLight, ReleaseReset, boardVars
  <2>2. UNCHANGED <<confidence_counter, on_target, lit, dark>>
    BY <2>1 DEF qpdVars, confVars, histVars
  <2> QED BY <2>2 DEF Hysteresis
<1> QED BY <1>1, <1>2, <1>3, <1>4 DEF ReceiverNext

\* The inductive invariant of the hysteresis, on the board.
THEOREM HysteresisAlways == ReceiverSpec => []Hysteresis
<1>1. ReceiverInit => Hysteresis
  BY HysteresisCleared DEF ReceiverInit, QpdInit, HistInit
<1>2. Hysteresis /\ [ReceiverNext]_boardVars => Hysteresis'
  BY BoardKeepsHysteresis
<1> QED BY <1>1, <1>2, PTL DEF ReceiverSpec

\* After TARGET_CONFIDENCE_MAX cycles of darkness the board no longer says
\* that the laser is on target, however bright it was before.
THEOREM DroppedInTime == ReceiverSpec => []DropsInTime
<1>1. Hysteresis => DropsInTime
  BY Thresholds DEF Hysteresis, DropsInTime
<1> QED BY <1>1, HysteresisAlways, PTL

\* Flicker counts against the target: it takes more than LOCK lit cycles since
\* the last one was dropped to report it.
THEOREM ReportedAfterEnough == ReceiverSpec => LocksAfterEnough
<1>1. Hysteresis /\ [ReceiverNext]_boardVars
        => [~on_target /\ on_target' => lit > LOCK]_<<qpdVars, lit, dark>>
  BY BoardKeepsHysteresis
<1> QED BY <1>1, HysteresisAlways, PTL DEF ReceiverSpec, LocksAfterEnough

-----------------------------------------------------------------------------
(* The types of the registers.                                             *)

\* What the proofs need of the durations.
LEMMA Durations ==
  /\ START \in Nat /\ START >= 1 /\ CONVERT \in Nat /\ CONVERT >= 2
  /\ ACQUIRE \in Nat /\ ACQUIRE >= 1 /\ BITS \in Nat /\ BITS >= 1
BY AdcAssumption DEF AdcAssumption

\* The states of the scanner, and how long each lasts.
LEMMA States ==
  /\ DOMAIN Duration = {"start", "convert", "transfer", "acquire"}
  /\ Duration["start"] = START /\ Duration["convert"] = CONVERT
  /\ Duration["transfer"] = 2 * BITS /\ Duration["acquire"] = ACQUIRE
  /\ Following["start"] = "convert" /\ Following["convert"] = "transfer"
  /\ Following["transfer"] = "acquire" /\ Following["acquire"] = "start"
BY DEF Duration, Following

\* A shift keeps a sample a sample: every bit moves up by one.
LEMMA ShiftBits ==
  ASSUME NEW bits \in Sample, NEW bit \in Bit
  PROVE  /\ Head(bits) = bits[1] /\ Head(bits) \in Bit
         /\ Append(Tail(bits), bit) \in Sample
         /\ \A b \in 1..BITS :
              Append(Tail(bits), bit)[b] = IF b = BITS THEN bit ELSE bits[b + 1]
<1>1. bits \in Seq(Bit) /\ Len(bits) = BITS
  BY Durations, SeqDef, LenProperties DEF Sample
<1>2. bits # <<>>
  BY <1>1, Durations, EmptySeq
<1>3. /\ Head(bits) \in Bit /\ Head(bits) = bits[1]
      /\ Tail(bits) \in Seq(Bit) /\ Len(Tail(bits)) = BITS - 1
      /\ \A b \in 1..BITS - 1 : Tail(bits)[b] = bits[b + 1]
  BY <1>1, <1>2, HeadTailProperties, Durations
<1> DEFINE t == Tail(bits)
<1> HIDE DEF t
<1>4. /\ Append(t, bit) \in Seq(Bit) /\ Len(Append(t, bit)) = BITS
      /\ \A b \in 1..BITS - 1 : Append(t, bit)[b] = t[b]
      /\ Append(t, bit)[BITS] = bit
  <2>1. t \in Seq(Bit) /\ Len(t) = BITS - 1
    BY <1>3 DEF t
  <2> QED BY <2>1, AppendProperties, Durations
<1>5. Append(t, bit) \in Sample
  BY <1>4, LenProperties DEF Sample
<1>6. \A b \in 1..BITS : Append(t, bit)[b] = IF b = BITS THEN bit ELSE bits[b + 1]
  BY <1>3, <1>4, Durations DEF t
<1> QED BY <1>3, <1>5, <1>6 DEF t

\* The states of the scanner and the counts in them.
Counts == state \in {"start", "convert", "transfer", "acquire"}
          /\ count \in 0..Duration[state] - 1

\* The scanner's next state, by the count.
LEMMA SequenceMoves ==
  ASSUME Counts, Sequence
  PROVE  /\ Counts'
         /\ \/ count # 0 /\ state' = state /\ count' = count - 1
            \/ count = 0 /\ state = "start" /\ state' = "convert" /\ count' = CONVERT - 1
            \/ count = 0 /\ state = "convert" /\ state' = "transfer" /\ count' = 2 * BITS - 1
            \/ count = 0 /\ state = "transfer" /\ state' = "acquire" /\ count' = ACQUIRE - 1
            \/ count = 0 /\ state = "acquire" /\ state' = "start" /\ count' = START - 1
<1>1. CASE count # 0
  BY <1>1, States, Durations DEF Counts, Sequence
<1>2. CASE count = 0
  <2>1. state' = Following[state] /\ count' = Duration[state'] - 1
    BY <1>2 DEF Sequence, Goto
  <2>. QED
    BY <1>2, <2>1, States, Durations DEF Counts
<1>. QED
  BY <1>1, <1>2

\* Every light is one level for each quadrant.
LEMMA LightsAreLevels == Lights \subseteq [Quadrants -> Sample]
BY ReceiverAssumption DEF ReceiverAssumption

LEMMA NothingIsSample == Nothing \in Sample /\ Blank \in [Quadrants -> Sample]
BY DEF Nothing, Blank, Sample, Bit

\* The scanner's registers, the converter's, and what is outside.
ScannerTypes ==
  /\ Counts /\ ch \in Quadrants /\ prevch \in Quadrants
  /\ convst \in BOOLEAN /\ sck \in BOOLEAN
  /\ sample \in Sample /\ q \in [Quadrants -> Sample]
ChipTypes == channel \in Quadrants /\ conv \in Sample
OutsideTypes == light \in Lights /\ reset \in BOOLEAN /\ steady \in Nat
ConfTypes ==
  /\ confidence_counter \in 0..TARGET_CONFIDENCE_MAX /\ on_target \in BOOLEAN
  /\ lit \in 0..LOCK + 1 /\ dark \in Nat
MoveTypes ==
  /\ move_x \in BOOLEAN /\ dir_x \in BOOLEAN
  /\ move_y \in BOOLEAN /\ dir_y \in BOOLEAN /\ micro \in BOOLEAN
BoardTypes == ScannerTypes /\ ChipTypes /\ OutsideTypes /\ ConfTypes /\ MoveTypes

\* Four channels, one after the other.
LEMMA NextQuadrant == \A i \in Quadrants : (i + 1) % 4 \in Quadrants
BY DEF Quadrants

\* An edge of the clock keeps the scanner's registers and the converter's.
LEMMA ScannerTypesStep ==
  ASSUME ScannerTypes, ChipTypes,
         ScannerEdge(sdo) \/ ScannerReset(sdo)
  PROVE  ScannerTypes'
<1> USE DEF ScannerTypes
<1>1. sdo \in Bit
  BY ShiftBits DEF sdo, ChipTypes, Bit
<1>2. Shift(sdo) => sample' \in Sample
  BY <1>1, ShiftBits DEF Shift
<1>3. Signals => convst' \in BOOLEAN /\ sck' \in BOOLEAN
  BY DEF Signals
<1>4. CASE ScannerEdge(sdo)
  <2>1. Counts'
    BY <1>4, SequenceMoves DEF ScannerEdge
  <2>2. ch' \in Quadrants /\ prevch' \in Quadrants
    BY <1>4, NextQuadrant DEF ScannerEdge, NextChannel
  <2>3. q' \in [Quadrants -> Sample]
    BY <1>4 DEF ScannerEdge, Save
  <2>. QED
    BY <1>2, <1>3, <1>4, <2>1, <2>2, <2>3 DEF ScannerEdge
<1>5. CASE ScannerReset(sdo)
  <2>1. Counts'
    BY <1>5, States, Durations DEF ScannerReset, Goto, Counts
  <2>. QED
    BY <1>2, <1>3, <1>5, <2>1, NothingIsSample DEF ScannerReset, Quadrants
<1>. QED
  BY <1>4, <1>5

LEMMA ChipTypesStep ==
  ASSUME ScannerTypes, ChipTypes, light \in Lights, Chip(light)
  PROVE  ChipTypes'
<1>1. light \in [Quadrants -> Sample] /\ channel \in Quadrants
  BY LightsAreLevels DEF ChipTypes
<1>2. Append(Tail(conv), 0) \in Sample
  BY ShiftBits DEF ChipTypes, Bit
<1>3. conv' \in Sample
  BY <1>1, <1>2 DEF Chip, ChipTypes
<1>4. channel' \in Quadrants
  BY DEF Chip, ChipTypes, ScannerTypes
<1>. QED
  BY <1>3, <1>4 DEF ChipTypes

\* The detector.
LEMMA AxisTypes ==
  ASSUME NEW offset, NEW dir \in BOOLEAN
  PROVE  Axis(offset, dir).move \in BOOLEAN /\ Axis(offset, dir).dir \in BOOLEAN
<1>1. Axis(offset, dir).move = (Abs(offset) > MOVE_THRESH)
  BY DEF Axis
<1>2. Axis(offset, dir).dir = IF Abs(offset) > MOVE_THRESH THEN offset > 0 ELSE dir
  BY DEF Axis
<1>3. (Abs(offset) > MOVE_THRESH) \in BOOLEAN /\ (offset > 0) \in BOOLEAN
  BY SMT
<1>. QED
  BY <1>1, <1>2, <1>3, Zenon

LEMMA ConfTypesCleared ==
  ASSUME confidence_counter' = 0, on_target' = FALSE, lit' = 0, dark' = 0
  PROVE  ConfTypes'
<1>1. confidence_counter' \in 0..TARGET_CONFIDENCE_MAX /\ lit' \in 0..LOCK + 1 /\ dark' \in Nat
  BY Thresholds, SMT
<1>2. on_target' \in BOOLEAN
  BY Zenon
<1>. QED
  BY <1>1, <1>2, Zenon DEF ConfTypes

LEMMA DetectorTypesStep ==
  ASSUME ConfTypes, MoveTypes, NEW reading, Seen(reading) \/ ResetHeld(reading)
  PROVE  ConfTypes' /\ MoveTypes'
<1>1. MoveTypes'
  <2>1. Movement(reading)
    BY DEF Seen, QpdEdge, ResetHeld, QpdReset
  <2>. QED
    BY <2>1, AxisTypes, Zenon DEF Movement, MoveTypes
<1>2. CASE ResetHeld(reading)
  <2>1. ConfTypes'
    BY <1>2, ConfTypesCleared, Zenon DEF ResetHeld, QpdReset, ConfReset, Forget
  <2>. QED
    BY <1>1, <2>1
<1>3. CASE Seen(reading)
  <2> DEFINE bright == Brightness(reading) > SUM_THRESH
  <2>1. Confidence(bright) /\ Remember(bright) /\ bright \in BOOLEAN
    BY <1>3 DEF Seen, QpdEdge
  <2> HIDE DEF bright
  <2>2. on_target' \in BOOLEAN
    BY <2>1 DEF Confidence, ConfTypes
  <2>3. confidence_counter' \in 0..TARGET_CONFIDENCE_MAX
    BY <2>1, Thresholds DEF Confidence, ConfTypes
  <2>4. lit' \in 0..LOCK + 1
    BY <2>1, Thresholds DEF Remember, ConfTypes
  <2>5. dark' \in Nat
    BY <2>1 DEF Remember, ConfTypes
  <2>. QED
    BY <1>1, <2>2, <2>3, <2>4, <2>5 DEF ConfTypes
<1>. QED
  BY <1>2, <1>3

LEMMA BoardTypesInit == ReceiverInit => BoardTypes
<1> SUFFICES ASSUME ReceiverInit PROVE BoardTypes
  OBVIOUS
<1> USE DEF ReceiverInit
<1>1. Counts
  BY States, Durations DEF AdcInit, Counts
<1>2. ScannerTypes /\ ChipTypes
  <2>1. convst \in BOOLEAN /\ sck \in BOOLEAN
    BY Zenon DEF AdcInit
  <2>2. ch \in Quadrants /\ prevch \in Quadrants
    BY DEF AdcInit, Quadrants
  <2>. QED
    BY <1>1, <2>1, <2>2, NothingIsSample, Zenon DEF AdcInit, ScannerTypes, ChipTypes
<1>3. ConfTypes
  <2>1. on_target \in BOOLEAN
    BY Zenon DEF QpdInit
  <2>2. confidence_counter = 0 /\ lit = 0 /\ dark = 0
    BY DEF QpdInit, HistInit
  <2>. QED
    BY <2>1, <2>2, Thresholds DEF ConfTypes
<1>4. MoveTypes
  BY DEF QpdInit, MoveTypes
<1>5. OutsideTypes
  BY DEF OutsideTypes
<1>. QED
  BY <1>2, <1>3, <1>4, <1>5 DEF BoardTypes

LEMMA BoardTypesStep == BoardTypes /\ [ReceiverNext]_boardVars => BoardTypes'
<1> SUFFICES ASSUME BoardTypes, [ReceiverNext]_boardVars PROVE BoardTypes'
  OBVIOUS
<1>1. CASE Edge
  <2>1. ScannerTypes' /\ ChipTypes'
    BY <1>1, ScannerTypesStep, ChipTypesStep DEF Edge, BoardTypes, OutsideTypes
  <2>2. ConfTypes' /\ MoveTypes'
    BY <1>1, DetectorTypesStep DEF Edge, BoardTypes
  <2>3. OutsideTypes'
    BY <1>1 DEF Edge, BoardTypes, OutsideTypes
  <2>. QED
    BY <2>1, <2>2, <2>3 DEF BoardTypes
<1>2. CASE ChangeLight
  <2>1. UNCHANGED <<adcVars, qpdVars, histVars>> /\ OutsideTypes'
    BY <1>2 DEF ChangeLight, BoardTypes, OutsideTypes
  <2>. QED
    BY <2>1
    DEF BoardTypes, ScannerTypes, ChipTypes, ConfTypes, MoveTypes, Counts,
        adcVars, scannerVars, chipVars, qpdVars, confVars, moveVars, histVars
<1>3. CASE PressReset
  <2>1. UNCHANGED <<adcVars, moveVars>> /\ OutsideTypes'
    BY <1>3 DEF PressReset, BoardTypes, OutsideTypes
  <2>2. ConfTypes'
    BY <1>3, ConfTypesCleared, Zenon DEF PressReset, ConfReset, Forget
  <2>. QED
    BY <2>1, <2>2
    DEF BoardTypes, ScannerTypes, ChipTypes, MoveTypes, Counts,
        adcVars, scannerVars, chipVars, moveVars
<1>4. CASE ReleaseReset \/ UNCHANGED boardVars
  <2>1. UNCHANGED <<adcVars, qpdVars, histVars>> /\ OutsideTypes'
    BY <1>4 DEF ReleaseReset, boardVars, BoardTypes, OutsideTypes
  <2>. QED
    BY <2>1
    DEF BoardTypes, ScannerTypes, ChipTypes, ConfTypes, MoveTypes, Counts,
        adcVars, scannerVars, chipVars, qpdVars, confVars, moveVars, histVars
<1>. QED
  BY <1>1, <1>2, <1>3, <1>4 DEF ReceiverNext

\* The registers of the board keep their types: the counts stay in the durations of
\* their states, the shift registers keep their length, the confidence its limit.
THEOREM BoardTypesAlways == ReceiverSpec => []BoardTypes
BY BoardTypesInit, BoardTypesStep, PTL DEF ReceiverSpec

THEOREM ReceiverTypeCorrect == ReceiverSpec => []ReceiverTypeOK
<1>1. BoardTypes => ReceiverTypeOK
  BY States
  DEF BoardTypes, ScannerTypes, ChipTypes, ConfTypes, MoveTypes, Counts, ReceiverTypeOK,
      QpdTypeOK
<1>. QED
  BY <1>1, BoardTypesAlways, PTL

-----------------------------------------------------------------------------
(* The pipeline from the light to the readings.                            *)

\* Edges since the scanner entered its state "start", where the converter samples,
\* and how many there are from there to the save of the sample and to the next one.
Saved == START + CONVERT + 2 * BITS
Cycle == Saved + ACQUIRE
Phase == CASE state = "start" -> START - 1 - count
           [] state = "convert" -> START + CONVERT - 1 - count
           [] state = "transfer" -> Saved - 1 - count
           [] state = "acquire" -> Cycle - 1 - count

\* The conversion under way was taken in the present light.
Fresh == Phase < steady

\* The channel has been moved on and the transfer is not complete.
Moved == (state = "convert" /\ count = 0) \/ state = "transfer"

\* The outputs to the converter; the channel it is set to is the one whose bits
\* the transfer brings.
Addressed ==
  /\ state # "start" => ~convst
  /\ state # "transfer" => ~sck
  /\ Moved \/ state = "acquire" => ch = (prevch + 1) % 4
  /\ state = "acquire" => channel = ch
  /\ Fresh => ch = (prevch + 1) % 4 /\ channel = IF Moved THEN prevch ELSE ch

\* Of a conversion k bits are in the shift register; sck is high between taking a
\* bit and letting the converter go on to the next.
Converted == Fresh /\ state \in {"start", "convert"} => conv = light[channel]
Taken(k) == \A b \in 1..k : sample[BITS - k + b] = light[channel][b]
Left(k) == \A b \in 1..BITS - k : conv[b] = light[channel][b + k]
Transferred ==
  state = "transfer" =>
    \E k \in 0..BITS :
      \/ /\ sck /\ k > 0 /\ count = 2 * (BITS - k)
         /\ Fresh => Taken(k) /\ Left(k - 1)
      \/ /\ ~sck /\ k < BITS /\ count = 2 * (BITS - k) - 1
         /\ Fresh => Taken(k) /\ Left(k)

\* The last four saves are of the last four channels; each is of the present light
\* if its conversion was.
Prev(i) == IF i = 0 THEN 3 ELSE i - 1
Last == IF Moved THEN Prev(prevch) ELSE prevch
Age == IF state = "acquire" THEN Phase ELSE Phase + Cycle
Reads(i) == q[i] = light[i]
Read ==
  /\ Age < steady => Reads(Last)
  /\ Age + Cycle < steady => Reads(Prev(Last))
  /\ Age + 2 * Cycle < steady => Reads(Prev(Prev(Last)))
  /\ Age + 3 * Cycle < steady => Reads(Prev(Prev(Prev(Last))))

Pipeline == Addressed /\ Converted /\ Transferred /\ Read

LEMMA Quarters ==
  \A i \in Quadrants : /\ (i + 1) % 4 = (IF i = 3 THEN 0 ELSE i + 1)
                      /\ Prev(i) \in Quadrants /\ Prev(i) # i
                      /\ Prev((i + 1) % 4) = i
                      /\ Prev(Prev(i)) # i /\ Prev(Prev(Prev(i))) # i
                      /\ Prev(Prev(Prev(Prev(i)))) = i
BY DEF Quadrants, Prev

\* An edge on which reset is not held, by what the scanner does on it.
Advances ==
  /\ BoardTypes /\ BoardTypes' /\ Sequence /\ NextChannel /\ Signals /\ Shift(sdo)
  /\ Save /\ Chip(light) /\ light' = light
  /\ steady' \in {steady, steady + 1}

\* Where in the cycle the scanner is after the edge.
LEMMA PhaseMoves ==
  ASSUME Advances
  PROVE  /\ Phase \in 0..Cycle - 1
         /\ \/ state = "acquire" /\ state' = "start" /\ Phase = Cycle - 1 /\ Phase' = 0
            \/ ~(state = "acquire" /\ state' = "start") /\ Phase' = Phase + 1
<1>1. Counts
  BY DEF Advances, BoardTypes, ScannerTypes
<1>2. Phase \in 0..Cycle - 1
  BY <1>1, States, Durations DEF Counts, Phase, Cycle, Saved
<1>3. \/ count # 0 /\ state' = state /\ count' = count - 1
      \/ count = 0 /\ state = "start" /\ state' = "convert" /\ count' = CONVERT - 1
      \/ count = 0 /\ state = "convert" /\ state' = "transfer" /\ count' = 2 * BITS - 1
      \/ count = 0 /\ state = "transfer" /\ state' = "acquire" /\ count' = ACQUIRE - 1
      \/ count = 0 /\ state = "acquire" /\ state' = "start" /\ count' = START - 1
  BY <1>1, SequenceMoves DEF Advances
<1>4. Phase' = IF state = "acquire" /\ state' = "start" THEN 0 ELSE Phase + 1
  BY <1>1, <1>3, States, Durations DEF Counts, Phase, Cycle, Saved
<1>5. state = "acquire" /\ state' = "start" => Phase = Cycle - 1
  BY <1>1, <1>3, States, Durations DEF Counts, Phase, Cycle, Saved
<1>. QED
  BY <1>2, <1>4, <1>5

\* A conversion that is of the present light was so before, or is taken now.
LEMMA StaysFresh ==
  ASSUME Advances, Fresh' PROVE Fresh \/ (state = "acquire" /\ state' = "start")
BY PhaseMoves, Durations DEF Fresh, Advances, BoardTypes, OutsideTypes, Cycle, Saved

\* The moves of the scanner: the channel moves on before the last cycle of "convert".
LEMMA Moves ==
  ASSUME Advances
  PROVE  \/ /\ state' = state /\ count # 0 /\ count' = count - 1
            /\ IF state = "convert" /\ count = 1
               THEN ~Moved /\ Moved' /\ ch' = (ch + 1) % 4 /\ prevch' = ch
               ELSE (Moved' <=> Moved) /\ ch' = ch /\ prevch' = prevch
         \/ /\ count = 0 /\ ch' = ch /\ prevch' = prevch
            /\ \/ state = "start" /\ state' = "convert" /\ ~Moved /\ ~Moved'
               \/ /\ state = "convert" /\ state' = "transfer" /\ Moved /\ Moved'
                  /\ count' = 2 * BITS - 1
               \/ state = "transfer" /\ state' = "acquire" /\ Moved /\ ~Moved'
               \/ state = "acquire" /\ state' = "start" /\ ~Moved /\ ~Moved'
<1>1. Counts /\ Sequence /\ NextChannel
  BY DEF Advances, BoardTypes, ScannerTypes
<1>2. CASE count # 0
  <2>1. state' = state /\ count' = count - 1 /\ count \in Nat
    BY <1>1, <1>2, SequenceMoves, States, Durations DEF Counts
  <2>2. count' = 0 <=> count = 1
    BY <2>1
  <2>. QED
    BY <1>1, <1>2, <2>1, <2>2 DEF NextChannel, Moved
<1>3. CASE count = 0
  <2>1. \/ state = "start" /\ state' = "convert" /\ count' = CONVERT - 1
        \/ state = "convert" /\ state' = "transfer" /\ count' = 2 * BITS - 1
        \/ state = "transfer" /\ state' = "acquire"
        \/ state = "acquire" /\ state' = "start"
    BY <1>1, <1>3, SequenceMoves
  <2>2. state = "convert" => count' # 0
    BY <2>1, Durations
  <2>3. state' = "convert" => count' # 0
    BY <2>1, Durations
  <2>. QED
    BY <1>1, <1>3, <2>1, <2>2, <2>3 DEF NextChannel, Moved
<1>. QED
  BY <1>2, <1>3

LEMMA AddressedStep ==
  ASSUME Advances, Addressed PROVE Addressed'
<1>1. ch \in Quadrants /\ prevch \in Quadrants
  BY DEF Advances, BoardTypes, ScannerTypes
<1>2. /\ state' # "start" => ~convst'
      /\ state' # "transfer" => ~sck'
  BY DEF Advances, Signals
<1>3. Moved' \/ state' = "acquire" => ch' = (prevch' + 1) % 4
  BY Moves DEF Addressed
<1>4. channel' = IF state = "transfer" /\ state' = "acquire" THEN ch ELSE channel
  BY Moves DEF Advances, Chip
<1>5. state' = "acquire" => channel' = ch'
  BY <1>4, Moves DEF Addressed
<1>6. ASSUME Fresh'
      PROVE  ch' = (prevch' + 1) % 4 /\ channel' = IF Moved' THEN prevch' ELSE ch'
  <2>1. CASE state = "acquire" /\ state' = "start"
    BY <1>4, <2>1, Moves DEF Addressed
  <2>2. CASE Fresh
    BY <1>4, <2>2, Moves DEF Addressed
  <2>. QED
    BY <1>6, <2>1, <2>2, StaysFresh
<1>. QED
  BY <1>2, <1>3, <1>5, <1>6 DEF Addressed

\* The converter keeps the sample it has taken until the transfer.
LEMMA ConvertedStep ==
  ASSUME Advances, Addressed, Converted PROVE Converted'
<1> SUFFICES ASSUME Fresh', state' \in {"start", "convert"}
             PROVE  conv' = light[channel]
  <2>1. state' \in {"start", "convert"} => channel' = channel
    BY Moves DEF Advances, Chip
  <2>. QED
    BY <2>1 DEF Converted, Advances
<1>1. conv' = IF convst' /\ ~convst THEN light[channel]
              ELSE IF sck /\ ~sck' THEN Append(Tail(conv), 0) ELSE conv
  BY DEF Advances, Chip
<1>2. CASE state = "acquire"
  BY <1>1, <1>2, Moves DEF Advances, Signals, Addressed
<1>3. CASE state # "acquire"
  <2>1. Fresh /\ state \in {"start", "convert"}
    BY <1>3, StaysFresh, Moves
  <2>. QED
    BY <1>1, <2>1 DEF Addressed, Converted
<1>. QED
  BY <1>2, <1>3

LEMMA Parity == \A m \in Nat : (2 * m) % 2 = 0 /\ (2 * m + 1) % 2 = 1
OBVIOUS

\* The clock to the converter is low whenever the count is odd.
LEMMA ClockLow == ASSUME Advances, count' % 2 = 1 PROVE ~sck'
<1>1. sck' = (state' = "transfer" /\ count' % 2 = 0)
  BY Zenon DEF Advances, Signals
<1>2. count' % 2 # 0
  BY SMT
<1>. QED
  BY <1>1, <1>2, Zenon

\* A transfer begins with the first bit still in the converter.
LEMMA TransferBegins ==
  ASSUME Advances, Addressed, Converted, state = "convert", state' = "transfer"
  PROVE  Transferred'
<1>1. count' = 2 * (BITS - 0) - 1 /\ 0 \in 0..BITS /\ 0 < BITS
  BY Moves, Durations
<1>2. ~sck'
  <2>1. count' = 2 * (BITS - 1) + 1 /\ BITS - 1 \in Nat
    BY <1>1, Durations
  <2>2. count' % 2 = 1
    BY <2>1, Parity, Zenon
  <2>. QED
    BY <2>2, ClockLow, Zenon
<1>3. conv' = conv /\ channel' = channel
  BY <1>2 DEF Advances, Chip, Signals, Addressed
<1>4. ASSUME Fresh' PROVE Taken(0)' /\ Left(0)'
  <2>1. Taken(0)'
    BY DEF Taken
  <2>2. conv = light[channel]
    BY <1>4, StaysFresh DEF Converted
  <2>3. Left(0)'
    <3>1. \A b \in 1..BITS - 0 : conv'[b] = light'[channel'][b + 0]
      BY <1>3, <2>2, Durations DEF Advances
    <3>. QED
      BY <3>1 DEF Left
  <2>. QED
    BY <2>1, <2>3
<1>. QED
  BY <1>1, <1>2, <1>4, Zenon DEF Transferred

\* In it the bits go over one by one.
LEMMA TransferGoesOn ==
  ASSUME Advances, Addressed, Transferred, state = "transfer", state' = "transfer"
  PROVE  Transferred'
<1>1. /\ count' = count - 1 /\ channel' = channel /\ light' = light /\ (Fresh' => Fresh)
      /\ sample \in Sample /\ conv \in Sample
  BY Moves, StaysFresh DEF Advances, Chip, BoardTypes, ScannerTypes, ChipTypes
<1>2. PICK k \in 0..BITS :
        \/ /\ sck /\ k > 0 /\ count = 2 * (BITS - k)
           /\ Fresh => Taken(k) /\ Left(k - 1)
        \/ /\ ~sck /\ k < BITS /\ count = 2 * (BITS - k) - 1
           /\ Fresh => Taken(k) /\ Left(k)
  BY DEF Transferred
<1>3. CASE sck /\ k > 0 /\ count = 2 * (BITS - k) /\ (Fresh => Taken(k) /\ Left(k - 1))
  <2>1. k < BITS /\ count' = 2 * (BITS - k) - 1
    BY <1>1, <1>3, Moves, Durations
  <2>2. ~sck'
    <3>1. count' = 2 * (BITS - k - 1) + 1 /\ BITS - k - 1 \in Nat
      BY <2>1, Durations
    <3>2. count' % 2 = 1
      BY <3>1, Parity, Zenon
    <3>. QED
      BY <3>2, ClockLow, Zenon
  <2>3. sample' = sample /\ conv' = Append(Tail(conv), 0)
    BY <1>3, <2>2 DEF Advances, Shift, Chip, Signals
  <2>4. ASSUME Fresh' PROVE Taken(k)' /\ Left(k)'
    <3>1. Taken(k) /\ Left(k - 1)
      BY <1>1, <1>3, <2>4
    <3>2. Taken(k)'
      BY <1>1, <2>3, <3>1 DEF Taken
    <3>3. ASSUME NEW b \in 1..BITS - k PROVE conv'[b] = light'[channel'][b + k]
      <4>1. b \in 1..BITS /\ b # BITS /\ b + 1 \in 1..BITS - (k - 1) /\ (b + 1) + (k - 1) = b + k
        BY <1>3, Durations
      <4>2. conv'[b] = conv[b + 1]
        <5>1. \A c \in 1..BITS :
                Append(Tail(conv), 0)[c] = IF c = BITS THEN 0 ELSE conv[c + 1]
          <6>1. 0 \in Bit
            BY DEF Bit
          <6>. QED
            BY <1>1, <6>1, ShiftBits, Zenon
        <5>2. \A c \in 1..BITS : conv'[c] = IF c = BITS THEN 0 ELSE conv[c + 1]
          BY <2>3, <5>1, Zenon
        <5>. QED
          BY <4>1, <5>2, Zenon
      <4>3. conv[b + 1] = light[channel][(b + 1) + (k - 1)]
        BY <3>1, <4>1 DEF Left
      <4>. QED
        BY <1>1, <4>1, <4>2, <4>3
    <3>. QED
      BY <3>2, <3>3 DEF Left
  <2>. QED
    BY <2>1, <2>2, <2>4 DEF Transferred
<1>4. CASE ~sck /\ k < BITS /\ count = 2 * (BITS - k) - 1 /\ (Fresh => Taken(k) /\ Left(k))
  <2>1. k + 1 \in 0..BITS /\ k + 1 > 0 /\ count' = 2 * (BITS - (k + 1)) /\ (k + 1) - 1 = k
    BY <1>1, <1>4, Durations
  <2>2. sck'
    <3>1. BITS - (k + 1) \in Nat
      BY <2>1, Durations
    <3>2. count' % 2 = 0
      BY <2>1, <3>1, Parity, Zenon
    <3>. QED
      BY <3>2 DEF Advances, Signals
  <2>3. sample' = Append(Tail(sample), Head(conv)) /\ conv' = conv
    BY <1>4, Moves DEF Advances, Shift, Chip, Signals, sdo
  <2>4. ASSUME Fresh' PROVE Taken(k + 1)' /\ Left(k)'
    <3>1. Taken(k) /\ Left(k)
      BY <1>1, <1>4, <2>4
    <3>2. Left(k)'
      BY <1>1, <2>3, <3>1 DEF Left
    <3>3. Head(conv) = conv[1] /\ Head(conv) \in Bit
      BY <1>1, ShiftBits DEF Bit
    <3>4. ASSUME NEW b \in 1..k + 1
          PROVE  sample'[BITS - (k + 1) + b] = light'[channel'][b]
      <4>1. BITS - (k + 1) + b \in 1..BITS /\ BITS - (k + 1) + b + 1 = BITS - k + b
        BY <2>1, Durations
      <4>2. sample'[BITS - (k + 1) + b] = IF BITS - (k + 1) + b = BITS THEN Head(conv)
                                          ELSE sample[BITS - k + b]
        <5>1. \A c \in 1..BITS : Append(Tail(sample), Head(conv))[c]
                = IF c = BITS THEN Head(conv) ELSE sample[c + 1]
          BY <1>1, <3>3, ShiftBits, Zenon
        <5>2. \A c \in 1..BITS :
                sample'[c] = IF c = BITS THEN Head(conv) ELSE sample[c + 1]
          BY <2>3, <5>1, Zenon
        <5>. QED
          BY <4>1, <5>2, Zenon
      <4>3. CASE b = k + 1
        <5>1. conv[1] = light[channel][1 + k] /\ BITS - (k + 1) + b = BITS
          BY <1>4, <3>1, <4>3, Durations DEF Left
        <5>. QED
          BY <1>1, <3>3, <4>2, <4>3, <5>1
      <4>4. CASE b # k + 1
        <5>1. b \in 1..k /\ BITS - (k + 1) + b # BITS
          BY <4>4, Durations
        <5>. QED
          BY <1>1, <3>1, <4>2, <5>1 DEF Taken
      <4>. QED
        BY <4>3, <4>4
    <3>. QED
      BY <3>2, <3>4 DEF Taken
  <2>. QED
    BY <2>1, <2>2, <2>4 DEF Transferred
<1>. QED
  BY <1>2, <1>3, <1>4

LEMMA TransferredStep ==
  ASSUME Advances, Addressed, Converted, Transferred PROVE Transferred'
<1>1. state' = "transfer" => state \in {"convert", "transfer"}
  BY Moves
<1>. QED
  BY <1>1, TransferBegins, TransferGoesOn DEF Transferred

\* The edge on which a sample is saved makes the last save a cycle younger.
LEMMA AgeMoves ==
  ASSUME Advances
  PROVE  /\ Age \in Nat /\ Phase <= Age /\ steady \in Nat /\ Cycle \in Nat
         /\ IF state = "transfer" /\ state' = "acquire"
            THEN count = 0 /\ Phase = Saved - 1 /\ Age = Saved - 1 + Cycle /\ Age' = Saved
            ELSE Age' = Age + 1
<1>1. Counts /\ steady \in Nat /\ Counts'
  BY DEF Advances, BoardTypes, ScannerTypes, OutsideTypes
<1>2. Cycle \in Nat /\ Saved \in Nat /\ Cycle >= 1 /\ Saved >= 1
  BY Durations DEF Cycle, Saved
<1>3. CASE state = "transfer" /\ state' = "acquire"
  <2>1. count = 0
    BY <1>3, Moves
  <2>2. Phase = Saved - 1
    BY <1>3, <2>1, <1>2 DEF Phase
  <2>3. Phase' = Saved
    BY <1>2, <1>3, <2>2, PhaseMoves
  <2>. QED
    BY <1>1, <1>2, <1>3, <2>1, <2>2, <2>3 DEF Age
<1>4. CASE state = "acquire" /\ state' = "start"
  BY <1>1, <1>2, <1>4, PhaseMoves DEF Age
<1>5. CASE ~(state = "transfer" /\ state' = "acquire") /\ ~(state = "acquire" /\ state' = "start")
  <2>1. state' = "acquire" <=> state = "acquire"
    BY <1>5, Moves
  <2>2. Phase \in Nat /\ Phase' = Phase + 1
    BY <1>2, <1>5, PhaseMoves
  <2>3. Age' = IF state = "acquire" THEN Phase + 1 ELSE Phase + 1 + Cycle
    BY <2>1, <2>2 DEF Age
  <2>4. Age = IF state = "acquire" THEN Phase ELSE Phase + Cycle
    BY DEF Age
  <2>. QED
    BY <1>1, <1>2, <1>5, <2>2, <2>3, <2>4
<1>. QED
  BY <1>3, <1>4, <1>5

\* What the last edge of a transfer saves.
LEMMA SavedIsLight ==
  ASSUME Advances, Addressed, Transferred, Fresh, state = "transfer", state' = "acquire"
  PROVE  sample = light[prevch]
<1>1. count = 0 /\ channel = prevch
  BY AgeMoves DEF Addressed, Moved
<1>2. Taken(BITS)
  <2>1. PICK k \in 0..BITS :
          \/ /\ sck /\ k > 0 /\ count = 2 * (BITS - k)
             /\ Fresh => Taken(k) /\ Left(k - 1)
          \/ /\ ~sck /\ k < BITS /\ count = 2 * (BITS - k) - 1
             /\ Fresh => Taken(k) /\ Left(k)
    BY DEF Transferred
  <2>2. k = BITS /\ Taken(k)
    BY <1>1, <2>1, Durations
  <2>. QED
    BY <2>2
<1>3. sample \in [1..BITS -> Bit] /\ light[prevch] \in [1..BITS -> Bit]
  BY LightsAreLevels DEF Advances, BoardTypes, ScannerTypes, OutsideTypes, Sample
<1>4. \A b \in 1..BITS : sample[b] = light[prevch][b]
  <2>1. \A b \in 1..BITS : sample[BITS - BITS + b] = light[channel][b]
    BY <1>2 DEF Taken
  <2>2. \A b \in 1..BITS : BITS - BITS + b = b
    BY Durations
  <2>. QED
    BY <1>1, <2>1, <2>2, Zenon
<1>5. /\ sample = [b \in 1..BITS |-> sample[b]]
      /\ light[prevch] = [b \in 1..BITS |-> light[prevch][b]]
  BY <1>3, Zenon
<1>. QED
  BY <1>4, <1>5, Zenon

\* A save brings the reading of one quadrant up to date and leaves the others.
LEMMA ReadStep ==
  ASSUME Advances, Addressed, Transferred, Read PROVE Read'
<1>1. /\ prevch \in Quadrants /\ ch \in Quadrants /\ light' = light
      /\ q \in [Quadrants -> Sample] /\ Last \in Quadrants
      /\ steady' = steady \/ steady' = steady + 1
  BY Quarters DEF Advances, BoardTypes, ScannerTypes, Last
<1>2. CASE state = "transfer" /\ state' = "acquire"
  <2>1. /\ Age = Saved - 1 + Cycle /\ Age' = Saved /\ Phase = Saved - 1
        /\ Last = Prev(prevch) /\ Last' = prevch
    BY <1>2, AgeMoves, Moves DEF Last, Moved
  <2>2. q' = [q EXCEPT ![prevch] = sample]
    BY <1>2 DEF Advances, Save
  <2>3. Saved \in Nat /\ Cycle \in Nat /\ steady \in Nat
    BY Durations, AgeMoves DEF Cycle, Saved
  <2>4. ASSUME Age' < steady' PROVE q'[prevch] = light'[prevch]
    <3>1. Fresh
      BY <1>1, <2>1, <2>3, <2>4 DEF Fresh
    <3>2. sample = light[prevch]
      BY <1>2, <3>1, SavedIsLight
    <3>. QED
      BY <1>1, <2>2, <3>2
  <2>5. \A i \in Quadrants : i # prevch => (q'[i] = light'[i] <=> Reads(i))
    BY <1>1, <2>2 DEF Reads
  <2>6. /\ Prev(prevch) \in Quadrants /\ Prev(prevch) # prevch
        /\ Prev(Prev(prevch)) \in Quadrants /\ Prev(Prev(prevch)) # prevch
        /\ Prev(Prev(Prev(prevch))) \in Quadrants /\ Prev(Prev(Prev(prevch))) # prevch
    BY <1>1, Quarters
  <2>7. /\ Age' + Cycle < steady' => Age < steady
        /\ Age' + 2 * Cycle < steady' => Age + Cycle < steady
        /\ Age' + 3 * Cycle < steady' => Age + 2 * Cycle < steady
    BY <1>1, <2>1, <2>3
  <2>8. Age' < steady' => Reads(Last)'
    BY <2>1, <2>4, Zenon DEF Reads
  <2>9. ASSUME Age' + Cycle < steady' PROVE Reads(Prev(Last))'
    <3>1. q'[Prev(prevch)] = light'[Prev(prevch)]
      BY <2>1, <2>5, <2>6, <2>7, <2>9, Zenon DEF Read
    <3>. QED
      BY <2>1, <3>1, Zenon DEF Reads, Prev
  <2>10. ASSUME Age' + 2 * Cycle < steady' PROVE Reads(Prev(Prev(Last)))'
    <3>1. q'[Prev(Prev(prevch))] = light'[Prev(Prev(prevch))]
      BY <2>1, <2>5, <2>6, <2>7, <2>10, Zenon DEF Read
    <3>. QED
      BY <2>1, <3>1, Zenon DEF Reads, Prev
  <2>11. ASSUME Age' + 3 * Cycle < steady' PROVE Reads(Prev(Prev(Prev(Last))))'
    <3>1. q'[Prev(Prev(Prev(prevch)))] = light'[Prev(Prev(Prev(prevch)))]
      BY <2>1, <2>5, <2>6, <2>7, <2>11, Zenon DEF Read
    <3>. QED
      BY <2>1, <3>1, Zenon DEF Reads, Prev
  <2>. QED
    BY <2>8, <2>9, <2>10, <2>11, Zenon DEF Read
<1>3. CASE ~(state = "transfer" /\ state' = "acquire")
  <2>1. Age' = Age + 1 /\ Age \in Nat /\ Cycle \in Nat /\ steady \in Nat /\ Phase <= Age
        /\ Phase \in Nat
    BY <1>3, AgeMoves, PhaseMoves
  <2>2. q' = q
    BY <1>3 DEF Advances, Save
  <2>3. /\ Age' < steady' => Age < steady
        /\ Age' + Cycle < steady' => Age + Cycle < steady
        /\ Age' + 2 * Cycle < steady' => Age + 2 * Cycle < steady
        /\ Age' + 3 * Cycle < steady' => Age + 3 * Cycle < steady
    BY <1>1, <2>1
  <2>4. Age < steady => Last' = Last
    <3>1. Age < steady => Fresh
      BY <2>1 DEF Fresh
    <3>2. CASE ~Moved /\ Moved'
      BY <1>1, <3>1, <3>2, Moves, Quarters DEF Last, Addressed
    <3>3. CASE ~(~Moved /\ Moved')
      BY <1>3, <3>3, Moves DEF Last
    <3>. QED
      BY <3>2, <3>3
  <2>5. /\ Age' < steady' => Last' = Last
        /\ Age' + Cycle < steady' => Last' = Last
        /\ Age' + 2 * Cycle < steady' => Last' = Last
        /\ Age' + 3 * Cycle < steady' => Last' = Last
    BY <1>1, <2>1, <2>4
  <2>6. Age' < steady' => Reads(Last)'
    BY <1>1, <2>2, <2>3, <2>5, Zenon DEF Read, Reads
  <2>7. Age' + Cycle < steady' => Reads(Prev(Last))'
    BY <1>1, <2>2, <2>3, <2>5, Zenon DEF Read, Reads, Prev
  <2>8. Age' + 2 * Cycle < steady' => Reads(Prev(Prev(Last)))'
    BY <1>1, <2>2, <2>3, <2>5, Zenon DEF Read, Reads, Prev
  <2>9. Age' + 3 * Cycle < steady' => Reads(Prev(Prev(Prev(Last))))'
    BY <1>1, <2>2, <2>3, <2>5, Zenon DEF Read, Reads, Prev
  <2>. QED
    BY <2>6, <2>7, <2>8, <2>9, Zenon DEF Read
<1>. QED
  BY <1>2, <1>3

\* Another light, the button and the edges on which it is held start the count of
\* steady cycles again; nothing of the pipeline is then of the present light yet.
LEMMA PipelineForgets ==
  ASSUME BoardTypes', steady' = 0,
         \/ ChangeLight /\ Addressed /\ Transferred
         \/ PressReset /\ Addressed /\ Transferred
         \/ Edge /\ reset
  PROVE  Pipeline'
<1>1. ~(Fresh') /\ Age' \in Nat /\ Cycle \in Nat
  <2>1. Phase' \in Nat /\ Cycle \in Nat
    <3>1. Counts'
      BY DEF BoardTypes, ScannerTypes
    <3>. QED
      BY <3>1, States, Durations DEF Counts, Phase, Cycle, Saved
  <2>2. \A m \in Nat : ~(m < 0)
    OBVIOUS
  <2>3. ~(Phase' < steady')
    BY <2>1, <2>2, Zenon
  <2>4. Phase' + Cycle \in Nat
    <3>1. \A m, c \in Nat : m + c \in Nat
      OBVIOUS
    <3>. QED
      BY <2>1, <3>1, Zenon
  <2>5. Age' = IF state' = "acquire" THEN Phase' ELSE Phase' + Cycle
    BY Zenon DEF Age
  <2>. QED
    BY <2>1, <2>3, <2>4, <2>5, Zenon DEF Fresh
<1>2. Converted' /\ Read'
  <2>1. ~(Age' < steady') /\ ~(Age' + Cycle < steady') /\ ~(Age' + 2 * Cycle < steady')
        /\ ~(Age' + 3 * Cycle < steady')
    <3>1. \A m, c \in Nat : ~(m < 0) /\ ~(m + c < 0) /\ ~(m + 2 * c < 0)
                            /\ ~(m + 3 * c < 0)
      OBVIOUS
    <3>. QED
      BY <1>1, <3>1, Zenon
  <2>. QED
    BY <1>1, <2>1, Zenon DEF Converted, Read
<1>3. CASE Edge /\ reset
  <2>1. state' = "start" /\ Signals
    BY <1>3 DEF Edge, ScannerReset, Goto
  <2>2. ~sck'
    BY <2>1 DEF Signals
  <2>. QED
    BY <1>1, <1>2, <2>1, <2>2 DEF Pipeline, Addressed, Transferred, Moved
<1>4. CASE (ChangeLight \/ PressReset) /\ Addressed /\ Transferred
  <2>1. UNCHANGED adcVars
    BY <1>4 DEF ChangeLight, PressReset
  <2>2. UNCHANGED <<state, count, ch, prevch, convst, sck, channel>>
    BY <2>1 DEF adcVars, scannerVars, chipVars
  <2>3. Addressed'
    BY <1>1, <1>4, <2>2 DEF Addressed, Moved
  <2>4. Transferred'
    <3>1. SUFFICES ASSUME state' = "transfer"
                   PROVE  \E k \in 0..BITS : \/ sck' /\ k > 0 /\ count' = 2 * (BITS - k)
                                             \/ ~sck' /\ k < BITS /\ count' = 2 * (BITS - k) - 1
      BY <1>1, Zenon DEF Transferred
    <3>. QED
      BY <1>4, <2>2, <3>1 DEF Transferred
  <2>. QED
    BY <1>2, <2>3, <2>4 DEF Pipeline
<1>. QED
  BY <1>3, <1>4

LEMMA PipelineUnchanged ==
  ASSUME Pipeline, UNCHANGED <<adcVars, light, steady>>
  PROVE  Pipeline'
<1>1. UNCHANGED <<state, count, ch, prevch, convst, sck, sample, q, channel, conv, light, steady>>
  BY DEF adcVars, scannerVars, chipVars
<1>2. Phase' = Phase /\ (Moved' <=> Moved)
  BY <1>1, Zenon DEF Phase, Moved
<1>3. (Fresh' <=> Fresh) /\ Age' = Age /\ Last' = Last
  BY <1>1, <1>2, Zenon DEF Fresh, Age, Last
<1>4. Addressed' /\ Converted'
  BY <1>1, <1>2, <1>3, Zenon DEF Pipeline, Addressed, Converted
<1>5. Transferred'
  BY <1>1, <1>3, Zenon DEF Pipeline, Transferred, Taken, Left
<1>6. Read'
  <2>1. q' = q /\ light' = light /\ steady' = steady
    BY <1>1
  <2>2. Reads(Last)' <=> Reads(Last)
    BY <1>3, <2>1, Zenon DEF Reads
  <2>3. Reads(Prev(Last))' <=> Reads(Prev(Last))
    BY <1>3, <2>1, Zenon DEF Reads, Prev
  <2>4. Reads(Prev(Prev(Last)))' <=> Reads(Prev(Prev(Last)))
    BY <1>3, <2>1, SMT DEF Reads, Prev
  <2>5. Reads(Prev(Prev(Prev(Last))))' <=> Reads(Prev(Prev(Prev(Last))))
    BY <1>3, <2>1, SMT DEF Reads, Prev
  <2>. QED
    BY <1>3, <2>1, <2>2, <2>3, <2>4, <2>5, Zenon DEF Pipeline, Read
<1>. QED
  BY <1>4, <1>5, <1>6 DEF Pipeline

LEMMA PipelineStep ==
  ASSUME BoardTypes, BoardTypes', Pipeline, [ReceiverNext]_boardVars
  PROVE  Pipeline'
<1>1. CASE Edge /\ ~reset
  <2>1. Advances
    BY <1>1 DEF Edge, ScannerEdge, Advances
  <2>. QED
    BY <2>1, AddressedStep, ConvertedStep, TransferredStep, ReadStep DEF Pipeline
<1>2. CASE (Edge /\ reset) \/ ChangeLight \/ PressReset
  <2>1. steady' = 0
    BY <1>2 DEF Edge, ChangeLight, PressReset
  <2>. QED
    BY <1>2, <2>1, PipelineForgets DEF Pipeline
<1>3. CASE ReleaseReset \/ UNCHANGED boardVars
  <2>1. UNCHANGED <<adcVars, light, steady>>
    BY <1>3 DEF ReleaseReset, boardVars
  <2>. QED
    BY <2>1, PipelineUnchanged
<1>. QED
  BY <1>1, <1>2, <1>3 DEF ReceiverNext

LEMMA PipelineInit == ReceiverInit => Pipeline
<1> SUFFICES ASSUME ReceiverInit PROVE Pipeline
  OBVIOUS
<1>1. state = "start" /\ count = 0 /\ steady = 0 /\ ~convst /\ ~sck
  BY DEF ReceiverInit, AdcInit
<1>2. Phase = START - 1 /\ Cycle \in Nat
  BY <1>1, Durations DEF Phase, Cycle, Saved
<1>3. ~Fresh /\ Age \in Nat
  BY <1>1, <1>2, Durations DEF Fresh, Age
<1>4. ~(Age < steady) /\ ~(Age + Cycle < steady) /\ ~(Age + 2 * Cycle < steady)
      /\ ~(Age + 3 * Cycle < steady)
  BY <1>1, <1>2, <1>3
<1>. QED
  BY <1>1, <1>3, <1>4 DEF Pipeline, Addressed, Converted, Transferred, Read, Moved

\* Where each reading comes from, always.
THEOREM PipelineAlways == ReceiverSpec => []Pipeline
<1>1. BoardTypes /\ BoardTypes' /\ Pipeline /\ [ReceiverNext]_boardVars => Pipeline'
  BY PipelineStep
<1>. QED
  BY <1>1, PipelineInit, BoardTypesAlways, PTL DEF ReceiverSpec

-----------------------------------------------------------------------------
(* What a steady light brings.                                             *)

LEMMA SettleCycles == /\ Settle \in Nat /\ Settle >= 2
                      /\ Settle = 5 * Cycle - ACQUIRE + 1 /\ Cycle = Saved + ACQUIRE
                      /\ Saved \in Nat /\ Cycle \in Nat
BY Durations DEF Settle, Cycle, Saved

\* Four saves after the light changed, each of a conversion that began after that,
\* every reading is of its own quadrant.
LEMMA ReadingsSettle ==
  ASSUME BoardTypes, Pipeline, steady >= Settle - 1
  PROVE  Readings = Levels
<1>1. Counts /\ steady \in Nat /\ prevch \in Quadrants
  BY DEF BoardTypes, ScannerTypes, OutsideTypes
<1>2. Age \in Nat /\ Age <= Saved - 1 + Cycle
  BY <1>1, States, Durations DEF Counts, Age, Phase, Cycle, Saved
<1>3. /\ Age < steady /\ Age + Cycle < steady
      /\ Age + 2 * Cycle < steady /\ Age + 3 * Cycle < steady
  BY <1>1, <1>2, SettleCycles, Durations
<1>4. Last \in Quadrants
  BY <1>1, Quarters DEF Last
<1>5. Reads(Last) /\ Reads(Prev(Last)) /\ Reads(Prev(Prev(Last)))
      /\ Reads(Prev(Prev(Prev(Last))))
  BY <1>3, Zenon DEF Pipeline, Read
<1>6. \A i \in Quadrants : Reads(i)
  <2>1. \A i \in Quadrants : i \in {Last, Prev(Last), Prev(Prev(Last)), Prev(Prev(Prev(Last)))}
    BY <1>4 DEF Quadrants, Prev
  <2>. QED
    BY <1>5, <2>1
<1>7. \A i \in Quadrants : Value(q[i]) = Value(light[i])
  BY <1>6, Zenon DEF Reads
<1>. QED
  BY <1>7, Zenon DEF Readings, Levels

\* The movement bits after an edge are those of the readings before it.
MovesAs(levels) ==
  /\ move_x = (Abs(OffsetX(levels)) > MOVE_THRESH)
  /\ move_y = (Abs(OffsetY(levels)) > MOVE_THRESH)
  /\ move_x => dir_x = (OffsetX(levels) > 0)
  /\ move_y => dir_y = (OffsetY(levels) > 0)

LEMMA MovementTells ==
  ASSUME NEW levels, Movement(levels)
  PROVE  /\ move_x' = (Abs(OffsetX(levels)) > MOVE_THRESH)
         /\ move_y' = (Abs(OffsetY(levels)) > MOVE_THRESH)
         /\ move_x' => dir_x' = (OffsetX(levels) > 0)
         /\ move_y' => dir_y' = (OffsetY(levels) > 0)
<1>1. \A offset, dir :
        /\ Axis(offset, dir).move = (Abs(offset) > MOVE_THRESH)
        /\ Abs(offset) > MOVE_THRESH => Axis(offset, dir).dir = (offset > 0)
  BY Zenon DEF Axis
<1>. QED
  BY <1>1, Zenon DEF Movement

\* How far the confidence has come in a steady light, or gone in a steady darkness.
Confident ==
  /\ ~on_target => confidence_counter <= LOCK + 1
  /\ steady >= Settle - 1 /\ Lit /\ ~on_target =>
       confidence_counter >= steady - (Settle - 1)
  /\ steady >= Settle - 1 /\ ~Lit /\ on_target =>
       confidence_counter <= TARGET_CONFIDENCE_MAX - (steady - (Settle - 1))

SteadyInv == Confident /\ (steady >= Settle => MovesAs(Levels))

LEMMA LevelsKept == light' = light => Levels' = Levels /\ (Lit' <=> Lit)
BY Zenon DEF Levels, Lit, Brightness

\* The arithmetic of an edge that sees light, or darkness.
LEMMA ConfidentEdge ==
  ASSUME ConfTypes, ConfTypes', steady \in Nat, steady' = steady \/ steady' = steady + 1,
         Confident, Lit' <=> Lit, NEW bright \in BOOLEAN, Confidence(bright),
         steady >= Settle - 1 => (bright <=> Lit)
  PROVE  Confident'
<1>1. /\ confidence_counter \in Nat /\ confidence_counter <= TARGET_CONFIDENCE_MAX
      /\ confidence_counter' \in Nat /\ confidence_counter' <= TARGET_CONFIDENCE_MAX
      /\ LOCK \in Nat /\ LOCK < TARGET_CONFIDENCE_MAX /\ TARGET_CONFIDENCE_MAX \in Nat
      /\ Settle \in Nat
  BY Thresholds, SettleCycles DEF ConfTypes
<1>2. \/ /\ bright /\ (on_target' <=> on_target \/ confidence_counter > LOCK)
         /\ confidence_counter' = IF confidence_counter < TARGET_CONFIDENCE_MAX
                                  THEN confidence_counter + 1 ELSE confidence_counter
      \/ /\ ~bright /\ (on_target' <=> on_target /\ confidence_counter > 0)
         /\ confidence_counter' = IF confidence_counter > 0
                                  THEN confidence_counter - 1 ELSE confidence_counter
  BY Zenon DEF Confidence
<1>3. ~on_target' => confidence_counter' <= LOCK + 1
  BY <1>1, <1>2 DEF Confident
<1>4. ASSUME steady' >= Settle - 1, Lit', ~on_target'
      PROVE  confidence_counter' >= steady' - (Settle - 1)
  <2>1. CASE steady >= Settle - 1
    <3>1. bright /\ ~on_target /\ confidence_counter <= LOCK
      BY <1>1, <1>2, <1>4, <2>1
    <3>2. confidence_counter' = confidence_counter + 1
      BY <1>1, <1>2, <3>1
    <3>3. confidence_counter >= steady - (Settle - 1)
      BY <1>4, <2>1, <3>1 DEF Confident
    <3>. QED
      BY <1>1, <3>2, <3>3
  <2>2. CASE ~(steady >= Settle - 1)
    <3>1. steady' = Settle - 1
      BY <1>1, <1>4, <2>2
    <3>. QED
      BY <1>1, <3>1
  <2>. QED
    BY <2>1, <2>2
<1>5. ASSUME steady' >= Settle - 1, ~Lit', on_target'
      PROVE  confidence_counter' <= TARGET_CONFIDENCE_MAX - (steady' - (Settle - 1))
  <2>1. CASE steady >= Settle - 1
    <3>1. ~bright /\ on_target /\ confidence_counter > 0
      BY <1>1, <1>2, <1>5, <2>1
    <3>2. confidence_counter' = confidence_counter - 1
      BY <1>1, <1>2, <3>1
    <3>3. confidence_counter <= TARGET_CONFIDENCE_MAX - (steady - (Settle - 1))
      BY <1>5, <2>1, <3>1 DEF Confident
    <3>. QED
      BY <1>1, <3>2, <3>3
  <2>2. CASE ~(steady >= Settle - 1)
    <3>1. steady' = Settle - 1
      BY <1>1, <1>5, <2>2
    <3>. QED
      BY <1>1, <3>1
  <2>. QED
    BY <2>1, <2>2
<1>. QED
  BY <1>3, <1>4, <1>5, Zenon DEF Confident, Settle

\* Without light or darkness to count, nothing is claimed but that the counter of a
\* dropped target is low.
LEMMA ConfidentForgets ==
  ASSUME ConfTypes, ConfTypes', Confident, steady' = 0,
         \/ UNCHANGED <<confidence_counter, on_target>>
         \/ confidence_counter' = 0
  PROVE  SteadyInv'
<1>1. ~(steady' >= Settle - 1) /\ ~(steady' >= Settle)
  BY SettleCycles
<1>2. ~on_target' => confidence_counter' <= LOCK + 1
  BY Thresholds DEF Confident
<1>. QED
  BY <1>1, <1>2, Zenon DEF SteadyInv, Confident, Settle

LEMMA SteadyStep ==
  ASSUME BoardTypes, BoardTypes', Pipeline, SteadyInv, [ReceiverNext]_boardVars
  PROVE  SteadyInv'
<1>1. ConfTypes /\ ConfTypes' /\ Confident /\ steady \in Nat
  BY DEF BoardTypes, OutsideTypes, SteadyInv
<1>2. CASE Edge /\ ~reset
  <2>1. Seen(Readings) /\ light' = light /\ (steady' = steady \/ steady' = steady + 1)
    BY <1>2 DEF Edge
  <2>2. steady >= Settle - 1 => Readings = Levels
    BY ReadingsSettle
  <2>3. Levels' = Levels /\ (Lit' <=> Lit)
    BY <2>1, LevelsKept
  <2>4. Confident'
    <3> DEFINE bright == Brightness(Readings) > SUM_THRESH
    <3>1. Confidence(bright)
      BY <2>1 DEF Seen, QpdEdge
    <3>2. bright \in BOOLEAN
      BY SMT
    <3>3. steady >= Settle - 1 => (bright <=> Lit)
      BY <2>2, Zenon DEF Lit
    <3> HIDE DEF bright
    <3>. QED
      BY <1>1, <2>1, <2>3, <3>1, <3>2, <3>3, ConfidentEdge
  <2>5. ASSUME steady' >= Settle PROVE MovesAs(Levels)'
    <3>1. steady >= Settle - 1
      BY <1>1, <2>1, <2>5, SettleCycles
    <3>2. Movement(Levels)
      BY <2>1, <2>2, <3>1, Zenon DEF Seen, QpdEdge
    <3>. QED
      BY <2>3, <3>2, MovementTells, Zenon DEF MovesAs, OffsetX, OffsetY
  <2>. QED
    BY <2>4, <2>5, Zenon DEF SteadyInv, Settle
<1>3. CASE (Edge /\ reset) \/ PressReset
  <2>1. confidence_counter' = 0 /\ steady' = 0
    BY <1>3 DEF Edge, PressReset, ResetHeld, QpdReset, ConfReset
  <2>. QED
    BY <1>1, <2>1, ConfidentForgets
<1>4. CASE ChangeLight
  <2>1. UNCHANGED <<confidence_counter, on_target>> /\ steady' = 0
    BY <1>4 DEF ChangeLight, qpdVars, confVars
  <2>. QED
    BY <1>1, <2>1, ConfidentForgets
<1>5. CASE ReleaseReset \/ UNCHANGED boardVars
  <2>1. UNCHANGED <<qpdVars, light, steady>>
    BY <1>5 DEF ReleaseReset, boardVars
  <2>2. UNCHANGED <<confidence_counter, on_target, move_x, dir_x, move_y, dir_y, light, steady>>
    BY <2>1 DEF qpdVars, confVars, moveVars
  <2>3. Levels' = Levels /\ (Lit' <=> Lit)
    BY <2>1, LevelsKept
  <2>. QED
    BY <2>2, <2>3, Zenon DEF SteadyInv, Confident, Settle, MovesAs, OffsetX, OffsetY
<1>. QED
  BY <1>2, <1>3, <1>4, <1>5 DEF ReceiverNext

LEMMA SteadyInit == ReceiverInit => SteadyInv
<1> SUFFICES ASSUME ReceiverInit PROVE SteadyInv
  OBVIOUS
<1>1. steady = 0 /\ confidence_counter = 0
  BY DEF ReceiverInit, QpdInit
<1>2. ~(steady >= Settle - 1) /\ ~(steady >= Settle) /\ confidence_counter <= LOCK + 1
  BY <1>1, SettleCycles, Thresholds
<1>. QED
  BY <1>2, Zenon DEF SteadyInv, Confident

THEOREM SteadyAlways == ReceiverSpec => []SteadyInv
<1>1. BoardTypes /\ BoardTypes' /\ Pipeline /\ SteadyInv /\ [ReceiverNext]_boardVars
        => SteadyInv'
  BY SteadyStep
<1>. QED
  BY <1>1, SteadyInit, BoardTypesAlways, PipelineAlways, PTL DEF ReceiverSpec

\* In a steady light each reading is of its own quadrant and the movement bits are
\* those of the light, whatever the scanner was at when the light changed.
THEOREM SettlesInTime == ReceiverSpec => []Settled
<1>1. BoardTypes /\ Pipeline /\ SteadyInv => Settled
  <2> SUFFICES ASSUME BoardTypes, Pipeline, SteadyInv, steady >= Settle PROVE
        /\ Readings = Levels
        /\ MovesAs(Levels)
    BY Zenon DEF Settled, MovesAs
  <2>1. steady >= Settle - 1
    BY SettleCycles DEF BoardTypes, OutsideTypes
  <2>. QED
    BY <2>1, ReadingsSettle DEF SteadyInv
<1>. QED
  BY <1>1, BoardTypesAlways, PipelineAlways, SteadyAlways, PTL

\* A light that stays is reported, and one that stays away is dropped.
THEOREM TargetIsTold == ReceiverSpec => []OnTargetTells
<1>1. BoardTypes /\ SteadyInv => OnTargetTells
  <2> SUFFICES ASSUME BoardTypes, Confident PROVE OnTargetTells
    BY DEF SteadyInv
  <2>1. steady \in Nat /\ confidence_counter \in Nat
    BY DEF BoardTypes, OutsideTypes, ConfTypes
  <2>2. ASSUME steady > Settle + LOCK, Lit PROVE on_target
    <3>1. steady >= Settle - 1 /\ steady - (Settle - 1) > LOCK + 1
      BY <2>1, <2>2, SettleCycles, Thresholds
    <3>. QED
      BY <2>1, <2>2, <3>1, SettleCycles, Thresholds DEF Confident
  <2>3. ASSUME steady > Settle + TARGET_CONFIDENCE_MAX, ~Lit PROVE ~on_target
    <3>1. /\ steady >= Settle - 1
          /\ TARGET_CONFIDENCE_MAX - (steady - (Settle - 1)) < 0
      BY <2>1, <2>3, SettleCycles, Thresholds
    <3>. QED
      BY <2>1, <2>3, <3>1, SettleCycles, Thresholds DEF Confident
  <2>. QED
    BY <2>2, <2>3 DEF OnTargetTells
<1>. QED
  BY <1>1, BoardTypesAlways, SteadyAlways, PTL

-----------------------------------------------------------------------------
(* The line that the monitor prints.                                       *)

\* A set of naturals has a least one.
LEMMA LeastNatural ==
  ASSUME NEW T, T \subseteq Nat, T # {}
  PROVE  \E x \in T : \A y \in T : x <= y
<1> DEFINE R == OpToRel(<, Nat)
<1>1. IsWellFoundedOn(R, Nat)
  BY NatLessThanWellFounded
<1>2. PICK x \in T : \A y \in T : <<y, x>> \notin R
  <2> HIDE DEF R
  <2>. QED
    BY <1>1, WFMin
<1>3. \A y \in T : ~(y < x)
  BY <1>2 DEF OpToRel
<1>. QED
  BY <1>3

\* f is the value of the first 0, 1, ..., m of the bits.
Values(f, bits, m) ==
  f = [n \in 0..m |-> IF n = 0 THEN 0 ELSE 2 * f[n - 1] + bits[n]]

\* There is such a function for every m: there is no least m that has none.
LEMMA ValuesExist ==
  ASSUME NEW bits, NEW m \in Nat
  PROVE  \E f : Values(f, bits, m)
<1> DEFINE T == {n \in Nat : ~(\E f : Values(f, bits, n))}
<1>1. SUFFICES ASSUME T # {} PROVE FALSE
  OBVIOUS
<1>2. PICK n \in T : \A k \in T : n <= k
  <2> HIDE DEF T
  <2>1. T \subseteq Nat
    BY DEF T
  <2>. QED
    BY <1>1, <2>1, LeastNatural
<1>3. CASE n = 0
  <2> DEFINE g == [k \in 0..0 |-> 0]
  <2>1. g = [k \in 0..0 |-> IF k = 0 THEN 0 ELSE 2 * g[k - 1] + bits[k]]
    OBVIOUS
  <2>. QED
    BY <1>2, <1>3, <2>1, Zenon DEF Values
<1>4. CASE n # 0
  <2>1. n - 1 \in Nat /\ n \in Nat /\ ~(n <= n - 1)
    BY <1>2, <1>4
  <2>2. n - 1 \notin T
    BY <1>2, <2>1
  <2>3. PICK f : Values(f, bits, n - 1)
    BY <2>1, <2>2
  <2> DEFINE g == [k \in 0..n |-> IF k = n THEN 2 * f[n - 1] + bits[n] ELSE f[k]]
  <2>4. ASSUME NEW k \in 0..n
        PROVE  g[k] = IF k = 0 THEN 0 ELSE 2 * g[k - 1] + bits[k]
    <3>1. CASE k = n
      <4>1. g[k - 1] = f[n - 1]
        BY <2>1, <3>1
      <4>2. g[k] = 2 * f[n - 1] + bits[n] /\ k # 0
        BY <1>4, <3>1
      <4>. QED
        BY <3>1, <4>1, <4>2, Zenon
    <3>2. CASE k # n
      <4>1. k \in 0..n - 1 /\ (k # 0 => k - 1 \in 0..n - 1 /\ k - 1 # n /\ k - 1 \in 0..n)
        BY <2>1, <3>2
      <4>2. f[k] = IF k = 0 THEN 0 ELSE 2 * f[k - 1] + bits[k]
        BY <2>3, <4>1, Zenon DEF Values
      <4>3. g[k] = f[k] /\ (k # 0 => g[k - 1] = f[k - 1])
        BY <3>2, <4>1
      <4>. QED
        BY <4>2, <4>3, Zenon
    <3>. QED
      BY <3>1, <3>2
  <2>5. g = [k \in 0..n |-> g[k]]
    OBVIOUS
  <2> HIDE DEF g
  <2>6. Values(g, bits, n)
    BY <2>4, <2>5, Zenon DEF Values
  <2>. QED
    BY <1>2, <2>6 DEF T
<1>. QED
  BY <1>3, <1>4

\* The value of a sample is a natural number: there is no first bit that brings it
\* out of them.
LEMMA ValueIsNatural ==
  ASSUME NEW bits \in Sample
  PROVE  Value(bits) \in Nat
<1> DEFINE value == CHOOSE f : Values(f, bits, BITS)
<1>1. BITS \in Nat
  BY Durations
<1>2. Values(value, bits, BITS)
  BY <1>1, ValuesExist
<1>3. Value(bits) = value[BITS]
  BY DEF Value, Values
<1> HIDE DEF value
<1> DEFINE T == {n \in 0..BITS : value[n] \notin Nat}
<1>4. T = {}
  <2>1. SUFFICES ASSUME T # {} PROVE FALSE
    OBVIOUS
  <2>2. PICK n \in T : \A k \in T : n <= k
    <3>1. T \subseteq Nat
      BY <1>1
    <3> HIDE DEF T
    <3>. QED
      BY <2>1, <3>1, LeastNatural
  <2>3. n \in 0..BITS /\ value[n] = IF n = 0 THEN 0 ELSE 2 * value[n - 1] + bits[n]
    BY <1>2, <2>2, Zenon DEF Values
  <2>4. CASE n = 0
    BY <2>2, <2>3, <2>4
  <2>5. CASE n # 0
    <3>1. n - 1 \in 0..BITS /\ ~(n <= n - 1)
      BY <1>1, <2>3, <2>5
    <3>2. value[n - 1] \in Nat
      BY <2>2, <3>1
    <3>3. bits[n] \in Nat
      BY <1>1, <2>3, <2>5 DEF Sample, Bit
    <3>. QED
      BY <2>2, <2>3, <2>5, <3>2, <3>3
  <2>. QED
    BY <2>4, <2>5
<1>. QED
  BY <1>1, <1>3, <1>4

\* What is printed of an offset.
LEMMA PrintedOffset ==
  ASSUME NEW offset \in Int
  PROVE  /\ Printed(offset) \in 0..2 * LOW - 1
         /\ offset \in (-LOW)..(LOW - 1) =>
              Printed(offset) = IF offset < 0 THEN offset + 2 * LOW ELSE offset
<1>1. LOW \in Nat /\ LOW >= 1
  BY QpdAssumption DEF QpdAssumption
<1>2. offset % LOW \in 0..LOW - 1
  BY <1>1
<1>3. Printed(offset) = (IF offset < 0 THEN LOW ELSE 0) + (offset % LOW)
  BY <1>1, <1>2 DEF Printed, Extended, Packed
<1>4. offset \in 0..LOW - 1 => offset % LOW = offset
  BY <1>1
<1>5. offset \in (-LOW)..(-1) => offset % LOW = offset + LOW
  BY <1>1
<1>. QED
  BY <1>1, <1>2, <1>3, <1>4, <1>5

\* The line shows the quadrants where they are, and of an offset its two's
\* complement in the bits it has, for every number of bits.
THEOREM LineIsTrue == ReceiverSpec => []LineShows
<1>1. BoardTypes /\ Settled => LineShows
  <2> SUFFICES ASSUME BoardTypes, Readings = Levels
               PROVE  /\ [k \in {"tl", "tr", "bl", "br"} |-> Line(Readings)[k]] =
                           [tl |-> Levels[3], tr |-> Levels[0], bl |-> Levels[2],
                            br |-> Levels[1]]
                      /\ Line(Readings).dx \in 0..2 * LOW - 1
                      /\ \A offset \in (-LOW)..(LOW - 1) :
                           OffsetX(Levels) = offset =>
                             Line(Readings).dx = IF offset < 0 THEN offset + 2 * LOW
                                                 ELSE offset
    BY Zenon DEF Settled, LineShows
  <2>1. \A levels : /\ Line(levels).tl = levels[3] /\ Line(levels).tr = levels[0]
                    /\ Line(levels).bl = levels[2] /\ Line(levels).br = levels[1]
                    /\ Line(levels).dx = Printed(OffsetX(levels))
    BY DEF Line
  <2>2. OffsetX(Levels) \in Int
    <3>1. \A i \in Quadrants : Levels[i] \in Nat
      BY LightsAreLevels, ValueIsNatural DEF BoardTypes, OutsideTypes, Levels
    <3>2. /\ Levels[0] \in Nat /\ Levels[1] \in Nat
          /\ Levels[2] \in Nat /\ Levels[3] \in Nat
      BY <3>1 DEF Quadrants
    <3>. QED
      BY <3>2 DEF OffsetX
  <2>3. Line(Readings).dx = Printed(OffsetX(Levels))
    BY <2>1, Zenon
  <2>4. [k \in {"tl", "tr", "bl", "br"} |-> Line(Readings)[k]] =
          [tl |-> Levels[3], tr |-> Levels[0], bl |-> Levels[2], br |-> Levels[1]]
    BY <2>1
  <2>. QED
    BY <2>2, <2>3, <2>4, PrintedOffset
<1>. QED
  BY <1>1, BoardTypesAlways, SettlesInTime, PTL
=============================================================================
