------------------------------- MODULE QpdState -------------------------------
(***************************************************************************)
(* Target detection on the receiver board (qpd_state.sv): from the four    *)
(* quadrants of the photodiode to the command byte, and to the debug word  *)
(* that the monitor (main.c) prints.  One QpdEdge per edge of clk50.       *)
(***************************************************************************)
EXTENDS Integers

CONSTANTS
  SUM_THRESH,             \* light on the four quadrants that is a laser
  TARGET_CONFIDENCE_MAX,  \* where the confidence counter saturates
  LOCK,                   \* confidence above which the target is reported
  MOVE_THRESH,            \* offset above which the transmitter has to move
  MICRO_THRESH,           \* offset below which the laser is centred
  LOW                     \* 2^(number of magnitude bits of the debug word)

ASSUME QpdAssumption ==
  /\ {SUM_THRESH, TARGET_CONFIDENCE_MAX, LOCK, MOVE_THRESH, MICRO_THRESH}
       \subseteq Nat
  /\ LOCK < TARGET_CONFIDENCE_MAX /\ MICRO_THRESH <= MOVE_THRESH
  /\ LOW \in Nat \ {0}

VARIABLES
  confidence_counter, on_target,
  move_x, dir_x, move_y, dir_y,
  micro

confVars == <<confidence_counter, on_target>>
moveVars == <<move_x, dir_x, move_y, dir_y, micro>>
qpdVars == <<confVars, moveVars>>

Quadrants == 0..3

\* A light is the reading of each quadrant; 0 and 1 are on the right, 3 and 0
\* at the top.  Twelve-bit readings never overflow the sixteen bits.
Brightness(light) == light[0] + light[1] + light[2] + light[3]
OffsetX(light) == (light[0] + light[1]) - (light[2] + light[3])
OffsetY(light) == (light[0] + light[3]) - (light[1] + light[2])

Abs(n) == IF n < 0 THEN -n ELSE n

\* The movement registers have no reset; like all registers they power up low.
QpdInit ==
  /\ confidence_counter = 0 /\ on_target = FALSE
  /\ move_x = FALSE /\ dir_x = FALSE /\ move_y = FALSE /\ dir_y = FALSE
  /\ micro = FALSE

ConfReset == confidence_counter' = 0 /\ on_target' = FALSE

\* Mutant: the target is reported a cycle of light too early.
LocksEarly(lit) ==
  IF lit
  THEN /\ confidence_counter' = IF confidence_counter < TARGET_CONFIDENCE_MAX
                                THEN confidence_counter + 1
                                ELSE confidence_counter
       /\ on_target' = (on_target \/ confidence_counter >= LOCK)
  ELSE /\ confidence_counter' = IF confidence_counter > 0
                                THEN confidence_counter - 1
                                ELSE confidence_counter
       /\ on_target' = (on_target /\ confidence_counter > 0)

\* Mutant: the target is reported when the counter is full.
LocksFull(lit) ==
  IF lit
  THEN /\ confidence_counter' = IF confidence_counter < TARGET_CONFIDENCE_MAX
                                THEN confidence_counter + 1
                                ELSE confidence_counter
       /\ on_target' = (on_target \/ confidence_counter = TARGET_CONFIDENCE_MAX)
  ELSE /\ confidence_counter' = IF confidence_counter > 0
                                THEN confidence_counter - 1
                                ELSE confidence_counter
       /\ on_target' = (on_target /\ confidence_counter > 0)

\* Mutant: the counter does not saturate.
Unsaturated(lit) ==
  IF lit
  THEN /\ confidence_counter' = confidence_counter + 1
       /\ on_target' = (on_target \/ confidence_counter > LOCK)
  ELSE /\ confidence_counter' = IF confidence_counter > 0
                                THEN confidence_counter - 1 ELSE 0
       /\ on_target' = (on_target /\ confidence_counter > 0)

\* The hysteresis: the counter goes up in the light and down in the dark; the
\* target is there from above LOCK until the counter is down to 0.
Confidence(lit) ==
  IF lit
  THEN /\ confidence_counter' = IF confidence_counter < TARGET_CONFIDENCE_MAX
                                THEN confidence_counter + 1
                                ELSE confidence_counter
       /\ on_target' = (on_target \/ confidence_counter > LOCK)
  ELSE /\ confidence_counter' = IF confidence_counter > 0
                                THEN confidence_counter - 1
                                ELSE confidence_counter
       /\ on_target' = (on_target /\ confidence_counter > 0)

\* An axis moves if the spot is off the centre by more than the threshold; the
\* direction keeps its value otherwise.
Axis(offset, dir) ==
  [move |-> Abs(offset) > MOVE_THRESH,
   dir |-> IF Abs(offset) > MOVE_THRESH THEN offset > 0 ELSE dir]

Movement(light) ==
  LET x == Axis(OffsetX(light), dir_x)
      y == Axis(OffsetY(light), dir_y)
  IN /\ move_x' = x.move /\ dir_x' = x.dir
     /\ move_y' = y.move /\ dir_y' = y.dir
     /\ micro' = (/\ Abs(OffsetX(light)) < MICRO_THRESH
                  /\ Abs(OffsetY(light)) < MICRO_THRESH)

QpdEdge(light) == Confidence(Brightness(light) > SUM_THRESH) /\ Movement(light)

\* Reset holds the confidence only.
QpdReset(light) == ConfReset /\ Movement(light)

move_com == [on_target |-> on_target, dir_y |-> dir_y, move_y |-> move_y,
             dir_x |-> dir_x, move_x |-> move_x]

-----------------------------------------------------------------------------
(* The debug word and what the monitor makes of it.                        *)

\* Mutant: the sign is not packed.
PackedUnsigned(offset) == offset % LOW

\* An offset in the debug word: two zero bits, the sign, the low bits.
Packed(offset) == (IF offset < 0 THEN LOW ELSE 0) + (offset % LOW)

\* main.c extends the sign from the topmost of the zero bits.
Extended(word) == IF word >= 4 * LOW THEN word - 8 * LOW ELSE word

Printed(offset) == Extended(Packed(offset))

\* The four words of I/O, unpacked by main.c and printed in a line.
Line(light) ==
  [tl |-> light[3], tr |-> light[0], bl |-> light[2], br |-> light[1],
   dx |-> Printed(OffsetX(light)), dy |-> Printed(OffsetY(light)),
   target_en |-> on_target, mstep_en |-> micro]
=============================================================================
