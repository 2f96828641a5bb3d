---------------------------- MODULE SearchHistory ----------------------------
(***************************************************************************)
(* SearchController with history variables that record, in whole           *)
(* coordinates that never wrap, what one search has done so far.  They     *)
(* constrain nothing; the spiral's properties are stated with them.        *)
(***************************************************************************)
EXTENDS SearchController

VARIABLES
  dx, dy,    \* displacement counted since the search began
  leg,       \* turns the spiral has taken since the search began
  swept      \* the displacements visited since the search began

history == <<dx, dy, leg, swept>>
hVars == <<ctlVars, history>>

HInit == CtlInit /\ dx = 0 /\ dy = 0 /\ leg = 0 /\ swept = {<<0, 0>>}

\* The signed step between two readings of a position counter.
Moved(p, q) == IF q = p THEN 0 ELSE IF q = Succ(p) THEN 1 ELSE -1

Record ==
  IF state = "SEARCHING"
  THEN /\ dx' = dx + Moved(pos_x, pos_x')
       /\ dy' = dy + Moved(pos_y, pos_y')
       /\ leg' = IF spiral_dir' = spiral_dir THEN leg ELSE leg + 1
       /\ swept' = swept \cup {<<dx', dy'>>}
  ELSE IF state' = "SEARCHING"
  THEN dx' = 0 /\ dy' = 0 /\ leg' = 0 /\ swept' = {<<0, 0>>}
  ELSE UNCHANGED history

\* A reset also clears the record, whatever state it interrupts.
HReset == Reset /\ dx' = 0 /\ dy' = 0 /\ leg' = 0 /\ swept' = {<<0, 0>>}

HNext == HReset \/ ((ReturnHome \/ ClockEdge) /\ Record)

HSpec == HInit /\ [][HNext]_hVars

-----------------------------------------------------------------------------
\* The spiral's registers are always consistent: a leg in progress is shorter
\* than its side, the side follows the number of turns taken, and the search
\* never outgrows the search area by more than one pitch, so the registers
\* cannot overflow however often the search is interrupted and restarted.
SpiralCounters ==
  /\ step_count < side_limit
  /\ side_limit <= SEARCH_MAX_SIDE + DENSITY_STEP \/ side_limit = DENSITY_STEP
  /\ spiral_dir = leg % 4
  /\ side_limit = DENSITY_STEP * (1 + leg \div 2)

\* Where the search is, in closed form (doubled, so that no half appears): a
\* search in progress is on the square ring its registers name.  It holds only
\* if every turn, side increase and step agree with each other.
SpiralShape ==
  state = "SEARCHING" =>
    CASE spiral_dir = 0 -> /\ 2 * dx = 2 * step_count - (side_limit - DENSITY_STEP)
                           /\ 2 * dy = DENSITY_STEP - side_limit
      [] spiral_dir = 1 -> /\ 2 * dx = side_limit + DENSITY_STEP
                           /\ 2 * dy = 2 * step_count - (side_limit - DENSITY_STEP)
      [] spiral_dir = 2 -> /\ 2 * dx = side_limit - 2 * step_count
                           /\ 2 * dy = side_limit
      [] OTHER          -> /\ 2 * dx = -side_limit
                           /\ 2 * dy = side_limit - 2 * step_count

\* The search keeps to its area: it never strays further from the place where
\* the target was lost than half the largest side and one pitch.
SearchArea ==
  state = "SEARCHING" =>
    /\ 2 * dx <= SEARCH_MAX_SIDE + 2 * DENSITY_STEP
    /\ -2 * dx <= SEARCH_MAX_SIDE + 2 * DENSITY_STEP
    /\ 2 * dy <= SEARCH_MAX_SIDE + 2 * DENSITY_STEP
    /\ -2 * dy <= SEARCH_MAX_SIDE + 2 * DENSITY_STEP

\* A search that gives up has looked everywhere: every cell of the search area,
\* less a margin of one pitch, is within half a pitch of a visited cell.
SearchCovers ==
  (state = "SEARCHING" /\ side_limit > SEARCH_MAX_SIDE) =>
    LET half == (SEARCH_MAX_SIDE + 1) \div 2 - DENSITY_STEP
        gap == DENSITY_STEP \div 2
        Near(a, b) == a - b <= gap /\ b - a <= gap
    IN \A a, b \in -half..half :
         \E cell \in swept : Near(a, cell[1]) /\ Near(b, cell[2])

\* The controller's search is the taxicab spiral of the report.
Active(v) == IF state = "SEARCHING" THEN v ELSE 0
Taxicab == INSTANCE TaxicabSpiral WITH
             Density <- DENSITY_STEP, MaxSide <- SEARCH_MAX_SIDE,
             walking <- state = "SEARCHING",
             x <- Active(dx), y <- Active(dy),
             leg <- Active(leg), taken <- Active(step_count)
WalksTaxicabSpiral == Taxicab!Spec
=============================================================================
