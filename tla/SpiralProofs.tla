----------------------------- MODULE SpiralProofs -----------------------------
(***************************************************************************)
(* Theorems about the spiral search: its closed form, its area, what it    *)
(* covers, and that it implements TaxicabSpiral, for every pitch, area and *)
(* counter width.                                                          *)
(***************************************************************************)
EXTENDS SearchHistory, SearchControllerProofs

-----------------------------------------------------------------------------
\* Arithmetic of the legs.
LEMMA NextLeg ==
  ASSUME NEW l \in Nat
  PROVE  /\ (l + 1) % 4 = ((l % 4) + 1) % 4
         /\ l % 4 \in 0..3
         /\ l % 4 \in {1, 3} => (l + 1) \div 2 = l \div 2 + 1
         /\ l % 4 \in {0, 2} => (l + 1) \div 2 = l \div 2
         /\ l % 2 = 0 <=> l % 4 \in {0, 2}
         /\ l \div 2 \in Nat
OBVIOUS

\* The side of a leg grows by a pitch with every second leg.
LEMMA SideGrows ==
  ASSUME NEW d \in Nat, NEW q \in Nat
  PROVE  /\ d * (1 + (q + 1)) = d * (1 + q) + d
         /\ d * (1 + q) \in Nat
OBVIOUS

\* The two ways to move a counter are told apart by Moved.
LEMMA MovedBy ==
  ASSUME NEW p \in Pos
  PROVE  Moved(p, p) = 0 /\ Moved(p, Succ(p)) = 1 /\ Moved(p, Pred(p)) = -1
BY PosAssumption DEF Pos, Moved, Succ, Pred

-----------------------------------------------------------------------------
\* The inductive invariant: the closed form is inductive only together with the
\* spiral's registers, and both need the types.
HistoryType == dx \in Int /\ dy \in Int /\ leg \in Nat

SpiralInv == TypeOK /\ HistoryType /\ SpiralCounters /\ SpiralShape

\* The history variables constrain nothing.
LEMMA HistoryRefines == [HNext]_hVars => [Next]_ctlVars
BY DEF HNext, HReset, Next, hVars

\* The invariant holds after power-up.
LEMMA SpiralInvInit == HInit => SpiralInv
<1> SUFFICES ASSUME HInit PROVE SpiralInv
  OBVIOUS
<1>1. TypeOK
  BY InitType DEF HInit
<1>2. SpiralCounters
  BY ControllerAssumption DEF HInit, CtlInit, SpiralCounters
<1>. QED
  BY <1>1, <1>2 DEF HInit, CtlInit, SpiralInv, HistoryType, SpiralShape

\* What one edge does to the spiral: it may begin a search, step or idle in
\* one, or leave the spiral's registers alone.
SpiralIdle ==
  /\ UNCHANGED <<pos_x, pos_y, spiral>>
  /\ state' = "SEARCHING" => state = "SEARCHING"

OutsideSearch ==
  state # "SEARCHING" /\ state' # "SEARCHING" /\ UNCHANGED spiral

SearchStep ==
  /\ state = "SEARCHING" /\ state' = "SEARCHING"
  /\ side_limit <= SEARCH_MAX_SIDE
  /\ SpiralMove /\ SpiralCount

\* Every edge is of one of the kinds.
LEMMA EdgeKinds ==
  ASSUME TypeOK, ReturnHome \/ ClockEdge
  PROVE  StartSearch \/ SpiralIdle \/ OutsideSearch \/ SearchStep
<1> USE DEF spiral
<1>1. CASE ReturnHome
  BY <1>1 DEF ReturnHome, SpiralIdle
<1>2. ASSUME NEW step_tick \in BOOLEAN, BootUp(step_tick)
      PROVE  OutsideSearch
  BY <1>2 DEF BootUp, OutsideSearch
<1>3. ASSUME NEW on_target \in BOOLEAN, IdleWait(on_target)
      PROVE  OutsideSearch
  BY <1>3 DEF IdleWait, OutsideSearch
<1>4. ASSUME NEW on_target \in BOOLEAN, NEW rx_done \in BOOLEAN,
             NEW cmd \in Command, Tracking(on_target, rx_done, cmd)
      PROVE  StartSearch \/ OutsideSearch
  BY <1>4 DEF Tracking, TrackTarget, TrackNothing, OutsideSearch
<1>5. ASSUME NEW on_target \in BOOLEAN, NEW step_tick \in BOOLEAN,
             Searching(on_target, step_tick)
      PROVE  SpiralIdle \/ SearchStep
  <2>1. CASE Acquire \/ GiveUp
    BY <1>5, <2>1 DEF Searching, Acquire, GiveUp, SpiralIdle
  <2>2. CASE Spiral(step_tick) /\ ~step_tick
    BY <1>5, <2>2 DEF Searching, Spiral, SpiralIdle
  <2>3. CASE Spiral(step_tick) /\ step_tick
    <3>1. state' = "SEARCHING" /\ SpiralMove /\ SpiralCount /\ ~Exhausted
      BY <1>5, <2>3 DEF Searching, Spiral
    <3>2. side_limit <= SEARCH_MAX_SIDE
      BY <3>1, ControllerAssumption DEF Exhausted, TypeOK
    <3>. QED
      BY <1>5, <3>1, <3>2 DEF Searching, SearchStep
  <2>. QED
    BY <1>5, <2>1, <2>2, <2>3 DEF Searching
<1>6. ASSUME NEW on_target \in BOOLEAN, NEW step_tick \in BOOLEAN,
             Returning(on_target, step_tick)
      PROVE  OutsideSearch
  BY <1>6 DEF Returning, Acquire, ArriveHome, WalkHome, OutsideSearch
<1>7. ASSUME NEW step_tick \in BOOLEAN, ForcedReturn(step_tick)
      PROVE  OutsideSearch
  BY <1>7 DEF ForcedReturn, ArriveHome, WalkHome, OutsideSearch
<1>. QED
  BY <1>1, <1>2, <1>3, <1>4, <1>5, <1>6, <1>7 DEF ClockEdge

\* One step of the search advances the closed form.
LEMMA SearchStepInv ==
  ASSUME SpiralInv, SearchStep, Record
  PROVE  HistoryType' /\ SpiralCounters' /\ SpiralShape'
<1> USE DEF SpiralInv, TypeOK, HistoryType
<1>1. /\ dx' = dx + (CASE spiral_dir = 0 -> 1 [] spiral_dir = 2 -> -1
                       [] OTHER -> 0)
      /\ dy' = dy + (CASE spiral_dir = 1 -> 1 [] spiral_dir = 3 -> -1
                       [] OTHER -> 0)
  BY MovedBy DEF SearchStep, SpiralMove, Record
<1>2. /\ spiral_dir = leg % 4 /\ side_limit = DENSITY_STEP * (1 + leg \div 2)
      /\ step_count < side_limit
  BY DEF SpiralCounters
<1>3. CASE step_count = side_limit - 1
  <2>1. /\ step_count' = 0 /\ spiral_dir' = (spiral_dir + 1) % 4
        /\ side_limit' = IF spiral_dir \in {1, 3}
                         THEN side_limit + DENSITY_STEP ELSE side_limit
        /\ leg' = leg + 1
    BY <1>3 DEF SearchStep, SpiralCount, Record
  <2>2. SpiralCounters'
    <3>1. side_limit' = DENSITY_STEP * (1 + leg' \div 2)
      <4>1. CASE spiral_dir \in {1, 3}
        <5>1. leg' \div 2 = leg \div 2 + 1 /\ leg \div 2 \in Nat
          BY <1>2, <2>1, <4>1, NextLeg
        <5>2. DENSITY_STEP * (1 + (leg \div 2 + 1))
              = DENSITY_STEP * (1 + leg \div 2) + DENSITY_STEP
          BY <5>1, SideGrows, ControllerAssumption
        <5>. QED
          BY <1>2, <2>1, <4>1, <5>1, <5>2
      <4>2. CASE spiral_dir \in {0, 2}
        <5>1. leg' \div 2 = leg \div 2
          BY <1>2, <2>1, <4>2, NextLeg
        <5>. QED
          BY <1>2, <2>1, <4>2, <5>1
      <4>. QED
        BY <4>1, <4>2
    <3>2. spiral_dir' = leg' % 4
      BY <1>2, <2>1, NextLeg
    <3>3. /\ step_count' < side_limit'
          /\ side_limit' <= SEARCH_MAX_SIDE + DENSITY_STEP
      BY <2>1, ControllerAssumption DEF SearchStep
    <3>. QED
      BY <3>1, <3>2, <3>3 DEF SpiralCounters
  <2>3. SpiralShape'
    <3> USE ControllerAssumption DEF SpiralShape, SearchStep
    <3>1. CASE spiral_dir = 0
      <4>1. /\ dx' = dx + 1 /\ dy' = dy /\ spiral_dir' = 1
            /\ side_limit' = side_limit
        BY <1>1, <2>1, <3>1
      <4>2. /\ 2 * dx = 2 * step_count - (side_limit - DENSITY_STEP)
            /\ 2 * dy = DENSITY_STEP - side_limit
        BY <3>1
      <4>3. /\ 2 * dx' = side_limit + DENSITY_STEP
            /\ 2 * dy' = 2 * 0 - (side_limit - DENSITY_STEP)
        BY <1>3, <4>1, <4>2
      <4>. QED
        BY <2>1, <4>1, <4>3
    <3>2. CASE spiral_dir = 1
      BY <1>1, <1>3, <2>1, <3>2
    <3>3. CASE spiral_dir = 2
      <4>1. /\ dx' = dx - 1 /\ dy' = dy /\ spiral_dir' = 3
            /\ side_limit' = side_limit
        BY <1>1, <2>1, <3>3
      <4>2. 2 * dx = side_limit - 2 * step_count /\ 2 * dy = side_limit
        BY <3>3
      <4>3. 2 * dx' = -side_limit /\ 2 * dy' = side_limit - 2 * 0
        BY <1>3, <4>1, <4>2
      <4>. QED
        BY <2>1, <4>1, <4>3
    <3>4. CASE spiral_dir = 3
      BY <1>1, <1>3, <2>1, <3>4
    <3>. QED
      BY <3>1, <3>2, <3>3, <3>4
  <2>. QED
    BY <1>1, <2>1, <2>2, <2>3
<1>4. CASE step_count < side_limit - 1
  <2>1. /\ step_count' = step_count + 1 /\ spiral_dir' = spiral_dir
        /\ side_limit' = side_limit /\ leg' = leg
    BY <1>4 DEF SearchStep, SpiralCount, Record
  <2>2. SpiralCounters'
    BY <1>4, <2>1, ControllerAssumption DEF SpiralCounters
  <2>3. SpiralShape'
    <3> USE ControllerAssumption DEF SpiralShape, SearchStep
    <3>1. CASE spiral_dir = 0
      BY <1>1, <2>1, <3>1
    <3>2. CASE spiral_dir = 1
      BY <1>1, <2>1, <3>2
    <3>3. CASE spiral_dir = 2
      BY <1>1, <2>1, <3>3
    <3>4. CASE spiral_dir = 3
      BY <1>1, <2>1, <3>4
    <3>. QED
      BY <3>1, <3>2, <3>3, <3>4
  <2>. QED
    BY <1>1, <2>1, <2>2, <2>3
<1>. QED
  BY <1>2, <1>3, <1>4

\* Every edge and every reset preserves the invariant.
LEMMA SpiralInvStep == SpiralInv /\ [HNext]_hVars => SpiralInv'
<1> SUFFICES ASSUME SpiralInv, [HNext]_hVars PROVE SpiralInv'
  OBVIOUS
<1>1. TypeOK'
  BY HistoryRefines, StepType DEF SpiralInv
<1> SUFFICES HistoryType' /\ SpiralCounters' /\ SpiralShape'
  BY <1>1 DEF SpiralInv
<1>2. CASE HReset
  BY <1>2, ControllerAssumption
     DEF HReset, Reset, HistoryType, SpiralCounters, SpiralShape
<1>3. CASE (ReturnHome \/ ClockEdge) /\ Record
  <2>1. CASE StartSearch
    BY <1>3, <2>1, ControllerAssumption
       DEF StartSearch, Record, HistoryType, SpiralCounters, SpiralShape
  <2>2. CASE SpiralIdle
    <3>1. UNCHANGED <<dx, dy, leg>>
      BY <1>3, <2>2, MovedBy
         DEF SpiralIdle, Record, SpiralInv, TypeOK, HistoryType, spiral, history
    <3>. QED
      BY <2>2, <3>1 DEF SpiralIdle, SpiralInv, HistoryType, SpiralCounters,
                        SpiralShape, spiral
  <2>3. CASE OutsideSearch
    BY <1>3, <2>3 DEF OutsideSearch, Record, history, spiral, SpiralInv,
                      HistoryType, SpiralCounters, SpiralShape
  <2>4. CASE SearchStep
    BY <1>3, <2>4, SearchStepInv
  <2>. QED
    BY <1>3, <2>1, <2>2, <2>3, <2>4, EdgeKinds DEF SpiralInv
<1>4. CASE UNCHANGED hVars
  BY <1>4 DEF hVars, ctlVars, history, SpiralInv, HistoryType,
              SpiralCounters, SpiralShape
<1>. QED
  BY <1>2, <1>3, <1>4 DEF HNext

\* The closed form of the spiral, with the types and the counters it needs,
\* holds in every reachable state.
THEOREM SpiralInvariant == HSpec => []SpiralInv
BY SpiralInvInit, SpiralInvStep, PTL DEF HSpec

\* The spiral's registers agree with each other and with the turns taken, and
\* the side never exceeds the area by more than a pitch.
THEOREM CountersAgree == HSpec => []SpiralCounters
<1>1. SpiralInv => SpiralCounters
  BY DEF SpiralInv
<1>. QED
  BY <1>1, SpiralInvariant, PTL

\* The search is where its registers say, on the square ring of its side.
THEOREM ShapeIsSquareRing == HSpec => []SpiralShape
<1>1. SpiralInv => SpiralShape
  BY DEF SpiralInv
<1>. QED
  BY <1>1, SpiralInvariant, PTL

\* The search never leaves its area.
THEOREM SearchStaysInArea == HSpec => []SearchArea
<1>1. SpiralInv => SearchArea
  <2> SUFFICES ASSUME SpiralInv, state = "SEARCHING" PROVE SearchArea
    BY DEF SearchArea
  <2> USE ControllerAssumption
      DEF SpiralInv, TypeOK, HistoryType, SpiralCounters, SpiralShape, SearchArea
  <2>1. CASE spiral_dir = 0
    BY <2>1
  <2>2. CASE spiral_dir = 1
    BY <2>2
  <2>3. CASE spiral_dir = 2
    BY <2>3
  <2>4. CASE spiral_dir = 3
    BY <2>4
  <2>. QED
    BY <2>1, <2>2, <2>3, <2>4
<1>. QED
  BY <1>1, SpiralInvariant, PTL

-----------------------------------------------------------------------------
\* The controller's search implements the taxicab spiral.
LEMMA TaxicabInit == HInit => Taxicab!Init
BY DEF HInit, CtlInit, Taxicab!Init, Taxicab!Rest, Active

\* Every step of the controller is a step of the taxicab spiral, or none.
LEMMA TaxicabStep ==
  SpiralInv /\ [HNext]_hVars => [Taxicab!Next]_(Taxicab!spiralVars)
<1> SUFFICES ASSUME SpiralInv, [HNext]_hVars
             PROVE  [Taxicab!Next]_(Taxicab!spiralVars)
  OBVIOUS
<1> USE DEF Taxicab!spiralVars, Active
<1>1. CASE state # "SEARCHING" /\ state' # "SEARCHING"
  BY <1>1
<1>2. CASE state = "SEARCHING" /\ state' # "SEARCHING"
  BY <1>2 DEF Taxicab!Next, Taxicab!Stop, Taxicab!Rest
<1>3. CASE UNCHANGED hVars
  BY <1>3 DEF hVars, ctlVars, history
<1>4. CASE HReset
  BY <1>1, <1>2, <1>4 DEF HReset, Reset
<1>5. CASE (ReturnHome \/ ClockEdge) /\ Record
  <2>1. CASE StartSearch
    BY <1>5, <2>1 DEF StartSearch, Record, Taxicab!Next, Taxicab!Start
  <2>2. CASE SpiralIdle
    <3>1. UNCHANGED <<dx, dy, leg>> \/ state # "SEARCHING"
      BY <1>5, <2>2, MovedBy
         DEF SpiralIdle, Record, SpiralInv, TypeOK, HistoryType, spiral
    <3>. QED
      BY <1>1, <1>2, <2>2, <3>1 DEF SpiralIdle, spiral
  <2>3. CASE OutsideSearch
    BY <1>1, <2>3 DEF OutsideSearch
  <2>4. CASE SearchStep
    <3> USE DEF SpiralInv, TypeOK, HistoryType
    <3>1. /\ leg % 4 = spiral_dir
          /\ Taxicab!LegLength(leg) = side_limit
          /\ step_count < side_limit
      BY DEF SpiralCounters, Taxicab!LegLength
    <3>2. /\ leg % 2 = 0 <=> spiral_dir \in {0, 2}
          /\ Taxicab!Sign(leg) = IF spiral_dir < 2 THEN 1 ELSE -1
      BY <3>1, NextLeg DEF Taxicab!Sign
    <3>3. IF leg % 2 = 0
          THEN dx' = dx + Taxicab!Sign(leg) /\ dy' = dy
          ELSE dx' = dx /\ dy' = dy + Taxicab!Sign(leg)
      BY <1>5, <2>4, <3>2, MovedBy DEF SearchStep, SpiralMove, Record
    <3>4. IF step_count + 1 = Taxicab!LegLength(leg)
          THEN leg' = leg + 1 /\ step_count' = 0
          ELSE leg' = leg /\ step_count' = step_count + 1
      BY <1>5, <2>4, <3>1 DEF SearchStep, SpiralCount, Record
    <3>. QED
      BY <2>4, <3>1, <3>3, <3>4 DEF SearchStep, Taxicab!Next, Taxicab!Step
  <2>. QED
    BY <1>5, <2>1, <2>2, <2>3, <2>4, EdgeKinds DEF SpiralInv
<1>. QED
  BY <1>3, <1>4, <1>5 DEF HNext

\* The search is the taxicab spiral, leg by leg, for every pitch and area.
THEOREM ImplementsTaxicabSpiral == HSpec => WalksTaxicabSpiral
BY TaxicabInit, TaxicabStep, SpiralInvariant, PTL
   DEF HSpec, WalksTaxicabSpiral, Taxicab!Spec

-----------------------------------------------------------------------------
(* A search that gives up has looked everywhere.                           *)

\* The side of a leg, and the cell of a leg after so many steps, doubled as in
\* SpiralShape.
Side(l) == DENSITY_STEP * (1 + l \div 2)
OnLeg(dir, side, steps, cell) ==
  CASE dir = 0 -> /\ 2 * cell[1] = 2 * steps - (side - DENSITY_STEP)
                  /\ 2 * cell[2] = DENSITY_STEP - side
    [] dir = 1 -> /\ 2 * cell[1] = side + DENSITY_STEP
                  /\ 2 * cell[2] = 2 * steps - (side - DENSITY_STEP)
    [] dir = 2 -> /\ 2 * cell[1] = side - 2 * steps
                  /\ 2 * cell[2] = side
    [] OTHER   -> /\ 2 * cell[1] = -side
                  /\ 2 * cell[2] = side - 2 * steps

Met(cells, l, steps) == \E cell \in cells : OnLeg(l % 4, Side(l), steps, cell)

\* The whole of every leg that has been walked is in swept, and of the present one
\* the part up to where the search is.
Visited ==
  /\ swept \subseteq Int \X Int
  /\ state = "SEARCHING" =>
       /\ \A l \in 0..leg - 1 : \A t \in 0..Side(l) : Met(swept, l, t)
       /\ \A t \in 0..step_count : Met(swept, leg, t)

\* Where the search is, by its leg.
LEMMA ShapeOnLeg ==
  ASSUME SpiralInv, state = "SEARCHING"
  PROVE  OnLeg(leg % 4, Side(leg), step_count, <<dx, dy>>)
BY DEF SpiralInv, SpiralCounters, SpiralShape, OnLeg, Side

\* A search begins where it is.
LEMMA VisitedBegins ==
  ASSUME SpiralInv', leg' = 0, step_count' = 0, dx' = 0, dy' = 0,
         swept' = {<<0, 0>>}
  PROVE  Visited'
<1>1. OnLeg(0, Side(0), 0, <<0, 0>>)
  BY ControllerAssumption DEF OnLeg, Side
<1>2. Met(swept', 0, 0)
  <2>1. 0 % 4 = 0
    OBVIOUS
  <2>. QED
    BY <1>1, <2>1 DEF Met
<1>3. \A t \in 0..step_count' : Met(swept', leg', t)
  <2>1. \A t \in 0..0 : t = 0
    OBVIOUS
  <2>. QED
    BY <1>2, <2>1, Zenon
<1>4. leg' - 1 < 0 /\ \A l \in 0..leg' - 1 : FALSE
  <2>1. \A l \in 0..0 - 1 : FALSE
    OBVIOUS
  <2>. QED
    BY <2>1
<1>5. swept' \subseteq Int \X Int
  OBVIOUS
<1>. QED
  BY <1>3, <1>4, <1>5, Zenon DEF Visited

\* A step of the search meets the next cell of its leg, and at the end of the leg
\* the first of the next one with it.
LEMMA VisitedStep ==
  ASSUME SpiralInv, SpiralInv', SearchStep, Record, Visited
  PROVE  Visited'
<1> USE DEF SpiralInv, TypeOK, HistoryType
<1>1. /\ dx' = dx + (CASE spiral_dir = 0 -> 1 [] spiral_dir = 2 -> -1
                       [] OTHER -> 0)
      /\ dy' = dy + (CASE spiral_dir = 1 -> 1 [] spiral_dir = 3 -> -1
                       [] OTHER -> 0)
  BY MovedBy DEF SearchStep, SpiralMove, Record
<1>2. /\ spiral_dir = leg % 4 /\ side_limit = Side(leg) /\ step_count < side_limit
      /\ leg \in Nat /\ step_count \in Nat
  BY DEF SpiralCounters, Side
<1>3. /\ state = "SEARCHING" /\ state' = "SEARCHING"
      /\ swept' = swept \cup {<<dx', dy'>>}
      /\ dx' \in Int /\ dy' \in Int
  BY DEF SearchStep, Record
<1>4. swept' \subseteq Int \X Int
  BY <1>3 DEF Visited
<1>5. \A l, t : Met(swept, l, t) => Met(swept', l, t)
  BY <1>3 DEF Met
<1>6. Met(swept', leg, step_count + 1)
  <2>1. OnLeg(leg % 4, Side(leg), step_count, <<dx, dy>>)
    BY <1>3, ShapeOnLeg
  <2>2. Side(leg) \in Nat /\ DENSITY_STEP \in Nat
    BY <1>2, ControllerAssumption DEF SpiralCounters, Side
  <2>3. OnLeg(leg % 4, Side(leg), step_count + 1, <<dx', dy'>>)
    BY <1>1, <1>2, <1>3, <2>1, <2>2 DEF OnLeg
  <2>. QED
    BY <1>3, <2>3 DEF Met
<1>7. Met(swept', leg', step_count')
  <2>1. OnLeg(leg % 4, Side(leg), step_count, <<dx, dy>>)'
    BY <1>3 DEF SpiralCounters, SpiralShape, OnLeg, Side
  <2>. QED
    BY <1>3, <2>1 DEF Met, Side, OnLeg
<1>8. CASE step_count = side_limit - 1
  <2>1. step_count' = 0 /\ leg' = leg + 1
    BY <1>8 DEF SearchStep, SpiralCount, Record
  <2>2. ASSUME NEW l \in 0..leg' - 1, NEW t \in 0..Side(l) PROVE Met(swept', l, t)
    <3>1. CASE l \in 0..leg - 1
      BY <1>3, <1>5, <2>2, <3>1 DEF Visited
    <3>2. CASE l = leg
      <4>1. t \in 0..step_count \/ t = step_count + 1
        BY <1>2, <1>8, <3>2
      <4>. QED
        BY <1>3, <1>5, <1>6, <3>2, <4>1 DEF Visited
    <3>. QED
      BY <1>2, <2>1, <3>1, <3>2
  <2>3. \A t \in 0..step_count' : Met(swept', leg', t)
    BY <1>7, <2>1
  <2>. QED
    BY <1>4, <2>2, <2>3, Zenon DEF Visited, Side
<1>9. CASE step_count < side_limit - 1
  <2>1. step_count' = step_count + 1 /\ leg' = leg
    BY <1>9 DEF SearchStep, SpiralCount, Record
  <2>2. \A l \in 0..leg - 1 : \A t \in 0..Side(l) : Met(swept', l, t)
    BY <1>3, <1>5 DEF Visited
  <2>3. ASSUME NEW t \in 0..step_count' PROVE Met(swept', leg, t)
    <3>1. t \in 0..step_count \/ t = step_count + 1
      BY <1>2, <2>1
    <3>. QED
      BY <1>3, <1>5, <1>6, <3>1 DEF Visited
  <2>. QED
    BY <1>4, <2>1, <2>2, <2>3, Zenon DEF Visited, Side
<1>. QED
  BY <1>2, <1>8, <1>9

LEMMA VisitedInit == HInit => Visited
BY DEF HInit, CtlInit, Visited

\* Every edge and every reset keeps what has been visited.
LEMMA VisitedNext ==
  ASSUME SpiralInv, SpiralInv', Visited, [HNext]_hVars
  PROVE  Visited'
<1>1. CASE HReset
  BY <1>1 DEF HReset, Reset, Visited
<1>2. CASE (ReturnHome \/ ClockEdge) /\ Record
  <2>1. CASE StartSearch
    <3>1. /\ dx' = 0 /\ dy' = 0 /\ leg' = 0 /\ swept' = {<<0, 0>>} /\ step_count' = 0
      BY <1>2, <2>1 DEF StartSearch, Record
    <3>. QED
      BY <3>1, VisitedBegins
  <2>2. CASE SpiralIdle
    <3>1. UNCHANGED <<step_count, dx, dy, leg>> /\ (state' = "SEARCHING" => state = "SEARCHING")
      BY <1>2, <2>2, MovedBy
         DEF SpiralIdle, Record, SpiralInv, TypeOK, HistoryType, spiral, history
    <3>2. \/ swept' = swept
          \/ state = "SEARCHING" /\ swept' = swept \cup {<<dx, dy>>}
      BY <1>2, <2>2, <3>1 DEF SpiralIdle, Record, history
    <3>3. swept' \subseteq Int \X Int /\ swept \subseteq swept'
      BY <3>2 DEF Visited, SpiralInv, HistoryType
    <3>4. \A l, t : Met(swept, l, t) => Met(swept', l, t)
      BY <3>3 DEF Met
    <3>. QED
      BY <3>1, <3>3, <3>4, Zenon DEF Visited, Side
  <2>3. CASE OutsideSearch
    BY <1>2, <2>3 DEF OutsideSearch, Record, history, Visited
  <2>4. CASE SearchStep
    BY <1>2, <2>4, VisitedStep
  <2>. QED
    BY <1>2, <2>1, <2>2, <2>3, <2>4, EdgeKinds DEF SpiralInv
<1>3. CASE UNCHANGED hVars
  <2>1. UNCHANGED <<state, step_count, leg, swept>>
    BY <1>3 DEF hVars, ctlVars, history, spiral
  <2>. QED
    BY <2>1, Zenon DEF Visited, Met, Side
<1>. QED
  BY <1>1, <1>2, <1>3 DEF HNext

\* What is known of the cells that a search has visited.
THEOREM VisitedAlways == HSpec => []Visited
<1>1. SpiralInv /\ SpiralInv' /\ Visited /\ [HNext]_hVars => Visited'
  BY VisitedNext
<1>. QED
  BY <1>1, VisitedInit, SpiralInvariant, PTL DEF HSpec

\* Of the multiples of a pitch one is within half a pitch of any coordinate, and no
\* further out than that coordinate by half a pitch or more.
LEMMA NearestAbove ==
  ASSUME NEW d \in Nat \ {0}, NEW a \in Nat
  PROVE  \E p \in Nat : /\ a - p * d <= d \div 2 /\ p * d - a <= d \div 2
                        /\ 2 * (p * d) <= 2 * a + d - 1
<1>1. a \div d \in Nat /\ a % d \in 0..d - 1 /\ a = d * (a \div d) + (a % d)
  OBVIOUS
<1> DEFINE k == a \div d
           r == a % d
<1>2. k \in Nat /\ r \in 0..d - 1 /\ a = k * d + r /\ k * d \in Nat
  BY <1>1
<1> HIDE DEF k, r
<1>3. (k + 1) * d = k * d + d
  BY <1>2
<1>4. CASE r <= d \div 2
  <2>1. a - k * d <= d \div 2 /\ k * d - a <= d \div 2 /\ 2 * (k * d) <= 2 * a + d - 1
    BY <1>2, <1>4
  <2>. QED
    BY <1>2, <2>1, Zenon
<1>5. CASE r > d \div 2
  <2>1. (k + 1) * d - a = d - r
    BY <1>2, <1>3
  <2>2. d - r <= d \div 2 /\ 2 * (d - r) <= d - 1
    BY <1>2, <1>5
  <2>3. /\ a - (k + 1) * d <= d \div 2 /\ (k + 1) * d - a <= d \div 2
        /\ 2 * ((k + 1) * d) <= 2 * a + d - 1
    BY <1>2, <1>3, <2>1, <2>2
  <2>4. k + 1 \in Nat
    BY <1>2
  <2> WITNESS k + 1 \in Nat
  <2>. QED
    BY <2>3
<1>. QED
  BY <1>2, <1>4, <1>5

Near(a, b, gap) == a - b <= gap /\ b - a <= gap

LEMMA Nearest ==
  ASSUME NEW d \in Nat \ {0}, NEW half \in Int, NEW a \in -half..half
  PROVE  \E p \in Int : /\ Near(a, p * d, d \div 2)
                        /\ 2 * (p * d) <= 2 * half + d - 1
                        /\ -2 * (p * d) <= 2 * half + d - 1
<1>1. CASE a >= 0
  <2>1. PICK p \in Nat : /\ a - p * d <= d \div 2 /\ p * d - a <= d \div 2
                         /\ 2 * (p * d) <= 2 * a + d - 1
    <3>1. a \in Nat
      BY <1>1
    <3>. QED
      BY <3>1, NearestAbove
  <2>2. p * d \in Nat
    BY <2>1
  <2>3. /\ 2 * (p * d) <= 2 * half + d - 1
        /\ -2 * (p * d) <= 2 * half + d - 1
    BY <1>1, <2>1, <2>2
  <2>. QED
    BY <2>1, <2>3 DEF Near
<1>2. CASE a < 0
  <2>1. PICK p \in Nat : /\ (-a) - p * d <= d \div 2 /\ p * d - (-a) <= d \div 2
                         /\ 2 * (p * d) <= 2 * (-a) + d - 1
    <3>1. -a \in Nat
      BY <1>2
    <3>. QED
      BY <3>1, NearestAbove
  <2>2. p * d \in Nat /\ (-p) * d = -(p * d) /\ -p \in Int
    BY <2>1
  <2>3. Near(a, (-p) * d, d \div 2)
    BY <2>1, <2>2 DEF Near
  <2>4. /\ 2 * ((-p) * d) <= 2 * half + d - 1
        /\ -2 * ((-p) * d) <= 2 * half + d - 1
    BY <1>2, <2>1, <2>2
  <2>. QED
    BY <2>2, <2>3, <2>4
<1>. QED
  BY <1>1, <1>2

\* The legs of the m-th square, and how long each is.
LEMMA SquareLegs ==
  ASSUME NEW m \in Nat \ {0}
  PROVE  /\ 4 * m - 3 \in Nat /\ (4 * m - 3) % 4 = 1
         /\ Side(4 * m - 3) = 2 * (m * DENSITY_STEP) - DENSITY_STEP
         /\ 4 * m - 2 \in Nat /\ (4 * m - 2) % 4 = 2
         /\ Side(4 * m - 2) = 2 * (m * DENSITY_STEP)
         /\ 4 * m - 1 \in Nat /\ (4 * m - 1) % 4 = 3
         /\ Side(4 * m - 1) = 2 * (m * DENSITY_STEP)
         /\ 4 * m \in Nat /\ (4 * m) % 4 = 0
         /\ Side(4 * m) = 2 * (m * DENSITY_STEP) + DENSITY_STEP
<1>1. /\ (4 * m - 3) \div 2 = 2 * m - 2 /\ (4 * m - 2) \div 2 = 2 * m - 1
      /\ (4 * m - 1) \div 2 = 2 * m - 1 /\ (4 * m) \div 2 = 2 * m
  OBVIOUS
<1>2. /\ (4 * m - 3) % 4 = 1 /\ (4 * m - 2) % 4 = 2 /\ (4 * m - 1) % 4 = 3
      /\ (4 * m) % 4 = 0
  OBVIOUS
<1>3. \A d \in Nat : /\ d * (1 + (2 * m - 2)) = 2 * (m * d) - d
                     /\ d * (1 + (2 * m - 1)) = 2 * (m * d)
                     /\ d * (1 + 2 * m) = 2 * (m * d) + d
  OBVIOUS
<1>4. DENSITY_STEP \in Nat
  BY ControllerAssumption
<1>. QED
  BY <1>1, <1>2, <1>3, <1>4 DEF Side

\* Every corner of the grid up to the m-th square is on a leg up to the first one of
\* the next square.
LEMMA CornersMet ==
  ASSUME Visited, state = "SEARCHING", leg \in Nat,
         NEW m \in Nat, 4 * m < leg, NEW p \in -m..m, NEW q \in -m..m,
         p \in {-m, m} \/ q \in {-m, m}
  PROVE  \E cell \in swept : cell[1] = p * DENSITY_STEP /\ cell[2] = q * DENSITY_STEP
<1> DEFINE d == DENSITY_STEP
           md == m * d
           pd == p * d
           qd == q * d
<1>1. /\ d \in Nat /\ md \in Nat /\ pd \in Int /\ qd \in Int
      /\ -md <= pd /\ pd <= md /\ -md <= qd /\ qd <= md
  <2>1. d \in Nat
    BY ControllerAssumption
  <2>2. (m - p) * d >= 0 /\ (m + p) * d >= 0 /\ (m - q) * d >= 0 /\ (m + q) * d >= 0
    <3>1. \A i \in Nat : i * d >= 0
      BY <2>1
    <3>2. m - p \in Nat /\ m + p \in Nat /\ m - q \in Nat /\ m + q \in Nat
      OBVIOUS
    <3>. QED
      BY <3>1, <3>2
  <2>3. /\ (m - p) * d = md - pd /\ (m + p) * d = md + pd
        /\ (m - q) * d = md - qd /\ (m + q) * d = md + qd
    BY <2>1
  <2>4. md \in Nat /\ pd \in Int /\ qd \in Int
    BY <2>1
  <2>. QED
    BY <2>1, <2>2, <2>3, <2>4
<1>2. ASSUME NEW l \in 0..leg - 1, NEW t \in 0..Side(l),
             \A x, y \in Int : OnLeg(l % 4, Side(l), t, <<x, y>>) => x = pd /\ y = qd
      PROVE  \E cell \in swept : cell[1] = pd /\ cell[2] = qd
  <2>1. PICK cell \in swept : OnLeg(l % 4, Side(l), t, cell)
    BY <1>2 DEF Visited, Met
  <2>2. PICK x \in Int, y \in Int : cell = <<x, y>>
    BY DEF Visited
  <2>. QED
    BY <1>2, <2>1, <2>2
<1> HIDE DEF md, pd, qd
<1>3. CASE m = 0
  <2>1. 0 \in 0..leg - 1 /\ 0 % 4 = 0 /\ Side(0) = d /\ 0 \in 0..Side(0)
    BY <1>1, <1>3 DEF Side
  <2>2. pd = 0 /\ qd = 0
    BY <1>1, <1>3 DEF pd, qd
  <2>3. ASSUME NEW x \in Int, NEW y \in Int, OnLeg(0, d, 0, <<x, y>>)
        PROVE  x = pd /\ y = qd
    <3>1. 2 * x = 2 * 0 - (d - d) /\ 2 * y = d - d
      BY <2>3 DEF OnLeg
    <3>. QED
      BY <1>1, <2>2, <3>1
  <2>. QED
    BY <1>2, <2>1, <2>3 DEF pd, qd
<1>4. CASE m # 0 /\ q = -m
  <2>1. 4 * m \in 0..leg - 1 /\ (4 * m) % 4 = 0 /\ Side(4 * m) = 2 * md + d /\ qd = -md
    <3>1. (-m) * d = -(m * d)
      BY <1>1
    <3>. QED
      BY <1>4, <3>1, SquareLegs DEF md, qd
  <2>2. pd + md \in 0..Side(4 * m)
    BY <1>1, <2>1
  <2>3. \A x, y \in Int : OnLeg(0, 2 * md + d, pd + md, <<x, y>>) => x = pd /\ y = qd
    BY <1>1, <2>1 DEF OnLeg
  <2>. QED
    BY <1>2, <2>1, <2>2, <2>3 DEF pd, qd
<1>5. CASE m # 0 /\ q # -m /\ p = m
  <2>1. 4 * m - 3 \in 0..leg - 1 /\ (4 * m - 3) % 4 = 1 /\ Side(4 * m - 3) = 2 * md - d
        /\ pd = md
    BY <1>5, SquareLegs DEF md, pd
  <2>2. qd >= d - md
    <3>1. q + m - 1 \in Nat /\ \A i \in Nat : i * d >= 0
      BY <1>1, <1>5
    <3>2. (q + m - 1) * d = qd + md - d
      BY <1>1 DEF md, qd
    <3>3. (q + m - 1) * d >= 0
      BY <3>1
    <3>. QED
      BY <1>1, <3>2, <3>3
  <2>3. qd + md - d \in 0..Side(4 * m - 3)
    BY <1>1, <2>1, <2>2
  <2>4. \A x, y \in Int : OnLeg(1, 2 * md - d, qd + md - d, <<x, y>>) => x = pd /\ y = qd
    BY <1>1, <2>1 DEF OnLeg
  <2>. QED
    BY <1>2, <2>1, <2>3, <2>4 DEF pd, qd
<1>6. CASE m # 0 /\ q = m
  <2>1. 4 * m - 2 \in 0..leg - 1 /\ (4 * m - 2) % 4 = 2 /\ Side(4 * m - 2) = 2 * md /\ qd = md
    BY <1>6, SquareLegs DEF md, qd
  <2>2. md - pd \in 0..Side(4 * m - 2)
    BY <1>1, <2>1
  <2>3. ASSUME NEW x \in Int, NEW y \in Int, OnLeg(2, 2 * md, md - pd, <<x, y>>)
        PROVE  x = pd /\ y = qd
    <3>1. 2 * x = 2 * md - 2 * (md - pd) /\ 2 * y = 2 * md
      BY <2>3 DEF OnLeg
    <3>. QED
      BY <1>1, <2>1, <3>1
  <2>. QED
    BY <1>2, <2>1, <2>2, <2>3 DEF pd, qd
<1>7. CASE m # 0 /\ p = -m
  <2>1. 4 * m - 1 \in 0..leg - 1 /\ (4 * m - 1) % 4 = 3 /\ Side(4 * m - 1) = 2 * md /\ pd = -md
    <3>1. (-m) * d = -(m * d)
      BY <1>1
    <3>. QED
      BY <1>7, <3>1, SquareLegs DEF md, pd
  <2>2. md - qd \in 0..Side(4 * m - 1)
    BY <1>1, <2>1
  <2>3. \A x, y \in Int : OnLeg(3, 2 * md, md - qd, <<x, y>>) => x = pd /\ y = qd
    BY <1>1, <2>1 DEF OnLeg
  <2>. QED
    BY <1>2, <2>1, <2>2, <2>3 DEF pd, qd
<1>. QED
  BY <1>3, <1>4, <1>5, <1>6, <1>7

\* How far the search has come when the next leg would be longer than its area: the
\* corners that are nearest to the cells to be covered are all on legs before it.
LEMMA FarEnough ==
  ASSUME NEW d \in Nat \ {0}, NEW l \in Nat, NEW side \in Nat, NEW m \in Nat,
         d * (1 + l \div 2) > side,
         2 * (m * d) <= 2 * ((side + 1) \div 2 - d) + d - 1
  PROVE  4 * m < l
<1> DEFINE k == l \div 2
<1>1. k \in Nat /\ 2 * k <= l
  OBVIOUS
<1> HIDE DEF k
<1>2. d * (1 + k) = k * d + d /\ k * d \in Nat /\ m * d \in Nat
  BY <1>1
<1>3. k * d + d > side
  BY <1>2 DEF k
<1>4. 2 * ((side + 1) \div 2) <= side + 1
  OBVIOUS
<1>5. 2 * (m * d) <= k * d - 1
  <2>1. 2 * ((side + 1) \div 2 - d) = 2 * ((side + 1) \div 2) - 2 * d
    OBVIOUS
  <2>. QED
    BY <1>2, <1>3, <1>4, <2>1
<1>6. 2 * m < k
  <2>1. SUFFICES ASSUME 2 * m >= k PROVE FALSE
    BY <1>1
  <2>2. (2 * m - k) * d = 2 * (m * d) - k * d
    BY <1>1
  <2>3. 2 * m - k \in Nat /\ \A i \in Nat : i * d >= 0
    BY <1>1, <2>1
  <2>4. (2 * m - k) * d >= 0
    BY <2>3
  <2>. QED
    BY <1>2, <1>5, <2>2, <2>4
<1>. QED
  BY <1>1, <1>6

\* A search that gives up has looked everywhere, for every pitch and every area.
THEOREM SearchHasCovered == HSpec => []SearchCovers
<1>1. SpiralInv /\ Visited => SearchCovers
  <2> DEFINE d == DENSITY_STEP
             half == (SEARCH_MAX_SIDE + 1) \div 2 - d
             gap == d \div 2
  <2> SUFFICES ASSUME SpiralInv, Visited, state = "SEARCHING", side_limit > SEARCH_MAX_SIDE,
                      NEW a \in -half..half, NEW b \in -half..half
               PROVE  \E cell \in swept : Near(a, cell[1], gap) /\ Near(b, cell[2], gap)
    BY Zenon DEF SearchCovers, Near
  <2>1. d \in Nat \ {0} /\ SEARCH_MAX_SIDE \in Nat /\ half \in Int /\ leg \in Nat
        /\ d * (1 + leg \div 2) > SEARCH_MAX_SIDE
    BY ControllerAssumption DEF SpiralInv, HistoryType, SpiralCounters
  <2> HIDE DEF half
  <2>2. PICK p \in Int : /\ Near(a, p * d, gap)
                         /\ 2 * (p * d) <= 2 * half + d - 1
                         /\ -2 * (p * d) <= 2 * half + d - 1
    BY <2>1, Nearest
  <2>3. PICK q \in Int : /\ Near(b, q * d, gap)
                         /\ 2 * (q * d) <= 2 * half + d - 1
                         /\ -2 * (q * d) <= 2 * half + d - 1
    BY <2>1, Nearest
  <2>4. \E m \in Nat : /\ p \in -m..m /\ q \in -m..m
                       /\ p \in {-m, m} \/ q \in {-m, m}
                       /\ m \in {p, -p, q, -q}
    <3> DEFINE mp == IF p < 0 THEN -p ELSE p
               mq == IF q < 0 THEN -q ELSE q
               m == IF mp < mq THEN mq ELSE mp
    <3>1. m \in Nat /\ p \in -m..m /\ q \in -m..m /\ m \in {p, -p, q, -q}
      OBVIOUS
    <3>2. p \in {-m, m} \/ q \in {-m, m}
      OBVIOUS
    <3>. QED
      BY <3>1, <3>2
  <2>5. PICK m \in Nat : /\ p \in -m..m /\ q \in -m..m
                         /\ p \in {-m, m} \/ q \in {-m, m}
                         /\ m \in {p, -p, q, -q}
    BY <2>4
  <2>6. 2 * (m * d) <= 2 * half + d - 1
    <3>1. (-p) * d = -(p * d) /\ (-q) * d = -(q * d) /\ p * d \in Int /\ q * d \in Int
      BY <2>1
    <3>2. m * d = p * d \/ m * d = -(p * d) \/ m * d = q * d \/ m * d = -(q * d)
      BY <2>5, <3>1
    <3>. QED
      BY <2>1, <2>2, <2>3, <3>1, <3>2
  <2>7. 4 * m < leg
    BY <2>1, <2>6, FarEnough DEF half
  <2>8. PICK cell \in swept : cell[1] = p * d /\ cell[2] = q * d
    BY <2>1, <2>5, <2>7, CornersMet
  <2>. QED
    BY <2>2, <2>3, <2>8
<1>. QED
  BY <1>1, SpiralInvariant, VisitedAlways, PTL
=============================================================================
