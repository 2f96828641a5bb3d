------------------------ MODULE SearchControllerProofs ------------------------
(***************************************************************************)
(* Theorems about the search controller, for every value of its constants. *)
(***************************************************************************)
EXTENDS SearchController, TLAPS

\* A position counter stays in its 16 bits under every step the code makes.
LEMMA PosClosed ==
  ASSUME NEW p \in Pos, NEW home \in Pos
  PROVE  Succ(p) \in Pos /\ Pred(p) \in Pos /\ Towards(p, home) \in Pos
BY PosAssumption DEF Pos, Succ, Pred, Towards

\* Both homes are positions the counters can hold.
LEMMA HomesArePositions == 0 \in Pos /\ -BOOT_LIMIT \in Pos
BY PosAssumption, ControllerAssumption DEF Pos

\* A step held at the soft limit stays in the width of the counter.
LEMMA ClampedIsPos ==
  ASSUME NEW p \in Pos, NEW dir, NEW limit
  PROVE  Clamped(p, dir, limit) \in Pos
<1>1. Succ(p) \in Pos /\ Pred(p) \in Pos
  BY PosClosed, HomesArePositions
<1>. QED
  BY <1>1 DEF Clamped

\* The pulse timer neither overruns its width nor falls below zero.
LEMMA TimerType ==
  ASSUME pulse_timer \in 0..PULSE_WIDTH, NEW step, RunTimer(step)
  PROVE  pulse_timer' \in 0..PULSE_WIDTH
BY ControllerAssumption DEF RunTimer, Pulsing

\* The initial state and each action keep the registers in their types.
LEMMA InitType == CtlInit => TypeOK
<1> SUFFICES ASSUME CtlInit PROVE TypeOK
  OBVIOUS
<1>1. pos_x \in Pos /\ pos_y \in Pos
  BY HomesArePositions DEF CtlInit
<1>2. /\ side_limit \in Nat \ {0} /\ step_count \in Nat /\ spiral_dir \in 0..3
      /\ pulse_timer \in 0..PULSE_WIDTH
  BY ControllerAssumption DEF CtlInit
<1>. QED
  BY <1>1, <1>2 DEF CtlInit, TypeOK, State

\* Each action, and so each edge, keeps the registers in their types.
LEMMA StepType == TypeOK /\ [Next]_ctlVars => TypeOK'
<1> SUFFICES ASSUME TypeOK, [Next]_ctlVars PROVE TypeOK'
  OBVIOUS
<1> USE DEF TypeOK, State, spiral, outs, dirs
<1>0. 0 \in Pos /\ -BOOT_LIMIT \in Pos
  BY HomesArePositions
<1>1. CASE Reset
  <2>1. /\ pos_x' \in Pos /\ pos_y' \in Pos
        /\ side_limit' \in Nat \ {0} /\ step_count' \in Nat
        /\ spiral_dir' \in 0..3 /\ pulse_timer' \in 0..PULSE_WIDTH
    BY <1>0, <1>1, ControllerAssumption DEF Reset
  <2>. QED
    BY <1>1, <2>1 DEF Reset
<1>2. CASE ReturnHome
  BY <1>2 DEF ReturnHome
<1>3. ASSUME NEW step_tick \in BOOLEAN, BootUp(step_tick) PROVE TypeOK'
  <2>1. pulse_timer' \in 0..PULSE_WIDTH
    BY <1>3, TimerType DEF BootUp
  <2>2. pos_y' \in Pos
    BY <1>0, <1>3, PosClosed DEF BootUp
  <2>. QED
    BY <1>3, <2>1, <2>2 DEF BootUp, Pulsing
<1>4. ASSUME NEW on_target \in BOOLEAN, IdleWait(on_target) PROVE TypeOK'
  <2>1. pulse_timer' \in 0..PULSE_WIDTH
    BY <1>4, TimerType DEF IdleWait
  <2>. QED
    BY <1>4, <2>1 DEF IdleWait
<1>5. ASSUME NEW rx_done \in BOOLEAN, NEW cmd \in Command,
             TrackTarget(rx_done, cmd)
      PROVE  TypeOK'
  <2>1. pulse_timer' \in 0..PULSE_WIDTH
    BY <1>5, TimerType DEF TrackTarget
  <2>2. /\ Clamped(pos_x, cmd.yaw_dir, YAW_LIMIT) \in Pos
        /\ Clamped(pos_y, cmd.pitch_dir, PITCH_LIMIT) \in Pos
    BY ClampedIsPos
  <2>3. /\ cmd.yaw_en \in BOOLEAN /\ cmd.yaw_dir \in BOOLEAN
        /\ cmd.pitch_en \in BOOLEAN /\ cmd.pitch_dir \in BOOLEAN
    BY DEF Command
  <2>. QED
    BY <1>5, <2>1, <2>2, <2>3 DEF TrackTarget, Pulsing
<1>6. CASE StartSearch
  BY <1>6, ControllerAssumption DEF StartSearch
<1>7. CASE TrackNothing
  BY <1>7, TimerType DEF TrackNothing
<1>8. CASE Acquire
  BY <1>8, TimerType DEF Acquire
<1>9. CASE GiveUp
  BY <1>9, TimerType DEF GiveUp
<1>10. ASSUME NEW step_tick \in BOOLEAN, Spiral(step_tick) PROVE TypeOK'
  <2>1. pulse_timer' \in 0..PULSE_WIDTH
    BY <1>10, TimerType DEF Spiral
  <2>2. pos_x' \in Pos /\ pos_y' \in Pos
    BY <1>0, <1>10, PosClosed DEF Spiral, SpiralMove
  <2>3. /\ side_limit' \in Nat \ {0} /\ step_count' \in Nat
        /\ spiral_dir' \in 0..3
    BY <1>10, ControllerAssumption DEF Spiral, SpiralCount
  <2>4. /\ out_yaw_en' \in BOOLEAN /\ out_yaw_dir' \in BOOLEAN
        /\ out_pitch_en' \in BOOLEAN /\ out_pitch_dir' \in BOOLEAN
    <3>1. /\ Pulsing \in BOOLEAN
          /\ (spiral_dir = 0) \in BOOLEAN /\ (spiral_dir = 1) \in BOOLEAN
      BY DEF Pulsing
    <3>2. CASE spiral_dir \in {0, 2}
      BY <1>10, <3>1, <3>2, Zenon DEF Spiral, SpiralOutputs
    <3>3. CASE spiral_dir \notin {0, 2}
      BY <1>10, <3>1, <3>3, Zenon DEF Spiral, SpiralOutputs
    <3>. QED
      BY <3>2, <3>3
  <2>. QED
    BY <1>10, <2>1, <2>2, <2>3, <2>4 DEF Spiral
<1>11. ASSUME NEW home_y \in Pos, NEW up \in BOOLEAN,
              NEW step_tick \in BOOLEAN, WalkHome(home_y, up, step_tick)
       PROVE  TypeOK'
  <2>1. pulse_timer' \in 0..PULSE_WIDTH
    BY <1>11, TimerType DEF WalkHome
  <2>2. pos_x' \in Pos /\ pos_y' \in Pos
    BY <1>0, <1>11, PosClosed DEF WalkHome
  <2>. QED
    BY <1>11, <2>1, <2>2 DEF WalkHome, Pulsing
<1>12. CASE ArriveHome
  BY <1>12, TimerType DEF ArriveHome
<1>13. CASE UNCHANGED ctlVars
  BY <1>13 DEF ctlVars
<1>14. CASE ClockEdge
  <2>1. ASSUME NEW on_target \in BOOLEAN, NEW rx_done \in BOOLEAN,
               NEW cmd \in Command, Tracking(on_target, rx_done, cmd)
        PROVE  TypeOK'
    BY <1>5, <1>6, <1>7, <2>1 DEF Tracking
  <2>2. ASSUME NEW on_target \in BOOLEAN, NEW step_tick \in BOOLEAN,
               Searching(on_target, step_tick)
        PROVE  TypeOK'
    BY <1>8, <1>9, <1>10, <2>2 DEF Searching
  <2>3. ASSUME NEW on_target \in BOOLEAN, NEW step_tick \in BOOLEAN,
               Returning(on_target, step_tick)
        PROVE  TypeOK'
    <3>1. (pos_y < 0) \in BOOLEAN
      OBVIOUS
    <3>. QED
      BY <1>0, <1>8, <1>11, <1>12, <2>3, <3>1, Zenon DEF Returning
  <2>4. ASSUME NEW step_tick \in BOOLEAN, ForcedReturn(step_tick)
        PROVE  TypeOK'
    <3>1. (pos_y <= -BOOT_LIMIT) \in BOOLEAN
      OBVIOUS
    <3>. QED
      BY <1>0, <1>11, <1>12, <2>4, <3>1, Zenon DEF ForcedReturn
  <2>. QED
    BY <1>14, <1>3, <1>4, <2>1, <2>2, <2>3, <2>4 DEF ClockEdge
<1>. QED
  BY <1>1, <1>2, <1>13, <1>14 DEF Next

\* Every register of the controller keeps its type, in every interleaving of
\* reset, return_home and clock edges.
THEOREM TypeCorrect == Spec => []TypeOK
BY InitType, StepType, PTL DEF Spec

-----------------------------------------------------------------------------
\* The flag that remembers the target agrees with the state.
LEMMA SeenFlagStep == SeenFlag /\ TypeOK /\ [Next]_ctlVars => SeenFlag'
<1> SUFFICES ASSUME SeenFlag, TypeOK, [Next]_ctlVars PROVE SeenFlag'
  OBVIOUS
<1> USE DEF SeenFlag
<1>1. CASE Reset
  BY <1>1 DEF Reset
<1>2. CASE ReturnHome
  BY <1>2 DEF ReturnHome
<1>3. ASSUME NEW step_tick \in BOOLEAN, BootUp(step_tick) PROVE SeenFlag'
  BY <1>3 DEF BootUp
<1>4. ASSUME NEW on_target \in BOOLEAN, IdleWait(on_target) PROVE SeenFlag'
  BY <1>4 DEF IdleWait
<1>5. ASSUME NEW on_target \in BOOLEAN, NEW rx_done \in BOOLEAN,
             NEW cmd \in Command, Tracking(on_target, rx_done, cmd)
      PROVE  SeenFlag'
  BY <1>5 DEF Tracking, TrackTarget, StartSearch, TrackNothing
<1>6. ASSUME NEW on_target \in BOOLEAN, NEW step_tick \in BOOLEAN,
             Searching(on_target, step_tick)
      PROVE  SeenFlag'
  BY <1>6 DEF Searching, Acquire, GiveUp, Spiral
<1>7. ASSUME NEW on_target \in BOOLEAN, NEW step_tick \in BOOLEAN,
             Returning(on_target, step_tick)
      PROVE  SeenFlag'
  BY <1>7 DEF Returning, Acquire, ArriveHome, WalkHome
<1>8. ASSUME NEW step_tick \in BOOLEAN, ForcedReturn(step_tick) PROVE SeenFlag'
  BY <1>8 DEF ForcedReturn, ArriveHome, WalkHome
<1>9. CASE UNCHANGED ctlVars
  BY <1>9 DEF ctlVars
<1>. QED
  BY <1>1, <1>2, <1>3, <1>4, <1>5, <1>6, <1>7, <1>8, <1>9 DEF Next, ClockEdge

\* The controller searches and returns only for a target it has seen, and has
\* forgotten it whenever it waits.
THEOREM SeenFlagAgrees == Spec => []SeenFlag
<1>1. CtlInit => SeenFlag
  BY DEF CtlInit, SeenFlag
<1>. QED
  BY <1>1, SeenFlagStep, TypeCorrect, PTL DEF Spec

-----------------------------------------------------------------------------
\* A tracking state that has never seen the target came from IDLE_WAIT, which
\* had just switched the motors off.
LEMMA BlindTrackingStep ==
  BlindTrackingIsIdle /\ SeenFlag /\ [Next]_ctlVars => BlindTrackingIsIdle'
<1> SUFFICES ASSUME BlindTrackingIsIdle, SeenFlag, [Next]_ctlVars
             PROVE  BlindTrackingIsIdle'
  OBVIOUS
<1> USE DEF BlindTrackingIsIdle, SeenFlag, outs
<1>1. CASE Reset
  BY <1>1 DEF Reset
<1>2. CASE ReturnHome
  BY <1>2 DEF ReturnHome
<1>3. ASSUME NEW step_tick \in BOOLEAN, BootUp(step_tick)
      PROVE  BlindTrackingIsIdle'
  BY <1>3 DEF BootUp
<1>4. ASSUME NEW on_target \in BOOLEAN, IdleWait(on_target)
      PROVE  BlindTrackingIsIdle'
  BY <1>4 DEF IdleWait
<1>5. ASSUME NEW on_target \in BOOLEAN, NEW rx_done \in BOOLEAN,
             NEW cmd \in Command, Tracking(on_target, rx_done, cmd)
      PROVE  BlindTrackingIsIdle'
  BY <1>5 DEF Tracking, TrackTarget, StartSearch, TrackNothing
<1>6. ASSUME NEW on_target \in BOOLEAN, NEW step_tick \in BOOLEAN,
             Searching(on_target, step_tick)
      PROVE  BlindTrackingIsIdle'
  BY <1>6 DEF Searching, Acquire, GiveUp, Spiral
<1>7. ASSUME NEW on_target \in BOOLEAN, NEW step_tick \in BOOLEAN,
             Returning(on_target, step_tick)
      PROVE  BlindTrackingIsIdle'
  BY <1>7 DEF Returning, Acquire, ArriveHome, WalkHome
<1>8. ASSUME NEW step_tick \in BOOLEAN, ForcedReturn(step_tick)
      PROVE  BlindTrackingIsIdle'
  BY <1>8 DEF ForcedReturn, ArriveHome, WalkHome
<1>9. CASE UNCHANGED ctlVars
  BY <1>9 DEF ctlVars
<1>. QED
  BY <1>1, <1>2, <1>3, <1>4, <1>5, <1>6, <1>7, <1>8, <1>9 DEF Next, ClockEdge

\* A controller that tracks a target it has not seen keeps both motors still.
THEOREM BlindTrackingStill == Spec => []BlindTrackingIsIdle
<1>1. CtlInit => BlindTrackingIsIdle
  BY DEF CtlInit, BlindTrackingIsIdle
<1>. QED
  BY <1>1, BlindTrackingStep, SeenFlagAgrees, PTL DEF Spec
=============================================================================
