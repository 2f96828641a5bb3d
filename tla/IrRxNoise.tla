------------------------------ MODULE IrRxNoise ------------------------------
(***************************************************************************)
(* ir_rx under arbitrary light: sunlight, reflections, other remote        *)
(* controls.  The line may do anything at every edge, and the board may be *)
(* reset.                                                                  *)
(***************************************************************************)
EXTENDS IrRx

VARIABLE busy   \* history: cycles since the receiver left IDLE

noiseVars == <<irRxVars, busy>>

\* The longest a frame can take: a burst and the header's space last one cycle
\* longer than their count may be, the space of a bit ends before the timeout,
\* and one cycle delivers the frame.
FRAME_MAX == (BURST_MAX + 1) + (SPACE_MAX + 1)
             + (LAST_BIT + 1) * ((DATA_BURST_MAX + 1) + TIMEOUT) + 1

\* The shortest: the space of a bit has no lower bound.
FRAME_MIN == (BURST_MIN + 1) + (SPACE_MIN + 1)
             + (LAST_BIT + 1) * ((DATA_BURST_MIN + 1) + 1) + 1

Watch == busy' = IF rx_state' = "IDLE" THEN 0
                 ELSE IF busy > FRAME_MAX THEN busy ELSE busy + 1

NoiseInit == IrRxInit /\ busy = 0

NoiseEdge == (\E level \in BOOLEAN : RxEdge(level)) /\ Watch
NoiseReset == (\E level \in BOOLEAN : RxReset(level)) /\ Watch

NoiseSpec == NoiseInit /\ [][NoiseEdge \/ NoiseReset]_noiseVars

-----------------------------------------------------------------------------
\* No light keeps the receiver busy for longer than the longest frame: it is
\* then ready for the next header.
FrameBounded == busy <= FRAME_MAX

\* No light delivers two packets faster than frames of the shortest length: the
\* controller's pulses of PULSE_WIDTH cycles do not run into each other.
FramesApart == rx_state = "VALIDATE" => busy >= FRAME_MIN
=============================================================================
