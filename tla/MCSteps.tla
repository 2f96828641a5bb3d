------------------------------- MODULE MCSteps -------------------------------
(* The transmitter and its motors on a small gimbal.                       *)
EXTENDS StepAccount, MCPackets
=============================================================================
