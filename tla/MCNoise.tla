------------------------------- MODULE MCNoise -------------------------------
(* The IR receiver, with two bits and short levels, under noise.           *)
EXTENDS IrRxNoise
=============================================================================
