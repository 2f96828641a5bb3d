---------------------------- MODULE MCTransmitter ----------------------------
(* The transmitter on a small gimbal.                                      *)
EXTENDS Transmitter, MCPackets
=============================================================================
