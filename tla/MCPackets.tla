------------------------------ MODULE MCPackets ------------------------------
(* A few of the 32 command bytes, for the models of the transmitter.       *)

Bits(seen, dy, my, dx, mx) ==
  [on_target |-> seen, dir_y |-> dy, move_y |-> my, dir_x |-> dx, move_x |-> mx]

Lost   == Bits(FALSE, FALSE, FALSE, FALSE, FALSE)
Yaw    == Bits(TRUE, FALSE, FALSE, FALSE, TRUE)
Both   == Bits(TRUE, TRUE, TRUE, TRUE, TRUE)

LostOnly   == {Lost}
LostOrSeen == {Lost, Both}
ThreeKinds == {Lost, Yaw, Both}
=============================================================================
