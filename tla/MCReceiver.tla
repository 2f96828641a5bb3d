------------------------------ MODULE MCReceiver ------------------------------
(* The receiver board with two bits to a reading and short states.          *)
EXTENDS ReceiverBoard

Spot(where) == [i \in Quadrants |-> IF i \in where THEN <<1, 0>> ELSE <<0, 0>>]

\* Nothing; the centre; the right; the top left.
Spots == {Spot({}), Spot(Quadrants), Spot({0, 1}), [Spot({}) EXCEPT ![3] = <<1, 1>>]}
=============================================================================
