-------------------------------- MODULE MCLink --------------------------------
(* The link with the timing of the source divided by 5000.                 *)
EXTENDS IrLink

\* The bytes with exactly the given bits set.
Of(ones) == [b \in Bits |-> b \in ones]
TwoFrames == {Of({}), Of({2, 1})}

\* Two commands and two bytes that only another sender could send.
Frames == {Of({}), Of({4, 2, 1}), Of(Bits), Of({7, 5, 3, 1})}

\* Commands with no, three, four and all five bits set.
Commands == {Of({}), Of({4, 2, 1}), Of({4, 3, 2, 0}), Of(0..4)} \cap Sendable
=============================================================================
