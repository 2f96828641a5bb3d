------------------------------ MODULE ByteStream ------------------------------
(***************************************************************************)
(* What a direction of the JTAG UART promises: a pipe of limited capacity  *)
(* that takes bytes at one end, in pieces of any size, and gives them out  *)
(* at the other, in order, each of them once.  The bytes are numbered.     *)
(***************************************************************************)
EXTENDS Integers, Sequences

CONSTANT CAPACITY

VARIABLES
  pipe,   \* the bytes on their way
  next,   \* the next byte to go in
  chunk   \* the bytes that came out last

streamVars == <<pipe, next, chunk>>

StreamInit == pipe = <<>> /\ next = 1 /\ chunk = <<>>

Put == \E k \in 1..(CAPACITY - Len(pipe)) :
         /\ pipe' = pipe \o [i \in 1..k |-> next + i - 1]
         /\ next' = next + k
         /\ UNCHANGED chunk

Take == \E k \in 1..Len(pipe) :
          /\ chunk' = SubSeq(pipe, 1, k)
          /\ pipe' = SubSeq(pipe, k + 1, Len(pipe))
          /\ UNCHANGED next

StreamNext == Put \/ Take

StreamSpec == StreamInit /\ [][StreamNext]_streamVars
=============================================================================
