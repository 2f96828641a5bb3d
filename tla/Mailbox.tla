------------------------------- MODULE Mailbox -------------------------------
(***************************************************************************)
(* What the IR link promises while nobody resets a board: packets are      *)
(* delivered one at a time, unchanged, none twice and none lost.           *)
(***************************************************************************)
CONSTANTS Packets, None

VARIABLES box,      \* the packet on its way, or None
          latest    \* the packet delivered last

Init == box = None

Send == box = None /\ box' \in Packets /\ UNCHANGED latest

Deliver == box # None /\ latest' = box /\ box' = None

Spec == Init /\ [][Send \/ Deliver]_<<box, latest>>

\* What is sent arrives.
Arrives == box # None ~> box = None
=============================================================================
