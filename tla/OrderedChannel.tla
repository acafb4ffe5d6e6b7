--------------------------- MODULE OrderedChannel ---------------------------
(***************************************************************************)
(* What one direction of an established tunnel promises to the device      *)
(* above it: of the frames sent so far, numbered in the order in which     *)
(* they were sealed, the receiver takes some, in that order, and none of   *)
(* them twice.  Frames may be lost.  It is the contract                    *)
(* docs/protocol.md states as "retrograde counters are rejected".          *)
(***************************************************************************)
EXTENDS Naturals, Sequences

VARIABLES
    sent,   \* how many frames were sealed
    taken   \* the numbers of the frames taken, in that order

vars == <<sent, taken>>

Init == sent = 0 /\ taken = <<>>

Send == sent' = sent + 1 /\ UNCHANGED taken

Take ==
    /\ \E n \in 1 .. sent :
         /\ taken # <<>> => taken[Len(taken)] < n
         /\ taken' = Append(taken, n)
    /\ UNCHANGED sent

Next == Send \/ Take

Spec == Init /\ [][Next]_vars
=============================================================================
