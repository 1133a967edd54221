----------------------------- MODULE MCFrameRing -----------------------------
(***************************************************************************)
(* FrameRing for TLC: payloads of two chunks, so that a payload can be     *)
(* torn, and a ring of three slots, which like the rings of the service    *)
(* does not divide the number of values of a word.                         *)
(***************************************************************************)
EXTENDS FrameRing, TLC

CONSTANTS c1, c2

\* A full slot and an entry shorter than the slot.
FullOrShort == {{c1, c2}, {c1}}
FullOnly    == {{c1, c2}}

LatestOldestHead == -1 .. 1
LatestOnly       == {1}
=============================================================================
