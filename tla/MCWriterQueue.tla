---------------------------- MODULE MCWriterQueue ----------------------------
(***************************************************************************)
(* WriterQueue for TLC: two threads share a writer and hand it frames and  *)
(* payloads that are too long for a slot.                                  *)
(***************************************************************************)
EXTENDS WriterQueue

CONSTANTS p1, p2, frame, overlong

FrameOrOverlong == {frame, overlong}
OnlyOverlong    == {overlong}
=============================================================================
