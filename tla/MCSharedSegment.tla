-------------------------- MODULE MCSharedSegment --------------------------
(* A segment of two rings, and one whose second ring is an event camera's,  *)
(* which the probe does not expect.  Clients only read the segment and do   *)
(* not meet, so one of them stands for all.                                 *)
EXTENDS SharedSegment, TLC

CONSTANTS o1, o2, client

TwoRings == <<"camera", "imu">>
CameraAndEvents == <<"camera", "events">>
WithoutEvents == <<"camera">>
WantsTheSecond == client :> Config[2]
Symmetry == Permutations(Objects)
=============================================================================
