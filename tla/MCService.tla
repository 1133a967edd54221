------------------------------ MODULE MCService ------------------------------
(***************************************************************************)
(* The configurations that TLC runs Service with.                          *)
(***************************************************************************)
EXTENDS Service

SmallServices ==
  {[cameras |-> <<"v4l2", "pylon">>, events |-> <<"prophesee">>, imus |-> << >>],
   [cameras |-> <<"pylon">>, events |-> <<"prophesee">>, imus |-> <<"accel">>],
   [cameras |-> <<"v4l2">>, events |-> << >>, imus |-> <<"accel", "gyro">>]}
=============================================================================
