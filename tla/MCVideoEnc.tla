----------------------------- MODULE MCVideoEnc -----------------------------
(* An instance of VideoEnc for TLC: the four encoders of the library, and  *)
(* one of the application's.                                               *)
EXTENDS VideoEnc

MCOwn ==
  { [type |-> H264,  cc |-> "sw_h264",  hw |-> FALSE],
    [type |-> H264,  cc |-> "hw_h264",  hw |-> TRUE],
    [type |-> Mjpeg, cc |-> "sw_mjpeg", hw |-> FALSE],
    [type |-> Mjpeg, cc |-> "hw_mjpeg", hw |-> TRUE] }

MCDescs == MCOwn \cup {[type |-> H264, cc |-> "user", hw |-> FALSE]}
=============================================================================
