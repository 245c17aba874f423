----------------------------- MODULE MCVideoDec -----------------------------
(* An instance of VideoDec for TLC: the three decoders of the library.  The *)
(* streams of MCStream grow, shrink and turn, where the decoder can follow; *)
(* that of MCGrowing grows for the hardware.                                *)
EXTENDS VideoDec

SwH264  == [type |-> H264,  cc |-> "sw_h264",  hw |-> FALSE]
SwMjpeg == [type |-> Mjpeg, cc |-> "sw_mjpeg", hw |-> FALSE]
HwMjpeg == [type |-> Mjpeg, cc |-> "hw_mjpeg", hw |-> TRUE]

MCOwn == {SwH264, SwMjpeg, HwMjpeg}

Wide  == [w |-> 4, h |-> 2]
Tall  == [w |-> 2, h |-> 4]
Small == [w |-> 1, h |-> 2]

MCStream ==
  [d \in MCOwn |->
    CASE d = SwH264  -> <<<<Silent, Small>>, <<Small, Silent, Wide>>, <<Tall>>>>
      [] d = SwMjpeg -> <<<<Small>>, <<Tall>>, <<Wide>>>>
      [] d = HwMjpeg -> <<<<Wide>>, <<Wide>>, <<Small>>>>]

MCGrowing ==
  [d \in MCOwn |->
    IF d = HwMjpeg THEN <<<<Small>>, <<Wide>>>> ELSE MCStream[d]]
=============================================================================
