\* The library's decoders, registered and removed at any time; packets of one
\* to three units, frame buffers that fit and that do not.
CONSTANTS
  H264 = "h264"
  Mjpeg = "mjpeg"
  Types = {"h264", "mjpeg"}
  Tags = {"sw_h264", "sw_mjpeg", "hw_mjpeg"}
  NoTag = "0"
  Descs <- MCOwn
  Own <- MCOwn
  Stream <- MCStream
  Silent = Silent
  Align = 2
  Bufs = {1, 2}
  Rooms = {1, 8}
  MaxLibs = 3
  GivesUp = FALSE
SPECIFICATION Spec
INVARIANTS DecTypeOK EveryFrameOnce DecodedOnce RetryFits InfoIsCurrent
PROPERTY RetryEnds
