\* The library's encoders, registered and removed at any time; every setting
\* but the GOP, quality of software MJPEG after the first frame and in its range.
CONSTANTS
  H264 = "h264"
  Mjpeg = "mjpeg"
  Types = {"h264", "mjpeg"}
  Tags = {"sw_h264", "hw_h264", "user", "sw_mjpeg", "hw_mjpeg"}
  NoTag = "0"
  Descs <- MCDescs
  Own <- MCOwn
  Values = {0, 1}
  Rates = {1}
  MaxLibs = 2
  Byte = 8
  Settable = {"bitrate", "fps", "qp", "quality", "rotate", "chroma", "other"}
  EarlyQuality = FALSE
  OddQuality = FALSE
SPECIFICATION Spec
INVARIANTS EncTypeOK OneOfEachTag HardwareFirst
PROPERTIES AnswersStable SettingsTakeEffect
