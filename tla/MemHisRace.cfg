CONSTANTS
  Slices = 4
  SliceSize = 3
  Detail = 1
  Frames = {0, 1, 3}
  FreeDetail = 1
  MaxBytes = 26
  Calm = FALSE
SPECIFICATION Spec
INVARIANT SyncComplete

