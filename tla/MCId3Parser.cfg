CONSTANTS
  Ids <- MCIds
  Sizes = {0, 2, 6}
  TagSizes = {3, 34}
  MaxExtra = 1
  MaxFrames = 4
SPECIFICATION Spec
INVARIANTS BlocksOwned StaysInTag FieldsTakeLast
