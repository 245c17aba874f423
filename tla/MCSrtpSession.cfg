SPECIFICATION SessionSpec
CONSTANTS
  Loads = 2
  Faults = {"load", "alloc", "clone", "grow"}
  Ssrcs = {s1, s2}
  Masters = {m1, m2}
  Blocks = {1, 2, 3}
  InitialCapacity = 1
  MaxIndex = 1
  AddTwice = FALSE
  AcrossUpdates = FALSE
INVARIANTS SessionTypeOK KeysOwned CollisionsReported
PROPERTIES UpdateApplies
SYMMETRY Alike
