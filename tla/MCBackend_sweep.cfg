SPECIFICATION BackendSpec
CONSTANTS
  Reg = {1, 2}
  NoReg = NoReg
  RefRegs = {1, 2}
  c1 = c1
  s1 = s1
  PhysicalReg = {c1, s1}
  Pool <- CallerFirst
  CalleeSaved = {s1}
  Unplaced = Unplaced
  Inputs = {}
  Slot = {0}
  Value = {v1, v2}
  Null = Null
  Menu <- References
  Parameters <- Reference
  CodeLength = 2
  JoinLength = 0
  Sources <- Lowered
  Location <- PoolAndSpills
  CallerSaved <- Unpreserved
  Programs = {}
SYMMETRY Symmetry
INVARIANT SlotsHoldOnlyNeeded
