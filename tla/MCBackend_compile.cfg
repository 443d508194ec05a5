SPECIFICATION BackendSpec
CONSTANTS
  Reg = {1, 2, 3}
  NoReg = NoReg
  RefRegs = {1}
  c1 = c1
  s1 = s1
  PhysicalReg = {c1, s1}
  Pool <- CallerFirst
  CalleeSaved = {s1}
  Unplaced = Unplaced
  Inputs = {}
  Slot = {0}
  Value = {v1, v2}
  Null = Null
  Menu <- Values
  Parameters <- IntAndReference
  CodeLength = 2
  JoinLength = 1
  Sources <- Lowered
  Location <- PoolAndSpills
  CallerSaved <- Unpreserved
  Programs = {}
SYMMETRY Symmetry
INVARIANTS ReadsCurrent AllocationJustified IntervalsCoverLife RefsReloadedAfterCalls PlacesDisjoint SpillsDistinct SurvivorsKept
