SPECIFICATION Spec
CONSTANTS
  Reg = {1, 2}
  NoReg = NoReg
  RefRegs = {1, 2}
  Location = {1, 2}
  CallerSaved = {}
  Slot = {0, 1}
  Value = {v1, v2}
  Null = Null
  CodeLength = 2
  JoinLength = 1
  Programs <- VirtualPrograms
SYMMETRY Symmetry
INVARIANTS ReadsCurrent RootsPrecise
