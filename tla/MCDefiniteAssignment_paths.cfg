SPECIFICATION FairSpec
CONSTANTS
  Reg = {1, 2}
  NoReg = NoReg
  RefRegs = {}
  Candidates <- FunctionsUsed
INVARIANTS NothingReadUnassigned VerdictExact
PROPERTY VerdictReached
