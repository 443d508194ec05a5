SPECIFICATION FairSpec
CONSTANTS
  Reg = {1, 2}
  NoReg = NoReg
  RefRegs = {1, 2}
  Functions <- FunctionsUsed
INVARIANTS StableIsSolution LivenessExact SweepPreservesReads NoDeadCopyLeft
PROPERTY Terminates
