SPECIFICATION FairMoveSpec
CONSTANTS
  Length = 4
  XReg <- Registers
  Scratch = 0
  Half <- HalfUsed
  Zero = 0
  MoveLists <- ListsUsed
  Starts <- StartsUsed
INVARIANT Delivered
PROPERTIES ScratchKept SequencingEnds
