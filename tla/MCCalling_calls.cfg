SPECIFICATION CallSpec
CONSTANTS
  rax = rax
  r10 = r10
  r11 = r11
  rdi = rdi
  rsi = rsi
  rbx = rbx
  Rax = rax
  R11 = r11
  Scratch = r10
  Memory = Memory
  Immediate = Immediate
  Direct = Direct
  XReg <- RegistersUsed
  ArgumentRegs <- ArgumentsInOrder
  CalleeSaved <- CalleeSavedUsed
  Half <- HalfUsed
  Zero = 0
  Junk = 199
  Result = 198
  Cells <- CellsUsed
  MoveLists = {}
  Starts <- StartsUsed
  Calls <- CallsUsed
INVARIANTS ArgumentsArrive AlignedCalls FrameLinked ConventionKept
