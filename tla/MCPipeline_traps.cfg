CONSTANTS
    Bits = 5
    HeapLimit = 100000
    LoopBound = 12
    PtrBytes = 8
    Rooms = {7, 8, 9, 10, 11, 12}
    Texts <- StringTexts
    Readers <- NoTexts
    Broken <- NoTexts
    Inputs <- WellFormedInputs
    Parsed <- ParseProgram
    Judged <- CheckProgram
    Interpreted <- Interpret
    RanAsWasm <- RunModule
    Lowered <- LowerProgram
    Verified <- Verify
    Loaded <- LoadFrom
    RuntimeDid <- CallRuntimeFunction
    Mapped <- PointersMapped
    Unparsed <- WriteProgram
SPECIFICATION Spec
INVARIANTS OutOfMemoryIs137
