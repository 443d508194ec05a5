CONSTANTS
    Bits = 5
    HeapLimit = 100000
    LoopBound = 12
    PtrBytes = 8
    Rooms = {1000}
    Texts <- NoTexts
    Readers <- ReaderTexts
    Broken <- NoTexts
    Inputs <- MalformedInputs
    Parsed <- ParseProgram
    Judged <- CheckProgram
    Interpreted <- Interpret
    RanAsWasm <- RunModule
    Lowered <- LowerProgram
    Verified <- Verify
    Loaded <- LoadFrom
    RuntimeDid <- CallRuntimeFunction
    Mapped <- PointersMapped
    Unparsed <- WriteProgram
SPECIFICATION Spec
INVARIANTS ObservablyIdentical
