------------------------------ MODULE Pipeline ------------------------------
(***************************************************************************)
(* A program through the toolchain (compiler/src/main.rs): it is parsed,   *)
(* checked, interpreted, compiled to WebAssembly and run, lowered and      *)
(* verified, and the lowered code is run one instruction at a time on the  *)
(* native machine and the runtime.                                         *)
(***************************************************************************)
EXTENDS WasmMachine, Parser, Writing

CONSTANTS Texts,        \* programs that do not read, each a sequence of tokens
          Readers,      \* programs that do
          Broken,       \* tokens that need not be a program
          Inputs,       \* what standard input may hold for the readers
          PtrBytes,     \* the size of a pointer on the native target
          Rooms         \* how many allocations the WebAssembly heap has room for

\* The stages, which a configuration gives the operators that model them.
CONSTANTS Parsed(_),                    \* ParseProgram
          Judged(_),                    \* CheckProgram
          Interpreted(_, _),            \* Interpret
          RanAsWasm(_, _, _),           \* RunModule
          Lowered(_, _),                \* LowerProgram
          Verified(_, _, _),            \* Verify
          Loaded(_, _, _, _, _),        \* LoadFrom
          RuntimeDid(_, _, _, _, _),    \* CallRuntimeFunction
          Mapped(_, _),                 \* PointersMapped
          Unparsed(_, _)                \* WriteProgram

VARIABLES source,       \* which text: <<"text", i>>, <<"reader", i>> or <<"broken", i>>
          input,
          stage,        \* "parse", "unparsed", "check", "rejected", "interpret", "wasm",
                        \* "lower", "unverified", "native", "done"
          program,      \* the classes parsed
          checked,      \* the type checker's verdict
          expected,     \* what the interpreter did
          wasm,         \* what the WebAssembly module did
          code,         \* the lowered functions
          frames,       \* the call stack, the running function last
          memory,
          result        \* what the native run came to

vars == <<source, input, stage, program, checked, expected, wasm, code, frames, memory, result>>

Text == CASE source[1] = "text" -> Texts[source[2]]
          [] source[1] = "reader" -> Readers[source[2]]
          [] source[1] = "broken" -> Broken[source[2]]

NotYet == [kind |-> "none", code |-> 0, out |-> <<>>]

Init ==
    /\ \/ /\ \/ \E i \in DOMAIN Texts : source = <<"text", i>>
             \/ \E i \in DOMAIN Broken : source = <<"broken", i>>
          /\ input = <<>>
       \/ /\ \E i \in DOMAIN Readers : source = <<"reader", i>>
          /\ input \in Inputs
    /\ stage = "parse" /\ program = <<>>
    /\ checked = Rejected
    /\ expected = NotYet /\ wasm = NotYet /\ result = NotYet
    /\ code = <<>> /\ frames = <<>>
    /\ memory = [p |-> PtrBytes, heap |-> <<>>, binding |-> <<>>, pos |-> 1, out |-> <<>>]

Parse ==
    /\ stage = "parse"
    /\ LET r == Parsed(Text) IN
       IF r.ok THEN stage' = "check" /\ program' = r.v
       ELSE stage' = "unparsed" /\ UNCHANGED program
    /\ UNCHANGED <<source, input, checked, expected, wasm, code, frames, memory, result>>

Check ==
    /\ stage = "check"
    /\ checked' = Judged(program)
    /\ stage' = IF checked'.accepted THEN "interpret" ELSE "rejected"
    /\ UNCHANGED <<source, program, input, expected, wasm, code, frames, memory, result>>

RunInterpreter ==
    /\ stage = "interpret"
    /\ expected' = Interpreted(checked, input)
    /\ stage' = IF expected'.kind \in {"exit", "abort"} THEN "wasm" ELSE "done"
    /\ UNCHANGED <<source, program, input, checked, wasm, code, frames, memory, result>>

RunWasm ==
    /\ stage = "wasm"
    /\ \E room \in Rooms : wasm' = RanAsWasm(checked, input, room)
    /\ stage' = "lower"
    /\ UNCHANGED <<source, program, input, checked, expected, code, frames, memory, result>>

-----------------------------------------------------------------------------
(* The native machine.  A frame is [fn, block, pc, regs].                  *)

FunctionOf(symbol) == SelectInSeq(code, LAMBDA f : f.symbol = symbol)

FrameFor(functions, symbol, args) ==
    [fn |-> SelectInSeq(functions, LAMBDA f : f.symbol = symbol),
     block |-> 1, pc |-> 1, regs |-> args]

Lower ==
    /\ stage = "lower"
    /\ code' = Lowered(PtrBytes, checked)
    /\ IF Verified(PtrBytes, checked.table, code')
       THEN stage' = "native" /\ frames' = <<FrameFor(code', Entry, <<>>)>>
       ELSE stage' = "unverified" /\ frames' = <<>>
    /\ UNCHANGED <<source, program, input, checked, expected, wasm, memory, result>>

Top == Last(frames)
Block == code[Top.fn].blocks[Top.block]
AtEnd == Top.pc > Len(Block.code)
Instr == Block.code[Top.pc]

\* The value of an operand; a register nothing has written has none.
Value(o) ==
    CASE o[1] = "v" -> IF o[2] \in DOMAIN Top.regs THEN Top.regs[o[2]] ELSE None
      [] o[1] = "null" -> Null
      [] o[1] = "empty" -> Str(<<>>)
      [] OTHER -> o

Values(args) == [i \in DOMAIN args |-> Value(args[i])]

WithTop(frame) == Append(Front(frames), frame)

Advanced(frame, dst, v) ==
    [frame EXCEPT !.pc = @ + 1, !.regs = IF dst = 0 THEN @ ELSE Put(@, dst, v)]

Stop(kind, status) ==
    /\ stage' = "done"
    /\ result' = [kind |-> kind, code |-> status, out |-> memory.out]

\* Goes on with what an instruction gave, or stops.
Proceed(r, dst) ==
    /\ memory' = r.m
    /\ CASE r.sig = "ok" -> /\ frames' = WithTop(Advanced(Top, dst, r.v))
                            /\ UNCHANGED <<stage, result>>
         [] r.sig # "ok" -> /\ UNCHANGED frames
                            /\ Stop(r.sig, IF r.sig = "abort" THEN r.v ELSE 0)

AtInstruction(ops) ==
    stage = "native" /\ ~AtEnd /\ Instr.op \in ops

Compute ==
    /\ AtInstruction({"Copy", "Unary", "Binary"})
    /\ Proceed(CASE Instr.op = "Copy" -> Fine(Value(Instr.src), memory)
                   [] Instr.op = "Unary" -> Fine(NativeUnary(Instr.f, Value(Instr.src)), memory)
                   [] Instr.op = "Binary" ->
                         NativeBinary(Instr.f, Value(Instr.l), Value(Instr.r), memory),
                 Instr.dst)
    /\ UNCHANGED <<source, program, input, checked, expected, wasm, code>>

LoadWord ==
    /\ AtInstruction({"Load"})
    /\ Proceed(Loaded(checked.table, Value(Instr.base), Instr.offset,
                      code[Top.fn].types[Instr.dst], memory), Instr.dst)
    /\ UNCHANGED <<source, program, input, checked, expected, wasm, code>>

StoreWord ==
    /\ AtInstruction({"Store"})
    /\ Proceed(StoreTo(checked.table, Value(Instr.base), Instr.offset,
                         Value(Instr.val), memory), 0)
    /\ UNCHANGED <<source, program, input, checked, expected, wasm, code>>

\* The caller's pc stays at the call until the callee returns.
CallFunction ==
    /\ AtInstruction({"Call"})
    /\ Value(Instr.target)[2] # "rt"
    /\ frames' = Append(frames, FrameFor(code, Value(Instr.target), Values(Instr.args)))
    /\ UNCHANGED <<source, program, input, stage, checked, expected, wasm, code, memory, result>>

CallTheRuntime ==
    /\ AtInstruction({"Call"})
    /\ Value(Instr.target)[2] = "rt"
    /\ Proceed(RuntimeDid(checked.table, Instr.target[3], Values(Instr.args),
                          input, memory), Instr.dst)
    /\ UNCHANGED <<source, program, input, checked, expected, wasm, code>>

GoTo(block) == frames' = WithTop([Top EXCEPT !.block = block, !.pc = 1])

Transfer ==
    /\ stage = "native" /\ AtEnd
    /\ \/ Block.end[1] = "jump" /\ GoTo(Block.end[2])
       \/ Block.end[1] = "branch" /\ GoTo(IF Value(Block.end[2]) = <<"bool", TRUE>>
                                          THEN Block.end[3] ELSE Block.end[4])
    /\ UNCHANGED <<source, program, input, stage, checked, expected, wasm, code, memory, result>>

ReturnToCaller ==
    /\ stage = "native" /\ AtEnd /\ Block.end[1] = "return" /\ Len(frames) > 1
    /\ LET caller == frames[Len(frames) - 1]
           call == code[caller.fn].blocks[caller.block].code[caller.pc] IN
       frames' = Append(SubSeq(frames, 1, Len(frames) - 2),
                        Advanced(caller, call.dst, Value(Block.end[2])))
    /\ UNCHANGED <<source, program, input, stage, checked, expected, wasm, code, memory, result>>

Exit ==
    /\ stage = "native" /\ AtEnd /\ Len(frames) = 1
    /\ Block.end[1] = "return"
    /\ Stop("exit", Value(Block.end[2])[2])
    /\ UNCHANGED <<source, program, input, checked, expected, wasm, code, frames, memory>>

AbortNullReceiver ==
    /\ stage = "native" /\ AtEnd /\ Block.end[1] = "abort"
    /\ Stop("abort", 102)
    /\ UNCHANGED <<source, program, input, checked, expected, wasm, code, frames, memory>>

NativeStep ==
    \/ Compute \/ LoadWord \/ StoreWord
    \/ CallFunction \/ CallTheRuntime
    \/ Transfer \/ ReturnToCaller \/ Exit \/ AbortNullReceiver

\* Nothing more happens to a program that has ended.
Ended ==
    /\ stage \in {"unparsed", "rejected", "unverified", "done"}
    /\ UNCHANGED vars

Next == Parse \/ Check \/ RunInterpreter \/ RunWasm \/ Lower \/ NativeStep \/ Ended

Spec == Init /\ [][Next]_vars

\* The machine goes on while it runs a program: weak fairness of NativeStep,
\* which is enabled in every state of that stage (a run with none would be
\* a deadlock).
FairSpec == Spec /\ ([]<>(stage # "native") \/ []<><<NativeStep>>_vars)

-----------------------------------------------------------------------------
\* The parser (parser.rs) reads what the grammar writes, and nothing else: a
\* written program is parsed to the classes it was written from, and what
\* parses is made of the tokens of the classes it is parsed to, but for
\* parentheses and for the place of a declaration, which a block may hold.
Uses(tokens, t) == Len(SelectSeq(tokens, LAMBDA u : u = t))

SameWords(a, b) ==
    \A t \in (Range(a) \cup Range(b)) \ {<<"(">>, <<")">>} : Uses(a, t) = Uses(b, t)

ReadsWhatIsWritten ==
    /\ stage = "unparsed" => source[1] = "broken"
    /\ stage = "check" =>
         IF source[1] = "broken" THEN SameWords(Text, Unparsed(program, FALSE))
         ELSE \E spare \in BOOLEAN : Text = Unparsed(program, spare)

-----------------------------------------------------------------------------
\* find_cycle (class_table.rs) answers TRUE exactly where a class inherits
\* from itself, or a constructor delegates to itself, along some chain.
RECURSIVE From(_, _, _)
From(next, nodes, steps) ==
    IF steps = 0 THEN nodes
    ELSE From(next, nodes \cup UNION {next[n] : n \in nodes \cap DOMAIN next}, steps - 1)

OnItself(next) == \E n \in DOMAIN next : n \in From(next, next[n], Cardinality(DOMAIN next))

CycleSearchExact ==
    stage = "check" =>
        LET whole == AddIoClasses(program)
            table == GatherDeclarations(whole) IN
        ~RejectsReservedNames(program) /\ WellFormedDeclarations(whole) =>
            /\ FindCycle([i \in DOMAIN whole |-> whole[i].name], ParentEdges(table))
                 = OnItself(ParentEdges(table))
            /\ \A n \in DOMAIN table :
                 FindCycle(DelegationArities(table[n]), DelegationEdges(table[n]))
                   = OnItself(DelegationEdges(table[n]))

-----------------------------------------------------------------------------
\* The checker is sound: an accepted program never reaches one of the places
\* the interpreter calls unreachable (interpreter/eval.rs), and it always has
\* the field, the method and the constructor it looks for.
AcceptedNeverGoesWrong == expected.kind # "wrong"

\* The verifier (ir/verify.rs) refuses nothing that was lowered from an
\* accepted program: lowering is total and well typed.
LoweredVerifies == stage # "unverified"

\* Lowered code does what the interpreter does: the same output, in the same
\* order and to the same streams, and the same exit status or abort.  A load
\* from null, a wrong offset or slot, a read of an unwritten register or a
\* division the machine traps on is a fault, which the interpreter never has.
NativeAgrees == stage = "done" /\ expected.kind \in {"exit", "abort"}
                    /\ expected.code # 137 => result = expected

\* The map of references the compiler puts in a class's descriptor (layout.rs,
\* ir/statics.rs) is that of the words lowered code stores in its objects:
\* the collector follows those words and no others.
PointerMapExact == stage = "done" => Mapped(checked.table, memory)

\* So does the emitted WebAssembly, which keeps its references alive and
\* current by rules of its own: every allocation moves every object, and a
\* reference used or left in a root slot after its object moved is a fault.
\* The exit status of a trap is the one wasmrun reads off the backtrace.
WasmAgrees == wasm # NotYet /\ expected.code # 137 => wasm = expected

\* Lowered code ends: each break, loop and return goes where the source sends
\* it.  (The programs end, which the interpreter shows.)
LoweredCodeEnds == stage = "native" ~> stage = "done"

\* "Observable behavior identical to compiled code", which is what
\* planning/interpreter_design.md asks of the interpreter, on every input.
ObservablyIdentical ==
    stage = "done" /\ expected.kind \in {"exit", "abort"} => result = expected

\* wasmrun maps "a guest trap to the documented runtime-abort exit code": out
\* of memory, the only reason to abort a program the interpreter finishes,
\* is 137 (runtime-abi.md).
OutOfMemoryIs137 == expected.kind = "exit" /\ wasm.kind = "abort" => wasm.code = 137
=============================================================================
