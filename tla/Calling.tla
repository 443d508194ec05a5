------------------------------- MODULE Calling --------------------------------
(***************************************************************************)
(* One call of compiled code by compiled code, instruction by instruction  *)
(* where order matters: the caller's argument set-up (codegen/select.rs),  *)
(* the callee's prologue, parameter moves and epilogue (codegen/frame.rs), *)
(* the stack between them.  Stack addresses count 8-byte cells from the    *)
(* caller's rsp; the cells from 0 up are the caller's frame.               *)
(***************************************************************************)
EXTENDS ParallelMove, Integers, FiniteSetsExt

CONSTANTS
  Rax, R11,
  ArgumentRegs,    \* Seq(XReg)
  CalleeSaved,     \* Seq(XReg)
  Memory, Immediate, Direct,
  Junk,            \* left by code that may write what it likes
  Result,          \* the callee's value
  Cells,           \* stack addresses
  Calls            \* the calls to make, see IsCall

\* Neither the selector's scratch registers nor its accumulator hold values.
Allocatable == XReg \ {Rax, R11, Scratch}

Elements(s) == {s[i] : i \in DOMAIN s}

CallerSaved == XReg \ Elements(CalleeSaved)

\* What the verifier and the allocator guarantee of a call: a register holds one
\* virtual register, of one width; parameters have places of their own, registers or
\* spill slots below the number used, which a callee that calls keeps out of
\* caller-saved registers; a leaf has no root slots.
IsCall(c) ==
  /\ c.args \in Seq([at : Allocatable \cup {Memory, Immediate}, width : {32, 64}])
  /\ \A i, j \in DOMAIN c.args :
       c.args[i].at = c.args[j].at /\ c.args[i].at \notin {Memory, Immediate}
         => c.args[i].width = c.args[j].width
  /\ c.pointer \in Allocatable \cup {Memory, Direct}
  /\ c.spills \in Nat /\ c.roots \in Nat /\ c.locals \subseteq Allocatable
  /\ Len(c.params) = Len(c.args) /\ c.params \in Seq(Allocatable \cup 0 .. c.spills - 1)
  /\ \A i, j \in DOMAIN c.params : c.params[i] = c.params[j] => i = j
  /\ {c.hasCalls, c.returns} \subseteq BOOLEAN
  /\ c.hasCalls => \A i \in DOMAIN c.params : c.params[i] \notin CallerSaved
  /\ ~c.hasCalls => c.roots = 0

\* The most a call takes of the stack: arguments and padding, return address and
\* frame pointer, saved registers, shadow frame, spill slots, result and padding.
StackNeed(c) == Len(c.args) + 1 + 2 + Len(CalleeSaved) + 2 + c.roots + c.spills + 2

ASSUME CallingAssumption ==
  /\ {Rax, R11} \subseteq XReg /\ Rax # R11 /\ Scratch \notin {Rax, R11}
  /\ XReg \cap (Nat \cup {Memory, Immediate, Direct}) = {}
  /\ Memory \notin {Immediate, Direct}
  /\ ArgumentRegs \in Seq(Allocatable) /\ CalleeSaved \in Seq(Allocatable)
  /\ \A i, j \in DOMAIN ArgumentRegs : ArgumentRegs[i] = ArgumentRegs[j] => i = j
  /\ \A i, j \in DOMAIN CalleeSaved : CalleeSaved[i] = CalleeSaved[j] => i = j
  /\ Elements(ArgumentRegs) \cap Elements(CalleeSaved) = {}
  /\ Cells \subseteq Int

\* There is stack for each call, and for the caller's cells it names.
ASSUME CallsAssumption ==
  \A c \in Calls : IsCall(c) /\ -StackNeed(c) .. Len(c.args) \subseteq Cells

VARIABLES
  call,
  pc,
  toPush,    \* stack arguments not yet pushed
  mem,       \* [Cells -> Word]
  rsp, rbp,
  current,   \* the runtime's CURRENT_FRAME
  before     \* registers and stack when the call instruction is reached in the IR

stack == <<mem, rsp, rbp, current>>
callVars == <<call, pc, toPush, stack, before>>

All(n) == [low |-> n, high |-> n]

\* What a load or store of the width leaves in a word that held `old`.
Loaded(word, width) == [low |-> word.low, high |-> IF width = 64 THEN word.high ELSE Zero]
Stored(word, width, old) == [low |-> word.low, high |-> IF width = 64 THEN word.high ELSE old.high]

---------------------------------------------------------------------------
(***************************************************************************)
(* The caller.                                                             *)
(***************************************************************************)
Args == DOMAIN call.args
RegisterArgs == {i \in Args : i <= Len(ArgumentRegs)}
StackArgs == Cardinality(Args \ RegisterArgs)
InRegister(i) == call.args[i].at \notin {Memory, Immediate}

\* Argument i in the caller's frame, if that is where it is; the pointer's cell.
FrameCell(i) == i - 1
PointerCell == Len(call.args)

\* Selector::src and fetch.
Operand(i) ==
  CASE call.args[i].at = Memory -> Loaded(mem[FrameCell(i)], call.args[i].width)
    [] call.args[i].at = Immediate -> All(FrameCell(i))
    [] OTHER -> regs[call.args[i].at]

CallInit ==
  /\ call \in Calls
  /\ pc = "pointer"
  /\ toPush = StackArgs
  /\ regs \in Starts
  /\ mem = [c \in Cells |-> All(IF c >= 0 THEN 100 + c ELSE Junk)]
  /\ rsp = 0 /\ rbp = Len(call.args) + 2 /\ current = 50
  /\ before = [regs |-> regs, mem |-> mem, rbp |-> rbp, current |-> current,
               args |-> [i \in Args |-> Operand(i)],
               pointer |-> CASE call.pointer = Direct -> regs[R11]
                             [] call.pointer = Memory -> mem[PointerCell]
                             [] OTHER -> regs[call.pointer]]
  /\ moves = <<>> /\ left = {} /\ parked = {} /\ phase = "done" /\ start = regs

\* A plausible slip: no padding.
PaddingNone == 0

Padding == StackArgs % 2

\* An indirect call's pointer is taken first; then rsp is padded.
TakePointer ==
  /\ pc = "pointer"
  /\ pc' = "push"
  /\ regs' = [regs EXCEPT ![R11] =
       CASE call.pointer = Direct -> @
         [] call.pointer = Memory -> mem[PointerCell]
         [] OTHER -> regs[call.pointer]]
  /\ rsp' = rsp - Padding
  /\ UNCHANGED <<call, toPush, mem, rbp, current, before, moves, left, parked, phase, start>>

\* From the last argument to the first beyond the registers.
PushArgument ==
  /\ pc = "push" /\ toPush > 0
  /\ LET i == Len(ArgumentRegs) + toPush IN
       /\ mem' = [mem EXCEPT ![rsp - 1] = Operand(i)]
       /\ regs' = IF call.args[i].at = Memory THEN [regs EXCEPT ![Rax] = Operand(i)] ELSE regs
  /\ rsp' = rsp - 1
  /\ toPush' = toPush - 1
  /\ UNCHANGED <<call, pc, rbp, current, before, moves, left, parked, phase, start>>

\* A parallel move, started and run by module ParallelMove.
StartMoves(list) ==
  /\ moves' = list /\ left' = Pending(list) /\ parked' = {} /\ phase' = "checking"

MoveOf(dst, src, width) == [dst |-> dst, src |-> src, width |-> width]

\* The members of a set of indices, in order.
IndicesOf(S) ==
  CHOOSE s \in [1 .. Cardinality(S) -> S] :
    /\ \A m, n \in DOMAIN s : m < n => s[m] < s[n]
    /\ \A i \in S : \E n \in DOMAIN s : s[n] = i

StartArguments ==
  /\ pc = "push" /\ toPush = 0
  /\ pc' = "arguments"
  /\ LET inRegs == IndicesOf({i \in RegisterArgs : InRegister(i)}) IN
       StartMoves([n \in DOMAIN inRegs |->
         LET i == inRegs[n] IN MoveOf(ArgumentRegs[i], call.args[i].at, call.args[i].width)])
  /\ start' = regs
  /\ UNCHANGED <<call, toPush, stack, before, regs>>

Moving ==
  /\ pc \in {"arguments", "parameters"}
  /\ MoveStep
  /\ UNCHANGED callVars

\* Arguments in memory and constants come after the parallel move.
LoadOthers ==
  /\ pc = "arguments" /\ phase = "done"
  /\ pc' = "call"
  /\ regs' = [r \in XReg |->
       IF \E i \in RegisterArgs : ArgumentRegs[i] = r /\ ~InRegister(i)
         THEN LET i == CHOOSE i \in RegisterArgs : ArgumentRegs[i] = r
              IN Loaded(Operand(i), call.args[i].width)
         ELSE regs[r]]
  /\ UNCHANGED <<call, toPush, stack, before, moves, left, parked, phase, start>>

---------------------------------------------------------------------------
(***************************************************************************)
(* The callee's frame (Frame::new), downwards from rbp: saved registers,   *)
(* shadow frame, spill slots, the return value's slot, padding.            *)
(***************************************************************************)
Params == DOMAIN call.params
PlacesUsed == Elements(call.params) \cup call.locals

CalleeSavedAmong(places) ==
  LET at == IndicesOf({i \in DOMAIN CalleeSaved : CalleeSaved[i] \in places})
  IN [n \in DOMAIN at |-> CalleeSaved[at[n]]]

\* A plausible slip: saving what holds parameters only.
SavedForParams == CalleeSavedAmong(Elements(call.params))

\* used_callee_saved: those in the final map, in the target's order.
Saved == CalleeSavedAmong(PlacesUsed)

ShadowSize == IF call.hasCalls THEN 2 + call.roots ELSE 0
Spills == call.spills

\* A plausible slip: spill slots directly below the saved registers.
SpillStartAtShadow == Len(Saved)

SpillStart == Len(Saved) + ShadowSize

ShadowBase(fp) == fp - (Len(Saved) + ShadowSize)
RootCell(fp, s) == ShadowBase(fp) + 2 + s
SpillCell(fp, k) == fp - (SpillStart + k + 1)
RetSave(fp) == fp - (SpillStart + Spills + 1)

FrameSize ==
  LET used == SpillStart + Spills + (IF call.hasCalls THEN 1 ELSE 0) IN used + (used % 2)

\* call; push rbp; mov rbp, rsp; sub rsp, size; save registers.
EnterCallee ==
  /\ pc = "call"
  /\ pc' = "entered"
  /\ rbp' = rsp - 2
  /\ rsp' = rbp' - FrameSize
  /\ mem' = [c \in Cells |->
       CASE c = rsp - 1 -> All(Result)
         [] c = rsp - 2 -> All(rbp)
         [] \E i \in DOMAIN Saved : c = rbp' - i -> regs[Saved[rbp' - c]]
         [] OTHER -> mem[c]]
  /\ UNCHANGED <<call, toPush, current, before, moves, left, parked, phase, regs, start>>

WidthOf(i) == call.args[i].width

\* Where parameter i arrives.
Incoming(i) ==
  IF i <= Len(ArgumentRegs) THEN regs[ArgumentRegs[i]] ELSE mem[rbp + 1 + i - Len(ArgumentRegs)]

\* Parameters to memory, from the stack through rax; then those between registers,
\* as one parallel move.
StoreParams ==
  /\ pc = "entered"
  /\ pc' = "parameters"
  /\ mem' = [c \in Cells |->
       IF \E i \in Params : call.params[i] \in Nat /\ c = SpillCell(rbp, call.params[i])
         THEN LET i == CHOOSE i \in Params : call.params[i] \in Nat /\ c = SpillCell(rbp, call.params[i])
              IN Stored(Incoming(i), WidthOf(i), mem[c])
         ELSE mem[c]]
  /\ LET toRegs == IndicesOf({i \in Params : i <= Len(ArgumentRegs) /\ call.params[i] \notin Nat}) IN
       StartMoves([n \in DOMAIN toRegs |->
         LET i == toRegs[n] IN MoveOf(call.params[i], ArgumentRegs[i], WidthOf(i))])
  /\ LET throughRax == {i \in Params : i > Len(ArgumentRegs) /\ call.params[i] \in Nat} IN
       regs' = IF throughRax = {} THEN regs
               ELSE [regs EXCEPT ![Rax] = Loaded(Incoming(Max(throughRax)), WidthOf(Max(throughRax)))]
  /\ start' = regs'
  /\ UNCHANGED <<call, toPush, rsp, rbp, current, before>>

\* Stack arguments whose place is a register come last.
LoadParams ==
  /\ pc = "parameters" /\ phase = "done"
  /\ pc' = "shadow"
  /\ regs' = [r \in XReg |->
       IF \E i \in Params : i > Len(ArgumentRegs) /\ call.params[i] = r
         THEN LET i == CHOOSE i \in Params : call.params[i] = r IN Loaded(Incoming(i), WidthOf(i))
         ELSE regs[r]]
  /\ UNCHANGED <<call, toPush, stack, before, moves, left, parked, phase, start>>

\* Registers a callee may write, once it has.
Clobbered(rs) == [r \in XReg |-> IF r \in rs THEN All(Junk) ELSE regs[r]]

\* The shadow frame is built, its slots null, and lo_push_frame links it.
PushShadow ==
  /\ pc = "shadow"
  /\ pc' = "body"
  /\ IF call.hasCalls
       THEN /\ mem' = [c \in Cells |->
                 CASE c = ShadowBase(rbp) -> All(current)
                   [] c = ShadowBase(rbp) + 1 -> All(call.roots)
                   [] \E s \in 0 .. call.roots - 1 : c = RootCell(rbp, s) -> All(Zero)
                   [] OTHER -> mem[c]]
            /\ current' = ShadowBase(rbp)
            /\ regs' = Clobbered(CallerSaved)
       ELSE UNCHANGED <<mem, current, regs>>
  /\ UNCHANGED <<call, toPush, rsp, rbp, before, moves, left, parked, phase, start>>

\* The body writes the places the allocator gave it, its root slots, what lies below
\* the stack, any caller-saved register, and leaves its result in rax.
Body ==
  /\ pc = "body"
  /\ pc' = "epilogue"
  /\ regs' = [Clobbered(CallerSaved \cup (PlacesUsed \ Nat)) EXCEPT ![Rax] = All(Result)]
  /\ mem' = [c \in Cells |->
       IF \/ c < rsp
          \/ \E k \in 0 .. Spills - 1 : c = SpillCell(rbp, k)
          \/ call.hasCalls /\ \E s \in 0 .. call.roots - 1 : c = RootCell(rbp, s)
         THEN All(Junk) ELSE mem[c]]
  /\ UNCHANGED <<call, toPush, rsp, rbp, current, before, moves, left, parked, phase, start>>

\* lo_pop_frame, with the return value parked across it.
PopShadow ==
  /\ pc = "epilogue"
  /\ pc' = "leave"
  /\ IF call.hasCalls
       THEN /\ mem' = IF call.returns THEN [mem EXCEPT ![RetSave(rbp)] = regs[Rax]] ELSE mem
            /\ current' = mem'[current].low
            /\ regs' = IF call.returns
                         THEN [Clobbered(CallerSaved) EXCEPT ![Rax] = mem'[RetSave(rbp)]]
                         ELSE Clobbered(CallerSaved)
       ELSE UNCHANGED <<mem, current, regs>>
  /\ UNCHANGED <<call, toPush, rsp, rbp, before, moves, left, parked, phase, start>>

\* Saved registers come back; leave; ret.
Leave ==
  /\ pc = "leave"
  /\ pc' = "return"
  /\ regs' = [r \in XReg |->
       IF \E i \in DOMAIN Saved : Saved[i] = r
         THEN mem[rbp - (CHOOSE i \in DOMAIN Saved : Saved[i] = r)] ELSE regs[r]]
  /\ rbp' = mem[rbp].low
  /\ rsp' = rbp + 2
  /\ UNCHANGED <<call, toPush, mem, current, before, moves, left, parked, phase, start>>

\* The caller drops the stack arguments and the padding.
CleanUp ==
  /\ pc = "return"
  /\ pc' = "returned"
  /\ rsp' = rsp + StackArgs + Padding
  /\ UNCHANGED <<call, toPush, mem, rbp, current, before, moves, left, parked, phase, regs, start>>

CallReturned == pc = "returned" /\ UNCHANGED <<callVars, moveVars>>

CallNext ==
  \/ TakePointer \/ PushArgument \/ StartArguments \/ Moving \/ LoadOthers
  \/ EnterCallee \/ StoreParams \/ LoadParams \/ PushShadow \/ Body \/ PopShadow \/ Leave
  \/ CleanUp \/ CallReturned

CallSpec == CallInit /\ [][CallNext]_<<callVars, moveVars>>

---------------------------------------------------------------------------
(***************************************************************************)
(* Properties                                                              *)
(***************************************************************************)
PlaceOf(i) == IF call.params[i] \in Nat THEN mem[SpillCell(rbp, call.params[i])] ELSE regs[call.params[i]]

\* Every argument reaches its parameter's place, from any place through registers or
\* the stack, and an indirect call goes where it was meant to.
ArgumentsArrive ==
  /\ pc = "body" => \A i \in Args : Agrees(PlaceOf(i), before.args[i], WidthOf(i))
  /\ pc = "call" => regs[R11] = before.pointer

\* At each call instruction rsp is a multiple of 16, which System V demands.
AlignedCalls == pc \in {"call", "shadow", "body", "epilogue"} => rsp % 2 = 0

\* A callee that calls has its frame linked below its caller's, every root slot null
\* at first; its spill slots and parameters leave the links alone.
FrameLinked ==
  call.hasCalls =>
    /\ pc \in {"body", "epilogue"} =>
         mem[current] = All(before.current) /\ mem[current + 1] = All(call.roots)
    /\ pc = "body" => \A s \in 0 .. call.roots - 1 : mem[RootCell(rbp, s)] = All(Zero)

\* The call leaves what its caller relies on: callee-saved registers, the caller's
\* stack frame and shadow frame as they were, and the result in rax.
ConventionKept ==
  pc = "returned" =>
    /\ rsp = 0 /\ rbp = before.rbp /\ current = before.current
    /\ \A r \in Elements(CalleeSaved) : regs[r] = before.regs[r]
    /\ \A c \in Cells : c >= 0 => mem[c] = before.mem[c]
    /\ call.returns => regs[Rax] = All(Result)
===============================================================================
