---------------------------- MODULE WasmMachine ----------------------------
(***************************************************************************)
(* What the emitted WebAssembly does when it runs with the runtime and     *)
(* its host (tools/wasmrun), whole runs at a time.                         *)
(*                                                                         *)
(* A word is <<"int", n>>, an address of static data or code, or           *)
(* <<"ref", object, age>> or <<"str", bytes, age>>: the address of a heap  *)
(* object as of collection age.  Every allocation collects and moves every *)
(* object, the worst the runtime may do: a word of an earlier age names    *)
(* nothing any more unless it lay in a root slot of a linked frame, or in  *)
(* a field the object's descriptor says holds a reference.                 *)
(*                                                                         *)
(* The memory adds age, frames, room and pending to NativeRuntime's: the   *)
(* shadow frames [slots, linked], how many more allocations succeed and    *)
(* the line the host keeps.  A running function s is [m, loc, sig, n]: sig *)
(* is "go", "br" (n levels), "abort" (with the status n) or "fault".       *)
(***************************************************************************)
EXTENDS NativeRuntime

Zero == <<"int", 0>>

Aged(w) == w[1] \in {"ref", "str"}
Current(w, m) == Aged(w) => w[3] = m.age

\* A word as the runtime takes it for a parameter, and a result as a word.
Plain(w, ty) ==
    CASE ty = Ref /\ w = Zero -> Null
      [] ty = Ref /\ w = EmptyString -> Str(<<>>)
      [] ty = BoolTy -> <<"bool", w # Zero>>
      [] Aged(w) -> <<w[1], w[2]>>
      [] OTHER -> w

AsWord(v, m) ==
    CASE v = Null -> Zero
      [] v[1] = "bool" -> <<"int", IF v[2] THEN 1 ELSE 0>>
      [] v[1] \in {"ref", "str"} /\ v # Null -> Append(v, m.age)
      [] OTHER -> v

-----------------------------------------------------------------------------
(* The collector, as compiled code sees it.                                *)

StaleRoot(m) ==
    \E i \in DOMAIN m.frames :
        m.frames[i].linked /\ \E k \in DOMAIN m.frames[i].slots :
            ~Current(m.frames[i].slots[k], m)

Moved(m) ==
    LET again(w) == IF Aged(w) /\ Current(w, m) THEN <<w[1], w[2], m.age + 1>> ELSE w IN
    [m EXCEPT !.age = @ + 1,
              !.frames = [i \in DOMAIN @ |->
                 IF ~@[i].linked THEN @[i]
                 ELSE [@[i] EXCEPT !.slots = [k \in DOMAIN @ |-> again(@[k])]]]]

StringMakers == {"lo_string_new", "lo_string_concat", "lo_string_repeat", "lo_string_reverse"}

\* alloc_raw at its worst: every allocation collects and every object moves.
AllocRaw(table, m) ==
    CASE StaleRoot(m) \/ ~PointersMapped(table, m) -> Fault(m)
      [] m.room = 0 -> Result("abort", 137, m)
      [] OTHER -> Fine(None, [Moved(m) EXCEPT !.room = @ - 1])

\* Reads go to the host; what else the runtime does is the same code.
WasmRuntimeFunction(table, name, args, input, m) ==
    CASE name = "lo_read_int" -> NativeTook("int", HostReadInt(input, m.pos), m)
      [] name = "lo_read_bool" -> NativeTook("bool", HostReadBool(input, m.pos), m)
      [] name = "lo_eof" -> NativeTook("bool", HostEof(input, m.pos), m)
      [] OTHER -> CallRuntimeFunction(table, name, args, input, m)

\* What a runtime function makes of its operands as they lie in memory m.
OnOperands(table, name, args, input, m) ==
    LET formals == RuntimeFunctions[name].params IN
    IF \E i \in DOMAIN args : ~Current(args[i], m) THEN Fault(m)
    ELSE WasmRuntimeFunction(table, name, [i \in DOMAIN args |-> Plain(args[i], formals[i])],
                             input, m)

Returned(r) == IF r.sig = "ok" THEN Fine(AsWord(r.v, r.m), r.m) ELSE r

LoAllocObject(table, descriptor, m) ==
    LET space == AllocRaw(table, m) IN
    IF space.sig # "ok" THEN space ELSE Returned(LoAlloc(table, descriptor[2], space.m))

\* A string operator: the bytes go into a buffer outside the heap, then
\* memory moves, then the buffer goes into the new string.
MakeString(table, name, args, input, m) ==
    LET contents == OnOperands(table, name, args, input, m)
        space == AllocRaw(table, m) IN
    CASE contents.sig # "ok" -> contents
      [] contents.sig = "ok" /\ space.sig # "ok" -> space
      [] OTHER -> Fine(AsWord(contents.v, space.m), space.m)

\* The host consumes a line and tells its length; memory moves for a string
\* of zeros of that length; the host fills it with the line it kept.
LoReadString(table, input, m) ==
    LET asked == HostReadLineLen(input, m.pos)
        space == AllocRaw(table, [m EXCEPT !.pos = asked.pos, !.pending = asked.pending])
        copied == HostReadLineInto(space.m.pending, asked.len)
        data == [i \in 1..asked.len |-> IF i \in DOMAIN copied THEN copied[i] ELSE 0] IN
    CASE space.sig # "ok" -> space
      [] space.sig = "ok" /\ asked.len = 0 -> Returned(Fine(Str(<<>>), space.m))
      [] OTHER -> Returned(Fine(Str(data), [space.m EXCEPT !.pending = <<>>]))

\* wasmrun's abort_exit: the status is inferred from the functions named in
\* the backtrace of the trap, by the first of these that is among them.
Classified == << <<"lo_abort_null_receiver", 102>>, <<"lo_cast_check", 101>>,
                 <<"lo_string_repeat", 120>>, <<"lo_alloc", 137>> >>

AbortExit(functions) ==
    LET at == SelectInSeq(Classified, LAMBDA c : c[1] \in functions) IN
    IF at = 0 THEN 134 ELSE Classified[at][2]

\* A failed read carries its status; the runtime's own aborts trap.
Trapped(name, code) ==
    CASE code \in {110, 111, 112} -> code
      [] code = 137 -> AbortExit({name, "lo_alloc"})
      [] OTHER -> AbortExit({name})

CallWasmRuntime(table, name, args, input, m) ==
    LET r == CASE name = "lo_alloc" -> LoAllocObject(table, args[1], m)
               [] name = "lo_read_string" -> LoReadString(table, input, m)
               [] name \in StringMakers -> MakeString(table, name, args, input, m)
               [] name = "lo_abort_null_receiver" -> Result("abort", 102, m)
               [] OTHER -> Returned(OnOperands(table, name, args, input, m)) IN
    IF r.sig = "abort" THEN Result("abort", Trapped(name, r.v), r.m) ELSE r

-----------------------------------------------------------------------------
(* Words from expressions.  None stands for a trap.                        *)

WordAt(table, base, offset, m) ==
    CASE ~Current(base, m) -> None
      [] base[1] = "ref" /\ Current(base, m) ->
            LET o == m.heap[base[2]] IN
            (CASE offset = 0 -> Descriptor(o.class)
               [] offset # 0 /\ ~InBounds(m.p, table, o.class, offset) -> None
               [] OTHER -> IF offset \in DOMAIN o.slots THEN AsWord(o.slots[offset], m)
                           ELSE Zero)
      [] base[1] = "desc" ->
            (CASE offset = DescriptorOffset(m.p, "vtable") ->
                     <<"vt", DescriptorItem(m.p, table, base[2], offset)[2]>>
               [] OTHER -> None)
      [] base[1] = "vt" /\ offset \div m.p < Len(base[2]) ->
            LET at == base[2][offset \div m.p + 1] IN Method(at[2], at[3])
      [] base[1] = "slot" -> m.frames[base[2]].slots[(base[3] + offset - FrameRoot(m.p, 0)) \div m.p + 1]
      [] base[1] = "binding" -> m.binding[base[2]]
      [] OTHER -> None

OpWord(name, a, b, m) ==
    CASE None \in {a, b} \/ ~Current(a, m) \/ ~Current(b, m) -> None
      [] a[1] = "slot" -> <<"slot", a[2], a[3] + b[2]>>
      [] name \in {"Eq", "Lt", "Gt", "And"} /\ a[1] # "slot" ->
            AsWord(<<"bool", CASE name = "Eq" -> a = b
                               [] name = "Lt" -> a[2] < b[2]
                               [] name = "Gt" -> a[2] > b[2]
                               [] name = "And" -> a # Zero /\ b # Zero>>, m)
      [] name = "Div" /\ a = <<"int", MinInt>> /\ b = <<"int", -1>> -> None
      [] name \in {"Div", "Mod"} /\ b = Zero -> None
      [] name = "Mod" /\ b = <<"int", -1>> -> Zero
      [] OTHER -> NativeBinary(name, a, b, m).v

RECURSIVE WordOf(_, _, _)
WordOf(table, e, s) ==
    CASE e[1] = "get" -> s.loc[e[2]]
      [] e[1] = "const" -> e[2]
      [] e[1] = "frame" -> <<"slot", Len(s.m.frames), 0>>
      [] e[1] = "binding" -> e
      [] e[1] = "load" ->
            LET base == WordOf(table, e[2], s) IN
            IF base = None THEN None ELSE WordAt(table, base, e[3], s.m)
      [] e[1] = "op" -> OpWord(e[2], WordOf(table, e[3], s), WordOf(table, e[4], s), s.m)
      [] e[1] = "if" ->
            IF WordOf(table, e[2], s) # Zero THEN WordOf(table, e[3], s)
            ELSE WordOf(table, e[4], s)

\* i32.store; a field holds no age, the collector keeps it right.
StoreInto(table, base, offset, w, s) ==
    LET m == s.m
        slot == (base[3] + offset - FrameRoot(m.p, 0)) \div m.p + 1 IN
    CASE base = None \/ w = None \/ ~Current(base, m) -> [s EXCEPT !.sig = "fault"]
      [] base[1] = "ref" /\ Current(base, m) ->
            LET r == StoreTo(table, base, offset, Plain(w, Int32), m) IN
            [s EXCEPT !.m = r.m, !.sig = IF r.sig = "ok" THEN "go" ELSE "fault"]
      [] base[1] = "slot" -> [s EXCEPT !.m.frames[base[2]].slots[slot] = w]
      [] base[1] = "binding" -> [s EXCEPT !.m.binding = (base[2] :> w) @@ @]
      [] OTHER -> [s EXCEPT !.sig = "fault"]

-----------------------------------------------------------------------------
(* Running code.  cx is [table, functions, input].                         *)

Linked(m, yes) == [m EXCEPT !.frames[Len(m.frames)].linked = yes]

\* Goes on in s with what a call gave.
Given(s, r, dst) ==
    CASE r.sig # "ok" -> [s EXCEPT !.m = r.m, !.sig = r.sig,
                                   !.n = IF r.sig = "abort" THEN r.v ELSE 0]
      [] r.sig = "ok" /\ dst = 0 -> [s EXCEPT !.m = r.m]
      [] OTHER -> [s EXCEPT !.m = r.m, !.loc[dst] = r.v]

\* Leaves one block, loop or if.
LeftOne(s) ==
    IF s.sig # "br" THEN s
    ELSE IF s.n = 0 THEN [s EXCEPT !.sig = "go"] ELSE [s EXCEPT !.n = @ - 1]

RECURSIVE RunFrom(_, _, _, _), RunOne(_, _, _), RunLoop(_, _, _, _), RunFunction(_, _, _, _)

RunFrom(cx, code, i, s) ==
    IF i > Len(code) \/ s.sig # "go" THEN s ELSE RunFrom(cx, code, i + 1, RunOne(cx, code[i], s))

RunOne(cx, instr, s) ==
    LET word(e) == WordOf(cx.table, e, s) IN
    CASE instr.i = "set" ->
            IF word(instr.e) = None THEN [s EXCEPT !.sig = "fault"]
            ELSE [s EXCEPT !.loc[instr.dst] = word(instr.e)]
      [] instr.i = "store" ->
            StoreInto(cx.table, word(instr.base), instr.offset, word(instr.e), s)
      [] instr.i = "call" ->
            LET target == word(instr.target)
                args == [k \in DOMAIN instr.args |-> s.loc[instr.args[k]]] IN
            (CASE target = None -> [s EXCEPT !.sig = "fault"]
               [] target = Runtime("lo_push_frame") -> [s EXCEPT !.m = Linked(@, TRUE)]
               [] target = Runtime("lo_pop_frame") -> [s EXCEPT !.m = Linked(@, FALSE)]
               [] target # None /\ target[2] = "rt"
                     /\ target[3] \notin {"lo_push_frame", "lo_pop_frame"} ->
                     Given(s, CallWasmRuntime(cx.table, target[3], args, cx.input, s.m), instr.dst)
               [] OTHER -> Given(s, RunFunction(cx, target, args, s.m), instr.dst))
      [] instr.i = "if" ->
            IF word(instr.e) = None THEN [s EXCEPT !.sig = "fault"]
            ELSE LeftOne(RunFrom(cx, IF word(instr.e) # Zero THEN instr.yes ELSE instr.no, 1, s))
      [] instr.i = "block" -> LeftOne(RunFrom(cx, instr.body, 1, s))
      [] instr.i = "loop" -> RunLoop(cx, instr.body, s, LoopBound)
      [] instr.i = "br" -> [s EXCEPT !.sig = "br", !.n = instr.depth]
      [] instr.i = "br_if" ->
            IF word(instr.e) # Zero THEN [s EXCEPT !.sig = "br", !.n = instr.depth] ELSE s
      [] instr.i = "unreachable" -> [s EXCEPT !.sig = "fault"]

\* A branch to a loop starts it again.
RunLoop(cx, body, s, left) ==
    LET once == RunFrom(cx, body, 1, s) IN
    CASE left = 0 -> [s EXCEPT !.sig = "fault"]
      [] left > 0 /\ once.sig = "br" /\ once.n = 0 ->
            RunLoop(cx, body, [once EXCEPT !.sig = "go"], left - 1)
      [] OTHER -> LeftOne(once)

RunFunction(cx, symbol, args, m) ==
    LET f == cx.functions[SelectInSeq(cx.functions, LAMBDA g : g.symbol = symbol)]
        s == [m |-> [m EXCEPT !.frames = Append(@, [slots |-> [k \in 1..f.slots |-> None],
                                                    linked |-> FALSE])],
              loc |-> [v \in 1..f.locals |-> IF v <= Len(args) THEN args[v] ELSE Zero],
              sig |-> "go", n |-> 0]
        end == RunFrom(cx, f.code, 1, s)
        popped == [end.m EXCEPT !.frames = Front(@)] IN
    CASE Len(args) # f.params -> Fault(m)
      [] Len(args) = f.params /\ end.sig = "go" ->
            Fine(IF f.ret = 0 THEN None ELSE end.loc[f.ret], popped)
      [] OTHER -> Result(end.sig, end.n, end.m)

RunModule(checked, input, room) ==
    LET cx == [table |-> checked.table, functions |-> EmitModule(checked), input |-> input]
        m == [p |-> WordSize, heap |-> <<>>, binding |-> <<>>, pos |-> 1, out |-> <<>>,
              age |-> 0, frames |-> <<>>, room |-> room, pending |-> <<>>]
        r == RunFunction(cx, Entry, <<>>, m) IN
    [kind |-> IF r.sig = "ok" THEN "exit" ELSE r.sig,
     code |-> CASE r.sig = "ok" -> r.v[2] [] r.sig = "abort" -> r.v [] OTHER -> 0,
     out |-> r.m.out]
=============================================================================
