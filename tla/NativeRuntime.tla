--------------------------- MODULE NativeRuntime ---------------------------
(***************************************************************************)
(* What lowered code does when it runs: the memory a load or a store       *)
(* reaches, the arithmetic instruction selection picks (codegen/select.rs) *)
(* and the functions of the Rust runtime that code calls (rust/src).       *)
(*                                                                         *)
(* A value is <<"int", n>>, <<"bool", b>>, <<"ref", object>> with 0 for    *)
(* null, <<"str", bytes>>, or an address: a symbol's operand, the vtable   *)
(* <<"vt", methods>>, a function.  A memory m is [p, heap, binding, pos,   *)
(* out]: the size of a pointer, the objects [class, slots], slots mapping  *)
(* the offsets stored to, the prebound names, the position in the input    *)
(* and what was printed.                                                   *)
(* Where an object lies and when it moves is MarkCompact's and             *)
(* Execution's business.  Results are [sig, v, m]: "ok", "abort" or        *)
(* "fault", which no program that passed the verifier should meet.         *)
(***************************************************************************)
EXTENDS Verifier, WasmEmitter, Interpreter

Result(sig, v, m) == [sig |-> sig, v |-> v, m |-> m]
Fine(v, m) == Result("ok", v, m)
Fault(m) == Result("fault", None, m)

Null == <<"ref", 0>>

\* Memory is handed out zeroed.
ZeroOf(ty) ==
    CASE ty = Int32 -> <<"int", 0>>
      [] ty = BoolTy -> <<"bool", FALSE>>
      [] OTHER -> Null

TagsOf(ty) ==
    CASE ty = Int32 -> {"int"}
      [] ty = BoolTy -> {"bool"}
      [] ty = Ref -> {"ref", "str"}
      [] ty = Ptr -> {"desc", "vt", "bytes", "bindings"}
      [] OTHER -> {"fn"}

Typed(v, ty, m) == IF v[1] \in TagsOf(ty) THEN Fine(v, m) ELSE Fault(m)

-----------------------------------------------------------------------------
(* Memory.                                                                 *)

\* A class's descriptor is written by the target's own emitter and read by
\* the runtime as the structure it compiled for the target.
DescriptorItem(p, table, class, offset) ==
    IF p = WordSize THEN ClassWords(table, class)[offset \div WordSize + 1]
    ELSE DescriptorAt(p, table, class, offset)

InstanceSize(p, table, class) ==
    DescriptorItem(p, table, class, DescriptorOffset(p, "instance_size"))[2]

ParentOf(p, table, class) ==
    LET item == DescriptorItem(p, table, class, DescriptorOffset(p, "parent")) IN
    IF item[1] = "Zero" THEN "none" ELSE item[2]

PointerOffsets(p, table, class) ==
    LET item == DescriptorItem(p, table, class, DescriptorOffset(p, "pointer_offsets")) IN
    IF item[1] = "Zero" THEN {} ELSE ToSet(item[2])

InBounds(p, table, class, offset) ==
    offset >= ObjectHeaderSize(p) /\ offset + p <= InstanceSize(p, table, class)

LoadFrom(table, base, offset, ty, m) ==
    LET o == m.heap[base[2]] IN
    CASE base[1] = "ref" /\ base[2] # 0 /\ offset = 0 -> Typed(Descriptor(o.class), ty, m)
      [] base[1] = "ref" /\ base[2] # 0 /\ offset # 0 ->
            IF ~InBounds(m.p, table, o.class, offset) THEN Fault(m)
            ELSE Typed(IF offset \in DOMAIN o.slots THEN o.slots[offset] ELSE ZeroOf(ty), ty, m)
      [] base[1] = "bindings" -> Typed(m.binding[offset], ty, m)
      [] base[1] = "desc" /\ offset = DescriptorOffset(m.p, "vtable") ->
            LET item == DescriptorItem(m.p, table, base[2], offset) IN
            IF item[1] = "Zero" THEN Fault(m) ELSE Typed(<<"vt", item[2]>>, ty, m)
      [] base[1] = "vt" /\ offset \div m.p < Len(base[2]) ->
            LET at == base[2][offset \div m.p + 1]
                code == Method(at[2], at[3]) IN
            IF ty = CodePtr(SignatureOf(table, code)) THEN Fine(code, m) ELSE Fault(m)
      [] OTHER -> Fault(m)

Put(f, key, v) == [k \in DOMAIN f \cup {key} |-> IF k = key THEN v ELSE f[k]]

StoreTo(table, base, offset, v, m) ==
    CASE base[1] = "ref" /\ base[2] # 0 ->
            IF ~InBounds(m.p, table, m.heap[base[2]].class, offset) THEN Fault(m)
            ELSE Fine(None, [m EXCEPT !.heap[base[2]].slots = Put(@, offset, v)])
      [] base[1] = "bindings" -> Fine(None, [m EXCEPT !.binding = Put(@, offset, v)])
      [] OTHER -> Fault(m)

\* The offsets the collector takes from the descriptor are those of the
\* references: no reference lies elsewhere and nothing else lies there.
PointersMapped(table, m) ==
    LET mapped(o) == PointerOffsets(m.p, table, o.class)
        exact(o) == \A at \in DOMAIN o.slots :
                      IF at \in mapped(o)
                      THEN o.slots[at][1] \in TagsOf(Ref) \/ o.slots[at] = <<"int", 0>>
                      ELSE o.slots[at][1] \notin TagsOf(Ref) IN
    \A n \in DOMAIN m.heap : exact(m.heap[n])

-----------------------------------------------------------------------------
(* Arithmetic: idiv faults on 0 and on the least integer by -1.            *)

NativeBinary(f, l, r, m) ==
    LET a == l[2]   b == r[2] IN
    CASE l[1] # r[1] /\ ~(f = "Eq" /\ {l[1], r[1]} \subseteq TagsOf(Ref)) -> Fault(m)
      [] f = "Eq" -> Fine(<<"bool", l = r>>, m)
      [] f = "Lt" -> Fine(<<"bool", a < b>>, m)
      [] f = "Gt" -> Fine(<<"bool", a > b>>, m)
      [] f = "Add" -> Fine(<<"int", Wrap(a + b)>>, m)
      [] f = "Sub" -> Fine(<<"int", Wrap(a - b)>>, m)
      [] f = "Mul" -> Fine(<<"int", Wrap(a * b)>>, m)
      [] f \in {"Div", "Mod"} /\ (b = 0 \/ (a = MinInt /\ b = -1)) -> Fault(m)
      [] f = "Div" -> Fine(<<"int", TruncDiv(a, b)>>, m)
      [] f = "Mod" -> Fine(<<"int", TruncRem(a, b)>>, m)

NativeUnary(f, v) ==
    IF f = "Neg" THEN <<"int", Wrap(-v[2])>> ELSE <<"bool", ~v[2]>>

-----------------------------------------------------------------------------
(* The runtime.                                                            *)

Str(bytes) == <<"str", bytes>>

LoAlloc(table, class, m) ==
    Fine(<<"ref", Len(m.heap) + 1>>,
         [m EXCEPT !.heap = Append(@, [class |-> class, slots |-> <<>>])])

RECURSIVE OnChain(_, _, _, _)
OnChain(p, table, class, target) ==
    class # "none" /\ (class = target \/ OnChain(p, table, ParentOf(p, table, class), target))

LoInstanceof(table, object, target, m) ==
    object # Null /\ OnChain(m.p, table, m.heap[object[2]].class, target)

LoCastCheck(table, object, target, m) ==
    IF object = Null \/ LoInstanceof(table, object, target, m) THEN Fine(object, m)
    ELSE Result("abort", 101, m)

LoStringConcat(a, b, m) == Fine(Str(a \o b), m)

LoStringRepeat(s, n, m) ==
    IF n < 0 THEN Result("abort", 120, m) ELSE Fine(Str(Repeated(s, n)), m)

LoStringCompare(a, b) ==
    CASE a = b -> 0
      [] a # b /\ StrLess(a, b) -> -1
      [] OTHER -> 1

LoStringReverse(s, m) == Fine(Str(Reverse(s)), m)

Wrote(kind, payload, toStderr, m) ==
    Fine(None, [m EXCEPT !.out = Append(@, <<toStderr # 0, kind, payload>>)])

NativeTook(tag, r, m) ==
    LET after == [m EXCEPT !.pos = r.pos] IN
    IF r.code # 0 THEN Result("abort", r.code, after) ELSE Fine(<<tag, r.v>>, after)

StringArguments(name) ==
    CASE name \in {"lo_string_concat", "lo_string_compare"} -> {1, 2}
      [] name \in {"lo_string_repeat", "lo_string_reverse", "lo_print_string"} -> {1}
      [] OTHER -> {}

CallRuntimeFunction(table, name, args, input, m) ==
    LET x(i) == args[i][2] IN
    CASE \E i \in StringArguments(name) : args[i][1] # "str" -> Fault(m)
      [] name = "lo_alloc" -> LoAlloc(table, x(1), m)
      [] name \in {"lo_push_frame", "lo_pop_frame"} -> Fine(None, m)
      [] name = "lo_gc_write_barrier" -> StoreTo(table, args[1], x(2), args[3], m)
      [] name = "lo_string_new" -> Fine(Str(x(1)), m)
      [] name = "lo_string_concat" -> LoStringConcat(x(1), x(2), m)
      [] name = "lo_string_repeat" -> LoStringRepeat(x(1), x(2), m)
      [] name = "lo_string_compare" -> Fine(<<"int", LoStringCompare(x(1), x(2))>>, m)
      [] name = "lo_string_reverse" -> LoStringReverse(x(1), m)
      [] name = "lo_cast_check" -> LoCastCheck(table, args[1], x(2), m)
      [] name = "lo_instanceof" ->
            Fine(<<"bool", LoInstanceof(table, args[1], x(2), m)>>, m)
      [] name = "lo_print_int" -> Wrote("int", x(1), x(2), m)
      [] name = "lo_print_bool" -> Wrote("bool", x(1), x(2), m)
      [] name = "lo_print_string" -> Wrote("string", x(1), x(2), m)
      [] name = "lo_println" -> Wrote("newline", 0, x(1), m)
      [] name = "lo_read_int" -> NativeTook("int", NativeReadInt(input, m.pos), m)
      [] name = "lo_read_bool" -> NativeTook("bool", NativeReadBool(input, m.pos), m)
      [] name = "lo_read_string" -> NativeTook("str", NativeReadLine(input, m.pos), m)
      [] name = "lo_eof" -> NativeTook("bool", NativeEof(input, m.pos), m)
=============================================================================
