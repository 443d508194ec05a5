---------------------------- MODULE WasmEmitter ----------------------------
(***************************************************************************)
(* The WebAssembly emitter (compiler/src/wasm): structured code straight   *)
(* from the typed tree, without the intermediate representation and so     *)
(* without gc_roots.  A value is a local of the function; one that may     *)
(* hold a reference also has a slot in the function's shadow frame.  The   *)
(* set of active values decides what is published around a call.           *)
(*                                                                         *)
(* The function f is [table, class, bind, ret, controls, params, root,     *)
(* roots, active, initial, strings, code]; root[v] is the slot of value v, *)
(* -1 if it has none.  Locals count from 1, which is the receiver.         *)
(* Instructions are records, operands <<"get", v>>, <<"const", word>>,     *)
(* <<"load", e, offset>>, <<"op", name, l, r>>, <<"if", c, yes, no>>, the  *)
(* own frame <<"frame">> and the word of a prebound name.                  *)
(***************************************************************************)
EXTENDS Lowering, Reading

WordSize == 4
ClassDescriptorOffset == 0
FirstFieldOffset == 12
OutputDestinationOffset == FirstFieldOffset
VTableAddressOffset == 28
VTableEntrySize == 4
FrameRootsOffset == 8
RootSlotSize == WordSize

IsRoot(ty) == IrType(ty) = Ref

\* The words of a class's descriptor.
ClassWords(table, class) ==
    LET info == table[class]
        at(i) == FirstFieldOffset + (i - 1) * WordSize
        n == Len(info.effFields)
        pointers == SelectSeq([i \in 1..n |-> i], LAMBDA i : IsRoot(info.effFields[i][2]))
        size == FirstFieldOffset + WordSize * (n + IF class = "Output" THEN 1 ELSE 0) IN
    << <<"Addr", class>>, <<"U32", class>>,
       IF info.parent = "none" THEN <<"Zero">> ELSE <<"Addr", info.parent>>,
       <<"U32", size>>,
       <<"Addr", [i \in DOMAIN pointers |-> at(pointers[i])]>>,
       <<"U32", Len(pointers)>>, <<"U32", Len(info.vtable)>>,
       <<"Addr", [i \in DOMAIN info.vtable |->
                    <<"method", info.effMethods[info.vtable[i]].owner, info.vtable[i]>>]>> >>

FieldIndexOffset(table, owner, name) ==
    FirstFieldOffset
      + WordSize * (SelectInSeq(table[owner].effFields, LAMBDA x : x[1] = name) - 1)

-----------------------------------------------------------------------------
(* Values.                                                                 *)

Get(v) == <<"get", v>>
Const(word) == <<"const", word>>
LoadWordAt(e, offset) == <<"load", e, offset>>
FrameAddress == <<"frame">>
BindingWord(name) == <<"binding", name>>
Op(name, l, r) == <<"op", name, l, r>>

Ins(f, i) == [f EXCEPT !.code = Append(@, i)]
InsEach(f, Instruction(_), values) ==
    [f EXCEPT !.code = @ \o [i \in DOMAIN values |-> Instruction(values[i])]]
SetTo(v, e) == [i |-> "set", dst |-> v, e |-> e]
Stored(base, offset, e) == [i |-> "store", base |-> base, offset |-> offset, e |-> e]
Set(f, v, e) == Ins(f, SetTo(v, e))
StoreAt(f, base, offset, e) == Ins(f, Stored(base, offset, e))

Temporary(f, ty) ==
    LET v == Len(f.root) + 1 IN
    IF IsRoot(ty)
    THEN With([f EXCEPT !.root = Append(@, f.roots), !.roots = @ + 1,
                        !.active = @ \cup {v}], v)
    ELSE With([f EXCEPT !.root = Append(@, -1)], v)

Named(f, name, ty) ==
    LET t == Temporary(f, ty) IN With([t.b EXCEPT !.bind = (name :> t.v) @@ @], t.v)

\* A new value that holds e.
Held(f, ty, e) == LET t == Temporary(f, ty) IN With(Set(t.b, t.v, e), t.v)
Constant(f, word) == Held(f, "int", Const(word))

\* Both copies are cleared, the local and the slot.
RootOffset(f, v) == FrameRootsOffset + RootSlotSize * f.root[v]
Release(f, v) ==
    IF v \notin f.active THEN f
    ELSE StoreAt(Set([f EXCEPT !.active = @ \ {v}], v, Const(<<"int", 0>>)),
                 FrameAddress, RootOffset(f, v), Const(<<"int", 0>>))
ReleaseAll(f, values) == InOrder(Release, f, values)

\* The active values in the order they were made.
ActiveValues(f) == SelectSeq([v \in DOMAIN f.root |-> v], LAMBDA v : v \in f.active)
Publish(f, values) ==
    InsEach(f, LAMBDA v : Stored(FrameAddress, RootOffset(f, v), Get(v)), values)
\* A plausible slip: the locals are taken to be current after the call.
ReloadNothing(f, values) == f

Reload(f, values) ==
    InsEach(f, LAMBDA v : SetTo(v, LoadWordAt(FrameAddress, RootOffset(f, v))), values)

\* The result's value is made after the snapshot of the active ones.
CallInstruction(f, target, args, result) ==
    LET roots == ActiveValues(f)
        before == Publish(f, roots)
        t == IF result = "void" THEN With(before, 0) ELSE Temporary(before, result)
        called == Ins(t.b, [i |-> "call", target |-> target, args |-> args, dst |-> t.v]) IN
    With(Reload(called, roots), t.v)

CallNamed(f, symbol, args, result) == CallInstruction(f, Const(symbol), args, result)

VirtualCall(f, receiver, actuals, slot, result) ==
    LET entry == LoadWordAt(LoadWordAt(LoadWordAt(Get(receiver), ClassDescriptorOffset),
                                       VTableAddressOffset), slot * VTableEntrySize)
        index == Held(f, "int", entry) IN
    CallInstruction(index.b, Get(index.v), <<receiver>> \o actuals, result)

-----------------------------------------------------------------------------
(* Control.  A branch counts the blocks, loops and ifs it leaves.          *)

\* f with an empty block open for more code, and what that block became.
Open(f, control) == [f EXCEPT !.code = <<>>, !.controls = Append(@, control)]
Close(f, inner, instr) ==
    [inner EXCEPT !.code = Append(f.code, instr), !.controls = f.controls]

BranchDepth(f, target) ==
    Len(f.controls) - SelectLastInSeq(f.controls, LAMBDA c : c = target)
Break(f, target) == Ins(f, [i |-> "br", depth |-> BranchDepth(f, target)])
BreakIf(f, target, e) ==
    Ins(f, [i |-> "br_if", depth |-> BranchDepth(f, target), e |-> e])

ReturnSaved(f, v) == Break(Release(Set(f, f.ret, Get(v)), v), "Exit")

\* An if whose two arms are the code that Yes and No add.
IfElse(f, e, Yes(_), No(_)) ==
    LET yes == Yes(Open(f, "If"))
        no == No([yes EXCEPT !.code = <<>>]) IN
    Close(f, no, [i |-> "if", e |-> e, yes |-> yes.code, no |-> no.code])

-----------------------------------------------------------------------------
(* Expressions.                                                            *)

\* i32.div_s traps on 0 and on the least integer by -1; rem_s only on 0.
TotalDivision(op, l, r) ==
    LET zero == Op("Eq", Get(r), Const(<<"int", 0>>))
        overflow == Op("And", Op("Eq", Get(l), Const(<<"int", MinInt>>)),
                              Op("Eq", Get(r), Const(<<"int", -1>>))) IN
    IF op = "Div"
    THEN <<"if", zero, Const(<<"int", -1>>),
           <<"if", overflow, Const(<<"int", MinInt>>), Op("Div", Get(l), Get(r))>> >>
    ELSE <<"if", zero, Get(l), Op("Mod", Get(l), Get(r))>>

\* The barrier stores references, null too.
StoreFieldAt(f, object, offset, v, ty) ==
    IF ~IsRoot(ty) THEN StoreAt(f, Get(object), offset, Get(v))
    ELSE LET at == Constant(f, <<"int", offset>>) IN
         CallNamed(at.b, Runtime("lo_gc_write_barrier"), <<object, at.v, v>>, "void").b

AllocateObject(f, class, actuals) ==
    LET descriptor == Constant(f, Descriptor(class))
        object == CallNamed(descriptor.b, Runtime("lo_alloc"), <<descriptor.v>>, class)
        fields == f.table[class].effFields
        strings == SelectSeq([i \in DOMAIN fields |-> i], LAMBDA i : fields[i][2] = "String")
        cleared == InOrder(LAMBDA acc, i :
                               LET empty == Constant(acc, EmptyString) IN
                               StoreFieldAt(empty.b, object.v,
                                            FirstFieldOffset + WordSize * (i - 1),
                                            empty.v, "String"),
                            object.b, strings) IN
    With(CallNamed(cleared, Constructor(class, Len(actuals)), <<object.v>> \o actuals, "void").b,
         object.v)

NullReceiverGuard(f, receiver, method) ==
    LET abort(g) == LET bytes == Constant(g, Bytes(method))
                        length == Constant(bytes.b, <<"int", 0>>) IN
                    Ins(CallNamed(length.b, Runtime("lo_abort_null_receiver"),
                                  <<bytes.v, length.v>>, "void").b,
                        [i |-> "unreachable"]) IN
    IfElse(f, Op("Eq", Get(receiver), Const(<<"int", 0>>)), abort, LAMBDA g : g)

Variable(f, name, bind) ==
    Held(f, bind.ty,
         CASE bind.kind \in {"Local", "Formal"} -> Get(f.bind[name])
           [] bind.kind = "Field" ->
                 LoadWordAt(Get(1), FieldIndexOffset(f.table, bind.owner, name))
           [] OTHER -> LoadWordAt(LoadWordAt(BindingWord(name), 0), 0))

RECURSIVE Expression(_, _), MethodCall(_, _)

Actuals(f, args) ==
    InOrder(LAMBDA acc, e : LET x == Expression(acc.b, e) IN
                             With(x.b, Append(acc.v, x.v)),
             With(f, <<>>), args)

\* Evaluates e, moves its value to dst and releases its own.
MoveTo(f, e, dst) ==
    LET x == Expression(f, e) IN Release(Set(x.b, dst, Get(x.v)), x.v)

ShortCircuit(f, left, op, rhs) ==
    LET dst == Temporary(f, "bool")
        other(g) == MoveTo(g, rhs, dst.v)
        known(g) == Set(g, dst.v, Const(<<"int", IF op = "Or" THEN 1 ELSE 0>>)) IN
    With(Release(IF op = "Or" THEN IfElse(dst.b, Get(left), known, other)
                 ELSE IfElse(dst.b, Get(left), other, known), left),
         dst.v)

BinaryExpression(f, e) ==
    LET l == Expression(f, e.l)
        r == Expression(l.b, e.r)
        name == [Add |-> "lo_string_concat", Mul |-> "lo_string_repeat",
                 Lt |-> "lo_string_compare", Gt |-> "lo_string_compare",
                 Eq |-> "lo_string_compare"]
        ordering == e.op \in {"Lt", "Gt", "Eq"}
        call == CallNamed(r.b, Runtime(name[e.op]), <<l.v, r.v>>,
                          IF ordering THEN "int" ELSE "String")
        x == CASE e.l.ty = "String" /\ ordering ->
                     With(Set(call.b, call.v, Op(e.op, Get(call.v), Const(<<"int", 0>>))), call.v)
               [] e.l.ty = "String" /\ ~ordering -> call
               [] e.l.ty # "String" /\ e.op \in {"Div", "Mod"} ->
                     Held(r.b, "int", TotalDivision(e.op, l.v, r.v))
               [] OTHER -> Held(r.b, "int", Op(e.op, Get(l.v), Get(r.v))) IN
    With(ReleaseAll(x.b, <<l.v, r.v>>), x.v)

\* A call of the runtime on one value, which is released.
Through(f, x, name, more, result) ==
    LET call == CallNamed(f, Runtime(name), <<x>> \o more, result) IN
    With(Release(call.b, x), call.v)

Expression(f, e) ==
    CASE e.k = "Num" -> Constant(f, <<"int", e.n>>)
      [] e.k = "Bool" -> Constant(f, <<"int", IF e.b THEN 1 ELSE 0>>)
      [] e.k = "Null" -> Constant(f, <<"int", 0>>)
      [] e.k = "This" -> Held(f, e.ty, Get(1))
      [] e.k = "Var" -> Variable(f, e.name, e.bind)
      [] e.k = "Str" ->
            IF e.s = <<>> THEN Held(f, "String", Const(EmptyString))
            ELSE LET bytes == Constant(f, Bytes(e.s))
                     length == Constant(bytes.b, <<"int", Len(e.s)>>) IN
                 CallNamed(length.b, Runtime("lo_string_new"), <<bytes.v, length.v>>, "String")
      [] e.k = "New" ->
            LET args == Actuals(f, e.args)
                object == AllocateObject(args.b, e.class, args.v) IN
            With(ReleaseAll(object.b, args.v), object.v)
      [] e.k = "Call" -> MethodCall(f, e)
      [] e.k = "Ternary" ->
            LET dst == Temporary(f, e.ty)
                c == Expression(dst.b, e.c)
                yes(g) == MoveTo(g, e.t, dst.v)
                no(g) == MoveTo(g, e.f, dst.v) IN
            With(IfElse(c.b, Get(c.v), yes, no), dst.v)
      [] e.k = "Binop" /\ e.op \in {"And", "Or"} ->
            LET l == Expression(f, e.l) IN ShortCircuit(l.b, l.v, e.op, e.r)
      [] e.k = "Binop" /\ e.op \notin {"And", "Or"} -> BinaryExpression(f, e)
      [] e.k = "Unop" ->
            LET x == Expression(f, e.e) IN
            IF e.e.ty = "String" THEN Through(x.b, x.v, "lo_string_reverse", <<>>, "String")
            ELSE With(Set(x.b, x.v,
                          IF e.op = "Neg" THEN Op("Sub", Const(<<"int", 0>>), Get(x.v))
                          ELSE Op("Eq", Get(x.v), Const(<<"int", 0>>))),
                      x.v)
      [] e.k = "Cast" ->
            LET x == Expression(f, e.e)
                descriptor == Constant(x.b, Descriptor(e.target)) IN
            IF e.dir # "Downcast" THEN x
            ELSE Through(descriptor.b, x.v, "lo_cast_check", <<descriptor.v>>, e.target)
      [] e.k = "InstanceOf" ->
            LET x == Expression(f, e.e)
                descriptor == Constant(x.b, Descriptor(e.class)) IN
            Through(descriptor.b, x.v, "lo_instanceof", <<descriptor.v>>, "bool")

\* Receiver, actuals, test for null, call.
MethodCall(f, call) ==
    LET recv == call.recv
        r == CASE recv.k = "Var" -> Variable(f, recv.name, recv.bind)
               [] recv.k \in {"This", "Super"} -> Held(f, f.class, Get(1))
               [] recv.k = "Computed" -> Expression(f, recv.e)
        args == Actuals(r.b, call.args)
        guarded == NullReceiverGuard(args.b, r.v, call.name)
        x == IF call.res = "Virtual"
             THEN VirtualCall(guarded, r.v, args.v, SlotOf(f.table[call.class], call.name),
                              call.ty)
             ELSE CallNamed(guarded, Method(call.class, call.name), <<r.v>> \o args.v, call.ty) IN
    With(ReleaseAll(Release(x.b, r.v), args.v), x.v)

-----------------------------------------------------------------------------
(* Statements.                                                             *)

Assignment(f, s, v) ==
    Release(IF s.bind.kind = "Field"
            THEN StoreFieldAt(f, 1, FieldIndexOffset(f.table, s.bind.owner, s.name), v, s.bind.ty)
            ELSE Set(f, f.bind[s.name], Get(v)),
            v)

RECURSIVE Statement(_, _)
Statements(f, stmts) ==
    InOrder(Statement, f, stmts)

Statement(f, s) ==
    LET e == IF s.k \in {"Assign", "Return"} THEN s.e ELSE s.c
        x == Expression(f, e) IN
    CASE s.k = "Empty" -> f
      [] s.k = "CallStmt" -> MethodCall(f, s.call).b
      [] s.k = "Break" -> Break(f, "LoopExit")
      [] s.k = "Return" -> ReturnSaved(x.b, x.v)
      [] s.k = "Assign" -> Assignment(x.b, s, x.v)
      [] s.k = "If" ->
            LET yes(g) == Statements(g, s.t)
                no(g) == Statements(g, s.f) IN
            IfElse(x.b, Get(x.v), yes, no)
      [] s.k = "While" ->
            LET head == Open(Open(f, "LoopExit"), "LoopHead")
                c == Expression(head, s.c)
                left == BreakIf(c.b, "LoopExit", Op("Eq", Get(c.v), Const(<<"int", 0>>)))
                body == Statements(left, s.body)
                again == BreakIf(body, "LoopHead", Const(<<"int", 1>>))
                loop == [i |-> "loop", body |-> again.code] IN
            Close(f, again, [i |-> "block", body |-> <<loop>>])

-----------------------------------------------------------------------------
(* Functions: the frame, the body in a block, the shared end.              *)

NewFunction(table, class, formals, locals, result, entry) ==
    LET f0 == [table |-> table, class |-> class, bind |-> <<>>, ret |-> 0,
               controls |-> <<"Exit">>, params |-> 0, root |-> <<>>,
               roots |-> IF entry THEN 3 ELSE 0, active |-> {}, initial |-> <<>>,
               strings |-> <<>>, code |-> <<>>]
        declare(acc, n) == Named(acc, n[1], n[2]).b
        f1 == InOrder(declare, IF entry THEN f0 ELSE Named(f0, "this", class).b, formals)
        f2 == InOrder(declare, f1, locals)
        ret == Named(f2, "$return", result)
        f3 == IF result = "void" THEN f2 ELSE [ret.b EXCEPT !.ret = ret.v] IN
    [f3 EXCEPT !.params = Len(f1.root),
               !.strings = SelectSeq([i \in DOMAIN locals |-> Len(f1.root) + i],
                                     LAMBDA v : locals[v - Len(f1.root)][2] = "String"),
               !.initial = ActiveValues(f3)]

FinishFunction(f, symbol, entry) ==
    LET empty == [f EXCEPT !.code = <<>>]
        roots == ActiveValues(f)
        runtime(g, name) == Ins(g, [i |-> "call", target |-> Const(Runtime(name)),
                                    args |-> <<>>, dst |-> 0])
        strings == InsEach(empty, LAMBDA v : SetTo(v, Const(EmptyString)), f.strings)
        zeroed == InsEach(strings,
                          LAMBDA i : Stored(FrameAddress, FrameRootsOffset + RootSlotSize * (i - 1),
                                            Const(<<"int", 0>>)),
                          [i \in 1..f.roots |-> i])
        entered == Reload(runtime(Publish(zeroed, f.initial), "lo_push_frame"), f.initial)
        bodied == Ins(entered,
                      [i |-> "block",
                       body |-> IF f.ret = 0 THEN f.code
                                ELSE Append(f.code, [i |-> "unreachable"])])
        left == Reload(runtime(Publish(bodied, roots), "lo_pop_frame"), roots) IN
    [symbol |-> symbol, params |-> f.params, locals |-> Len(f.root), slots |-> f.roots,
     ret |-> f.ret, entry |-> entry, code |-> left.code]

EmitConstructor(table, class, c) ==
    LET f == NewFunction(table, class, c.formals, c.locals, "void", FALSE)
        stored == InOrder(LAMBDA acc, n :
                              StoreFieldAt(acc, 1, FieldIndexOffset(table, class, n[1]),
                                           acc.bind[n[1]], n[2]),
                           f, c.formals)
        args == Actuals(f, c.del[2])
        delegated == IF c.del[1] = "none" THEN f
                     ELSE ReleaseAll(CallNamed(args.b, Constructor(c.del[3], Len(args.v)),
                                               <<1>> \o args.v, "void").b, args.v) IN
    FinishFunction(IF c.implicit THEN stored ELSE Statements(delegated, c.body),
                   Constructor(class, Len(c.formals)), FALSE)

\* The wrapper of an operation of the input or the output.
EmitIoWrapper(f, class, name, result) ==
    LET formals == [i \in 1..(f.params - 1) |-> i + 1]
        to == Held(f, "int", LoadWordAt(Get(1), OutputDestinationOffset))
        call == IF class = "Input" THEN CallNamed(f, Runtime("lo_" \o name), formals, result)
                ELSE CallNamed(to.b, Runtime("lo_" \o name), Append(formals, to.v), result) IN
    IF call.v = 0 THEN call.b ELSE ReturnSaved(call.b, call.v)

EmitMethod(table, class, m) ==
    LET f == NewFunction(table, class, m.formals, m.locals, m.ret, FALSE) IN
    FinishFunction(IF m.io THEN EmitIoWrapper(f, class, m.name, m.ret)
                   ELSE Statements(f, m.body),
                   Method(class, m.name), FALSE)

\* in, out and err stay in the first slots of this frame, and the words of
\* their names hold the addresses of those slots.
EmitEntry(table) ==
    LET f == NewFunction(table, "", <<>>, <<>>, "int", TRUE)
        slotOf(name) == FrameRootsOffset
                          + RootSlotSize * (SelectInSeq(Prebound, LAMBDA n : n = name) - 1)
        bound(acc, name) ==
            LET word == StoreAt(acc, BindingWord(name), 0,
                                Op("Add", FrameAddress, Const(<<"int", slotOf(name)>>)))
                made == AllocateObject(word, IF name = "in" THEN "Input" ELSE "Output", <<>>)
                directed == IF name = "in" THEN made.b
                            ELSE StoreAt(made.b, Get(made.v), OutputDestinationOffset,
                                         Const(<<"int", IF name = "err" THEN 1 ELSE 0>>)) IN
            Release(StoreAt(directed, FrameAddress, slotOf(name), Get(made.v)), made.v)
        main == AllocateObject(InOrder(bound, f, Prebound), "Main", <<>>)
        run == VirtualCall(main.b, main.v, <<>>, SlotOf(table["Main"], "main"), "int") IN
    FinishFunction(ReturnSaved(Release(run.b, main.v), run.v), Entry, TRUE)

EmitModule(checked) ==
    LET functions(class) ==
          [i \in DOMAIN class.ctors |->
              EmitConstructor(checked.table, class.name, class.ctors[i])]
          \o [i \in DOMAIN class.methods |->
                EmitMethod(checked.table, class.name, class.methods[i])] IN
    Append(FlattenSeq([i \in DOMAIN checked.classes |-> functions(checked.classes[i])]),
           EmitEntry(checked.table))
=============================================================================
