------------------------------ MODULE Lowering ------------------------------
(***************************************************************************)
(* From the typed tree to the intermediate representation (ir/lower.rs,    *)
(* ir/lower/operations.rs and program.rs, ir/declare.rs, ir/runtime.rs).   *)
(*                                                                         *)
(* An operand is <<"v", register>>, a constant or a symbol; a type is a    *)
(* tuple too, because a code pointer carries its signature.  The builder b *)
(* is [p, table, blocks, types, arity, cur, bind, exits, ok]: cur is the   *)
(* block being filled, 0 after a return or a break, and ok is lost where   *)
(* the code returns an error.  Lowering an expression gives [b, v].        *)
(***************************************************************************)
EXTENDS TypeChecker

Int32 == <<"Int32">>
BoolTy == <<"Bool">>
Ref == <<"Ref">>
Ptr == <<"Ptr">>
NoTy == <<"None">>
CodePtr(sig) == <<"CodePtr", sig>>

IrType(ty) ==
    CASE ty = "int" -> Int32
      [] ty = "bool" -> BoolTy
      [] ty = "void" -> NoTy
      [] OTHER -> Ref

Signature(params, result) == [params |-> params, result |-> result]

RuntimeFunctions ==
    [lo_alloc |-> Signature(<<Ptr>>, Ref),
     lo_push_frame |-> Signature(<<Ptr>>, NoTy),
     lo_pop_frame |-> Signature(<<>>, NoTy),
     lo_gc_write_barrier |-> Signature(<<Ref, Int32, Ref>>, NoTy),
     lo_string_new |-> Signature(<<Ptr, Int32>>, Ref),
     lo_string_concat |-> Signature(<<Ref, Ref>>, Ref),
     lo_string_repeat |-> Signature(<<Ref, Int32>>, Ref),
     lo_string_compare |-> Signature(<<Ref, Ref>>, Int32),
     lo_string_reverse |-> Signature(<<Ref>>, Ref),
     lo_cast_check |-> Signature(<<Ref, Ptr>>, Ref),
     lo_instanceof |-> Signature(<<Ref, Ptr>>, BoolTy),
     lo_print_int |-> Signature(<<Int32, Int32>>, NoTy),
     lo_print_bool |-> Signature(<<BoolTy, Int32>>, NoTy),
     lo_print_string |-> Signature(<<Ref, Int32>>, NoTy),
     lo_println |-> Signature(<<Int32>>, NoTy),
     lo_read_int |-> Signature(<<>>, Int32),
     lo_read_bool |-> Signature(<<>>, BoolTy),
     lo_read_string |-> Signature(<<>>, Ref),
     lo_eof |-> Signature(<<>>, BoolTy),
     lo_abort_null_receiver |-> Signature(<<Ptr, Int32>>, NoTy)]

-----------------------------------------------------------------------------
(* Symbols and their signatures.                                           *)

Method(class, name) == <<"fn", "method", class, name>>
Constructor(class, arity) == <<"fn", "ctor", class, arity>>
Runtime(name) == <<"fn", "rt", name>>
Entry == <<"fn", "entry">>
Descriptor(class) == <<"desc", class>>
EmptyString == <<"empty">>
Bindings == <<"bindings">>
Bytes(bytes) == <<"bytes", bytes>>
IsStaticRef(v) == v = EmptyString

ReceiverThen(params, result) ==
    Signature(<<Ref>> \o [i \in DOMAIN params |-> IrType(params[i])], IrType(result))

\* The function symbols a program declares, and their signatures.
Declared(table) ==
    LET own(c) == {Method(c, table[c].methods[i].name) : i \in DOMAIN table[c].methods}
        made(c) == {Constructor(c, Len(table[c].ctors[i].params)) : i \in DOMAIN table[c].ctors} IN
    UNION {own(c) \cup made(c) : c \in DOMAIN table}
      \cup {Runtime(f) : f \in DOMAIN RuntimeFunctions} \cup {Entry}

SignatureOf(table, s) ==
    CASE s[2] = "method" -> LET sig == table[s[3]].effMethods[s[4]].sig IN
                            ReceiverThen(sig.params, sig.ret)
      [] s[2] = "ctor" -> ReceiverThen(FindConstructor(table[s[3]], s[4])[1].params, "void")
      [] s[2] = "rt" -> RuntimeFunctions[s[3]]
      [] s[2] = "entry" -> Signature(<<>>, Int32)

-----------------------------------------------------------------------------
(* The builder.                                                            *)

With(b, v) == [b |-> b, v |-> v]

\* Step(s, x) for each x of xs in turn, from s; the set of the one state there
\* is makes TLC compute it before the next step begins.
InOrder(Step(_, _), s, xs) ==
    LET after[i \in 0..Len(xs)] ==
          IF i = 0 THEN {s} ELSE {Step(t, xs[i]) : t \in after[i - 1]} IN
    CHOOSE t \in after[Len(xs)] : TRUE
None == <<"none">>
Fail(b) == [b EXCEPT !.ok = FALSE]

Emit(b, i) == [b EXCEPT !.blocks[b.cur].code = Append(@, i)]
Finish(b, end) == [b EXCEPT !.blocks[b.cur].end = end, !.cur = 0]
Enter(b, block) == [b EXCEPT !.cur = block]
AddBlocks(b, n) ==
    [b EXCEPT !.blocks = @ \o [i \in 1..n |-> [code |-> <<>>, end |-> <<"open">>]]]

Jump(block) == <<"jump", block>>
Branch(condition, yes, no) == <<"branch", condition, yes, no>>
Return(v) == <<"return", v>>
Abort(target, args) == <<"abort", target, args>>

Copy(dst, src) == [op |-> "Copy", dst |-> dst, src |-> src]
Binary(dst, f, l, r) == [op |-> "Binary", dst |-> dst, f |-> f, l |-> l, r |-> r]
Unary(dst, f, src) == [op |-> "Unary", dst |-> dst, f |-> f, src |-> src]
Store(base, offset, v, ty) ==
    [op |-> "Store", base |-> base, offset |-> offset, val |-> v, ty |-> ty]

NewRegister(b, ty) == With([b EXCEPT !.types = Append(@, ty)], Len(b.types) + 1)

\* The instruction with a new register of type ty for its result.
Into(b, ty, instr) ==
    LET r == NewRegister(b, ty) IN
    With(Emit(r.b, [instr EXCEPT !.dst = r.v]), <<"v", r.v>>)

Load(b, base, offset, ty) ==
    Into(b, ty, [op |-> "Load", dst |-> 0, base |-> base, offset |-> offset])

EmitCall(b, target, result, args) ==
    LET call == [op |-> "Call", dst |-> 0, target |-> target, args |-> args] IN
    IF result = NoTy THEN With(Emit(b, call), None) ELSE Into(b, result, call)

CallSymbol(b, symbol, args) ==
    EmitCall(b, symbol, SignatureOf(b.table, symbol).result, args)
CallRuntime(b, name, args) == EmitCall(b, Runtime(name), RuntimeFunctions[name].result, args)

Receiver == <<"v", 1>>

DefaultOperand(ty) ==
    CASE ty = "int" -> <<"int", 0>>
      [] ty = "bool" -> <<"bool", FALSE>>
      [] ty = "String" -> EmptyString
      [] OTHER -> <<"null">>

\* Registers for the receiver, the formals and the locals, which are set to
\* the defaults of their types.  A name declared twice is its last register.
NewBuilder(p, table, receiver, formals, locals) ==
    LET this == IF receiver THEN <<Ref>> ELSE <<>>
        named == formals \o locals
        arity == Len(this) + Len(formals) IN
    [p |-> p, table |-> table,
     types |-> this \o [i \in DOMAIN named |-> IrType(named[i][2])],
     arity |-> arity,
     bind |-> [n \in ToSet(Names(named)) |-> Len(this) + LastNamed(named, n)],
     blocks |-> << [code |-> [i \in DOMAIN locals |->
                                Copy(arity + i, DefaultOperand(locals[i][2]))],
                    end |-> <<"open">>] >>,
     cur |-> 1, exits |-> <<>>,
     ok |-> \A i \in DOMAIN named : named[i][2] # "void"]

\* Code that falls off the end returns, if there is nothing to return.
Complete(b, symbol, result) ==
    LET closed == IF b.cur = 0 THEN b
                  ELSE IF result = "void" THEN Finish(b, Return(None))
                  ELSE Fail(b) IN
    [symbol |-> symbol, arity |-> b.arity, types |-> b.types, blocks |-> closed.blocks,
     ok |-> closed.ok /\ \A i \in DOMAIN closed.blocks : closed.blocks[i].end # <<"open">>]

-----------------------------------------------------------------------------
(* Memory: fields, the prebound objects, objects.                          *)

OffsetOf(b, owner, name) == LayoutField(ClassLayout(b.p, b.table, owner), name).offset
OutputDestination(b) == ClassLayout(b.p, b.table, "Output").destination
BindingOffset(b, name) ==
    FrameRoot(b.p, SelectInSeq(Prebound, LAMBDA n : n = name) - 1)

ReadBinding(b, name, bind) ==
    CASE bind.kind \in {"Local", "Formal"} -> With(b, <<"v", b.bind[name]>>)
      [] bind.kind = "Field" ->
            Load(b, Receiver, OffsetOf(b, bind.owner, name), IrType(bind.ty))
      [] bind.kind = "Prebound" -> Load(b, Bindings, BindingOffset(b, name), Ref)

\* A reference is stored by the runtime's barrier unless it is static data.
StoreField(b, object, offset, v, ty) ==
    IF ty = Ref /\ ~IsStaticRef(v)
    THEN CallRuntime(b, "lo_gc_write_barrier", <<object, <<"int", offset>>, v>>).b
    ELSE Emit(b, Store(object, offset, v, ty))

AssignTo(b, name, bind, v) ==
    CASE bind.kind \in {"Local", "Formal"} -> Emit(b, Copy(b.bind[name], v))
      [] bind.kind = "Field" ->
            StoreField(b, Receiver, OffsetOf(b, bind.owner, name), v, IrType(bind.ty))
      [] OTHER -> Fail(b)

StoreBinding(b, name, v) == Emit(b, Store(Bindings, BindingOffset(b, name), v, Ref))

Allocate(b, class, actuals) ==
    LET made == CallRuntime(b, "lo_alloc", <<Descriptor(class)>>)
        strings == ClassLayout(b.p, b.table, class).stringOffsets
        cleared == InOrder(LAMBDA acc, o : StoreField(acc, made.v, o, EmptyString, Ref),
                            made.b, strings) IN
    With(CallSymbol(cleared, Constructor(class, Len(actuals)), <<made.v>> \o actuals).b,
         made.v)

NullGuard(b, receiver, method) ==
    LET test == Into(b, BoolTy, Binary(0, "Eq", receiver, <<"null">>))
        n == Len(test.b.blocks)
        split == Finish(AddBlocks(test.b, 2), Branch(test.v, n + 1, n + 2)) IN
    Enter(Finish(Enter(split, n + 1),
                 Abort(Runtime("lo_abort_null_receiver"),
                       <<Bytes(method), <<"int", 0>> >>)),
          n + 2)

SlotOf(info, method) == SelectInSeq(info.vtable, LAMBDA m : m = method) - 1

Dispatch(b, class, method, args) ==
    LET info == b.table[class]
        sig == SignatureOf(b.table, Method(info.effMethods[method].owner, method))
        descriptor == Load(b, args[1], 0, Ptr)
        vtable == Load(descriptor.b, descriptor.v, DescriptorOffset(b.p, "vtable"), Ptr)
        code == Load(vtable.b, vtable.v, VTableEntry(b.p, SlotOf(info, method)),
                     CodePtr(sig)) IN
    EmitCall(code.b, code.v, sig.result, args)

-----------------------------------------------------------------------------
(* Division is total: the divisors 0 and -1 go round the instruction.      *)

\* A plausible slip: every remainder by -1 is left as it was.
DivisionSpecialKeeping(dst, f, l, divisor) ==
    CASE f = "Div" /\ divisor = 0 -> Copy(dst, <<"int", -1>>)
      [] f = "Mod" -> Copy(dst, l)
      [] f = "Div" /\ divisor = -1 -> Unary(dst, "Neg", l)

DivisionSpecial(dst, f, l, divisor) ==
    CASE f = "Div" /\ divisor = 0 -> Copy(dst, <<"int", -1>>)
      [] f = "Mod" /\ divisor = 0 -> Copy(dst, l)
      [] f = "Div" /\ divisor = -1 -> Unary(dst, "Neg", l)
      [] f = "Mod" /\ divisor = -1 -> Copy(dst, <<"int", 0>>)

BranchIfEqual(b, v, constant, yes, no) ==
    LET test == Into(b, BoolTy, Binary(0, "Eq", v, <<"int", constant>>)) IN
    Finish(test.b, Branch(test.v, yes, no))

Division(b, dst, f, l, r) ==
    IF r[1] = "int"
    THEN Emit(b, IF r[2] \in {0, -1} THEN DivisionSpecial(dst, f, l, r[2])
                 ELSE Binary(dst, f, l, r))
    ELSE
    LET n == Len(b.blocks)
        zero == n + 1   check == n + 2   negative == n + 3
        ordinary == n + 4   join == n + 5
        arm(acc, block, instr) == Finish(Emit(Enter(acc, block), instr), Jump(join))
        b1 == BranchIfEqual(AddBlocks(b, 5), r, 0, zero, check)
        b2 == arm(b1, zero, DivisionSpecial(dst, f, l, 0))
        b3 == BranchIfEqual(Enter(b2, check), r, -1, negative, ordinary)
        b4 == arm(b3, negative, DivisionSpecial(dst, f, l, -1))
        b5 == arm(b4, ordinary, Binary(dst, f, l, r)) IN
    Enter(b5, join)

\* The comparison of two strings is compared with zero.
StringBinary(b, f, l, r) ==
    CASE f = "Add" -> CallRuntime(b, "lo_string_concat", <<l, r>>)
      [] f = "Mul" -> CallRuntime(b, "lo_string_repeat", <<l, r>>)
      [] f \in {"Eq", "Lt", "Gt"} ->
            LET order == CallRuntime(b, "lo_string_compare", <<l, r>>) IN
            Into(order.b, BoolTy, Binary(0, f, order.v, <<"int", 0>>))
      [] OTHER -> With(Fail(b), None)

-----------------------------------------------------------------------------
(* Expressions.                                                            *)

Literal(bool) == [k |-> "Bool", b |-> bool, ty |-> "bool"]

RECURSIVE LowerExpr(_, _), LowerActuals(_, _), LowerCall(_, _)

LowerActuals(args, b) ==
    IF args = <<>> THEN With(b, <<>>)
    ELSE LET first == LowerExpr(Head(args), b)
             rest == LowerActuals(Tail(args), first.b) IN
         With(rest.b, <<first.v>> \o rest.v)

\* A plausible slip: the second value is taken to be in its place already.
ChoiceOneCopy(b, c, yes, no, ty) ==
    LET cond == LowerExpr(c, b)
        n == Len(cond.b.blocks)
        dst == NewRegister(AddBlocks(cond.b, 3), ty)
        split == Finish(dst.b, Branch(cond.v, n + 1, n + 2))
        t == LowerExpr(yes, Enter(split, n + 1))
        t2 == Finish(Emit(t.b, Copy(dst.v, t.v)), Jump(n + 3))
        f == LowerExpr(no, Enter(t2, n + 2))
        f2 == Finish(f.b, Jump(n + 3)) IN
    With(Enter(f2, n + 3), <<"v", dst.v>>)

\* One of two expressions, each copied to the same register.
Choice(b, c, yes, no, ty) ==
    LET cond == LowerExpr(c, b)
        n == Len(cond.b.blocks)
        dst == NewRegister(AddBlocks(cond.b, 3), ty)
        split == Finish(dst.b, Branch(cond.v, n + 1, n + 2))
        t == LowerExpr(yes, Enter(split, n + 1))
        t2 == Finish(Emit(t.b, Copy(dst.v, t.v)), Jump(n + 3))
        f == LowerExpr(no, Enter(t2, n + 2))
        f2 == Finish(Emit(f.b, Copy(dst.v, f.v)), Jump(n + 3)) IN
    With(Enter(f2, n + 3), <<"v", dst.v>>)

LowerBinary(e, b) ==
    LET l == LowerExpr(e.l, b)
        r == LowerExpr(e.r, l.b)
        dst == NewRegister(r.b, IrType(e.ty)) IN
    CASE e.l.ty = "String" -> StringBinary(r.b, e.op, l.v, r.v)
      [] e.l.ty # "String" /\ e.op \in {"Div", "Mod"} ->
            With(Division(dst.b, dst.v, e.op, l.v, r.v), <<"v", dst.v>>)
      [] OTHER -> With(Emit(dst.b, Binary(dst.v, e.op, l.v, r.v)), <<"v", dst.v>>)

LowerExpr(e, b) ==
    CASE e.k = "Num" -> With(b, <<"int", e.n>>)
      [] e.k = "Bool" -> With(b, <<"bool", e.b>>)
      [] e.k = "Null" -> With(b, <<"null">>)
      [] e.k = "This" -> With(b, Receiver)
      [] e.k = "Var" -> ReadBinding(b, e.name, e.bind)
      [] e.k = "Str" -> IF e.s = <<>> THEN With(b, EmptyString)
                        ELSE CallRuntime(b, "lo_string_new",
                                         <<Bytes(e.s), <<"int", Len(e.s)>> >>)
      [] e.k = "New" -> LET args == LowerActuals(e.args, b) IN
                        Allocate(args.b, e.class, args.v)
      [] e.k = "Call" -> LET call == LowerCall(e, b) IN
                         IF call.v = None THEN With(Fail(call.b), None) ELSE call
      [] e.k = "Ternary" ->
            Choice(b, e.c, e.t, e.f, IrType(e.ty))
      [] e.k = "Binop" ->
            (CASE e.op = "And" -> Choice(b, e.l, e.r, Literal(FALSE), BoolTy)
               [] e.op = "Or" -> Choice(b, e.l, Literal(TRUE), e.r, BoolTy)
               [] OTHER -> LowerBinary(e, b))
      [] e.k = "Unop" ->
            LET x == LowerExpr(e.e, b) IN
            IF e.ty = "String" THEN CallRuntime(x.b, "lo_string_reverse", <<x.v>>)
            ELSE Into(x.b, IrType(e.ty), Unary(0, e.op, x.v))
      [] e.k = "Cast" ->
            LET x == LowerExpr(e.e, b) IN
            IF e.dir # "Downcast" THEN x
            ELSE CallRuntime(x.b, "lo_cast_check", <<x.v, Descriptor(e.target)>>)
      [] e.k = "InstanceOf" ->
            LET x == LowerExpr(e.e, b) IN
            CallRuntime(x.b, "lo_instanceof", <<x.v, Descriptor(e.class)>>)

\* The receiver, the actuals, the test for null, the call.
LowerCall(call, b) ==
    LET recv == call.recv
        own == recv.k \in {"This", "Super"}
        r == CASE own -> With(b, Receiver)
               [] recv.k = "Var" -> ReadBinding(b, recv.name, recv.bind)
               [] recv.k = "Computed" -> LowerExpr(recv.e, b)
        actuals == LowerActuals(call.args, r.b)
        args == <<r.v>> \o actuals.v
        guarded == IF own THEN actuals.b ELSE NullGuard(actuals.b, r.v, call.name) IN
    IF call.res = "Virtual" THEN Dispatch(guarded, call.class, call.name, args)
    ELSE CallSymbol(guarded, Method(call.class, call.name), args)

-----------------------------------------------------------------------------
(* Statements.  What follows a return or a break is not lowered.           *)

RECURSIVE LowerStmts(_, _), LowerStmt(_, _)

LowerStmts(stmts, b) ==
    IF stmts = <<>> \/ b.cur = 0 THEN b
    ELSE LowerStmts(Tail(stmts), LowerStmt(Head(stmts), b))

\* A join block only if a branch falls through.
LowerIf(s, b) ==
    LET c == LowerExpr(s.c, b)
        n == Len(c.b.blocks)
        split == Finish(AddBlocks(c.b, 2), Branch(c.v, n + 1, n + 2))
        yes == LowerStmts(s.t, Enter(split, n + 1))
        no == LowerStmts(s.f, Enter(yes, n + 2))
        ends == {yes.cur, no.cur} \ {0}
        join == Len(no.blocks) + 1
        closed == FoldSet(LAMBDA e, acc : Finish(Enter(acc, e), Jump(join)),
                          AddBlocks(no, 1), ends) IN
    IF ends = {} THEN no ELSE Enter(closed, join)

\* A plausible slip: a break goes to the test of the loop.
LowerWhileToTest(s, b) ==
    LET n == Len(b.blocks)
        test == n + 1   body == n + 2   exit == n + 3
        c == LowerExpr(s.c, Enter(Finish(AddBlocks(b, 3), Jump(test)), test))
        split == Finish(c.b, Branch(c.v, body, exit))
        done == LowerStmts(s.body, Enter([split EXCEPT !.exits = Append(@, test)], body))
        looped == IF done.cur = 0 THEN done ELSE Finish(done, Jump(test)) IN
    Enter([looped EXCEPT !.exits = Front(@)], exit)

LowerWhile(s, b) ==
    LET n == Len(b.blocks)
        test == n + 1   body == n + 2   exit == n + 3
        c == LowerExpr(s.c, Enter(Finish(AddBlocks(b, 3), Jump(test)), test))
        split == Finish(c.b, Branch(c.v, body, exit))
        done == LowerStmts(s.body, Enter([split EXCEPT !.exits = Append(@, exit)], body))
        looped == IF done.cur = 0 THEN done ELSE Finish(done, Jump(test)) IN
    Enter([looped EXCEPT !.exits = Front(@)], exit)

LowerStmt(s, b) ==
    CASE s.k = "Empty" -> b
      [] s.k = "Assign" -> LET v == LowerExpr(s.e, b) IN AssignTo(v.b, s.name, s.bind, v.v)
      [] s.k = "Return" -> LET v == LowerExpr(s.e, b) IN Finish(v.b, Return(v.v))
      [] s.k = "If" -> LowerIf(s, b)
      [] s.k = "While" -> LowerWhile(s, b)
      [] s.k = "Break" -> IF b.exits = <<>> THEN Fail(b) ELSE Finish(b, Jump(Last(b.exits)))
      [] s.k = "CallStmt" -> LowerCall(s.call, b).b

-----------------------------------------------------------------------------
(* Methods, constructors and the start of the program.                     *)

\* The wrapper of an operation on the input or the output.
IoWrapper(b, class, name) ==
    LET actuals == [i \in 1..(b.arity - 1) |-> <<"v", i + 1>>]
        to == Load(b, Receiver, OutputDestination(b), Int32)
        call == IF class = "Input" THEN CallRuntime(b, "lo_" \o name, actuals)
                ELSE CallRuntime(to.b, "lo_" \o name, Append(actuals, to.v)) IN
    Finish(call.b, Return(call.v))

LowerMethod(p, table, class, m) ==
    LET b == NewBuilder(p, table, TRUE, m.formals, m.locals) IN
    Complete(IF m.io THEN IoWrapper(b, class, m.name) ELSE LowerStmts(m.body, b),
             Method(class, m.name), m.ret)

Delegate(b, del) ==
    IF del[1] = "none" THEN b
    ELSE LET actuals == LowerActuals(del[2], b) IN
         CallSymbol(actuals.b, Constructor(del[3], Len(del[2])),
                    <<Receiver>> \o actuals.v).b

LowerConstructor(p, table, class, c) ==
    LET b == NewBuilder(p, table, TRUE, c.formals, c.locals)
        stored == InOrder(LAMBDA acc, f :
                              StoreField(acc, Receiver, OffsetOf(acc, class, f[1]),
                                         <<"v", acc.bind[f[1]]>>, IrType(f[2])),
                           b, c.formals)
        body == IF c.implicit THEN stored ELSE LowerStmts(c.body, Delegate(b, c.del)) IN
    Complete(body, Constructor(class, Len(c.formals)), "void")

\* Makes in, out and err, then Main, and calls its main.
LowerStartup(p, table) ==
    LET b0 == NewBuilder(p, table, FALSE, <<>>, <<>>)
        pushed == CallRuntime(b0, "lo_push_frame", <<Bindings>>).b
        bound(acc, name) ==
            LET made == Allocate(acc, IF name = "in" THEN "Input" ELSE "Output", <<>>)
                to == IF name = "out" THEN 0 ELSE 1 IN
            StoreBinding(IF name = "in" THEN made.b
                         ELSE StoreField(made.b, made.v, OutputDestination(acc),
                                         <<"int", to>>, Int32),
                         name, made.v)
        main == Allocate(InOrder(bound, pushed, Prebound), "Main", <<>>)
        result == CallSymbol(main.b, Method("Main", "main"), <<main.v>>)
        popped == CallRuntime(result.b, "lo_pop_frame", <<>>).b IN
    Complete(Finish(popped, Return(result.v)), Entry, "int")

LowerClass(p, table, class) ==
    [i \in DOMAIN class.ctors |-> LowerConstructor(p, table, class.name, class.ctors[i])]
    \o [i \in DOMAIN class.methods |-> LowerMethod(p, table, class.name, class.methods[i])]

LowerProgram(p, checked) ==
    LET bodies == [i \in DOMAIN checked.classes |->
                     LowerClass(p, checked.table, checked.classes[i])] IN
    Append(FlattenSeq(bodies), LowerStartup(p, checked.table))
=============================================================================
