---------------------------- MODULE Interpreter ----------------------------
(***************************************************************************)
(* The reference interpreter (interpreter.rs and interpreter/): the typed  *)
(* tree of an accepted program run over an input.                          *)
(*                                                                         *)
(* The run state st is [table, classes, input, heap, charged, pos, out].   *)
(* An object is its index in st.heap, null is 0, and a string is a value   *)
(* of its own: no operator of the language tells two strings with the same *)
(* bytes apart, and the heap only ever charges for one.  Evaluation gives  *)
(* [sig, v, st]: sig is "ok", "ret" (with the value), "break", "abort"     *)
(* (with the exit status), "wrong" where the code says unreachable! or     *)
(* expect, and "cut" for a loop that passes LoopBound, which no program    *)
(* the models run does.                                                    *)
(***************************************************************************)
EXTENDS TypeChecker, Reading

CONSTANTS HeapLimit,        \* the budget of the interpreter's heap, in bytes
          LoopBound         \* iterations of one loop

Res(sig, v, st) == [sig |-> sig, v |-> v, st |-> st]
Ok(v, st) == Res("ok", v, st)
Wrong(st) == Res("wrong", <<"Obj", 0>>, st)
Void == <<"Obj", 0>>

TypeDefault(ty) ==
    CASE ty = "int" -> <<"Int", 0>>
      [] ty = "bool" -> <<"Bool", FALSE>>
      [] ty = "String" -> <<"Str", <<>> >>
      [] OTHER -> <<"Obj", 0>>

-----------------------------------------------------------------------------
(* The heap.                                                               *)

HeaderBytes == 12
FieldBytes == 4
StrLenBytes == 4

ChargeFits(st, cost) == st.charged + cost <= HeapLimit

AllocObj(class, fields, st) ==
    LET cost == HeaderBytes + FieldBytes * Len(fields) IN
    IF ~ChargeFits(st, cost) THEN Res("abort", 137, st)
    ELSE Ok(<<"Obj", Len(st.heap) + 1>>,
            [st EXCEPT !.heap = Append(@, [class |-> class, fields |-> fields]),
                       !.charged = @ + cost])

\* A string the program makes, charged unless it is empty.
AllocStr(s, st) ==
    LET cost == HeaderBytes + StrLenBytes + Len(s) IN
    CASE s = <<>> -> Ok(<<"Str", s>>, st)
      [] s # <<>> /\ ~ChargeFits(st, cost) -> Res("abort", 137, st)
      [] OTHER -> Ok(<<"Str", s>>, [st EXCEPT !.charged = @ + cost])

ClassOf(id, st) == st.heap[id].class

\* The slot of a field in the runtime class of an object, 0 if it has none.
FieldSlot(id, name, st) ==
    SelectInSeq(st.table[ClassOf(id, st)].effFields, LAMBDA f : f[1] = name)

-----------------------------------------------------------------------------
(* Integers and strings.                                                   *)

LoDiv(a, b) == IF b = 0 THEN -1 ELSE Wrap(TruncDiv(a, b))
LoRem(a, b) == IF b = 0 THEN a ELSE Wrap(TruncRem(a, b))

EvalIntBinop(op, a, b) ==
    CASE op = "Add" -> <<"Int", Wrap(a + b)>>
      [] op = "Sub" -> <<"Int", Wrap(a - b)>>
      [] op = "Mul" -> <<"Int", Wrap(a * b)>>
      [] op = "Div" -> <<"Int", LoDiv(a, b)>>
      [] op = "Mod" -> <<"Int", LoRem(a, b)>>
      [] op = "Lt" -> <<"Bool", a < b>>
      [] op = "Gt" -> <<"Bool", a > b>>
      [] op = "Eq" -> <<"Bool", a = b>>

\* Lexicographic over bytes.
StrLess(a, b) ==
    LET n == IF Len(a) < Len(b) THEN Len(a) ELSE Len(b) IN
    \/ IsStrictPrefix(a, b)
    \/ \E i \in 1..n : /\ a[i] < b[i]
                       /\ SubSeq(a, 1, i - 1) = SubSeq(b, 1, i - 1)

EvalStrBinop(op, a, b, st) ==
    CASE op = "Add" -> AllocStr(a \o b, st)
      [] op = "Lt" -> Ok(<<"Bool", StrLess(a, b)>>, st)
      [] op = "Gt" -> Ok(<<"Bool", StrLess(b, a)>>, st)
      [] op = "Eq" -> Ok(<<"Bool", a = b>>, st)
      [] OTHER -> Wrong(st)

Repeated(s, n) == FlattenSeq([i \in 1..n |-> s])

RepeatStr(s, n, st) ==
    IF n < 0 THEN Res("abort", 120, st) ELSE AllocStr(Repeated(s, n), st)

EvalUnary(op, v, st) ==
    CASE op = "Not" /\ v[1] = "Bool" -> Ok(<<"Bool", ~v[2]>>, st)
      [] op = "Neg" /\ v[1] = "Int" -> Ok(<<"Int", Wrap(-v[2])>>, st)
      [] op = "Neg" /\ v[1] = "Str" -> AllocStr(Reverse(v[2]), st)
      [] OTHER -> Wrong(st)

\* Both operands evaluated: every operator but And and Or.
EvalStrict(op, l, r, st) ==
    CASE l[1] = "Int" /\ r[1] = "Int" -> Ok(EvalIntBinop(op, l[2], r[2]), st)
      [] l[1] = "Str" /\ r[1] = "Int" /\ op = "Mul" -> RepeatStr(l[2], r[2], st)
      [] l[1] = "Str" /\ r[1] = "Str" -> EvalStrBinop(op, l[2], r[2], st)
      [] l[1] = "Obj" /\ r[1] = "Obj" /\ op = "Eq" -> Ok(<<"Bool", l[2] = r[2]>>, st)
      [] OTHER -> Wrong(st)

-----------------------------------------------------------------------------
(* Variables and frames: a frame is [this, slots].                         *)

SingletonId(name) == CHOOSE i \in DOMAIN Prebound : Prebound[i] = name

NewFrame(this, formals, args, locals) ==
    [this |-> this,
     slots |-> [name \in ToSet(Names(formals)) \cup ToSet(Names(locals)) |->
                  IF LastNamed(locals, name) # 0
                  THEN TypeDefault(locals[LastNamed(locals, name)][2])
                  ELSE args[LastNamed(formals, name)]]]

ReadVar(f, name, bind, st) ==
    CASE bind.kind \in {"Local", "Formal"} -> Ok(f.slots[name], st)
      [] bind.kind = "Field" ->
            IF f.this = 0 \/ FieldSlot(f.this, name, st) = 0 THEN Wrong(st)
            ELSE Ok(st.heap[f.this].fields[FieldSlot(f.this, name, st)], st)
      [] bind.kind = "Prebound" -> Ok(<<"Obj", SingletonId(name)>>, st)

SetField(id, name, v, st) ==
    [st EXCEPT !.heap[id].fields[FieldSlot(id, name, st)] = v]

-----------------------------------------------------------------------------
(* Casts, tests and input and output.                                      *)

IsInstance(v, class, st) == v[2] # 0 /\ IsSubtype(st.table, ClassOf(v[2], st), class)

EvalCast(target, dir, v, st) ==
    CASE v[1] # "Obj" -> Wrong(st)
      [] v[1] = "Obj" /\ (dir \in {"Upcast", "Null"} \/ v[2] = 0
                          \/ IsInstance(v, target, st)) -> Ok(v, st)
      [] OTHER -> Res("abort", 101, st)

Printed(st, id, kind, payload) ==
    Ok(Void, [st EXCEPT !.out = Append(@, <<id = SingletonId("err"), kind, payload>>)])

Took(tag, r, st) ==
    LET after == [st EXCEPT !.pos = r.pos] IN
    IF r.code # 0 THEN Res("abort", r.code, after) ELSE Ok(<<tag, r.v>>, after)

RunIo(op, receiver, args, st) ==
    CASE op = "print_int" -> Printed(st, receiver[2], "int", args[1][2])
      [] op = "print_bool" -> Printed(st, receiver[2], "bool", args[1][2])
      [] op = "print_string" -> Printed(st, receiver[2], "string", args[1][2])
      [] op = "println" -> Printed(st, receiver[2], "newline", 0)
      [] op = "read_int" -> Took("Int", InterpreterReadInt(st.input, st.pos), st)
      [] op = "read_bool" -> Took("Bool", InterpreterReadBool(st.input, st.pos), st)
      [] op = "read_string" ->
            LET line == InterpreterReadString(st.input, st.pos) IN
            AllocStr(line.v, [st EXCEPT !.pos = line.pos])
      [] op = "eof" -> Took("Bool", InterpreterEof(st.input, st.pos), st)

-----------------------------------------------------------------------------
(* Expressions and calls.                                                  *)

TypedClassNamed(st, class) ==
    st.classes[CHOOSE i \in DOMAIN st.classes : st.classes[i].name = class]

\* The body a class declares for a method, <<>> if it declares none.
BodyOf(st, class, name) ==
    SelectSeq(TypedClassNamed(st, class).methods,
              LAMBDA m : m.name = name /\ ~m.io)

SelectCtor(st, class, arity) ==
    SelectSeq(TypedClassNamed(st, class).ctors, LAMBDA c : Len(c.formals) = arity)

RECURSIVE EvalExpr(_, _, _), EvalArgs(_, _, _), EvalCall(_, _, _),
          Invoke(_, _, _, _), Construct(_, _, _), RunCtor(_, _, _, _),
          ExecBlock(_, _, _), ExecStmt(_, _, _), ExecWhile(_, _, _, _)

\* Left to right; the value is the sequence of the actuals' values.
EvalArgs(args, f, st) ==
    IF args = <<>> THEN Ok(<<>>, st)
    ELSE LET first == EvalExpr(Head(args), f, st) IN
         IF first.sig # "ok" THEN first
         ELSE LET rest == EvalArgs(Tail(args), f, first.st) IN
              IF rest.sig # "ok" THEN rest
              ELSE Ok(<<first.v>> \o rest.v, rest.st)

EvalReceiver(recv, f, st) ==
    CASE recv.k \in {"This", "Super"} -> Ok(<<"Obj", f.this>>, st)
      [] recv.k = "Var" -> ReadVar(f, recv.name, recv.bind, st)
      [] recv.k = "Computed" -> EvalExpr(recv.e, f, st)

\* The receiver, then the actuals, and only then the test for null.
EvalCall(call, f, st) ==
    LET recv == EvalReceiver(call.recv, f, st) IN
    IF recv.sig # "ok" THEN recv ELSE
    LET args == EvalArgs(call.args, f, recv.st) IN
    IF args.sig # "ok" THEN args ELSE
    LET id == recv.v[2]
        methods == st.table[ClassOf(id, args.st)].effMethods IN
    CASE recv.v[1] # "Obj" -> Wrong(args.st)
      [] recv.v[1] = "Obj" /\ call.res = "Super" ->
            Invoke(f.this, BodyOf(st, call.class, call.name), args.v, args.st)
      [] recv.v[1] = "Obj" /\ call.res # "Super" /\ id = 0 -> Res("abort", 102, args.st)
      [] recv.v[1] = "Obj" /\ call.res = "Io" /\ id # 0 ->
            RunIo(call.name, recv.v, args.v, args.st)
      [] OTHER ->
            IF call.name \notin DOMAIN methods THEN Wrong(args.st)
            ELSE Invoke(id, BodyOf(st, methods[call.name].owner, call.name),
                        args.v, args.st)

Invoke(this, bodies, args, st) ==
    IF bodies = <<>> THEN Wrong(st) ELSE
    LET m == bodies[1]
        r == ExecBlock(m.body, NewFrame(this, m.formals, args, m.locals), st) IN
    CASE r.sig = "ret" -> Ok(r.v, r.st)
      [] r.sig = "ok" -> Ok(Void, r.st)
      [] r.sig = "break" -> Wrong(r.st)
      [] OTHER -> Res(r.sig, r.v, r.st)

EvalExpr(e, f, st) ==
    CASE e.k = "Num" -> Ok(<<"Int", e.n>>, st)
      [] e.k = "Bool" -> Ok(<<"Bool", e.b>>, st)
      [] e.k = "Str" -> Ok(<<"Str", e.s>>, st)
      [] e.k = "Null" -> Ok(<<"Obj", 0>>, st)
      [] e.k = "This" -> Ok(<<"Obj", f.this>>, st)
      [] e.k = "Var" -> ReadVar(f, e.name, e.bind, st)
      [] e.k = "Call" -> EvalCall(e, f, st)
      [] e.k = "New" ->
            LET args == EvalArgs(e.args, f, st) IN
            IF args.sig # "ok" THEN args ELSE Construct(e.class, args.v, args.st)
      [] e.k = "Ternary" ->
            LET c == EvalExpr(e.c, f, st) IN
            (CASE c.sig # "ok" -> c
               [] c.sig = "ok" /\ c.v = <<"Bool", TRUE>> -> EvalExpr(e.t, f, c.st)
               [] c.sig = "ok" /\ c.v = <<"Bool", FALSE>> -> EvalExpr(e.f, f, c.st)
               [] OTHER -> Wrong(c.st))
      [] e.k = "Unop" ->
            LET x == EvalExpr(e.e, f, st) IN
            IF x.sig # "ok" THEN x ELSE EvalUnary(e.op, x.v, x.st)
      [] e.k = "Cast" ->
            LET x == EvalExpr(e.e, f, st) IN
            IF x.sig # "ok" THEN x ELSE EvalCast(e.target, e.dir, x.v, x.st)
      [] e.k = "InstanceOf" ->
            LET x == EvalExpr(e.e, f, st) IN
            (CASE x.sig # "ok" -> x
               [] x.sig = "ok" /\ x.v[1] # "Obj" -> Wrong(x.st)
               [] OTHER -> Ok(<<"Bool", IsInstance(x.v, e.class, x.st)>>, x.st))
      [] e.k = "Binop" ->
            LET l == EvalExpr(e.l, f, st) IN
            IF l.sig # "ok" THEN l ELSE
            IF e.op \in {"And", "Or"} /\ l.v[1] # "Bool" THEN Wrong(l.st) ELSE
            IF \/ e.op = "And" /\ l.v[2] = FALSE
               \/ e.op = "Or" /\ l.v[2] = TRUE
            THEN l ELSE
            LET r == EvalExpr(e.r, f, l.st) IN
            CASE r.sig # "ok" -> r
              [] r.sig = "ok" /\ e.op \in {"And", "Or"} ->
                    IF r.v[1] = "Bool" THEN r ELSE Wrong(r.st)
              [] OTHER -> EvalStrict(e.op, l.v, r.v, r.st)

-----------------------------------------------------------------------------
(* Objects: allocated with the defaults of their types, then constructed.  *)

Construct(class, args, st) ==
    LET eff == st.table[class].effFields
        made == AllocObj(class, [i \in DOMAIN eff |-> TypeDefault(eff[i][2])], st) IN
    IF made.sig # "ok" THEN made ELSE
    LET r == RunCtor(made.v[2], class, args, made.st) IN
    IF r.sig # "ok" THEN r ELSE Ok(made.v, r.st)

\* The constructor of this arity; its delegation runs first, to the end.
RunCtor(this, class, args, st) ==
    LET found == SelectCtor(st, class, Len(args)) IN
    IF found = <<>> THEN Wrong(st) ELSE
    LET c == found[1]
        f == NewFrame(this, c.formals, args, c.locals)
        stored == FoldLeft(LAMBDA acc, i : SetField(this, c.formals[i][1], args[i], acc),
                           st, [i \in DOMAIN c.formals |-> i])
        vals == EvalArgs(c.del[2], f, st)
        delegated == IF c.del[1] = "none" THEN Ok(Void, st)
                     ELSE IF vals.sig # "ok" THEN vals
                     ELSE RunCtor(this, c.del[3], vals.v, vals.st)
        r == ExecBlock(c.body, f, delegated.st) IN
    CASE c.implicit -> Ok(Void, stored)
      [] ~c.implicit /\ delegated.sig # "ok" -> delegated
      [] OTHER -> IF r.sig \in {"ret", "break"} THEN Wrong(r.st)
                  ELSE Res(r.sig, r.v, r.st)

-----------------------------------------------------------------------------
(* Statements give a frame as well: [sig, v, st, f].                       *)

Done(r, f) == [sig |-> r.sig, v |-> r.v, st |-> r.st, f |-> f]

ExecBlock(stmts, f, st) ==
    IF stmts = <<>> THEN Done(Ok(Void, st), f)
    ELSE LET r == ExecStmt(Head(stmts), f, st) IN
         IF r.sig # "ok" THEN r ELSE ExecBlock(Tail(stmts), r.f, r.st)

Assigned(s, v, f, st) ==
    CASE s.bind.kind \in {"Local", "Formal"} ->
            Done(Ok(Void, st), [f EXCEPT !.slots[s.name] = v])
      [] s.bind.kind = "Field" ->
            IF f.this = 0 \/ FieldSlot(f.this, s.name, st) = 0 THEN Done(Wrong(st), f)
            ELSE Done(Ok(Void, SetField(f.this, s.name, v, st)), f)
      [] OTHER -> Done(Wrong(st), f)

ExecWhile(s, f, st, left) ==
    LET c == EvalExpr(s.c, f, st)
        r == ExecBlock(s.body, f, c.st) IN
    CASE left = 0 -> Done(Res("cut", Void, st), f)
      [] left > 0 /\ c.sig # "ok" -> Done(c, f)
      [] left > 0 /\ c.sig = "ok" /\ c.v = <<"Bool", FALSE>> -> Done(Ok(Void, c.st), f)
      [] left > 0 /\ c.sig = "ok" /\ c.v = <<"Bool", TRUE>> ->
            (CASE r.sig = "ok" -> ExecWhile(s, r.f, r.st, left - 1)
               [] r.sig = "break" -> Done(Ok(Void, r.st), r.f)
               [] OTHER -> r)
      [] OTHER -> Done(Wrong(c.st), f)

ExecStmt(s, f, st) ==
    CASE s.k = "Empty" -> Done(Ok(Void, st), f)
      [] s.k = "Break" -> Done(Res("break", Void, st), f)
      [] s.k = "Assign" ->
            LET r == EvalExpr(s.e, f, st) IN
            IF r.sig # "ok" THEN Done(r, f) ELSE Assigned(s, r.v, f, r.st)
      [] s.k = "Return" ->
            LET r == EvalExpr(s.e, f, st) IN
            Done(IF r.sig # "ok" THEN r ELSE Res("ret", r.v, r.st), f)
      [] s.k = "CallStmt" -> Done(EvalCall(s.call, f, st), f)
      [] s.k = "While" -> ExecWhile(s, f, st, LoopBound)
      [] s.k = "If" ->
            LET c == EvalExpr(s.c, f, st) IN
            CASE c.sig # "ok" -> Done(c, f)
              [] c.sig = "ok" /\ c.v = <<"Bool", TRUE>> -> ExecBlock(s.t, f, c.st)
              [] c.sig = "ok" /\ c.v = <<"Bool", FALSE>> -> ExecBlock(s.f, f, c.st)
              [] OTHER -> Done(Wrong(c.st), f)

-----------------------------------------------------------------------------
(* The run: Main is constructed, Main.main is invoked.  An outcome is      *)
(* [kind, code, out]: "exit" with the status main returns, "abort" with    *)
(* the status of the abort, "wrong" or "cut".                              *)

StartState(checked, input) ==
    [table |-> checked.table, classes |-> checked.classes, input |-> input,
     heap |-> << [class |-> "Input", fields |-> <<>>],
                 [class |-> "Output", fields |-> <<>>],
                 [class |-> "Output", fields |-> <<>>] >>,
     charged |-> 0, pos |-> 1, out |-> <<>>]

Outcome(kind, code, st) == [kind |-> kind, code |-> code, out |-> st.out]

Interpret(checked, input) ==
    LET main == Construct("Main", <<>>, StartState(checked, input))
        r == IF main.sig # "ok" THEN main
             ELSE Invoke(main.v[2], BodyOf(main.st, "Main", "main"), <<>>, main.st) IN
    CASE r.sig = "ok" /\ r.v[1] = "Int" -> Outcome("exit", r.v[2], r.st)
      [] r.sig = "abort" -> Outcome("abort", r.v, r.st)
      [] r.sig = "cut" -> Outcome("cut", 0, r.st)
      [] OTHER -> Outcome("wrong", 0, r.st)
=============================================================================
