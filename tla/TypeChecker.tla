---------------------------- MODULE TypeChecker ----------------------------
(***************************************************************************)
(* The type checker (type_checker.rs, type_checker/bodies.rs, bodies/calls *)
(* and bodies/expressions.rs): CheckProgram accepts or rejects a program,  *)
(* and gives an accepted one its class table and its typed tree, in which  *)
(* every expression carries its type (typed_ast.rs), every name what it is *)
(* bound to and every call how its target is found.                        *)
(*                                                                         *)
(* An untyped expression is a record whose field k names its kind.  The    *)
(* context cx of a body is [cls, ret, loop, ctor, scope, table].           *)
(***************************************************************************)
EXTENDS Classes

-----------------------------------------------------------------------------
(* Names.                                                                  *)

NoBinding == [kind |-> "none", ty |-> "error"]

PreambleBinding(name) ==
    CASE name = "in" -> [kind |-> "Prebound", ty |-> "Input"]
      [] name \in {"out", "err"} -> [kind |-> "Prebound", ty |-> "Output"]
      [] OTHER -> NoBinding

LastNamed(pairs, name) == SelectLastInSeq(pairs, LAMBDA f : f[1] = name)

\* A local declared twice has the type of its last declaration.
Scope(formals, locals) ==
    [name \in ToSet(Names(formals)) \cup ToSet(Names(locals)) |->
        IF LastNamed(formals, name) # 0
        THEN [kind |-> "Formal", ty |-> formals[LastNamed(formals, name)][2]]
        ELSE [kind |-> "Local", ty |-> locals[LastNamed(locals, name)][2]]]

ScopeOk(formals, locals, table) ==
    \A i \in DOMAIN locals :
        /\ locals[i][2] # "void"
        /\ KnownType(table, locals[i][2])
        /\ locals[i][1] \notin ReservedVarNames
        /\ locals[i][1] \notin ToSet(Names(formals))

\* Locals and formals hide fields, and fields hide the prebound names.
ResolveName(name, cx) ==
    LET fields == cx.table[cx.cls].effFields
        at == SelectInSeq(fields, LAMBDA f : f[1] = name) IN
    CASE name \in DOMAIN cx.scope -> cx.scope[name]
      [] name \notin DOMAIN cx.scope /\ at # 0 ->
            [kind |-> "Field", ty |-> fields[at][2], owner |-> fields[at][3]]
      [] OTHER -> PreambleBinding(name)

-----------------------------------------------------------------------------
(* Types.                                                                  *)

\* A plausible slip: any two classes of one line of descent will do.
AssignmentCompatibleEither(table, from, to) ==
    \/ from = "null" /\ IsClassType(to)
    \/ /\ IsClassType(from) /\ IsClassType(to)
       /\ IsSubtype(table, from, to) \/ IsSubtype(table, to, from)
    \/ from \in Primitives /\ from = to

AssignmentCompatible(table, from, to) ==
    \/ from = "null" /\ IsClassType(to)
    \/ IsClassType(from) /\ IsClassType(to) /\ IsSubtype(table, from, to)
    \/ from \in Primitives /\ from = to

\* The first class of b's chain that is on a's.
LeastCommonAncestor(table, a, b) ==
    LET chain == Chain(table, b)
        at == SelectInSeq(chain, LAMBDA c : c \in ToSet(Chain(table, a))) IN
    IF at = 0 THEN "error" ELSE chain[at]

CombineTernaryBranches(table, a, b) ==
    CASE "error" \in {a, b} -> "error"
      [] a = b -> a
      [] a = "null" /\ IsClassType(b) -> b
      [] b = "null" /\ IsClassType(a) -> a
      [] IsClassType(a) /\ IsClassType(b) -> LeastCommonAncestor(table, a, b)
      [] OTHER -> "error"

IsReference(ty) == ty = "null" \/ IsClassType(ty)

CheckBinop(op, l, r) ==
    CASE op = "Eq" /\ IsReference(l) /\ IsReference(r) -> "bool"
      [] op \in {"Add", "Sub", "Mul", "Div", "Mod"} /\ l = "int" /\ r = "int" -> "int"
      [] op = "Add" /\ l = "String" /\ r = "String" -> "String"
      [] op = "Mul" /\ l = "String" /\ r = "int" -> "String"
      [] op \in {"And", "Or"} /\ l = "bool" /\ r = "bool" -> "bool"
      [] op \in {"Lt", "Gt", "Eq"} /\ l = r /\ l \in {"int", "String"} -> "bool"
      [] OTHER -> "error"

CheckUnop(op, ty) ==
    CASE op = "Not" /\ ty = "bool" -> "bool"
      [] op = "Neg" /\ ty \in {"int", "String"} -> ty
      [] OTHER -> "error"

CastDirection(table, from, target) ==
    CASE from = "null" -> "Null"
      [] IsClassType(from) /\ IsSubtype(table, from, target) -> "Upcast"
      [] IsClassType(from) /\ IsSubtype(table, target, from)
                           /\ ~IsSubtype(table, from, target) -> "Downcast"
      [] OTHER -> "error"

-----------------------------------------------------------------------------
(* Expressions and calls.                                                  *)

Ill == [k |-> "Ill", ty |-> "error"]

RECURSIVE CheckExpr(_, _), CheckCall(_, _), CheckReceiver(_, _)

\* The typed actuals, or <<Ill>> when one does not fit its formal.
CheckActuals(params, actuals, cx) ==
    IF Len(params) # Len(actuals) THEN <<Ill>>
    ELSE LET typed == [i \in DOMAIN actuals |-> CheckExpr(actuals[i], cx)] IN
         IF \A i \in DOMAIN typed :
               AssignmentCompatible(cx.table, typed[i].ty, params[i])
         THEN typed ELSE <<Ill>>

CheckConstructorCall(class, actuals, cx) ==
    LET ctor == FindConstructor(cx.table[class], Len(actuals)) IN
    IF ctor = <<>> THEN <<Ill>> ELSE CheckActuals(ctor[1].params, actuals, cx)

CheckReceiver(recv, cx) ==
    CASE recv.k = "This" -> [k |-> "This", ty |-> cx.cls]
      [] recv.k = "Super" ->
            IF cx.ctor \/ cx.table[cx.cls].parent = "none" THEN Ill
            ELSE [k |-> "Super", ty |-> cx.table[cx.cls].parent]
      [] recv.k = "Var" ->
            LET bind == ResolveName(recv.name, cx) IN
            IF IsClassType(bind.ty)
            THEN [k |-> "Var", name |-> recv.name, bind |-> bind, ty |-> bind.ty]
            ELSE Ill
      [] recv.k = "Computed" ->
            LET e == CheckExpr(recv.e, cx) IN
            IF recv.e.k # "Null" /\ IsClassType(e.ty)
            THEN [k |-> "Computed", e |-> e, ty |-> e.ty]
            ELSE Ill

CheckCall(call, cx) ==
    LET recv == CheckReceiver(call.recv, cx) IN
    IF recv = Ill THEN Ill ELSE
    LET methods == cx.table[recv.ty].effMethods IN
    IF call.name \notin DOMAIN methods THEN Ill ELSE
    LET entry == methods[call.name]
        args == CheckActuals(entry.sig.params, call.args, cx) IN
    IF args = <<Ill>> THEN Ill
    ELSE [k |-> "Call", recv |-> recv, name |-> call.name, args |-> args,
          ty |-> entry.sig.ret,
          res |-> CASE recv.k = "Super" -> "Super"
                    [] recv.k # "Super" /\ entry.sig.io -> "Io"
                    [] OTHER -> "Virtual",
          class |-> IF recv.k = "Super" THEN entry.owner ELSE recv.ty]

CheckExpr(e, cx) ==
    CASE e.k = "Num" -> [k |-> "Num", n |-> e.n, ty |-> "int"]
      [] e.k = "Bool" -> [k |-> "Bool", b |-> e.b, ty |-> "bool"]
      [] e.k = "Str" -> [k |-> "Str", s |-> e.s, ty |-> "String"]
      [] e.k = "Null" -> [k |-> "Null", ty |-> "null"]
      [] e.k = "This" -> [k |-> "This", ty |-> cx.cls]
      [] e.k = "Var" ->
            LET bind == ResolveName(e.name, cx) IN
            [k |-> "Var", name |-> e.name, bind |-> bind, ty |-> bind.ty]
      [] e.k = "New" ->
            IF e.class \notin DOMAIN cx.table \/ e.class \in IoClassNames THEN Ill
            ELSE LET args == CheckConstructorCall(e.class, e.args, cx) IN
                 IF args = <<Ill>> THEN Ill
                 ELSE [k |-> "New", class |-> e.class, args |-> args, ty |-> e.class]
      [] e.k = "Call" ->
            LET call == CheckCall(e, cx) IN
            IF call.ty = "void" THEN Ill ELSE call
      [] e.k = "Ternary" ->
            LET c == CheckExpr(e.c, cx)
                t == CheckExpr(e.t, cx)
                f == CheckExpr(e.f, cx) IN
            IF c.ty # "bool" THEN Ill
            ELSE [k |-> "Ternary", c |-> c, t |-> t, f |-> f,
                  ty |-> CombineTernaryBranches(cx.table, t.ty, f.ty)]
      [] e.k = "Binop" ->
            LET l == CheckExpr(e.l, cx)
                r == CheckExpr(e.r, cx) IN
            [k |-> "Binop", op |-> e.op, l |-> l, r |-> r,
             ty |-> CheckBinop(e.op, l.ty, r.ty)]
      [] e.k = "Unop" ->
            LET x == CheckExpr(e.e, cx) IN
            [k |-> "Unop", op |-> e.op, e |-> x, ty |-> CheckUnop(e.op, x.ty)]
      [] e.k = "Cast" ->
            IF e.target \notin DOMAIN cx.table THEN Ill
            ELSE LET x == CheckExpr(e.e, cx)
                     dir == CastDirection(cx.table, x.ty, e.target) IN
                 IF dir = "error" THEN Ill
                 ELSE [k |-> "Cast", target |-> e.target, e |-> x, dir |-> dir,
                       ty |-> e.target]
      [] e.k = "InstanceOf" ->
            LET x == CheckExpr(e.e, cx) IN
            IF e.class \notin DOMAIN cx.table \/ ~IsReference(x.ty) THEN Ill
            ELSE [k |-> "InstanceOf", e |-> x, class |-> e.class, ty |-> "bool"]

-----------------------------------------------------------------------------
(* Statements.  A typed statement is a record; IllStmt replaces one that   *)
(* is rejected, and a list with a rejected statement is <<IllStmt>>.       *)

IllStmt == [k |-> "Ill"]

RECURSIVE CheckStmt(_, _)

CheckStmts(stmts, cx) ==
    LET typed == [i \in DOMAIN stmts |-> CheckStmt(stmts[i], cx)] IN
    IF \E i \in DOMAIN typed : typed[i] = IllStmt THEN <<IllStmt>> ELSE typed

CheckStmt(s, cx) ==
    CASE s.k = "Empty" -> [k |-> "Empty"]
      [] s.k = "Assign" ->
            LET bind == ResolveName(s.name, cx)
                e == CheckExpr(s.e, cx) IN
            IF /\ bind.kind \notin {"none", "Prebound"}
               /\ AssignmentCompatible(cx.table, e.ty, bind.ty)
            THEN [k |-> "Assign", name |-> s.name, bind |-> bind, e |-> e]
            ELSE IllStmt
      [] s.k = "Return" ->
            LET e == CheckExpr(s.e, cx) IN
            IF ~cx.ctor /\ cx.ret # "void" /\ AssignmentCompatible(cx.table, e.ty, cx.ret)
            THEN [k |-> "Return", e |-> e]
            ELSE IllStmt
      [] s.k = "If" ->
            LET c == CheckExpr(s.c, cx)
                t == CheckStmts(s.t, cx)
                f == CheckStmts(s.f, cx) IN
            IF c.ty = "bool" /\ <<IllStmt>> \notin {t, f}
            THEN [k |-> "If", c |-> c, t |-> t, f |-> f]
            ELSE IllStmt
      [] s.k = "While" ->
            LET c == CheckExpr(s.c, cx)
                body == CheckStmts(s.body, [cx EXCEPT !.loop = TRUE]) IN
            IF c.ty = "bool" /\ body # <<IllStmt>>
            THEN [k |-> "While", c |-> c, body |-> body]
            ELSE IllStmt
      [] s.k = "Break" -> IF cx.loop THEN [k |-> "Break"] ELSE IllStmt
      [] s.k = "CallStmt" ->
            LET call == CheckCall(s.call, cx) IN
            IF call.ty = "void" THEN [k |-> "CallStmt", call |-> call] ELSE IllStmt

RECURSIVE DefinitelyReturns(_)
DefinitelyReturns(stmts) ==
    \E i \in DOMAIN stmts :
        \/ stmts[i].k = "Return"
        \/ /\ stmts[i].k = "If"
           /\ DefinitelyReturns(stmts[i].t)
           /\ DefinitelyReturns(stmts[i].f)

-----------------------------------------------------------------------------
(* Bodies and classes.                                                     *)

Context(table, class, ret, inCtor, scope) ==
    [cls |-> class, ret |-> ret, loop |-> FALSE, ctor |-> inCtor,
     scope |-> scope, table |-> table]

CheckMethod(table, class, m) ==
    LET cx == Context(table, class, m.ret, FALSE, Scope(m.formals, m.locals)) IN
    [name |-> m.name, ret |-> m.ret, formals |-> m.formals, io |-> m.io,
     locals |-> m.locals,
     body |-> IF ScopeOk(m.formals, m.locals, table) THEN CheckStmts(m.body, cx)
              ELSE <<IllStmt>>]

MethodOk(table, class, m) ==
    m.io \/ /\ CheckMethod(table, class, m).body # <<IllStmt>>
            /\ m.ret # "void" => DefinitelyReturns(m.body)

\* The class whose constructor a delegation runs, "error" if there is none.
DelegationClass(table, class, del) ==
    CASE del[1] = "this" -> class
      [] del[1] = "super" /\ table[class].parent # "none" -> table[class].parent
      [] OTHER -> "error"

CheckDelegation(table, class, ctor, cx) ==
    IF ctor.del[1] = "none" THEN <<"none", <<>>, class>>
    ELSE LET target == DelegationClass(table, class, ctor.del) IN
         <<ctor.del[1],
           IF target = "error" THEN <<Ill>>
           ELSE CheckConstructorCall(target, ctor.del[2], cx),
           target>>

CheckConstructor(table, class, c) ==
    LET cx == Context(table, class, "void", TRUE, Scope(c.formals, c.locals)) IN
    [implicit |-> FALSE, formals |-> c.formals, locals |-> c.locals,
     del |-> IF ScopeOk(c.formals, c.locals, table)
             THEN CheckDelegation(table, class, c, cx) ELSE <<"none", <<Ill>>, class>>,
     body |-> IF ScopeOk(c.formals, c.locals, table) THEN CheckStmts(c.body, cx)
              ELSE <<IllStmt>>]

ConstructorOk(table, class, c) ==
    LET typed == CheckConstructor(table, class, c) IN
    /\ ~(c.del[1] = "none" /\ c.body = <<>> /\ c.locals = <<>>)
    /\ c.del[1] = "none" => table[class].parent = "none"
    /\ typed.del[2] # <<Ill>> /\ typed.body # <<IllStmt>>

ImplicitConstructor(class) ==
    [implicit |-> TRUE, formals |-> class.fields, locals |-> <<>>,
     del |-> <<"none", <<>>, class.name>>, body |-> <<>>]

DelegationArities(info) == [i \in DOMAIN info.ctors |-> Len(info.ctors[i].params)]

ClassOk(table, class) ==
    /\ \A i \in DOMAIN class.methods : MethodOk(table, class.name, class.methods[i])
    /\ ~FindCycle(DelegationArities(table[class.name]),
                  DelegationEdges(table[class.name]))
    /\ \A i \in DOMAIN class.ctors : ConstructorOk(table, class.name, class.ctors[i])

TypedClass(table, class) ==
    [name |-> class.name, ext |-> class.ext, fields |-> class.fields,
     methods |-> [i \in DOMAIN class.methods |->
                    CheckMethod(table, class.name, class.methods[i])],
     ctors |-> IF class.ctors = <<>> THEN <<ImplicitConstructor(class)>>
               ELSE [i \in DOMAIN class.ctors |->
                       CheckConstructor(table, class.name, class.ctors[i])]]

-----------------------------------------------------------------------------
(* check_program.                                                          *)

Rejected == [accepted |-> FALSE]

CheckProgram(userProgram) ==
    LET program == AddIoClasses(userProgram)
        declared == GatherDeclarations(program)
        order == [i \in DOMAIN program |-> program[i].name]
        table == WithEffective(declared) IN
    IF \/ RejectsReservedNames(userProgram)
       \/ ~WellFormedDeclarations(program)
       \/ ~ResolvesInheritance(declared, order)
       \/ ~HasEntryPoint(declared)
       \/ \E i \in DOMAIN program : ~ClassOk(table, program[i]) THEN Rejected
    ELSE [accepted |-> TRUE, table |-> table,
          classes |-> [i \in DOMAIN program |-> TypedClass(table, program[i])]]
=============================================================================
