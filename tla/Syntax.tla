------------------------------- MODULE Syntax -------------------------------
(***************************************************************************)
(* The syntax tree of ast.rs, as far as the passes after parsing look at   *)
(* it: constructors for the records they take apart.                       *)
(***************************************************************************)
IntLit(n) == [k |-> "Num", n |-> n]
BoolLit(b) == [k |-> "Bool", b |-> b]
StrLit(bytes) == [k |-> "Str", s |-> bytes]
NullLit == [k |-> "Null"]
ThisExpr == [k |-> "This"]
VarExpr(name) == [k |-> "Var", name |-> name]
NewExpr(class, args) == [k |-> "New", class |-> class, args |-> args]
CallExpr(recv, name, args) == [k |-> "Call", recv |-> recv, name |-> name, args |-> args]
CondExpr(c, t, f) == [k |-> "Ternary", c |-> c, t |-> t, f |-> f]
BinopExpr(op, l, r) == [k |-> "Binop", op |-> op, l |-> l, r |-> r]
UnopExpr(op, e) == [k |-> "Unop", op |-> op, e |-> e]
CastExpr(target, e) == [k |-> "Cast", target |-> target, e |-> e]
IsExpr(e, class) == [k |-> "InstanceOf", e |-> e, class |-> class]

OnThis == [k |-> "This"]
OnSuper == [k |-> "Super"]
OnVar(name) == [k |-> "Var", name |-> name]
OnExpr(e) == [k |-> "Computed", e |-> e]

AssignStmt(name, e) == [k |-> "Assign", name |-> name, e |-> e]
ReturnStmt(e) == [k |-> "Return", e |-> e]
IfStmt(c, t, f) == [k |-> "If", c |-> c, t |-> t, f |-> f]
WhileStmt(c, body) == [k |-> "While", c |-> c, body |-> body]
BreakStmt == [k |-> "Break"]
EmptyStmt == [k |-> "Empty"]
CallStmt(recv, name, args) == [k |-> "CallStmt", call |-> CallExpr(recv, name, args)]

MethodDecl(ret, name, formals, locals, body) ==
    [name |-> name, ret |-> ret, formals |-> formals, io |-> FALSE,
     locals |-> locals, body |-> body]

NoDelegation == <<"none">>
ThisCall(args) == <<"this", args>>
SuperCall(args) == <<"super", args>>

CtorDecl(formals, delegation, locals, body) ==
    [formals |-> formals, del |-> delegation, locals |-> locals, body |-> body]

ClassDecl(name, ext, fields, ctors, methods) ==
    [name |-> name, ext |-> ext, fields |-> fields, ctors |-> ctors,
     methods |-> methods]
=============================================================================
