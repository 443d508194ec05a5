------------------------------ MODULE Writing -------------------------------
(***************************************************************************)
(* The tokens of a program, by the grammar the productions quoted in       *)
(* compiler/src/parser.rs spell out (P1 to P53): what the parser is        *)
(* compared with.  With spare set, literals, names and this carry          *)
(* parentheses they do not need (P28).                                     *)
(***************************************************************************)
EXTENDS Naturals, Sequences, SequencesExt

Tok(kind) == << <<kind>> >>
Name(n) == << <<"id", n>> >>
TypeName(ty) == IF ty \in {"int", "bool", "String", "void"} THEN Tok(ty) ELSE Name(ty)
InParens(tokens) == Tok("(") \o tokens \o Tok(")")

Separated(items) ==
    FlattenSeq([i \in DOMAIN items |-> IF i = 1 THEN items[i] ELSE Tok(",") \o items[i]])

SymbolOf == [Add |-> "+", Sub |-> "-", Mul |-> "*", Div |-> "/", Mod |-> "%",
             And |-> "&", Or |-> "|", Lt |-> "<", Gt |-> ">", Eq |-> "=",
             Neg |-> "~", Not |-> "!"]

Parenthesized == {"Ternary", "Binop", "Unop", "Cast", "InstanceOf"}

RECURSIVE WriteExpr(_, _)

WriteActuals(args, spare) == InParens(Separated([i \in DOMAIN args |-> WriteExpr(args[i], spare)]))

WriteCall(call, spare) ==
    LET recv == call.recv IN
    (CASE recv.k = "Var" -> Name(recv.name)
       [] recv.k = "This" -> Tok("this")
       [] recv.k = "Super" -> Tok("super")
       [] recv.k = "Computed" -> IF recv.e.k \in Parenthesized THEN WriteExpr(recv.e, spare)
                                 ELSE InParens(WriteExpr(recv.e, FALSE)))
    \o Tok(".") \o Name(call.name) \o WriteActuals(call.args, spare)

WriteExpr(e, spare) ==
    LET of(x) == WriteExpr(x, spare)
        plain(tokens) == IF spare THEN InParens(tokens) ELSE tokens IN
    CASE e.k = "Num" -> plain(<< <<"num", e.n>> >>)
      [] e.k = "Bool" -> plain(Tok(IF e.b THEN "true" ELSE "false"))
      [] e.k = "Str" -> plain(<< <<"str", e.s>> >>)
      [] e.k = "Null" -> plain(Tok("null"))
      [] e.k = "This" -> plain(Tok("this"))
      [] e.k = "Var" -> plain(Name(e.name))
      [] e.k = "New" -> Tok("new") \o Name(e.class) \o WriteActuals(e.args, spare)
      [] e.k = "Call" -> WriteCall(e, spare)
      [] e.k = "Ternary" -> InParens(of(e.c) \o Tok("?") \o of(e.t) \o Tok(":") \o of(e.f))
      [] e.k = "Binop" -> InParens(of(e.l) \o Tok(SymbolOf[e.op]) \o of(e.r))
      [] e.k = "Unop" -> InParens(Tok(SymbolOf[e.op]) \o of(e.e))
      [] e.k = "Cast" -> InParens(InParens(TypeName(e.target)) \o of(e.e))
      [] e.k = "InstanceOf" -> InParens(of(e.e) \o Tok("instanceof") \o Name(e.class))

\* Neighbours of one type share a declaration.
WriteVars(vs) ==
    LET same(i) == i \in 1..(Len(vs) - 1) /\ vs[i][2] = vs[i + 1][2] IN
    FlattenSeq([i \in DOMAIN vs |->
        (IF same(i - 1) THEN Tok(",") ELSE TypeName(vs[i][2]))
        \o Name(vs[i][1]) \o (IF same(i) THEN <<>> ELSE Tok(";"))])

RECURSIVE WriteStmts(_, _)

WriteStmt(s, spare) ==
    LET block(stmts) == Tok("{") \o WriteStmts(stmts, spare) \o Tok("}")
        of(e) == WriteExpr(e, spare) IN
    CASE s.k = "Assign" -> Name(s.name) \o Tok("=") \o of(s.e) \o Tok(";")
      [] s.k = "Return" -> Tok("return") \o of(s.e) \o Tok(";")
      [] s.k = "If" -> Tok("if") \o InParens(of(s.c)) \o block(s.t) \o Tok("else") \o block(s.f)
      [] s.k = "While" -> Tok("while") \o InParens(of(s.c)) \o block(s.body)
      [] s.k = "Break" -> Tok("break") \o Tok(";")
      [] s.k = "Empty" -> Tok(";")
      [] s.k = "CallStmt" -> WriteCall(s.call, spare) \o Tok(";")

WriteStmts(stmts, spare) == FlattenSeq([i \in DOMAIN stmts |-> WriteStmt(stmts[i], spare)])

WriteFormals(formals) ==
    InParens(Separated([i \in DOMAIN formals |-> TypeName(formals[i][2]) \o Name(formals[i][1])]))

WriteConstructor(class, c, spare) ==
    Name(class) \o WriteFormals(c.formals) \o Tok("{")
    \o (IF c.del[1] = "none" THEN <<>>
        ELSE Tok(c.del[1]) \o WriteActuals(c.del[2], spare) \o Tok(";"))
    \o WriteVars(c.locals) \o WriteStmts(c.body, spare) \o Tok("}")

WriteMethod(m, spare) ==
    TypeName(m.ret) \o Name(m.name) \o WriteFormals(m.formals)
    \o Tok("{") \o WriteVars(m.locals) \o WriteStmts(m.body, spare) \o Tok("}")

WriteClass(c, spare) ==
    Tok("class") \o Name(c.name)
    \o (IF c.ext = "none" THEN <<>> ELSE Tok("extends") \o Name(c.ext))
    \o InParens(WriteVars(c.fields))
    \o (IF c.ctors = <<>> THEN <<>>
        ELSE Tok("[") \o FlattenSeq([i \in DOMAIN c.ctors |->
                                       WriteConstructor(c.name, c.ctors[i], spare)]) \o Tok("]"))
    \o Tok("{") \o FlattenSeq([i \in DOMAIN c.methods |-> WriteMethod(c.methods[i], spare)])
    \o Tok("}")

WriteProgram(classes, spare) ==
    LET written == [i \in DOMAIN classes |-> WriteClass(classes[i], spare)] IN
    FlattenSeq(written) \o Tok("eof")
=============================================================================
