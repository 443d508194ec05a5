------------------------------- MODULE Parser -------------------------------
(***************************************************************************)
(* The parser (compiler/src/parser.rs): recursive descent over tokens with *)
(* two of lookahead, the checks it makes itself (local names, delegations) *)
(* included.  A token is <<kind>>, <<"id", name>>, <<"num", n>> or         *)
(* <<"str", bytes>>; the last one is <<"eof">>.  A parse from position p   *)
(* is [ok, v, pos]: what was parsed and where it ended, or the error code. *)
(* Lines are left out; a declaration of several names is several           *)
(* declarations.                                                           *)
(***************************************************************************)
EXTENDS Naturals, Sequences, Syntax

Got(v, p) == [ok |-> TRUE, v |-> v, pos |-> p]
Bad(code, p) == [ok |-> FALSE, v |-> code, pos |-> p]
Other(p) == Bad("E_PARSE_PHASE_OTHER", p)

\* Goes on with what r parsed, where it ended; an error ends the parse.
Then(r, Next(_, _)) == IF r.ok THEN Next(r.v, r.pos) ELSE r

Kind(ts, p) == ts[p][1]

ExpectOr(ts, p, kind, code) == IF Kind(ts, p) = kind THEN Got(<<>>, p + 1) ELSE Bad(code, p)
Expect(ts, p, kind) == ExpectOr(ts, p, kind, "E_PARSE_PHASE_OTHER")

\* r, then a token of the kind.
Closed(ts, r, kind) == Then(r, LAMBDA v, q : Then(Expect(ts, q, kind), LAMBDA w, s : Got(v, s)))

PrimitiveTypes == {"int", "bool", "String", "void"}
Keywords == PrimitiveTypes \cup {"class", "extends", "this", "super", "null", "new", "return",
                                 "if", "else", "while", "break", "true", "false", "instanceof"}

StartsExpr == {"num", "true", "false", "str", "null", "new", "id", "this", "super", "("}

BinopOf == [kind \in {"+", "-", "*", "/", "%", "&", "|", "<", ">", "="} |->
              CASE kind = "+" -> "Add" [] kind = "-" -> "Sub" [] kind = "*" -> "Mul"
                [] kind = "/" -> "Div" [] kind = "%" -> "Mod" [] kind = "&" -> "And"
                [] kind = "|" -> "Or" [] kind = "<" -> "Lt" [] kind = ">" -> "Gt"
                [] kind = "=" -> "Eq"]
UnopOf == [kind \in {"~", "!"} |-> IF kind = "~" THEN "Neg" ELSE "Not"]

Identifier(ts, p) ==
    CASE Kind(ts, p) = "id" -> Got(ts[p][2], p + 1)
      [] Kind(ts, p) \in Keywords -> Bad("E_RESERVED_KEYWORD_AS_IDENTIFIER", p)
      [] OTHER -> Other(p)

ParseType(ts, p) ==
    IF Kind(ts, p) \in PrimitiveTypes THEN Got(Kind(ts, p), p + 1) ELSE Identifier(ts, p)

-----------------------------------------------------------------------------
(* Expressions: everything but literals, names and calls is parenthesized. *)

RECURSIVE ParseExpr(_, _), ParseActuals(_, _)

ParseActuals(ts, p) ==
    Then(ParseExpr(ts, p), LAMBDA e, q :
      IF Kind(ts, q) # "," THEN Got(<<e>>, q)
      ELSE Then(ParseActuals(ts, q + 1), LAMBDA more, s : Got(<<e>> \o more, s)))

\* ( actuals ), from the first parenthesis.
Arguments(ts, p) ==
    Then(Expect(ts, p, "("), LAMBDA w, q :
      Closed(ts, IF Kind(ts, q) = ")" THEN Got(<<>>, q) ELSE ParseActuals(ts, q), ")"))

CallSuffix(ts, p, recv) ==
    Then(Expect(ts, p, "."), LAMBDA w, q :
      Then(Identifier(ts, q), LAMBDA name, s :
        Then(Arguments(ts, s), LAMBDA args, t : Got(CallExpr(recv, name, args), t))))

\* e, unless a call on it follows.
OrCall(ts, p, e, recv) ==
    IF Kind(ts, p) = "." THEN CallSuffix(ts, p, recv) ELSE Got(e, p)

OperatorSuffix(ts, p, e) ==
    LET kind == Kind(ts, p) IN
    CASE kind = "?" ->
            Then(Closed(ts, ParseExpr(ts, p + 1), ":"), LAMBDA t, q :
              Then(Closed(ts, ParseExpr(ts, q), ")"), LAMBDA f, s : Got(CondExpr(e, t, f), s)))
      [] kind = "instanceof" ->
            Then(Closed(ts, Identifier(ts, p + 1), ")"), LAMBDA c, q : Got(IsExpr(e, c), q))
      [] kind \in DOMAIN BinopOf ->
            Then(Closed(ts, ParseExpr(ts, p + 1), ")"), LAMBDA r, q :
              Got(BinopExpr(BinopOf[kind], e, r), q))
      [] OTHER -> Other(p)

CloseOrOperator(ts, p, e) ==
    IF Kind(ts, p) = ")" THEN Got(e, p + 1) ELSE OperatorSuffix(ts, p, e)

\* A plausible slip: a name in parentheses is always taken for an operand.
ParenSuffixNoCast(ts, p, e) ==
    IF Kind(ts, p) = "."
    THEN Then(CallSuffix(ts, p, OnExpr(e)), LAMBDA call, q : CloseOrOperator(ts, q, call))
    ELSE CloseOrOperator(ts, p, e)

\* After "(" and an expression: a name before another expression was a class.
ParenSuffix(ts, p, e) ==
    CASE e.k = "Var" /\ Kind(ts, p) \in StartsExpr ->
            Then(Closed(ts, ParseExpr(ts, p), ")"), LAMBDA x, q : Got(CastExpr(e.name, x), q))
      [] Kind(ts, p) = "." ->
            Then(CallSuffix(ts, p, OnExpr(e)), LAMBDA call, q : CloseOrOperator(ts, q, call))
      [] OTHER -> CloseOrOperator(ts, p, e)

ParseParen(ts, p) ==
    LET q == p + 1 IN
    CASE Kind(ts, q) \in DOMAIN UnopOf ->
            Then(Closed(ts, ParseExpr(ts, q + 1), ")"), LAMBDA e, s :
              Got(UnopExpr(UnopOf[Kind(ts, q)], e), s))
      [] Kind(ts, q) = "(" /\ Kind(ts, q + 1) \in PrimitiveTypes ->
            Then(Expect(ts, q + 2, ")"), LAMBDA w, s :
              Then(Closed(ts, ParseExpr(ts, s), ")"), LAMBDA e, t :
                Got(CastExpr(Kind(ts, q + 1), e), t)))
      [] OTHER -> Then(ParseExpr(ts, q), LAMBDA e, s : ParenSuffix(ts, s, e))

ParseExpr(ts, p) ==
    LET kind == Kind(ts, p) IN
    CASE kind = "num" -> Got(IntLit(ts[p][2]), p + 1)
      [] kind = "str" -> Got(StrLit(ts[p][2]), p + 1)
      [] kind \in {"true", "false"} -> Got(BoolLit(kind = "true"), p + 1)
      [] kind = "null" -> Got(NullLit, p + 1)
      [] kind = "new" ->
            Then(Identifier(ts, p + 1), LAMBDA c, q :
              Then(Arguments(ts, q), LAMBDA args, s : Got(NewExpr(c, args), s)))
      [] kind = "id" -> OrCall(ts, p + 1, VarExpr(ts[p][2]), OnVar(ts[p][2]))
      [] kind = "this" -> OrCall(ts, p + 1, ThisExpr, OnThis)
      [] kind = "super" -> CallSuffix(ts, p + 1, OnSuper)
      [] kind = "(" -> Then(ParseParen(ts, p), LAMBDA e, q : OrCall(ts, q, e, OnExpr(e)))
      [] OTHER -> Other(p)

-----------------------------------------------------------------------------
(* Declarations of variables: sequences of <<name, type>>.                 *)

RECURSIVE ParseFormals(_, _), MoreNames(_, _, _), FieldsFrom(_, _)

ParseFormals(ts, p) ==
    Then(ParseType(ts, p), LAMBDA ty, q :
      Then(Identifier(ts, q), LAMBDA name, s :
        IF Kind(ts, s) # "," THEN Got(<< <<name, ty>> >>, s)
        ELSE Then(ParseFormals(ts, s + 1), LAMBDA more, t : Got(<< <<name, ty>> >> \o more, t))))

\* ( formals ), from the first parenthesis.
Parameters(ts, p) ==
    Then(Expect(ts, p, "("), LAMBDA w, q :
      Closed(ts, IF Kind(ts, q) = ")" THEN Got(<<>>, q) ELSE ParseFormals(ts, q), ")"))

MoreNames(ts, p, ty) ==
    Then(Identifier(ts, p), LAMBDA name, q :
      IF Kind(ts, q) # "," THEN Got(<< <<name, ty>> >>, q)
      ELSE Then(MoreNames(ts, q + 1, ty), LAMBDA more, s : Got(<< <<name, ty>> >> \o more, s)))

VarDeclaration(ts, p) ==
    Then(ParseType(ts, p), LAMBDA ty, q : Closed(ts, MoreNames(ts, q, ty), ";"))

FieldsFrom(ts, p) ==
    IF Kind(ts, p) = ")" THEN Got(<<>>, p)
    ELSE Then(VarDeclaration(ts, p), LAMBDA d, q :
           Then(FieldsFrom(ts, q), LAMBDA more, s : Got(d \o more, s)))

StartsVarDecl(ts, p) ==
    Kind(ts, p) \in PrimitiveTypes \/ (Kind(ts, p) = "id" /\ Kind(ts, p + 1) = "id")

-----------------------------------------------------------------------------
(* Bodies.  Every block's declarations join the locals of the whole body.  *)
(* What is parsed is [locals, stmts]; cx is the constructor the body is    *)
(* of: "none" outside one, "nested" in one of its blocks, or the keyword   *)
(* of its delegation, "absent" if it has none.                             *)

Declares(locals, name) == \E i \in DOMAIN locals : locals[i][1] = name

Hoist(locals, decl, p) ==
    IF \/ \E i, j \in DOMAIN decl : i < j /\ decl[i][1] = decl[j][1]
       \/ \E i \in DOMAIN decl : Declares(locals, decl[i][1])
    THEN Bad("E_DUPLICATE_LOCAL", p) ELSE Got(locals \o decl, p)

MisplacedDelegation(ts, p, cx) ==
    /\ cx # "none"
    /\ Kind(ts, p) \in {"this", "super"} /\ Kind(ts, p + 1) = "("

DelegationError(ts, p, cx) ==
    IF cx \in {"this", "super"} /\ cx # Kind(ts, p)
    THEN Bad("E_DELEGATION_BOTH_SUPER_AND_THIS", p)
    ELSE Bad("E_DELEGATION_NOT_FIRST_STATEMENT", p)

RECURSIVE DeclarationsFrom(_, _, _), StmtsFrom(_, _, _, _), ParseStmt(_, _, _, _)

DeclarationsFrom(ts, p, locals) ==
    IF ~StartsVarDecl(ts, p) THEN Got(locals, p)
    ELSE Then(VarDeclaration(ts, p), LAMBDA d, q :
           Then(Hoist(locals, d, p), LAMBDA all, s : DeclarationsFrom(ts, q, all)))

Body(locals, stmts) == [locals |-> locals, stmts |-> stmts]

StmtsFrom(ts, p, locals, cx) ==
    IF Kind(ts, p) = "}" THEN Got(Body(locals, <<>>), p)
    ELSE Then(ParseStmt(ts, p, locals, cx), LAMBDA one, q :
           Then(StmtsFrom(ts, q, one.locals, cx), LAMBDA more, s :
             Got(Body(more.locals, one.stmts \o more.stmts), s)))

\* From the first brace, through the last.
BodyOfKind(ts, p, locals, cx, mayBeEmpty) ==
    LET inside(q) == Then(DeclarationsFrom(ts, q, locals), LAMBDA all, s :
                       StmtsFrom(ts, s, all, cx)) IN
    Then(Expect(ts, p, "{"), LAMBDA w, q :
      Then(inside(q), LAMBDA b, s :
        IF b.stmts = <<>> /\ ~mayBeEmpty THEN Other(s)
        ELSE Then(Expect(ts, s, "}"), LAMBDA x, t : Got(b, t))))

ParseBlock(ts, p, locals, cx) ==
    BodyOfKind(ts, p, locals, IF cx = "none" THEN "none" ELSE "nested", FALSE)

\* ( condition ), from the first parenthesis.
Condition(ts, p) ==
    Then(Expect(ts, p, "("), LAMBDA w, q : Closed(ts, ParseExpr(ts, q), ")"))

CallStatement(ts, p) ==
    LET from(r) == Then(r, LAMBDA recv, q :
                     Then(Closed(ts, CallSuffix(ts, q, recv), ";"), LAMBDA call, s :
                       Got(CallStmt(call.recv, call.name, call.args), s)))
        kind == Kind(ts, p) IN
    CASE kind = "id" -> from(Got(OnVar(ts[p][2]), p + 1))
      [] kind = "this" -> from(Got(OnThis, p + 1))
      [] kind = "super" -> from(Got(OnSuper, p + 1))
      [] kind = "(" -> from(Then(ParseParen(ts, p), LAMBDA e, q : Got(OnExpr(e), q)))

ParseStmt(ts, p, locals, cx) ==
    LET kind == Kind(ts, p)
        one(r, Make(_)) == Then(Closed(ts, r, ";"), LAMBDA v, q : Got(Body(locals, <<Make(v)>>), q)) IN
    CASE MisplacedDelegation(ts, p, cx) -> DelegationError(ts, p, cx)
      [] kind = "return" -> one(ParseExpr(ts, p + 1), ReturnStmt)
      [] kind = "break" -> one(Got(BreakStmt, p + 1), LAMBDA s : s)
      [] kind = ";" -> one(Got(EmptyStmt, p), LAMBDA s : s)
      [] kind = "id" /\ Kind(ts, p + 1) = "=" ->
            one(ParseExpr(ts, p + 2), LAMBDA e : AssignStmt(ts[p][2], e))
      [] kind = "if" ->
            Then(Condition(ts, p + 1), LAMBDA c, q :
              Then(ParseBlock(ts, q, locals, cx), LAMBDA yes, s :
                Then(Expect(ts, s, "else"), LAMBDA w, t :
                  Then(ParseBlock(ts, t, yes.locals, cx), LAMBDA no, u :
                    Got(Body(no.locals, <<IfStmt(c, yes.stmts, no.stmts)>>), u)))))
      [] kind = "while" ->
            Then(Condition(ts, p + 1), LAMBDA c, q :
              Then(ParseBlock(ts, q, locals, cx), LAMBDA b, s :
                Got(Body(b.locals, <<WhileStmt(c, b.stmts)>>), s)))
      [] (kind = "id" /\ Kind(ts, p + 1) # "=") \/ (kind \in {"this", "super", "("}
              /\ ~MisplacedDelegation(ts, p, cx)) ->
            Then(CallStatement(ts, p), LAMBDA call, q : Got(Body(locals, <<call>>), q))
      [] OTHER -> Other(p)

-----------------------------------------------------------------------------
(* Classes.                                                                *)

ParseDelegation(ts, p) ==
    IF ~(Kind(ts, p) \in {"this", "super"} /\ Kind(ts, p + 1) = "(") THEN Got(NoDelegation, p)
    ELSE Then(Closed(ts, Arguments(ts, p + 1), ";"), LAMBDA args, q :
           Got(<<Kind(ts, p), args>>, q))

ParseConstructor(ts, p, class) ==
    LET body(formals, q) ==
          Then(Expect(ts, q, "{"), LAMBDA w, s :
            Then(ParseDelegation(ts, s), LAMBDA del, t :
              Then(DeclarationsFrom(ts, t, <<>>), LAMBDA locals, u :
                Then(Closed(ts, StmtsFrom(ts, u, locals,
                                          IF del[1] = "none" THEN "absent" ELSE del[1]), "}"),
                     LAMBDA b, x : Got(CtorDecl(formals, del, b.locals, b.stmts), x))))) IN
    Then(Identifier(ts, p), LAMBDA name, q :
      IF name # class THEN Bad("E_MALFORMED_CONSTRUCTOR", p)
      ELSE Then(Parameters(ts, q), body))

ParseMethod(ts, p) ==
    Then(ParseType(ts, p), LAMBDA ty, q :
      Then(Identifier(ts, q), LAMBDA name, s :
        Then(Parameters(ts, s), LAMBDA formals, t :
          Then(BodyOfKind(ts, t, <<>>, "none", FALSE), LAMBDA b, u :
            Got(MethodDecl(ty, name, formals, b.locals, b.stmts), u)))))

RECURSIVE ConstructorsFrom(_, _, _), MethodsFrom(_, _), ClassesFrom(_, _)

ConstructorsFrom(ts, p, class) ==
    Then(ParseConstructor(ts, p, class), LAMBDA c, q :
      IF Kind(ts, q) = "]" THEN Got(<<c>>, q + 1)
      ELSE Then(ConstructorsFrom(ts, q, class), LAMBDA more, s : Got(<<c>> \o more, s)))

MethodsFrom(ts, p) ==
    IF Kind(ts, p) = "}" THEN Got(<<>>, p + 1)
    ELSE Then(ParseMethod(ts, p), LAMBDA m, q :
           Then(MethodsFrom(ts, q), LAMBDA more, s : Got(<<m>> \o more, s)))

ParseClass(ts, p) ==
    LET malformed == "E_MALFORMED_CLASS_DECL"
        extends(q) == IF Kind(ts, q) = "extends" THEN Identifier(ts, q + 1) ELSE Got("none", q)
        fields(q) == Then(ExpectOr(ts, q, "(", malformed), LAMBDA w, s :
                       Then(FieldsFrom(ts, s), LAMBDA fs, t :
                         Then(ExpectOr(ts, t, ")", malformed), LAMBDA x, u : Got(fs, u))))
        constructors(q, class) ==
          CASE Kind(ts, q) # "[" -> Got(<<>>, q)
            [] Kind(ts, q) = "[" /\ Kind(ts, q + 1) = "]" -> Bad(malformed, q + 1)
            [] OTHER -> ConstructorsFrom(ts, q + 1, class)
        methods(q) == Then(ExpectOr(ts, q, "{", malformed), LAMBDA w, s : MethodsFrom(ts, s)) IN
    Then(Expect(ts, p, "class"), LAMBDA w, q :
      Then(Identifier(ts, q), LAMBDA name, s :
        Then(extends(s), LAMBDA ext, t :
          Then(fields(t), LAMBDA fs, u :
            Then(constructors(u, name), LAMBDA cs, x :
              Then(methods(x), LAMBDA ms, y :
                Got(ClassDecl(name, ext, fs, cs, ms), y)))))))

ClassesFrom(ts, p) ==
    IF Kind(ts, p) = "eof" THEN Got(<<>>, p)
    ELSE Then(ParseClass(ts, p), LAMBDA c, q :
           Then(ClassesFrom(ts, q), LAMBDA more, s : Got(<<c>> \o more, s)))

ParseProgram(ts) == LET start == 1 IN ClassesFrom(ts, start)
=============================================================================
