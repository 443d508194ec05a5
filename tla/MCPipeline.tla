----------------------------- MODULE MCPipeline -----------------------------
(***************************************************************************)
(* Programs for TLC: class A (an int, a String, methods that call each     *)
(* other), class B that overrides and delegates, and a Main whose body is  *)
(* one of many expressions and statements, well typed or not; hierarchies  *)
(* and delegations, well formed or not.  int has 5 bits: -16 to 15.        *)
(***************************************************************************)
EXTENDS Pipeline

v(name) == VarExpr(name)

GetA == MethodDecl("int", "get", <<>>, <<>>, << ReturnStmt(v("x")) >>)
PlusA == MethodDecl("int", "plus", << <<"d", "int">> >>, <<>>,
           << ReturnStmt(BinopExpr("Add", CallExpr(OnThis, "get", <<>>), v("d"))) >>)
TagA == MethodDecl("String", "tag", <<>>, <<>>,
          << AssignStmt("s", BinopExpr("Add", v("s"), StrLit(<<97>>))),
             ReturnStmt(v("s")) >>)
SetA == MethodDecl("void", "set", << <<"n", "int">> >>, << <<"t", "int">> >>,
          << AssignStmt("t", v("x")), AssignStmt("x", v("n")), AssignStmt("n", v("t")) >>)
CtorA == CtorDecl(<< <<"n", "int">> >>, NoDelegation, <<>>, << AssignStmt("x", v("n")) >>)

ClassA == ClassDecl("A", "none", << <<"x", "int">>, <<"s", "String">> >>,
                    <<CtorA>>, <<GetA, PlusA, TagA, SetA>>)

GetB == MethodDecl("int", "get", <<>>, <<>>,
          << ReturnStmt(BinopExpr("Mul", CallExpr(OnSuper, "get", <<>>), v("y"))) >>)
OwnB == MethodDecl("A", "own", <<>>, <<>>, << ReturnStmt(v("next")) >>)
LinkB == MethodDecl("void", "link", << <<"a", "A">> >>, <<>>, << AssignStmt("next", v("a")) >>)
CtorB1 == CtorDecl(<< <<"n", "int">> >>, SuperCall(<< BinopExpr("Add", v("n"), IntLit(1)) >>),
                   <<>>, << AssignStmt("y", v("n")) >>)
CtorB0 == CtorDecl(<<>>, ThisCall(<<IntLit(2)>>), <<>>,
                   << AssignStmt("s", CallExpr(OnThis, "tag", <<>>)) >>)

ClassB == ClassDecl("B", "A", << <<"y", "int">>, <<"next", "A">> >>,
                    <<CtorB1, CtorB0>>, <<GetB, OwnB, LinkB>>)

Say == MethodDecl("int", "say", << <<"n", "int">> >>, <<>>,
         << CallStmt(OnVar("out"), "print_int", <<v("n")>>), ReturnStmt(v("n")) >>)
Tick == MethodDecl("bool", "tick", << <<"b", "bool">> >>, <<>>,
          << CallStmt(OnVar("err"), "print_bool", <<v("b")>>), ReturnStmt(v("b")) >>)

MainWith(locals, body) ==
    ClassDecl("Main", "none", <<>>, <<>>,
              <<MethodDecl("int", "main", <<>>, locals, body), Say, Tick>>)

Say1(n) == CallExpr(OnThis, "say", <<n>>)
Tick1(b) == CallExpr(OnThis, "tick", <<BoolLit(b)>>)
Neg(e) == UnopExpr("Neg", e)
Least == BinopExpr("Sub", Neg(IntLit(15)), IntLit(1))
Output1(kind, e) == CallStmt(OnVar("out"), "print_" \o kind, <<e>>)

Locals == << <<"i", "int">>, <<"least", "int">>, <<"zero", "int">>, <<"q", "bool">>,
             <<"w", "String">>, <<"a", "A">>, <<"ab", "A">>, <<"b", "B">>,
             <<"no", "A">>, <<"o", "Output">> >>

Prologue == << AssignStmt("i", Neg(IntLit(1))), AssignStmt("least", Least),
               AssignStmt("a", NewExpr("A", <<IntLit(3)>>)),
               AssignStmt("b", NewExpr("B", <<>>)), AssignStmt("ab", v("b")) >>

\* A program that assigns e to a variable of the type and prints it.
Target == [int |-> "i", bool |-> "q", String |-> "w", A |-> "ab", B |-> "b"]
Shown == [int |-> << Output1("int", v("i")) >>, bool |-> << Output1("bool", v("q")) >>,
          String |-> << Output1("string", v("w")) >>,
          A |-> << Output1("int", CallExpr(OnVar("ab"), "plus", <<IntLit(1)>>)) >>,
          B |-> << Output1("int", CallExpr(OnVar("b"), "plus", <<IntLit(1)>>)) >>]

Using(ty, e) ==
    <<ClassA, ClassB,
      MainWith(Locals, Prologue \o <<AssignStmt(Target[ty], e)>> \o Shown[ty]
                       \o << ReturnStmt(IntLit(0)) >>)>>

Doing(stmts) ==
    <<ClassA, ClassB,
      MainWith(Locals, Prologue \o stmts \o << ReturnStmt(v("i")) >>)>>

\* All pairs, as a sequence.
Pairs(s, t) == [n \in 1..(Len(s) * Len(t)) |->
                  <<s[((n - 1) \div Len(t)) + 1], t[((n - 1) % Len(t)) + 1]>>]

-----------------------------------------------------------------------------
(* Expressions.                                                            *)

Atoms == << IntLit(7), v("i"), BoolLit(TRUE), StrLit(<<97, 98>>), NullLit, v("a"), v("b") >>

Operators == <<"Add", "Mul", "And", "Lt", "Eq">>

ResultOf(op, l) ==
    CASE op \in {"And", "Or", "Lt", "Gt", "Eq"} -> "bool"
      [] op \notin {"And", "Or", "Lt", "Gt", "Eq"} /\ l.k = "Str" -> "String"
      [] OTHER -> "int"

BinopPrograms ==
    LET all == Pairs(Operators, Pairs(Atoms, Atoms)) IN
    [n \in DOMAIN all |-> Using(ResultOf(all[n][1], all[n][2][1]),
                                BinopExpr(all[n][1], all[n][2][1], all[n][2][2]))]

Dividends == << v("least"), IntLit(7), Neg(IntLit(7)) >>
Divisors == << IntLit(0), v("zero"), Neg(IntLit(1)), v("i"), IntLit(2), Neg(IntLit(2)) >>

DivisionPrograms ==
    LET all == Pairs(<<"Div", "Mod">>, Pairs(Dividends, Divisors)) IN
    [n \in DOMAIN all |-> Using("int", BinopExpr(all[n][1], all[n][2][1], all[n][2][2]))]

TypedExpressions == <<
    <<"int", Neg(v("least"))>>, <<"int", Neg(BoolLit(TRUE))>>,
    <<"int", BinopExpr("Sub", v("least"), IntLit(1))>>,
    <<"bool", UnopExpr("Not", v("q"))>>, <<"bool", UnopExpr("Not", v("i"))>>,
    <<"String", Neg(StrLit(<<97, 98>>))>>, <<"String", StrLit(<<>>)>>,
    <<"String", BinopExpr("Mul", StrLit(<<97>>), v("i"))>>,
    <<"String", BinopExpr("Mul", BinopExpr("Add", v("w"), StrLit(<<98>>)), IntLit(2))>>,
    <<"bool", BinopExpr("Gt", StrLit(<<97, 98>>), StrLit(<<97>>))>>,
    <<"bool", BinopExpr("Lt", StrLit(<<97, 98>>), StrLit(<<98>>))>>,
    <<"bool", BinopExpr("Eq", v("w"), StrLit(<<>>))>>,
    <<"bool", BinopExpr("Gt", IntLit(1), v("i"))>>,
    <<"bool", BinopExpr("And", Tick1(FALSE), Tick1(TRUE))>>,
    <<"bool", BinopExpr("Or", Tick1(TRUE), Tick1(FALSE))>>,
    <<"bool", BinopExpr("Or", Tick1(FALSE), BinopExpr("Eq", Say1(IntLit(1)), Say1(IntLit(2))))>>,
    <<"int", CondExpr(Tick1(TRUE), Say1(IntLit(1)), Say1(IntLit(2)))>>,
    <<"A", CondExpr(Tick1(FALSE), v("b"), v("a"))>>, <<"A", CondExpr(Tick1(TRUE), v("b"), NullLit)>>,
    <<"B", CondExpr(Tick1(FALSE), v("b"), v("a"))>>, <<"int", CondExpr(v("i"), IntLit(1), IntLit(2))>>,
    <<"int", CondExpr(v("q"), IntLit(1), NullLit)>>, <<"A", CondExpr(v("q"), NullLit, NullLit)>>,
    <<"int", BinopExpr("Sub", Say1(IntLit(1)), Say1(IntLit(2)))>>,
    <<"int", CallExpr(OnVar("ab"), "plus", <<Say1(IntLit(1))>>)>>,
    <<"int", CallExpr(OnVar("no"), "plus", <<Say1(IntLit(1))>>)>>,
    <<"int", CallExpr(OnVar("no"), "plus", <<CallExpr(OnExpr(CastExpr("B", v("a"))), "get", <<>>)>>)>>,
    <<"int", CallExpr(OnVar("ab"), "plus", <<>>)>>, <<"int", CallExpr(OnVar("ab"), "plus", <<v("q")>>)>>,
    <<"int", CallExpr(OnVar("a"), "own", <<>>)>>, <<"int", CallExpr(OnSuper, "say", <<IntLit(1)>>)>>,
    <<"int", CallExpr(OnVar("out"), "print_int", <<IntLit(1)>>)>>,
    <<"String", CallExpr(OnVar("b"), "tag", <<>>)>>,
    <<"int", CallExpr(OnExpr(NewExpr("B", <<IntLit(4)>>)), "plus", <<IntLit(1)>>)>>,
    <<"int", CallExpr(OnExpr(NullLit), "get", <<>>)>>,
    <<"A", NewExpr("B", <<Say1(IntLit(5))>>)>>, <<"B", NewExpr("A", <<IntLit(1)>>)>>,
    <<"A", NewExpr("A", <<v("q")>>)>>, <<"A", NewExpr("A", <<>>)>>, <<"A", NewExpr("Output", <<>>)>>,
    <<"A", CallExpr(OnVar("b"), "own", <<>>)>>,
    <<"B", CastExpr("B", v("ab"))>>, <<"B", CastExpr("B", v("a"))>>, <<"B", CastExpr("B", v("no"))>>,
    <<"A", CastExpr("A", v("b"))>>, <<"B", CastExpr("B", NullLit)>>, <<"B", CastExpr("B", v("o"))>>,
    <<"A", CastExpr("Main", v("a"))>>, <<"B", v("ab")>>, <<"A", v("b")>>, <<"int", v("unbound")>>,
    <<"bool", IsExpr(v("ab"), "B")>>, <<"bool", IsExpr(v("a"), "B")>>, <<"bool", IsExpr(NullLit, "A")>>,
    <<"bool", IsExpr(v("o"), "A")>>, <<"bool", IsExpr(v("b"), "A")>>, <<"bool", IsExpr(v("i"), "A")>>,
    <<"bool", BinopExpr("Eq", v("ab"), v("b"))>>, <<"bool", BinopExpr("Eq", v("a"), v("o"))>> >>

ExpressionPrograms ==
    [n \in DOMAIN TypedExpressions |-> Using(TypedExpressions[n][1], TypedExpressions[n][2])]

-----------------------------------------------------------------------------
(* Statements.                                                             *)

Bump == AssignStmt("i", BinopExpr("Add", v("i"), IntLit(1)))
Below(n) == BinopExpr("Lt", v("i"), IntLit(n))
Return1(n) == ReturnStmt(IntLit(n))

\* Loops that allocate in every turn: while the result of a choice is still
\* to be set, and again after it was released.
Grown == BinopExpr("Add", v("w"), StrLit(<<97>>))
Early == BinopExpr("Lt", v("i"), IntLit(1))

AllocatingBodies == <<
    << WhileStmt(Below(2), <<
         AssignStmt("w", BinopExpr("Add", CondExpr(Early, Grown, StrLit(<<98>>)), v("w"))),
         AssignStmt("w", Grown), Output1("string", v("w")), Bump >>) >>,
    << WhileStmt(Below(2), <<
         AssignStmt("ab", CondExpr(Early, NewExpr("B", <<v("i")>>), NewExpr("A", <<v("i")>>))),
         CallStmt(OnVar("b"), "link", <<v("ab")>>), Bump,
         AssignStmt("w", CallExpr(OnExpr(CallExpr(OnVar("b"), "own", <<>>)), "tag", <<>>)),
         Output1("int", CallExpr(OnVar("ab"), "get", <<>>)) >>) >>,
    << WhileStmt(BoolLit(TRUE), <<
         IfStmt(BinopExpr("Eq", CondExpr(Early, Neg(Grown), v("w")), v("w")),
                <<BreakStmt>>, <<AssignStmt("w", Grown), Bump>>),
         Output1("string", v("w")) >>) >>,
    << WhileStmt(BoolLit(TRUE), <<
         IfStmt(Early, <<AssignStmt("w", Grown), Bump>>,
                <<ReturnStmt(CallExpr(OnExpr(CondExpr(Early, v("a"), NewExpr("B", <<v("i")>>))),
                                      "get", <<>>))>>) >>) >> >>

Bodies == <<
    << WhileStmt(Below(3), <<Bump, Output1("int", v("i"))>>) >>,
    << WhileStmt(BoolLit(TRUE), <<Bump, IfStmt(Below(2), <<EmptyStmt>>, <<BreakStmt, Bump>>)>>), Bump >>,
    << WhileStmt(Below(2), <<Bump, AssignStmt("zero", IntLit(0)),
         WhileStmt(BinopExpr("Lt", v("zero"), IntLit(2)),
                   <<AssignStmt("zero", BinopExpr("Add", v("zero"), IntLit(1))),
                     IfStmt(BinopExpr("Eq", v("i"), IntLit(1)), <<BreakStmt>>, <<EmptyStmt>>),
                     Output1("int", v("zero"))>>)>>) >>,
    << WhileStmt(BoolLit(TRUE), <<Return1(4), Output1("int", IntLit(9))>>) >>,
    << IfStmt(Below(0), <<Return1(1)>>, <<Return1(2)>>), Output1("int", IntLit(9)) >>,
    << IfStmt(Tick1(FALSE), <<Return1(1)>>, <<Bump>>), Bump >>,
    << IfStmt(v("i"), <<EmptyStmt>>, <<EmptyStmt>>) >>, <<BreakStmt>>, << WhileStmt(v("i"), <<EmptyStmt>>) >>,
    << CallStmt(OnThis, "say", <<IntLit(1)>>) >>,
    << CallStmt(OnVar("ab"), "set", <<IntLit(5)>>),
       Output1("int", CallExpr(OnVar("b"), "plus", <<IntLit(0)>>)) >>,
    << CallStmt(OnVar("b"), "link", <<v("a")>>), AssignStmt("ab", CallExpr(OnVar("b"), "own", <<>>)),
       CallStmt(OnVar("ab"), "set", <<IntLit(6)>>),
       Output1("int", CallExpr(OnVar("a"), "get", <<>>)) >>,
    << AssignStmt("o", v("err")), CallStmt(OnVar("o"), "print_int", <<IntLit(1)>>),
       CallStmt(OnVar("out"), "println", <<>>) >>,
    << CallStmt(OnVar("o"), "print_int", <<Say1(IntLit(1))>>) >>,
    << AssignStmt("out", v("err")) >>, << AssignStmt("unbound", IntLit(1)) >>,
    << ReturnStmt(v("q")) >>, << AssignStmt("b", v("a")), CallStmt(OnVar("b"), "link", <<v("a")>>) >>,
    << IfStmt(BoolLit(FALSE), <<Return1(2)>>, <<EmptyStmt>>) >>,
    << CallStmt(OnVar("i"), "get", <<>>) >> >> \o AllocatingBodies

StatementPrograms == [n \in DOMAIN Bodies |-> Doing(Bodies[n])]

-----------------------------------------------------------------------------
(* Declarations.                                                           *)

ReturnZero == << ReturnStmt(IntLit(0)) >>
MainOf(body) == MainWith(<< <<"b", "B">> >>, body)
UseB == << AssignStmt("b", NewExpr("B", <<>>)), Output1("int", CallExpr(OnVar("b"), "get", <<>>)) >>
          \o ReturnZero

BWith(ext, fields, ctors, methods) ==
    <<ClassA, ClassDecl("B", ext, fields, ctors, methods), MainOf(UseB)>>

FromA == CtorDecl(<<>>, SuperCall(<<IntLit(2)>>), <<>>, <<>>)

\* A, B and C each under one of the others, of nothing, of Main, of a class
\* there is not.
HierarchyPrograms ==
    LET parents == <<"none", "A", "B", "C", "Main", "Input", "Z">>
        empty(name, ext) ==
            ClassDecl(name, ext, <<>>,
                      IF ext = "none" THEN <<>>
                      ELSE << CtorDecl(<<>>, SuperCall(<<>>), <<>>, <<>>) >>,
                      << MethodDecl("int", "get", <<>>, <<>>, ReturnZero) >>)
        all == Pairs(parents, Pairs(parents, SubSeq(parents, 1, 4))) IN
    [n \in DOMAIN all |->
        <<empty("A", all[n][1]), empty("B", all[n][2][1]), empty("C", all[n][2][2]),
          MainOf(UseB)>>]

\* Constructors of 0, 1 and 2 arguments that delegate to one another.
DelegationPrograms ==
    LET args(k) == [i \in 1..k |-> IntLit(i)]
        formals(k) == [i \in 1..k |-> << <<"p", "q">>[i], "int" >>]
        ctor(k, d) == CtorDecl(formals(k), IF d = 3 THEN NoDelegation ELSE ThisCall(args(d)),
                               <<>>, << AssignStmt("y", BinopExpr("Add", v("y"), IntLit(k + 1))) >>)
        ks == <<0, 1, 2, 3>>
        all == Pairs(ks, Pairs(ks, ks)) IN
    [n \in DOMAIN all |->
        << ClassDecl("B", "none", << <<"y", "int">> >>,
                     <<ctor(0, all[n][1]), ctor(1, all[n][2][1]), ctor(2, all[n][2][2])>>,
                     << MethodDecl("int", "get", <<>>, <<>>, << ReturnStmt(v("y")) >>) >>),
           MainOf(UseB) >>]

OverridingPrograms == <<
    BWith("A", << <<"x", "int">> >>, <<FromA>>, <<>>),
    BWith("A", << <<"z", "int">> >>, <<>>, <<>>), BWith("A", <<>>, <<FromA>>, <<GetA>>),
    BWith("A", <<>>, <<FromA>>, <<MethodDecl("bool", "get", <<>>, <<>>, <<ReturnStmt(BoolLit(TRUE))>>)>>),
    BWith("A", <<>>, <<FromA>>, <<MethodDecl("int", "get", << <<"n", "int">> >>, <<>>, ReturnZero)>>),
    BWith("A", <<>>, <<FromA, FromA>>, <<>>), BWith("A", <<>>, <<FromA>>, <<GetB>>),
    BWith("A", <<>>, <<CtorDecl(<<>>, NoDelegation, <<>>, <<EmptyStmt>>)>>, <<>>),
    BWith("none", << <<"y", "int">>, <<"y", "bool">> >>, <<>>, <<>>),
    BWith("none", << <<"y", "Z">> >>, <<>>, <<>>), BWith("none", << <<"y", "void">> >>, <<>>, <<>>),
    BWith("none", <<>>, <<>>, <<GetA>>), BWith("none", <<>>, <<>>, <<GetA, GetA>>),
    BWith("none", << <<"x", "int">>, <<"out", "int">> >>, <<>>, <<GetA>>),
    BWith("none", << <<"x", "int">> >>, <<CtorDecl(<<>>, NoDelegation, <<>>, <<>>)>>, <<GetA>>),
    BWith("none", << <<"x", "int">> >>, <<CtorDecl(<<>>, NoDelegation, <<>>, <<ReturnStmt(IntLit(1))>>)>>, <<GetA>>),
    BWith("none", << <<"x", "int">> >>, <<CtorDecl(<<>>, SuperCall(<<>>), <<>>, <<EmptyStmt>>)>>, <<GetA>>),
    <<ClassA>>, <<ClassA, ClassA, MainOf(ReturnZero)>>,
    << ClassDecl("Main", "none", <<>>, <<>>, <<Say>>) >>,
    << ClassDecl("Input", "none", <<>>, <<>>, <<Say>>), MainOf(ReturnZero) >>,
    << ClassDecl("Main", "none", << <<"f", "int">> >>, <<>>, <<MethodDecl("int", "main", <<>>, <<>>, ReturnZero)>>) >>,
    << ClassDecl("Pair", "none", << <<"l", "String">>, <<"r", "int">> >>, <<>>,
                 <<MethodDecl("void", "show", <<>>, << <<"r", "bool">> >>,
                    << Output1("string", v("l")), Output1("bool", v("r")) >>)>>),
       MainWith(<< <<"p", "Pair">> >>,
                << AssignStmt("p", NewExpr("Pair", <<StrLit(<<99>>), IntLit(1)>>)),
                   CallStmt(OnVar("p"), "show", <<>>) >> \o ReturnZero) >>,
    <<ClassA, ClassB, MainWith(<< <<"t", "int">> >>, << IfStmt(BoolLit(TRUE), ReturnZero, <<EmptyStmt>>) >>)>> >>

AllPrograms == BinopPrograms \o DivisionPrograms \o ExpressionPrograms
               \o StatementPrograms \o HierarchyPrograms
               \o DelegationPrograms \o OverridingPrograms

Written(programs) == [n \in DOMAIN programs |-> WriteProgram(programs[n], n % 2 = 0)]

AllTexts == Written(AllPrograms)

\* Texts with a token left out or two neighbours swapped.

Swapped(text, i) == [text EXCEPT ![i] = text[i + 1], ![i + 1] = text[i]]

Sample == WriteProgram(
    << ClassDecl("A", "B", << <<"x", "int">>, <<"s", "A">> >>,
         << CtorDecl(<<>>, SuperCall(<<>>), << <<"x", "A">> >>,
              << WhileStmt(v("q"), << AssignStmt("x", v("s")), BreakStmt >>) >>) >>,
         << MethodDecl("int", "get", << <<"p", "A">>, <<"q", "bool">> >>, << <<"t", "int">> >>,
              << IfStmt(CastExpr("A", v("p")), << ReturnStmt(Neg(v("q"))) >>,
                        << CallStmt(OnVar("p"), "set", <<IntLit(1), ThisExpr>>) >>),
                 ReturnStmt(CallExpr(OnExpr(CondExpr(IsExpr(v("p"), "A"), NewExpr("A", <<>>), NullLit)),
                                     "get", <<BinopExpr("Add", v("p"), v("q"))>>)) >>) >>) >>, FALSE)

AllBroken == [i \in 1..(Len(Sample) - 1) |-> RemoveAt(Sample, i)]
             \o [i \in 1..(Len(Sample) - 2) |-> Swapped(Sample, i)]
             \o << WriteProgram(<<ClassA, ClassB,
                      MainWith(<< <<"t", "int">>, <<"t", "String">> >>, ReturnZero)>>, FALSE) >>

\* String expressions, for a WebAssembly heap that may be full.
StringTexts == Written([n \in 1..3 |->
    Using("String", << BinopExpr("Add", StrLit(<<97>>), StrLit(<<98>>)), Neg(StrLit(<<97>>)),
                       BinopExpr("Mul", StrLit(<<97>>), IntLit(2)) >>[n])])
NoTexts == <<>>

-----------------------------------------------------------------------------
(* Programs that read.                                                     *)

Reading2(op, ty) == << AssignStmt(Target[ty], CallExpr(OnVar("in"), op, <<>>)) >> \o Shown[ty]
AtEof == <<AssignStmt("q", CallExpr(OnVar("in"), "eof", <<>>)), Output1("bool", v("q"))>>

AllReaders == <<
    Doing(Reading2("read_int", "int") \o AtEof \o Reading2("read_int", "int") \o AtEof),
    Doing(Reading2("read_bool", "bool") \o AtEof \o Reading2("read_int", "int")),
    Doing(Reading2("read_string", "String") \o AtEof \o Reading2("read_int", "int")),
    Doing(Reading2("read_int", "int") \o Reading2("read_string", "String")
          \o Reading2("read_string", "String") \o AtEof),
    Doing(<< WhileStmt(UnopExpr("Not", CallExpr(OnVar("in"), "eof", <<>>)),
               << AssignStmt("w", BinopExpr("Add",
                    CondExpr(BinopExpr("Eq", v("w"), StrLit(<<>>)),
                             CallExpr(OnVar("in"), "read_string", <<>>),
                             BinopExpr("Add", CallExpr(OnVar("in"), "read_string", <<>>), v("w"))),
                    StrLit(<<44>>))) >>) >> \o Shown["String"]) >>

ReaderTexts == Written(AllReaders)

\* Tokens by spaces and lines: sp = " ", nl = newline.
WellFormedInputs == {
    <<>>, <<32>>, <<10>>, <<49>>, <<49, 10>>, <<45, 50, 32, 51>>, <<43, 49, 10, 53>>,
    <<49, 53, 32, 49, 54>>, <<45, 49, 54, 10>>, <<120>>, <<45>>, <<45, 10, 49>>,
    TrueBytes, FalseBytes \o <<32, 49>>, <<10, 10>>, <<120, 32, 121, 10, 49>>,
    <<49, 32, 120, 10>>, TrueBytes \o <<120>> }

\* A number with something attached.
MalformedInputs == { <<49, 120>>, <<50, 45, 49>> }
=============================================================================
