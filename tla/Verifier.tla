------------------------------ MODULE Verifier ------------------------------
(***************************************************************************)
(* ir/verify.rs over lowered programs: structure and types of a function,  *)
(* and that no path reads a register before it is written.  Module         *)
(* DefiniteAssignment has the flow analysis round by round; here it is the *)
(* greatest solution of the same equations.                                *)
(***************************************************************************)
EXTENDS Lowering

OperandType(f, table, v) ==
    CASE v[1] = "v" -> f.types[v[2]]
      [] v[1] = "int" -> Int32
      [] v[1] = "bool" -> BoolTy
      [] v[1] \in {"null", "empty"} -> Ref
      [] v[1] = "fn" -> CodePtr(SignatureOf(table, v))
      [] v[1] \in {"desc", "bytes", "bindings"} -> Ptr

ArgumentsFit(f, table, args, params) ==
    /\ Len(args) = Len(params)
    /\ \A i \in DOMAIN args : OperandType(f, table, args[i]) = params[i]

IsAddress(ty) == ty \in {Ref, Ptr}

BinaryType(op, operand) ==
    CASE op = "Eq" -> BoolTy
      [] op \in {"Lt", "Gt"} /\ operand = Int32 -> BoolTy
      [] op \in {"Add", "Sub", "Mul", "Div", "Mod"} /\ operand = Int32 -> Int32
      [] OTHER -> NoTy

CallSignature(f, table, target) ==
    IF target[1] = "fn" THEN SignatureOf(table, target)
    ELSE OperandType(f, table, target)[2]

\* References go to memory through the barrier, but for static data and for
\* the frame of the prebound objects, and nothing goes to read-only data.
StoreAllowed(i) ==
    /\ i.base[1] \notin {"desc", "bytes"}
    /\ i.ty = Ref => IsStaticRef(i.val) \/ i.base = Bindings

VerifyInstruction(f, table, i) ==
    LET type(v) == OperandType(f, table, v) IN
    CASE i.op = "Copy" -> type(i.src) = f.types[i.dst]
      [] i.op = "Binary" ->
            /\ ~(i.f \in {"Div", "Mod"} /\ i.r \in {<<"int", 0>>, <<"int", -1>>})
            /\ type(i.l) = type(i.r)
            /\ f.types[i.dst] = BinaryType(i.f, type(i.l))
      [] i.op = "Unary" ->
            /\ type(i.src) = (IF i.f = "Neg" THEN Int32 ELSE BoolTy)
            /\ f.types[i.dst] = type(i.src)
      [] i.op = "Load" -> IsAddress(type(i.base))
      [] i.op = "Store" -> /\ IsAddress(type(i.base))
                           /\ type(i.val) = i.ty
                           /\ StoreAllowed(i)
      [] i.op = "Call" ->
            /\ i.target[1] # "fn" => type(i.target)[1] = "CodePtr"
            /\ LET sig == CallSignature(f, table, i.target) IN
               /\ ArgumentsFit(f, table, i.args, sig.params)
               /\ (IF i.dst = 0 THEN NoTy ELSE f.types[i.dst]) = sig.result

VerifyTerminator(f, table, end, result) ==
    CASE end[1] = "jump" -> end[2] \in DOMAIN f.blocks
      [] end[1] = "branch" -> /\ OperandType(f, table, end[2]) = BoolTy
                              /\ {end[3], end[4]} \subseteq DOMAIN f.blocks
      [] end[1] = "return" ->
            (IF end[2] = None THEN NoTy ELSE OperandType(f, table, end[2])) = result
      [] end[1] = "abort" ->
            LET sig == SignatureOf(table, end[2]) IN
            sig.result = NoTy /\ ArgumentsFit(f, table, end[3], sig.params)

VerifyStructure(f, table) ==
    LET sig == SignatureOf(table, f.symbol) IN
    /\ f.arity = Len(sig.params)
    /\ \A i \in 1..f.arity : f.types[i] = sig.params[i]
    /\ \A k \in DOMAIN f.blocks :
        /\ \A i \in DOMAIN f.blocks[k].code : VerifyInstruction(f, table, f.blocks[k].code[i])
        /\ VerifyTerminator(f, table, f.blocks[k].end, sig.result)

-----------------------------------------------------------------------------
(* Definite assignment.                                                    *)

Registers(operands) == {o[2] : o \in {o \in operands : o[1] = "v"}}

Reads(i) ==
    Registers(CASE i.op \in {"Copy", "Unary"} -> {i.src}
                [] i.op = "Binary" -> {i.l, i.r}
                [] i.op = "Load" -> {i.base}
                [] i.op = "Store" -> {i.base, i.val}
                [] i.op = "Call" -> {i.target} \cup ToSet(i.args))

Writes(i) == IF i.op = "Store" \/ i.dst = 0 THEN {} ELSE {i.dst}

EndReads(end) ==
    Registers(CASE end[1] = "jump" -> {}
                [] end[1] \in {"branch", "return"} -> {end[2]}
                [] end[1] = "abort" -> ToSet(end[3]))

Successors(end) ==
    CASE end[1] = "jump" -> {end[2]}
      [] end[1] = "branch" -> {end[3], end[4]}
      [] OTHER -> {}

WrittenBy(code) == UNION {Writes(code[i]) : i \in DOMAIN code}

\* What every path from the entry has assigned where a block starts, from
\* assigned everywhere down; a block no path reaches keeps every register.
RECURSIVE Narrow(_, _)
Narrow(f, at) ==
    LET from(k) == {j \in DOMAIN at : k \in Successors(f.blocks[j].end)}
        next == [k \in DOMAIN at |->
            {r \in at[k] : \A j \in from(k) : r \in at[j] \cup WrittenBy(f.blocks[j].code)}] IN
    IF next = at THEN at ELSE Narrow(f, next)

AssignedAtEntry(f) ==
    Narrow(f, [k \in DOMAIN f.blocks |-> IF k = 1 THEN 1..f.arity ELSE DOMAIN f.types])

VerifyReads(f) ==
    LET entry == AssignedAtEntry(f) IN
    \A k \in DOMAIN f.blocks :
        LET code == f.blocks[k].code
            before(i) == entry[k] \cup WrittenBy(SubSeq(code, 1, i - 1)) IN
        /\ \A i \in DOMAIN code : Reads(code[i]) \subseteq before(i)
        /\ EndReads(f.blocks[k].end) \subseteq before(Len(code) + 1)

VerifyFunction(f, table) == f.ok /\ VerifyStructure(f, table) /\ VerifyReads(f)

\* The function symbols a function calls: none is undeclared.
Callees(f) ==
    LET calls(code) == {i \in DOMAIN code : code[i].op = "Call" /\ code[i].target[1] = "fn"} IN
    UNION {{f.blocks[k].code[i].target : i \in calls(f.blocks[k].code)} : k \in DOMAIN f.blocks}

DataWidth(p) == [Zero |-> p, Addr |-> p, U32 |-> U32Size]

\* The descriptors of the classes are laid out without overlap.
VerifyData(p, table) ==
    \A n \in DOMAIN table :
        Placer(DescriptorStruct(p).size, DataWidth(p), DefineClass(p, table, n))

Verify(p, table, functions) ==
    LET symbols == [i \in DOMAIN functions |-> functions[i].symbol] IN
    /\ IsInjective(symbols)
    /\ \A i \in DOMAIN functions : VerifyFunction(functions[i], table)
    /\ \A i \in DOMAIN functions : Callees(functions[i]) \subseteq Declared(table)
    /\ Entry \in ToSet(symbols)
    /\ VerifyData(p, table)
=============================================================================
