------------------------------ MODULE Classes ------------------------------
(***************************************************************************)
(* The class table of the type checker (type_checker/class_table.rs,       *)
(* declarations.rs, inheritance.rs, entry_point.rs), the classes every     *)
(* program is given (add_io_classes.rs) and what the layouts of classes    *)
(* are computed from the table (layout.rs, ir/statics.rs).                 *)
(*                                                                         *)
(* A program is a sequence of class declarations.  A type is "int",        *)
(* "bool", "String", "void" or the name of a class (of an expression also  *)
(* "null", and "error" when it is ill typed); a field, a formal or a local *)
(* is a pair <<name, type>>.  Errors are abstracted to rejection.          *)
(***************************************************************************)
EXTENDS Integers, Sequences, SequencesExt, FiniteSets

Primitives == {"int", "bool", "String", "void"}
IsClassType(ty) == ty \notin Primitives \cup {"null", "error"}

Names(pairs) == [i \in DOMAIN pairs |-> pairs[i][1]]
Types(pairs) == [i \in DOMAIN pairs |-> pairs[i][2]]
Distinct(s) == IsInjective(s)

-----------------------------------------------------------------------------
(* The classes Input and Output, prepended to every program.               *)

IoMethod(ret, name, formals) ==
    [name |-> name, ret |-> ret, formals |-> formals, io |-> TRUE,
     locals |-> <<>>, body |-> <<>>]

IoClass(name, methods) ==
    [name |-> name, ext |-> "none", fields |-> <<>>, ctors |-> <<>>,
     methods |-> methods]

IoClasses ==
    << IoClass("Input", << IoMethod("int", "read_int", <<>>),
                           IoMethod("bool", "read_bool", <<>>),
                           IoMethod("String", "read_string", <<>>),
                           IoMethod("bool", "eof", <<>>) >>),
       IoClass("Output", << IoMethod("void", "print_int", << <<"n", "int">> >>),
                            IoMethod("void", "print_bool", << <<"b", "bool">> >>),
                            IoMethod("void", "print_string", << <<"s", "String">> >>),
                            IoMethod("void", "println", <<>>) >>) >>

IoClassNames == {"Input", "Output"}

AddIoClasses(program) == IoClasses \o program

-----------------------------------------------------------------------------
(* Pass 1: declarations.                                                   *)

RejectsReservedNames(program) ==
    \E i \in DOMAIN program : program[i].name \in IoClassNames

Prebound == <<"in", "out", "err">>
ReservedVarNames == ToSet(Prebound)

WellFormedFormals(formals) ==
    /\ Distinct(Names(formals))
    /\ \A i \in DOMAIN formals : formals[i][2] # "void"
                              /\ formals[i][1] \notin ReservedVarNames

WellFormedClass(class) ==
    /\ Distinct(Names(class.fields))
    /\ \A i \in DOMAIN class.fields : /\ class.fields[i][2] # "void"
                                      /\ class.fields[i][1] \notin ReservedVarNames
    /\ Distinct([i \in DOMAIN class.methods |-> class.methods[i].name])
    /\ \A i \in DOMAIN class.methods : WellFormedFormals(class.methods[i].formals)
    /\ Distinct([i \in DOMAIN class.ctors |-> Len(class.ctors[i].formals)])
    /\ \A i \in DOMAIN class.ctors : WellFormedFormals(class.ctors[i].formals)

WellFormedDeclarations(program) ==
    /\ Distinct([i \in DOMAIN program |-> program[i].name])
    /\ \A i \in DOMAIN program : WellFormedClass(program[i])

\* A method's signature is its declaration without the body.
MethodSig(method) == [name |-> method.name, params |-> Types(method.formals),
                      ret |-> method.ret, io |-> method.io]

\* -1 stands for a constructor that does not delegate to its own class.
ThisTarget(ctor) == IF ctor.del[1] = "this" THEN Len(ctor.del[2]) ELSE -1

\* The constructors of a class: a root class that declares none is given one
\* that takes its own fields.
ConstructorSigs(class) ==
    IF class.ctors = <<>> /\ class.ext = "none"
    THEN << [params |-> Types(class.fields), thisTarget |-> -1] >>
    ELSE [i \in DOMAIN class.ctors |->
            [params |-> Types(class.ctors[i].formals),
             thisTarget |-> ThisTarget(class.ctors[i])]]

GatherDeclarations(program) ==
    LET at(n) == CHOOSE i \in DOMAIN program : program[i].name = n IN
    [n \in {program[i].name : i \in DOMAIN program} |->
        LET class == program[at(n)] IN
        [position |-> at(n),
         preamble |-> n \in IoClassNames,
         parent |-> class.ext,
         fields |-> class.fields,
         methods |-> [i \in DOMAIN class.methods |-> MethodSig(class.methods[i])],
         ctors |-> ConstructorSigs(class)]]

FindConstructor(info, arity) ==
    SelectSeq(info.ctors, LAMBDA c : Len(c.params) = arity)

-----------------------------------------------------------------------------
(* find_cycle: a depth-first walk with a set of visited nodes and the path *)
(* it is on.  Both callers give a node at most one successor: next maps it *)
(* to a set of at most one node.                                           *)

\* A plausible slip: a node already seen is never looked at again.
RECURSIVE VisitSeenFirst(_, _, _, _)
VisitSeenFirst(node, next, visited, onPath) ==
    CASE node \in visited -> [cycle |-> FALSE, visited |-> visited]
      [] node \notin visited /\ node \in onPath -> [cycle |-> TRUE, visited |-> visited]
      [] OTHER ->
            LET seen == visited \cup {node}
                after == IF node \in DOMAIN next THEN next[node] ELSE {} IN
            IF after = {} THEN [cycle |-> FALSE, visited |-> seen]
            ELSE VisitSeenFirst(CHOOSE n \in after : TRUE, next, seen, onPath \cup {node})

RECURSIVE VisitForCycle(_, _, _, _)
VisitForCycle(node, next, visited, onPath) ==
    CASE node \in onPath -> [cycle |-> TRUE, visited |-> visited]
      [] node \notin onPath /\ node \in visited ->
            [cycle |-> FALSE, visited |-> visited]
      [] OTHER ->
            LET seen == visited \cup {node}
                after == IF node \in DOMAIN next THEN next[node] ELSE {} IN
            IF after = {} THEN [cycle |-> FALSE, visited |-> seen]
            ELSE VisitForCycle(CHOOSE n \in after : TRUE, next, seen,
                               onPath \cup {node})

RECURSIVE FindCycleFrom(_, _, _)
FindCycleFrom(nodes, next, visited) ==
    IF nodes = <<>> THEN FALSE
    ELSE LET found == VisitForCycle(Head(nodes), next, visited, {}) IN
         found.cycle \/ FindCycleFrom(Tail(nodes), next, found.visited)

FindCycle(nodes, next) == FindCycleFrom(nodes, next, {})

ParentEdges(table) ==
    [n \in DOMAIN table |-> {table[n].parent} \ {"none"}]

DelegationEdges(info) ==
    [a \in {Len(info.ctors[i].params) : i \in DOMAIN info.ctors} |->
        {FindConstructor(info, a)[1].thisTarget} \ {-1}]

-----------------------------------------------------------------------------
(* Pass 2: inheritance.                                                    *)

KnownType(table, ty) == IsClassType(ty) => ty \in DOMAIN table

WellFormedInheritance(table, n) ==
    LET info == table[n] IN
    /\ info.parent # "none" =>
        /\ info.parent \in DOMAIN table \ {"Main"}
        /\ ~table[info.parent].preamble
        /\ info.ctors # <<>>
    /\ \A i \in DOMAIN info.fields : KnownType(table, info.fields[i][2])
    /\ \A i \in DOMAIN info.methods :
        /\ KnownType(table, info.methods[i].ret)
        /\ \A j \in DOMAIN info.methods[i].params :
              KnownType(table, info.methods[i].params[j])
    /\ \A i \in DOMAIN info.ctors : \A j \in DOMAIN info.ctors[i].params :
          KnownType(table, info.ctors[i].params[j])

\* The class and its ancestors, nearest first.  A chain longer than the table
\* is a cycle, which resolve_inheritance has rejected by then.
RECURSIVE ChainFrom(_, _, _)
ChainFrom(table, n, left) ==
    IF n = "none" \/ left = 0 THEN <<>>
    ELSE <<n>> \o ChainFrom(table, table[n].parent, left - 1)

Chain(table, n) == ChainFrom(table, n, Cardinality(DOMAIN table))
Ancestors(table, n) == Tail(Chain(table, n))
IsSubtype(table, a, b) == b \in ToSet(Chain(table, a))

\* The fields of an object, inherited ones first: <<name, type, owner>>.
EffectiveFields(table, n) ==
    FoldRight(LAMBDA c, acc : acc \o [i \in DOMAIN table[c].fields |->
                 <<table[c].fields[i][1], table[c].fields[i][2], c>>],
              Chain(table, n), <<>>)

\* The names of the methods in slot order: an inherited or overridden method
\* keeps its slot, a new one is appended.
VTable(table, n) ==
    FoldRight(LAMBDA c, acc : acc \o SelectSeq(
                 [i \in DOMAIN table[c].methods |-> table[c].methods[i].name],
                 LAMBDA m : m \notin ToSet(acc)),
              Chain(table, n), <<>>)

OwnMethod(table, c, name) ==
    SelectSeq(table[c].methods, LAMBDA m : m.name = name)

\* The nearest declaration of each method: [owner, sig].
EffectiveMethods(table, n) ==
    LET chain == Chain(table, n) IN
    [name \in ToSet(VTable(table, n)) |->
        LET at == CHOOSE i \in DOMAIN chain :
                    /\ OwnMethod(table, chain[i], name) # <<>>
                    /\ \A j \in 1..(i - 1) : OwnMethod(table, chain[j], name) = <<>>
        IN [owner |-> chain[at], sig |-> OwnMethod(table, chain[at], name)[1]]]

\* compute_effective refuses a field declared again below and an override
\* whose signature differs from the nearest inherited one.
EffectiveOk(table, n) ==
    LET parent == table[n].parent IN
    parent # "none" =>
        LET inherited == EffectiveMethods(table, parent) IN
        /\ ToSet(Names(table[n].fields))
             \cap ToSet(Names(EffectiveFields(table, parent))) = {}
        /\ \A i \in DOMAIN table[n].methods :
             LET m == table[n].methods[i] IN
             m.name \in DOMAIN inherited =>
                 /\ inherited[m.name].sig.params = m.params
                 /\ inherited[m.name].sig.ret = m.ret

ResolvesInheritance(table, order) ==
    /\ \A n \in DOMAIN table : WellFormedInheritance(table, n)
    /\ ~FindCycle(order, ParentEdges(table))
    /\ \A n \in DOMAIN table : EffectiveOk(table, n)

\* The table with what later passes read of each class worked out.
WithEffective(table) ==
    [n \in DOMAIN table |->
        [position |-> table[n].position, preamble |-> table[n].preamble,
         parent |-> table[n].parent, fields |-> table[n].fields,
         methods |-> table[n].methods, ctors |-> table[n].ctors,
         chain |-> Chain(table, n),
         effFields |-> EffectiveFields(table, n),
         effMethods |-> EffectiveMethods(table, n),
         vtable |-> VTable(table, n)]]

-----------------------------------------------------------------------------
(* Pass 3: the entry point.                                                *)

HasEntryPoint(table) ==
    /\ "Main" \in DOMAIN table
    /\ table["Main"].parent = "none"
    /\ LET main == OwnMethod(table, "Main", "main") IN
       main # <<>> /\ main[1].ret = "int" /\ main[1].params = <<>>
    /\ FindConstructor(table["Main"], 0) # <<>>

-----------------------------------------------------------------------------
(* layout.rs: sizes and offsets, for a target whose pointers take p bytes. *)

U32Size == 4
AlignUp(offset, align) == ((offset + align - 1) \div align) * align

\* Offsets of the fields of a C struct and, last, the end of the last one.
COffsets(sizes) ==
    FoldLeft(LAMBDA acc, size :
               LET at == AlignUp(acc.end, size) IN
               [offsets |-> Append(acc.offsets, at), end |-> at + size],
             [offsets |-> <<>>, end |-> 0], sizes)

CStruct(sizes) ==
    [offsets |-> COffsets(sizes).offsets,
     size |-> AlignUp(COffsets(sizes).end,
                      CHOOSE m \in ToSet(sizes) : \A s \in ToSet(sizes) : s <= m)]

ObjectHeaderSize(p) == CStruct(<<p, U32Size, U32Size>>).size
FieldOffset(p, index) == ObjectHeaderSize(p) + p * index
VTableEntry(p, slot) == p * slot

DescriptorNames == <<"name", "name_len", "parent", "instance_size",
                     "pointer_offsets", "pointer_count", "vtable_size", "vtable">>

DescriptorStruct(p) ==
    CStruct(<<p, U32Size, p, U32Size, p, U32Size, U32Size, p>>)

DescriptorOffset(p, field) ==
    DescriptorStruct(p).offsets[
        CHOOSE i \in DOMAIN DescriptorNames : DescriptorNames[i] = field]

FrameStruct(p) == CStruct(<<p, U32Size, p>>)
FrameRoot(p, slot) == FrameStruct(p).offsets[3] + slot * p

\* A plausible slip: a String is not an object of a class.
MapsObjectsOnly(ty) == IsClassType(ty)

IsPointerType(ty) == ty = "String" \/ IsClassType(ty)

ClassLayout(p, table, n) ==
    LET eff == table[n].effFields
        fields == [i \in DOMAIN eff |->
                     [name |-> eff[i][1], owner |-> eff[i][3], ty |-> eff[i][2],
                      offset |-> FieldOffset(p, i - 1)]]
        where(Keep(_)) == LET kept == SelectSeq(fields, LAMBDA f : Keep(f.ty)) IN
                          [i \in DOMAIN kept |-> kept[i].offset]
        hidden == IF n = "Output" THEN 1 ELSE 0 IN
    [fields |-> fields,
     pointerOffsets |-> where(IsPointerType),
     stringOffsets |-> where(LAMBDA ty : ty = "String"),
     destination |-> IF hidden = 1 THEN FieldOffset(p, Len(fields)) ELSE -1,
     instanceSize |-> FieldOffset(p, Len(fields) + hidden)]

\* The field of a layout that a name denotes.
LayoutField(layout, name) ==
    layout.fields[CHOOSE i \in DOMAIN layout.fields : layout.fields[i].name = name]

-----------------------------------------------------------------------------
(* ir/statics.rs: the descriptor of a class as data placed at offsets.     *)

Placer(size, width, placed) ==
    LET sorted == SortSeq(placed, LAMBDA a, b : a[1] < b[1]) IN
    /\ \A i \in 1..(Len(sorted) - 1) :
          sorted[i][1] + width[sorted[i][2][1]] <= sorted[i + 1][1]
    /\ \A i \in DOMAIN sorted : sorted[i][1] + width[sorted[i][2][1]] <= size

DefineClass(p, table, n) ==
    LET layout == ClassLayout(p, table, n)
        info == table[n]
        null == <<"Zero">>
        vtable == [i \in DOMAIN info.vtable |->
                     <<"method", info.effMethods[info.vtable[i]].owner, info.vtable[i]>>]
    IN << <<DescriptorOffset(p, "name"), <<"Addr", n>> >>,
          <<DescriptorOffset(p, "name_len"), <<"U32", n>> >>,
          <<DescriptorOffset(p, "parent"),
            IF info.parent = "none" THEN null ELSE <<"Addr", info.parent>> >>,
          <<DescriptorOffset(p, "instance_size"), <<"U32", layout.instanceSize>> >>,
          <<DescriptorOffset(p, "pointer_offsets"),
            IF layout.pointerOffsets = <<>> THEN null ELSE <<"Addr", layout.pointerOffsets>> >>,
          <<DescriptorOffset(p, "pointer_count"), <<"U32", Len(layout.pointerOffsets)>> >>,
          <<DescriptorOffset(p, "vtable_size"), <<"U32", Len(vtable)>> >>,
          <<DescriptorOffset(p, "vtable"),
            IF vtable = <<>> THEN null ELSE <<"Addr", vtable>> >> >>

\* What the running program finds at an offset of a class's descriptor.
DescriptorAt(p, table, n, offset) ==
    LET items == DefineClass(p, table, n) IN
    items[CHOOSE i \in DOMAIN items : items[i][1] = offset][2]
=============================================================================
