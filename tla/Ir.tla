---------------------------------- MODULE Ir ----------------------------------
(***************************************************************************)
(* The compiler's intermediate representation (compiler/src/ir/mod.rs), as *)
(* far as the passes after lowering look at it: a function is a sequence   *)
(* of blocks over mutable virtual registers, an instruction reads          *)
(* registers and writes at most one.  Constants, memory offsets and        *)
(* operators are abstracted away; an operand is the register it reads.     *)
(*                                                                         *)
(*   function     [blocks : Seq(block), entry, params : Seq(Reg)]          *)
(*   block        [code : Seq(instruction), reads : SUBSET Reg,            *)
(*                 next : SUBSET Nat], the last two from the terminator    *)
(*   instruction  [op, reads : SUBSET Reg, dst : Reg or NoReg, slot : Nat, *)
(*                 line : Nat]                                             *)
(***************************************************************************)
EXTENDS Naturals, Sequences, FiniteSets

CONSTANTS
  Reg,      \* virtual registers, numbered
  NoReg,
  RefRegs   \* registers of type Ref

ASSUME IrAssumption ==
  /\ Reg \subseteq Nat /\ IsFiniteSet(Reg)
  /\ NoReg \notin Reg
  /\ RefRegs \subseteq Reg

Ops == {"copy", "compute", "load", "store", "call", "root_store", "root_load"}

Instruction == [op : Ops, reads : SUBSET Reg, dst : Reg \cup {NoReg}, slot : Nat,
                line : Nat]

Block == [code : Seq(Instruction), reads : SUBSET Reg, next : SUBSET Nat]

\* What verify_structure_and_types accepts.
IsFunction(f) ==
  /\ f \in [blocks : Seq(Block), entry : Nat, params : Seq(Reg)]
  /\ f.entry \in DOMAIN f.blocks
  /\ \A b \in DOMAIN f.blocks : f.blocks[b].next \subseteq DOMAIN f.blocks
  /\ \A i, j \in DOMAIN f.params : f.params[i] = f.params[j] => i = j

\* The register an instruction writes, if any; its reads come before the write.
Defines(instr) == {instr.dst} \ {NoReg}

IsCall(instr) == instr.op = "call"

Params(f) == {f.params[i] : i \in DOMAIN f.params}

\* Points <<block, index>>; the last point of a block is its terminator.
LastIndex(f, b) == Len(f.blocks[b].code) + 1

Points(f) == UNION {{<<b, k>> : k \in 1 .. LastIndex(f, b)} : b \in DOMAIN f.blocks}

IsTerminator(f, p) == p[2] = LastIndex(f, p[1])

InstructionAt(f, p) == f.blocks[p[1]].code[p[2]]

ReadsAt(f, p) ==
  IF IsTerminator(f, p) THEN f.blocks[p[1]].reads ELSE InstructionAt(f, p).reads

DefinesAt(f, p) == IF IsTerminator(f, p) THEN {} ELSE Defines(InstructionAt(f, p))

NextPoints(f, p) ==
  IF IsTerminator(f, p) THEN {<<b, 1>> : b \in f.blocks[p[1]].next}
                        ELSE {<<p[1], p[2] + 1>>}

CallPoints(f) == {p \in Points(f) : ~IsTerminator(f, p) /\ IsCall(InstructionAt(f, p))}

HasCalls(f) == CallPoints(f) # {}

---------------------------------------------------------------------------
(***************************************************************************)
(* Reference definition of liveness, by paths and without blocks: r is     *)
(* live before p when some path from p reads r before any write of r.      *)
(***************************************************************************)
LiveWithin(f, r) ==
  LET points == Points(f)
      reading == {p \in points : r \in ReadsAt(f, p)}
      keeping == UNION {{p} \X NextPoints(f, p) : p \in {p \in points : r \notin DefinesAt(f, p)}}
      live[n \in 0 .. Cardinality(points)] ==
        IF n = 0 THEN reading
        ELSE LET nearer == live[n - 1] IN nearer \cup {e[1] : e \in {e \in keeping : e[2] \in nearer}}
  IN live[Cardinality(points)]

\* The registers live before and after every point.
LiveBefore(f) ==
  LET live == UNION {LiveWithin(f, r) \X {r} : r \in Reg}
  IN [p \in Points(f) |-> {r \in Reg : <<p, r>> \in live}]

LiveAfter(f) ==
  LET before == LiveBefore(f)
  IN [p \in Points(f) |-> UNION {before[q] : q \in NextPoints(f, p)}]

\* No path reads a register that neither a parameter nor a write has set.
DefinitelyAssigned(f) == LiveBefore(f)[<<f.entry, 1>>] \subseteq Params(f)
===========================================================================
