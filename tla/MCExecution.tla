----------------------------- MODULE MCExecution ------------------------------
(***************************************************************************)
(* Every definitely assigned function with one of the given control flows  *)
(* and instructions from a menu, rooted by gc_roots and run with a place   *)
(* of its own for every virtual register.                                  *)
(***************************************************************************)
EXTENDS Execution, GcRoots, FunctionMenu

CONSTANTS CodeLength, JoinLength

\* Allocation, calls that read and for effect, a load, copies both ways, a read of both.
Menu ==
  {[op |-> "call", reads |-> {}, dst |-> 1], [op |-> "call", reads |-> {2}, dst |-> 2],
   [op |-> "call", reads |-> {}, dst |-> NoReg],
   [op |-> "load", reads |-> {1}, dst |-> 2],
   [op |-> "copy", reads |-> {2}, dst |-> 1], [op |-> "copy", reads |-> {1}, dst |-> 2],
   [op |-> "store", reads |-> {1, 2}, dst |-> NoReg]}

Compilable(fs) == {f \in fs : HasCalls(f) /\ DefinitelyAssigned(f)}

Lowered ==
  Compilable(FunctionsOver(Menu, TwoBlocks, CodeLength, <<2>>))
    \cup Compilable(FunctionsOver(Menu, ThreeBlocks, JoinLength, <<2>>))

VirtualPrograms == {Annotated(Rooted(f), SpillEverything) : f \in Lowered}

Symmetry == Permutations(Value)
===============================================================================
