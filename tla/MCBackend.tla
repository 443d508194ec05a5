------------------------------- MODULE MCBackend ------------------------------
(***************************************************************************)
(* Functions over one reference, two integers, two physical registers.     *)
(***************************************************************************)
EXTENDS Backend, FunctionMenu

CONSTANTS c1, s1, Menu, Parameters, CodeLength, JoinLength

CallerFirst == <<c1, s1>>

PoolAndSpills == PoolRegs \cup SpillSlots

Unpreserved == PoolRegs \ CalleeSaved

\* One reference, 1, and two integers.  Allocation, calls for effect and for a value,
\* arithmetic each way, a copy, reads of both kinds.
Values ==
  {[op |-> "call", reads |-> {}, dst |-> 1], [op |-> "call", reads |-> {2}, dst |-> NoReg],
   [op |-> "call", reads |-> {3}, dst |-> 2],
   [op |-> "compute", reads |-> {3}, dst |-> 2], [op |-> "compute", reads |-> {1, 2}, dst |-> 3],
   [op |-> "copy", reads |-> {3}, dst |-> 2],
   [op |-> "store", reads |-> {1, 3}, dst |-> NoReg]}

IntAndReference == <<3, 1>>

\* Two references: allocation, a call for effect, a copy.
References ==
  {[op |-> "call", reads |-> {}, dst |-> 1], [op |-> "call", reads |-> {}, dst |-> NoReg],
   [op |-> "copy", reads |-> {2}, dst |-> 1]}

Reference == <<2>>

Lowered ==
  {f \in FunctionsOver(Menu, TwoBlocks, CodeLength, Parameters)
        \cup FunctionsOver(Menu, ThreeBlocks, JoinLength, Parameters) : DefinitelyAssigned(f)}

Symmetry == Permutations(Value)
===============================================================================
