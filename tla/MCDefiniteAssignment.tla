------------------------- MODULE MCDefiniteAssignment -------------------------
(***************************************************************************)
(* Functions of three or four blocks; register 1 may be a parameter.       *)
(***************************************************************************)
EXTENDS DefiniteAssignment, FunctionMenu

\* Writes of either register, one from the other, itself, and a read.
Menu ==
  {[op |-> "copy", reads |-> {}, dst |-> 1], [op |-> "copy", reads |-> {}, dst |-> 2],
   [op |-> "copy", reads |-> {1}, dst |-> 2], [op |-> "compute", reads |-> {2}, dst |-> 2],
   [op |-> "store", reads |-> {2}, dst |-> NoReg]}

\* Joins, loops, a loop entered in two places, and a block that cannot be reached
\* but leads into one that can.
FourBlocks ==
  {<<{2, 3}, {4}, {4}, {}>>, <<{2, 3}, {3}, {2, 4}, {}>>, <<{3}, {3}, {1, 4}, {}>>}

FunctionsUsed ==
  UNION {FunctionsOver(Menu, flows, 1, params) :
           flows \in {ThreeBlocks, FourBlocks}, params \in {<<>>, <<1>>}}
===============================================================================
