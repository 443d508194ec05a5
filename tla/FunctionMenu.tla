----------------------------- MODULE FunctionMenu -----------------------------
(***************************************************************************)
(* Bounded sets of functions for model checking the passes: every way to   *)
(* fill the blocks of a control flow with instructions from a menu.        *)
(***************************************************************************)
EXTENDS Ir

InstructionOf(choice, line) ==
  [op |-> choice.op, reads |-> choice.reads, dst |-> choice.dst, slot |-> 0, line |-> line]

\* Blocks without a successor return register 1; the others branch on a constant.
FunctionOf(flow, pick, length, params) ==
  [blocks |-> [b \in DOMAIN flow |->
                 [code |-> [k \in 1 .. length |-> InstructionOf(pick[b][k], length * (b - 1) + k)],
                  reads |-> IF flow[b] = {} THEN {1} ELSE {},
                  next |-> flow[b]]],
   entry |-> 1, params |-> params]

\* The control flows have one number of blocks.
FunctionsOver(menu, flows, length, params) ==
  LET blocks == DOMAIN (CHOOSE flow \in flows : TRUE) IN
  {FunctionOf(flow, pick, length, params) :
     flow \in flows, pick \in [blocks -> [1 .. length -> menu]]}

\* Straight line, a loop in the first block, a loop over both, both.
TwoBlocks == {<<{2}, {}>>, <<{1, 2}, {}>>, <<{2}, {1}>>, <<{1, 2}, {1}>>}

\* A branch that joins, a while loop, a loop whose blocks are laid out backwards,
\* and two loops sharing a block.
ThreeBlocks ==
  {<<{2, 3}, {3}, {}>>, <<{2, 3}, {1}, {}>>, <<{3}, {}, {2, 3}>>, <<{3}, {1}, {2, 3}>>}
===============================================================================
