------------------------------ MODULE MCLiveness ------------------------------
(***************************************************************************)
(* Every function of two blocks with two instructions each, and of three   *)
(* blocks with one, taken from a menu.                                     *)
(***************************************************************************)
EXTENDS Liveness, FunctionMenu

\* Both directions of copying, a constant, a result, a call for effect, reads.
Menu ==
  {[op |-> "copy", reads |-> {1}, dst |-> 2], [op |-> "copy", reads |-> {2}, dst |-> 1],
   [op |-> "copy", reads |-> {}, dst |-> 2],
   [op |-> "call", reads |-> {}, dst |-> 1], [op |-> "call", reads |-> {2}, dst |-> NoReg],
   [op |-> "store", reads |-> {1}, dst |-> NoReg]}

FunctionsUsed ==
  FunctionsOver(Menu, TwoBlocks, 2, <<>>) \cup FunctionsOver(Menu, ThreeBlocks, 1, <<>>)
===============================================================================
