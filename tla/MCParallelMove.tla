---------------------------- MODULE MCParallelMove ----------------------------
(***************************************************************************)
(* Registers are numbers, Scratch is 0.  The destinations of a list are    *)
(* 1 .. n in this order, which loses nothing up to the registers' names;   *)
(* the sources are any.                                                    *)
(***************************************************************************)
EXTENDS ParallelMove

CONSTANT Length

Registers == 0 .. Length + 1

Distinct == [r \in Registers |-> [low |-> r + 1, high |-> r + 1]]

HalfUsed == 0 .. Length + 2

Assignments ==
  {[i \in 1 .. n |-> [dst |-> i, src |-> from[i], width |-> IF from[i] \in narrow THEN 32 ELSE 64]] :
     n \in {Length - 1, Length}, from \in [1 .. Length -> 1 .. Length + 1],
     narrow \in SUBSET {1, 2, Length + 1}}

\* Lists that are refused: a register written twice, Scratch used.
Misuses ==
  {<<[dst |-> a, src |-> 1, width |-> 64], [dst |-> b, src |-> 2, width |-> 64]>> :
     a, b \in {0, 2, 3}}

ListsUsed == Assignments \cup Misuses

StartsUsed == {Distinct}
===============================================================================
