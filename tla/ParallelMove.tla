----------------------------- MODULE ParallelMove -----------------------------
(***************************************************************************)
(* compiler/src/codegen/moves.rs: registers are to be assigned all at once *)
(* (dst <- src, for each move of a list), one instruction after another.   *)
(* Emitting an instruction and its effect when it runs are one step.       *)
(***************************************************************************)
EXTENDS Naturals, Sequences

CONSTANTS
  XReg, Scratch,   \* machine registers, r10
  Half, Zero,      \* contents of one half of a register
  MoveLists,       \* what parallel_move may be called with
  Starts           \* contents of the registers when the instructions run

Word == [low : Half, high : Half]

Move == [dst : XReg, src : XReg, width : {32, 64}]

ASSUME MoveAssumption ==
  /\ Scratch \in XReg /\ Zero \in Half
  /\ Starts \subseteq [XReg -> Word]
  /\ MoveLists \subseteq Seq(Move)

VARIABLES
  moves,
  left,     \* indices of the moves still pending
  parked,   \* those among them that now read Scratch
  phase,    \* "checking", "sequencing", "refused", "done"
  regs,
  start     \* the registers before the first instruction

moveVars == <<moves, left, parked, phase, regs, start>>

SourceOf(i) == IF i \in parked THEN Scratch ELSE moves[i].src

\* Moves of a register to itself are dropped.
Pending(list) == {i \in DOMAIN list : list[i].dst # list[i].src}

MoveInit ==
  /\ moves \in MoveLists
  /\ left = Pending(moves)
  /\ parked = {}
  /\ phase = "checking"
  /\ regs \in Starts
  /\ start = regs

Acceptable ==
  \A i \in left :
    /\ Scratch \notin {moves[i].dst, moves[i].src}
    /\ \A j \in left : j < i => moves[j].dst # moves[i].dst

Accept ==
  /\ phase = "checking" /\ Acceptable
  /\ phase' = "sequencing"
  /\ UNCHANGED <<moves, left, parked, regs, start>>

Refuse ==
  /\ phase = "checking" /\ ~Acceptable
  /\ phase' = "refused"
  /\ UNCHANGED <<moves, left, parked, regs, start>>

\* mov dst, src: a 32-bit move clears the upper half of its destination.
Moved(dst, src, width) ==
  [regs EXCEPT ![dst] = [low |-> regs[src].low,
                         high |-> IF width = 64 THEN regs[src].high ELSE Zero]]

First(i, S) == i \in S /\ \A j \in S : i <= j

\* No other pending move needs to read the destination.
Ready == {i \in left : \A j \in left : SourceOf(j) # moves[i].dst}

\* A plausible slip: the first pending move, ready or not.
EmitReadyInOrder ==
  /\ phase = "sequencing"
  /\ \E i \in left :
       /\ First(i, left)
       /\ regs' = Moved(moves[i].dst, SourceOf(i), moves[i].width)
       /\ left' = left \ {i}
  /\ UNCHANGED <<moves, parked, phase, start>>

EmitReady ==
  /\ phase = "sequencing"
  /\ \E i \in Ready :
       /\ First(i, Ready)
       /\ regs' = Moved(moves[i].dst, SourceOf(i), moves[i].width)
       /\ left' = left \ {i}
  /\ UNCHANGED <<moves, parked, phase, start>>

ReadersOf(r) == {j \in left : SourceOf(j) = r}

\* The register's value waits in Scratch, and its readers take it from there.
Park(victim) ==
  \E k \in left :
    /\ First(k, ReadersOf(victim))
    /\ regs' = Moved(Scratch, victim, moves[k].width)
    /\ parked' = parked \cup ReadersOf(victim)

\* Plausible slips: parking as soon as the first move is not ready; leaving the
\* readers of the parked register as they were.
BreakCycleEarly ==
  /\ phase = "sequencing"
  /\ \E i \in left \ Ready : First(i, left) /\ Park(moves[i].dst)
  /\ UNCHANGED <<moves, left, phase, start>>

BreakCycleKeepingReaders ==
  /\ phase = "sequencing" /\ Ready = {}
  /\ \E i, k \in left :
       /\ First(i, left) /\ First(k, ReadersOf(moves[i].dst))
       /\ regs' = Moved(Scratch, moves[i].dst, moves[k].width)
  /\ UNCHANGED <<moves, left, parked, phase, start>>

\* Every pending destination is still to be read.
BreakCycle ==
  /\ phase = "sequencing" /\ Ready = {}
  /\ \E i \in left : First(i, left) /\ Park(moves[i].dst)
  /\ UNCHANGED <<moves, left, phase, start>>

Sequenced ==
  /\ phase = "sequencing" /\ left = {}
  /\ phase' = "done"
  /\ UNCHANGED <<moves, left, parked, regs, start>>

Stopped == phase \in {"refused", "done"} /\ UNCHANGED moveVars

MoveStep == Accept \/ Refuse \/ EmitReady \/ BreakCycle \/ Sequenced

MoveSpec == MoveInit /\ [][MoveStep \/ Stopped]_moveVars

\* parallel_move is a loop on one thread.
FairMoveSpec == MoveSpec /\ WF_moveVars(MoveStep)

---------------------------------------------------------------------------
(***************************************************************************)
(* Properties                                                              *)
(***************************************************************************)
\* What its callers pass: registers of the allocator or for arguments, one move to
\* each, and one width for every move from a register, that of the value in it.
IsAssignment(list) ==
  /\ \A i \in DOMAIN list : Scratch \notin {list[i].dst, list[i].src}
  /\ \A i, j \in DOMAIN list :
       /\ list[i].dst = list[j].dst => i = j
       /\ list[i].src = list[j].src => list[i].width = list[j].width

\* A word holds a value of the width; the upper half of a narrow one is anything.
Agrees(word, value, width) ==
  word.low = value.low /\ (width = 64 => word.high = value.high)

\* The instructions in sequence do what the moves at once would: each destination
\* has what its source held before the first, round cycles and through chains that
\* hang off them, and no register but Scratch is disturbed.
Delivered ==
  (phase = "done" /\ IsAssignment(moves)) =>
    /\ \A i \in DOMAIN moves : Agrees(regs[moves[i].dst], start[moves[i].src], moves[i].width)
    /\ \A r \in XReg \ {Scratch} : (\A i \in DOMAIN moves : moves[i].dst # r) => regs[r] = start[r]

\* Several cycles are broken through one Scratch, each only when the last has been
\* unwound: Scratch is not overwritten while a move has yet to read it.
ScratchKept ==
  [][(IsAssignment(moves) /\ regs'[Scratch] # regs[Scratch])
       => \A i \in left : SourceOf(i) # Scratch]_moveVars

\* Breaking a cycle makes progress.
SequencingEnds == <>(phase \in {"refused", "done"})
===============================================================================
