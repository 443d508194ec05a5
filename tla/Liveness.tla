------------------------------- MODULE Liveness -------------------------------
(***************************************************************************)
(* compiler/src/ir/liveness.rs: the backward dataflow that finds the       *)
(* registers live at both ends of every block, and remove_dead_copies,     *)
(* which runs it again and again while copies keep dying.                  *)
(***************************************************************************)
EXTENDS LivenessWalks

CONSTANT Functions   \* the functions to analyse

ASSUME FunctionsAssumption == \A f \in Functions : IsFunction(f)

VARIABLES
  source,    \* the function as lowered
  fn,        \* the function as it is now
  liveIn, liveOut,
  block,     \* the block to visit next in this round; 0 at the end of the round
  changed,
  pc         \* "scan", "stable" once a round changed nothing, "clean" at the end

vars == <<source, fn, liveIn, liveOut, block, changed, pc>>

\* A plausible slip: counting reads of what the block itself has written.
UseSetAnywhere(b) == b.reads \cup UNION {b.code[k].reads : k \in DOMAIN b.code}

\* Registers read before their first definition in a block.
UseSet(b) ==
  {r \in Reg :
     \/ \E k \in DOMAIN b.code :
          r \in b.code[k].reads /\ \A j \in 1 .. k - 1 : r \notin Defines(b.code[j])
     \/ r \in b.reads /\ \A j \in DOMAIN b.code : r \notin Defines(b.code[j])}

DefSet(b) == UNION {Defines(b.code[k]) : k \in DOMAIN b.code}

Restarted(f) ==
  /\ liveIn' = [b \in DOMAIN f.blocks |-> {}]
  /\ liveOut' = [b \in DOMAIN f.blocks |-> {}]
  /\ block' = Len(source.blocks)
  /\ changed' = FALSE
  /\ pc' = "scan"

Init ==
  /\ source \in Functions
  /\ fn = source
  /\ liveIn = [b \in DOMAIN fn.blocks |-> {}]
  /\ liveOut = [b \in DOMAIN fn.blocks |-> {}]
  /\ block = Len(fn.blocks)
  /\ changed = FALSE
  /\ pc = "scan"

LiveInto(b, out) == UseSet(fn.blocks[b]) \cup (out \ DefSet(fn.blocks[b]))

\* One iteration of the inner loop, last block first.
VisitBlock ==
  /\ pc = "scan" /\ block > 0
  /\ LET newOut == UNION {liveIn[s] : s \in fn.blocks[block].next}
         newIn == LiveInto(block, newOut) IN
       /\ liveOut' = [liveOut EXCEPT ![block] = newOut]
       /\ liveIn' = [liveIn EXCEPT ![block] = newIn]
       /\ changed' = (changed \/ newIn # liveIn[block] \/ newOut # liveOut[block])
  /\ block' = block - 1
  /\ UNCHANGED <<source, fn, pc>>

\* Plausible slips: one round only; never resetting `changed`.
EndRoundAtOnce ==
  /\ pc = "scan" /\ block = 0
  /\ pc' = "stable"
  /\ UNCHANGED <<source, fn, liveIn, liveOut, block, changed>>

EndRoundStillChanged ==
  /\ pc = "scan" /\ block = 0
  /\ IF changed
       THEN block' = Len(source.blocks) /\ UNCHANGED <<pc, changed>>
       ELSE pc' = "stable" /\ UNCHANGED <<block, changed>>
  /\ UNCHANGED <<source, fn, liveIn, liveOut>>

EndRound ==
  /\ pc = "scan" /\ block = 0
  /\ IF changed
       THEN block' = Len(source.blocks) /\ changed' = FALSE /\ UNCHANGED pc
       ELSE pc' = "stable" /\ UNCHANGED <<block, changed>>
  /\ UNCHANGED <<source, fn, liveIn, liveOut>>

---------------------------------------------------------------------------
\* A plausible slip: a single sweep.
RemoveDeadCopiesOnce ==
  /\ pc = "stable"
  /\ fn' = Swept(fn, liveOut)
  /\ pc' = "clean"
  /\ UNCHANGED <<source, liveIn, liveOut, block, changed>>

RemoveDeadCopies ==
  /\ pc = "stable"
  /\ fn' = Swept(fn, liveOut)
  /\ IF fn' = fn
       THEN pc' = "clean" /\ UNCHANGED <<liveIn, liveOut, block, changed>>
       ELSE Restarted(fn')
  /\ UNCHANGED source

Finished == pc = "clean" /\ UNCHANGED vars

Next == VisitBlock \/ EndRound \/ RemoveDeadCopies \/ Finished

Spec == Init /\ [][Next]_vars

\* The pass is a loop on one thread.
FairSpec == Spec /\ WF_vars(VisitBlock \/ EndRound \/ RemoveDeadCopies)

---------------------------------------------------------------------------
(***************************************************************************)
(* Properties                                                              *)
(***************************************************************************)
\* Types; the block index stays within the function, across restarts on a
\* shortened function too.
TypeOK ==
  /\ IsFunction(source) /\ IsFunction(fn)
  /\ liveIn \in [DOMAIN fn.blocks -> SUBSET Reg]
  /\ liveOut \in [DOMAIN fn.blocks -> SUBSET Reg]
  /\ block \in 0 .. Len(source.blocks)
  /\ changed \in BOOLEAN
  /\ pc \in {"scan", "stable", "clean"}

Solves(b) ==
  /\ liveOut[b] = UNION {liveIn[s] : s \in fn.blocks[b].next}
  /\ liveIn[b] = LiveInto(b, liveOut[b])

\* A round that changes nothing leaves a solution of the dataflow equations,
\* although each block was computed from successors that may have been updated
\* after it.
StableIsSolution == pc # "scan" => \A b \in DOMAIN fn.blocks : Solves(b)

\* The iteration stops at the least solution: a register is reported live at a
\* block's ends, or across a call, exactly when some path reads it before
\* writing it.  Reporting less loses a value, reporting more roots garbage and
\* spills registers.
LivenessExact ==
  pc # "scan" =>
    LET before == LiveBefore(fn)
        after == LiveAfter(fn) IN
    /\ \A b \in DOMAIN fn.blocks :
         liveIn[b] = before[<<b, 1>>] /\ liveOut[b] = after[<<b, LastIndex(fn, b)>>]
    /\ \A p \in CallPoints(fn) :
         LiveAcrossCalls(fn, liveOut)[p] = after[p] \ DefinesAt(fn, p)

\* The points control can come to with r as the write on `line` left it; 0 is the
\* entry.
ReachedFrom(f, r, line) ==
  LET points == Points(f)
      writing == {p \in points : r \in DefinesAt(f, p) /\ InstructionAt(f, p).line = line}
      start == (UNION {NextPoints(f, p) : p \in writing})
                 \cup (IF line = 0 THEN {<<f.entry, 1>>} ELSE {})
      keeping == UNION {{p} \X NextPoints(f, p) : p \in {p \in points : r \notin DefinesAt(f, p)}}
      reached[n \in 0 .. Cardinality(points)] ==
        IF n = 0 THEN start
        ELSE LET sooner == reached[n - 1] IN sooner \cup {e[2] : e \in {e \in keeping : e[1] \in sooner}}
  IN reached[Cardinality(points)]

\* Where instruction p of the swept function was in the source.
Origin(p) ==
  IF IsTerminator(fn, p) THEN <<p[1], LastIndex(source, p[1])>>
  ELSE CHOOSE q \in Points(source) :
         /\ q[1] = p[1] /\ ~IsTerminator(source, q)
         /\ InstructionAt(source, q) = InstructionAt(fn, p)

\* The passes carry lines along and never look at them; distinct ones name the
\* instructions.
LinesDistinct(f) ==
  \A p, q \in Points(f) :
    (/\ ~IsTerminator(f, p) /\ ~IsTerminator(f, q)
     /\ InstructionAt(f, p).line = InstructionAt(f, q).line) => p = q

Lines == {0} \cup {InstructionAt(source, p).line : p \in {p \in Points(source) : ~IsTerminator(source, p)}}

\* Removing copies changes nothing a program can see: what is left is the source
\* in its order without some copies, and every instruction left reads what the
\* same writes produced, round loops and through chains of removed copies.
SweepPreservesReads ==
  pc = "clean" /\ LinesDistinct(source) =>
    /\ \A p \in Points(fn) : ~IsTerminator(fn, p) =>
         /\ Origin(p) \in Points(source) /\ ~IsTerminator(source, Origin(p))
         /\ InstructionAt(source, Origin(p)) = InstructionAt(fn, p)
    /\ \A p, q \in Points(fn) : (p[1] = q[1] /\ p[2] < q[2]) => Origin(p)[2] < Origin(q)[2]
    /\ \A x \in Points(source) :
         (\A p \in Points(fn) : Origin(p) # x)
           => ~IsTerminator(source, x) /\ InstructionAt(source, x).op = "copy"
    /\ \A r \in Reg, line \in Lines :
         LET now == ReachedFrom(fn, r, line)
             was == ReachedFrom(source, r, line) IN
         \A p \in Points(fn) : r \in ReadsAt(fn, p) => (p \in now <=> Origin(p) \in was)

\* No copy that nothing reads is left, one that became dead because another was
\* removed included.
NoDeadCopyLeft ==
  pc = "clean" =>
    \A p \in Points(fn) :
      (~IsTerminator(fn, p) /\ InstructionAt(fn, p).op = "copy")
        => InstructionAt(fn, p).dst \in LiveAfter(fn)[p]

\* Both loops end.
Terminates == <>(pc = "clean")
===========================================================================
