---------------------------- MODULE LivenessProofs ----------------------------
(***************************************************************************)
(* For every function, the liveness iteration stops at the least solution  *)
(* of the dataflow equations, what the paths define; the pass ends with no *)
(* dead copy, and every instruction left reads what it read before.        *)
(***************************************************************************)
EXTENDS Liveness, IrProofs

\* While nothing has changed in a round, the blocks visited in it are solved:
\* neither they nor their successors have changed since.
RoundInv ==
  /\ Len(source.blocks) \in Nat
  /\ DOMAIN source.blocks = 1 .. Len(source.blocks)
  /\ DOMAIN fn.blocks = DOMAIN source.blocks
  /\ liveIn = [b \in DOMAIN fn.blocks |-> liveIn[b]]
  /\ liveOut = [b \in DOMAIN fn.blocks |-> liveOut[b]]
  /\ block \in 0 .. Len(source.blocks)
  /\ pc = "scan" => \A b \in DOMAIN fn.blocks : (~changed /\ b > block) => Solves(b)
  /\ pc # "scan" => \A b \in DOMAIN fn.blocks : Solves(b)

LEMMA RoundInvInit == Init => RoundInv
<1> SUFFICES ASSUME Init PROVE RoundInv
  OBVIOUS
<1>1. source.blocks \in Seq(Block)
  BY FunctionsAssumption DEF Init, IsFunction
<1>2. Len(source.blocks) \in Nat /\ DOMAIN source.blocks = 1 .. Len(source.blocks)
  BY <1>1
<1> QED
  BY <1>2 DEF Init, RoundInv

\* A visit that changes a block starts the round's promise afresh; one that
\* changes nothing adds the block to the solved ones.
LEMMA VisitBlockInv ==
  ASSUME RoundInv, VisitBlock
  PROVE  RoundInv'
<1> DEFINE newOut == UNION {liveIn[s] : s \in fn.blocks[block].next}
           newIn == LiveInto(block, newOut)
<1>1. /\ pc = "scan" /\ pc' = "scan" /\ fn' = fn /\ source' = source
      /\ block \in DOMAIN fn.blocks /\ block' = block - 1
      /\ block' \in 0 .. Len(source.blocks)
      /\ liveOut' = [liveOut EXCEPT ![block] = newOut]
      /\ liveIn' = [liveIn EXCEPT ![block] = newIn]
      /\ changed' = (changed \/ newIn # liveIn[block] \/ newOut # liveOut[block])
  BY DEF RoundInv, VisitBlock
<1> HIDE DEF newOut, newIn
<1>2. /\ liveIn' = [b \in DOMAIN fn.blocks |-> liveIn'[b]]
      /\ liveOut' = [b \in DOMAIN fn.blocks |-> liveOut'[b]]
  BY <1>1 DEF RoundInv
<1>3. ASSUME ~changed', NEW b \in DOMAIN fn.blocks, b > block'
      PROVE  Solves(b)'
  <2>1. ~changed /\ newIn = liveIn[block] /\ newOut = liveOut[block]
    BY <1>1, <1>3
  <2>2. liveIn' = [liveIn EXCEPT ![block] = liveIn[block]]
    BY <1>1, <2>1
  <2>3. liveOut' = [liveOut EXCEPT ![block] = liveOut[block]]
    BY <1>1, <2>1
  <2>4. liveIn = [a \in DOMAIN fn.blocks |-> liveIn[a]]
    BY DEF RoundInv
  <2>5. liveOut = [a \in DOMAIN fn.blocks |-> liveOut[a]]
    BY DEF RoundInv
  <2>6. Solves(b)
    <3>1. CASE b = block
      BY <2>1, <3>1 DEF Solves, newIn, newOut
    <3>2. CASE b # block
      <4>1. b > block
        BY <1>1, <1>3, <3>2 DEF RoundInv
      <4> QED
        BY <1>1, <2>1, <4>1 DEF RoundInv
    <3> QED
      BY <3>1, <3>2
  <2>7. liveIn' = liveIn /\ liveOut' = liveOut
    BY <2>2, <2>3, <2>4, <2>5
  <2> QED
    BY <1>1, <2>6, <2>7 DEF Solves, LiveInto
<1>4. \A b \in DOMAIN fn.blocks : (~changed' /\ b > block') => Solves(b)'
  BY <1>3
<1> QED
  BY <1>1, <1>2, <1>4 DEF RoundInv

LEMMA EndRoundInv ==
  ASSUME RoundInv, EndRound
  PROVE  RoundInv'
<1>1. UNCHANGED <<source, fn, liveIn, liveOut>> /\ pc = "scan" /\ block = 0
  BY DEF EndRound
<1>2. CASE changed
  <2>1. block' = Len(source.blocks) /\ pc' = "scan"
    BY <1>2, <1>1 DEF EndRound
  <2> QED
    BY <1>1, <2>1 DEF RoundInv
<1>3. CASE ~changed
  <2>1. block' = block /\ changed' = changed /\ pc' = "stable"
    BY <1>3 DEF EndRound
  <2>2. \A b \in DOMAIN fn.blocks : Solves(b)
    BY <1>1, <1>3 DEF RoundInv
  <2>3. \A b \in DOMAIN fn.blocks : Solves(b)'
    BY <1>1, <2>2 DEF Solves, LiveInto
  <2> QED
    BY <1>1, <2>1, <2>3 DEF RoundInv
<1> QED
  BY <1>2, <1>3

LEMMA RemoveDeadCopiesInv ==
  ASSUME RoundInv, RemoveDeadCopies
  PROVE  RoundInv'
<1>1. pc = "stable" /\ source' = source /\ fn' = Swept(fn, liveOut)
  BY DEF RemoveDeadCopies
<1>2. CASE fn' = fn
  <2>1. UNCHANGED <<liveIn, liveOut, block, changed>> /\ pc' = "clean"
    BY <1>1, <1>2 DEF RemoveDeadCopies
  <2>2. \A b \in DOMAIN fn.blocks : Solves(b)
    BY <1>1 DEF RoundInv
  <2>3. \A b \in DOMAIN fn.blocks : Solves(b)'
    BY <1>2, <2>1, <2>2 DEF Solves, LiveInto
  <2> QED
    BY <1>1, <1>2, <2>1, <2>3 DEF RoundInv
<1>3. CASE fn' # fn
  <2>1. /\ liveIn' = [b \in DOMAIN fn'.blocks |-> {}]
        /\ liveOut' = [b \in DOMAIN fn'.blocks |-> {}]
        /\ block' = Len(source.blocks) /\ pc' = "scan"
    BY <1>1, <1>3 DEF RemoveDeadCopies, Restarted
  <2>2. DOMAIN fn'.blocks = DOMAIN fn.blocks
    BY <1>1 DEF Swept
  <2>3. /\ liveIn' = [b \in DOMAIN fn'.blocks |-> liveIn'[b]]
        /\ liveOut' = [b \in DOMAIN fn'.blocks |-> liveOut'[b]]
    BY <2>1
  <2>4. source' = source
    BY <1>1
  <2>5. \A b \in DOMAIN fn'.blocks : ~(b > block')
    BY <2>1, <2>2, <2>4 DEF RoundInv
  <2>6. /\ Len(source.blocks)' \in Nat
        /\ (DOMAIN source.blocks)' = 1 .. Len(source.blocks)'
        /\ DOMAIN fn'.blocks = DOMAIN source'.blocks
        /\ block' \in 0 .. Len(source.blocks)'
    BY <2>1, <2>2, <2>4 DEF RoundInv
  <2> QED
    BY <2>1, <2>3, <2>5, <2>6 DEF RoundInv
<1> QED
  BY <1>2, <1>3

\* When the iteration stops, every block satisfies its equation: a register read
\* in a block or needed by a successor is reported live, for every function.
THEOREM StableSolution == Spec => []StableIsSolution
<1>1. Init => RoundInv
  BY RoundInvInit
<1>2. RoundInv /\ [Next]_vars => RoundInv'
  <2> SUFFICES ASSUME RoundInv, [Next]_vars PROVE RoundInv'
    OBVIOUS
  <2>1. CASE VisitBlock
    BY <2>1, VisitBlockInv
  <2>2. CASE EndRound
    BY <2>2, EndRoundInv
  <2>3. CASE RemoveDeadCopies
    BY <2>3, RemoveDeadCopiesInv
  <2>4. CASE UNCHANGED vars
    <3>1. UNCHANGED <<source, fn, liveIn, liveOut, block, changed, pc>>
      BY <2>4 DEF vars
    <3>2. ASSUME NEW b, Solves(b) PROVE Solves(b)'
      BY <3>1, <3>2 DEF Solves, LiveInto
    <3>3. \A b \in DOMAIN fn.blocks : Solves(b) => Solves(b)'
      BY <3>2
    <3> QED
      BY <3>1, <3>3 DEF RoundInv
  <2> QED
    BY <2>1, <2>2, <2>3, <2>4 DEF Next, Finished
<1>3. RoundInv => StableIsSolution
  BY DEF RoundInv, StableIsSolution
<1> QED
  BY <1>1, <1>2, <1>3, PTL DEF Spec

---------------------------------------------------------------------------
(***************************************************************************)
(* The block equations and the paths.                                      *)
(***************************************************************************)

\* What a block needs of what its end needs is live at its start.
LEMMA BlockNeedsAreLive ==
  ASSUME IsFunction(fn), NEW b \in DOMAIN fn.blocks, NEW out,
         out \subseteq LiveAfter(fn)[<<b, LastIndex(fn, b)>>]
  PROVE  LiveInto(b, out) \subseteq LiveBefore(fn)[<<b, 1>>]
<1> DEFINE M == LastIndex(fn, b)
           blk == fn.blocks[b]
           last == <<b, M>>
<1>1. /\ M \in Nat \ {0} /\ DOMAIN blk.code = 1 .. M - 1
      /\ \A k \in 1 .. M : <<b, k>> \in Points(fn)
  BY FunctionTypes, PointShape
<1>2. last \in Points(fn) /\ M \in 1 .. M /\ DefinesAt(fn, last) = {} /\ ReadsAt(fn, last) = blk.reads
  BY <1>1 DEF DefinesAt, ReadsAt, IsTerminator
<1>3. blk.reads \cup out \subseteq LiveBefore(fn)[last]
  BY <1>2, LiveEquations
<1>4. ASSUME NEW r \in blk.reads \cup out, \A j \in DOMAIN blk.code : r \notin Defines(blk.code[j])
      PROVE  r \in LiveBefore(fn)[<<b, 1>>]
  BY <1>2, <1>3, <1>4, LiveThroughBlock
<1>5. ASSUME NEW k \in DOMAIN blk.code, NEW r \in blk.code[k].reads,
             \A j \in 1 .. k - 1 : r \notin Defines(blk.code[j])
      PROVE  r \in LiveBefore(fn)[<<b, 1>>]
  <2> DEFINE p == <<b, k>>
  <2>1. p \in Points(fn) /\ k \in 1 .. M /\ k # M
    BY <1>1
  <2>2. ReadsAt(fn, p) = blk.code[k].reads
    BY <2>1 DEF ReadsAt, IsTerminator, InstructionAt
  <2>3. r \in LiveBefore(fn)[p]
    BY <2>1, <2>2, LiveEquations
  <2>4. \A j \in DOMAIN blk.code : j < k => r \notin Defines(blk.code[j])
    BY <1>1, <1>5
  <2> QED BY <2>1, <2>3, <2>4, LiveThroughBlock
<1> SUFFICES ASSUME NEW r \in LiveInto(b, out) PROVE r \in LiveBefore(fn)[<<b, 1>>]
  OBVIOUS
<1>6. CASE r \in UseSet(blk)
  BY <1>4, <1>5, <1>6 DEF UseSet
<1>7. CASE r \in out /\ r \notin DefSet(blk)
  BY <1>4, <1>7 DEF DefSet
<1> QED BY <1>6, <1>7 DEF LiveInto

\* What a block needs at one of its points, given what its end needs.
NeededFrom(b, k) ==
  {r \in Reg :
     \/ \E i \in DOMAIN fn.blocks[b].code :
          /\ i >= k /\ r \in fn.blocks[b].code[i].reads
          /\ \A j \in k .. i - 1 : r \notin Defines(fn.blocks[b].code[j])
     \/ /\ r \in fn.blocks[b].reads \cup liveOut[b]
        /\ \A j \in DOMAIN fn.blocks[b].code : j >= k => r \notin Defines(fn.blocks[b].code[j])}

\* A solution of the equations holds everything that is live.
LEMMA SolutionHoldsLive ==
  ASSUME IsFunction(fn), \A b \in DOMAIN fn.blocks : Solves(b)
  PROVE  \A b \in DOMAIN fn.blocks : LiveBefore(fn)[<<b, 1>>] \subseteq liveIn[b]
<1> DEFINE claim == [p \in Points(fn) |-> NeededFrom(p[1], p[2])]
<1>1. ASSUME NEW b \in DOMAIN fn.blocks
      PROVE  /\ LastIndex(fn, b) \in Nat \ {0} /\ LastIndex(fn, b) - 1 \in Nat
             /\ DOMAIN fn.blocks[b].code = 1 .. LastIndex(fn, b) - 1
             /\ fn.blocks[b].reads \subseteq Reg
             /\ \A k \in DOMAIN fn.blocks[b].code : fn.blocks[b].code[k].reads \subseteq Reg
             /\ fn.blocks[b].next \subseteq DOMAIN fn.blocks
             /\ \A k \in 1 .. LastIndex(fn, b) : <<b, k>> \in Points(fn)
  BY FunctionTypes, PointShape
<1>2. ASSUME NEW b \in DOMAIN fn.blocks
      PROVE  NeededFrom(b, 1) \subseteq liveIn[b]
  <2>1. liveIn[b] = UseSet(fn.blocks[b]) \cup (liveOut[b] \ DefSet(fn.blocks[b]))
    BY DEF Solves, LiveInto
  <2> SUFFICES ASSUME NEW r \in NeededFrom(b, 1)
               PROVE  r \in UseSet(fn.blocks[b]) \cup (liveOut[b] \ DefSet(fn.blocks[b]))
    BY <2>1
  <2>2. \A j \in DOMAIN fn.blocks[b].code : j >= 1
    BY <1>1
  <2>3. r \in Reg
    BY DEF NeededFrom
  <2>4. CASE \E i \in DOMAIN fn.blocks[b].code :
               /\ r \in fn.blocks[b].code[i].reads
               /\ \A j \in 1 .. i - 1 : r \notin Defines(fn.blocks[b].code[j])
    BY <2>3, <2>4 DEF UseSet
  <2>5. CASE /\ r \in fn.blocks[b].reads \cup liveOut[b]
             /\ \A j \in DOMAIN fn.blocks[b].code : r \notin Defines(fn.blocks[b].code[j])
    BY <2>3, <2>5 DEF UseSet, DefSet
  <2> QED BY <2>2, <2>4, <2>5 DEF NeededFrom
<1>3. ASSUME NEW p \in Points(fn)
      PROVE  /\ ReadsAt(fn, p) \subseteq claim[p]
             /\ \A q \in NextPoints(fn, p) : (Reg \cap claim[q]) \ DefinesAt(fn, p) \subseteq claim[p]
  <2> DEFINE b == p[1]
             k == p[2]
             blk == fn.blocks[b]
  <2>1. p = <<b, k>> /\ b \in DOMAIN fn.blocks /\ k \in 1 .. LastIndex(fn, b)
    BY PointShape
  <2>2. claim[p] = NeededFrom(b, k)
    OBVIOUS
  <2>3. CASE IsTerminator(fn, p)
    <3>1. k = LastIndex(fn, b) /\ ReadsAt(fn, p) = blk.reads /\ DefinesAt(fn, p) = {}
      BY <2>3 DEF IsTerminator, ReadsAt, DefinesAt
    <3>2. \A j \in DOMAIN blk.code : ~ (j >= k)
      BY <1>1, <2>1, <3>1
    <3>3. \A r \in blk.reads \cup liveOut[b] : r \in Reg => r \in NeededFrom(b, k)
      BY <3>2 DEF NeededFrom
    <3>4. ASSUME NEW q \in NextPoints(fn, p) PROVE Reg \cap claim[q] \subseteq claim[p]
      <4>1. PICK n \in blk.next : q = <<n, 1>>
        BY <2>3 DEF NextPoints
      <4>2. n \in DOMAIN fn.blocks /\ 1 \in 1 .. LastIndex(fn, n)
        BY <1>1, <2>1
      <4>3. q \in Points(fn)
        BY <1>1, <4>1, <4>2
      <4>4. claim[q] = NeededFrom(n, 1)
        BY <4>1, <4>3
      <4>5. claim[q] \subseteq liveIn[n]
        BY <1>2, <4>2, <4>4
      <4>6. liveIn[n] \subseteq liveOut[b]
        BY <2>1, <4>1 DEF Solves
      <4> QED BY <2>2, <3>3, <4>5, <4>6
    <3>5. blk.reads \subseteq Reg
      BY <1>1, <2>1
    <3> QED BY <2>2, <3>1, <3>3, <3>4, <3>5
  <2>4. CASE ~IsTerminator(fn, p)
    <3>1. /\ k \in DOMAIN blk.code /\ k + 1 \in 1 .. LastIndex(fn, b)
          /\ ReadsAt(fn, p) = blk.code[k].reads /\ DefinesAt(fn, p) = Defines(blk.code[k])
          /\ NextPoints(fn, p) = {<<b, k + 1>>}
      BY <1>1, <2>1, <2>4 DEF IsTerminator, ReadsAt, DefinesAt, NextPoints, InstructionAt
    <3>2. k \in Nat /\ \A j \in DOMAIN blk.code : j \in Nat
      BY <1>1, <2>1
    <3>3. ReadsAt(fn, p) \subseteq NeededFrom(b, k)
      <4>1. \A j \in k .. k - 1 : FALSE
        BY <3>2
      <4>2. blk.code[k].reads \subseteq Reg
        BY <1>1, <2>1, <3>1
      <4>3. ASSUME NEW r \in blk.code[k].reads
            PROVE  r \in NeededFrom(b, k)
        <5>1. \E i \in DOMAIN blk.code :
                 /\ i >= k /\ r \in blk.code[i].reads
                 /\ \A j \in k .. i - 1 : r \notin Defines(blk.code[j])
          BY <3>1, <3>2, <4>1, <4>3, SMTT(30)
        <5> QED BY <4>2, <4>3, <5>1 DEF NeededFrom
      <4> QED BY <3>1, <4>3
    <3>4. ASSUME NEW r \in NeededFrom(b, k + 1), r \notin Defines(blk.code[k])
          PROVE  r \in NeededFrom(b, k)
      <4>1. CASE \E i \in DOMAIN blk.code :
                   /\ i >= k + 1 /\ r \in blk.code[i].reads
                   /\ \A j \in k + 1 .. i - 1 : r \notin Defines(blk.code[j])
        <5>1. PICK i \in DOMAIN blk.code :
                   /\ i >= k + 1 /\ r \in blk.code[i].reads
                   /\ \A j \in k + 1 .. i - 1 : r \notin Defines(blk.code[j])
          BY <4>1
        <5>2. i >= k /\ \A j \in k .. i - 1 : j = k \/ j \in k + 1 .. i - 1
          BY <3>2, <5>1
        <5>3. \A j \in k .. i - 1 : r \notin Defines(blk.code[j])
          BY <3>4, <5>1, <5>2
        <5> QED BY <5>1, <5>2, <5>3 DEF NeededFrom
      <4>2. CASE /\ r \in blk.reads \cup liveOut[b]
                 /\ \A j \in DOMAIN blk.code : j >= k + 1 => r \notin Defines(blk.code[j])
        <5>1. \A j \in DOMAIN blk.code : j >= k => j = k \/ j >= k + 1
          BY <3>2
        <5>2. \A j \in DOMAIN blk.code : j >= k => r \notin Defines(blk.code[j])
          BY <3>4, <4>2, <5>1
        <5> QED BY <4>2, <5>2 DEF NeededFrom
      <4> QED BY <4>1, <4>2 DEF NeededFrom
    <3>5. <<b, k + 1>> \in Points(fn)
      BY <1>1, <2>1, <3>1
    <3>6. claim[<<b, k + 1>>] = NeededFrom(b, k + 1)
      BY <3>5
    <3> HIDE DEF claim
    <3> QED BY <2>2, <3>1, <3>3, <3>4, <3>6
  <2> QED BY <2>3, <2>4
<1> TAKE b \in DOMAIN fn.blocks
<1>4. 1 \in 1 .. LastIndex(fn, b)
  BY <1>1
<1>5. <<b, 1>> \in Points(fn) /\ claim[<<b, 1>>] = NeededFrom(b, 1)
  BY <1>1, <1>4
<1>6. LiveBefore(fn)[<<b, 1>>] \subseteq claim[<<b, 1>>]
  <2> HIDE DEF claim
  <2> QED BY <1>3, <1>5, LiveLeast
<1> QED BY <1>2, <1>5, <1>6
---------------------------------------------------------------------------
(***************************************************************************)
(* The sweep.                                                              *)
(***************************************************************************)
\* A sweep that keeps all of a block has met no dead copy in it.
LEMMA KeptWhole ==
  ASSUME NEW f, IsFunction(f), NEW b \in DOMAIN f.blocks, NEW out, out \subseteq Reg,
         Kept(f.blocks[b], out) = f.blocks[b].code
  PROVE  \A k \in DOMAIN f.blocks[b].code :
           f.blocks[b].code[k].op = "copy"
             => f.blocks[b].code[k].dst \in WalkBack(f.blocks[b], out)[k + 1]
<1> DEFINE blk == f.blocks[b]
           N == Len(blk.code)
           live == WalkBack(blk, out)
<1>1. /\ blk \in Block /\ N \in Nat /\ DOMAIN blk.code = 1 .. N /\ LastIndex(f, b) = N + 1
      /\ blk.code \in Seq(Instruction)
      /\ \A k \in 1 .. N : blk.code[k] \in Instruction
  <2>1. f.blocks \in Seq(Block)
    BY DEF IsFunction
  <2>2. blk \in Block
    BY <2>1
  <2> QED BY <2>2, BlockCode, FunctionTypes
<1>2. /\ live[N + 1] = out \cup blk.reads
      /\ \A k \in 1 .. N : live[k] = (live[k + 1] \ Defines(blk.code[k])) \cup blk.code[k].reads
  <2>1. WalksBack(f, b, out, live)
    BY WalkBackEquations
  <2> HIDE DEF live
  <2> QED BY <1>1, <2>1 DEF WalksBack
<1>3. PICK step : Keeps(blk, out, step)
  BY <1>1, KeptSteps
<1> HIDE DEF blk, N, live
<1>4. /\ \A k \in 1 .. N + 1 : step[k].code \in Seq(Instruction) /\ step[k].live \subseteq Reg
      /\ step[N + 1].live = out \cup blk.reads /\ step[N + 1].code = <<>>
      /\ step[1].code = blk.code
  BY <1>3 DEF Keeps, N, LiveAtEnd, blk
<1> DEFINE Goes(k) == Len(step[k].code) = Len(step[k + 1].code)
           Stays(k) == /\ blk.code[k].op = "copy" => blk.code[k].dst \in step[k + 1].live
                       /\ step[k].live = (step[k + 1].live \ Defines(blk.code[k])) \cup blk.code[k].reads
                       /\ Len(step[k].code) = Len(step[k + 1].code) + 1
<1>5. ASSUME NEW k \in 1 .. N PROVE Goes(k) \/ Stays(k)
  <2>1. step[k] = KeptStep(blk, out, blk.code[k], step[k + 1])
    BY <1>3 DEF Keeps, N
  <2>2. step[k + 1].code \in Seq(Instruction) /\ blk.code[k] \in Instruction
    BY <1>1, <1>4
  <2>3. Len(<<blk.code[k]>> \o step[k + 1].code) = Len(step[k + 1].code) + 1
    BY <2>2
  <2> QED BY <2>1, <2>3 DEF KeptStep
<1>6. \A k \in 1 .. N + 1 : Len(step[k].code) \in Nat
  BY <1>4
<1> DEFINE Short == {k \in 1 .. N + 1 : Len(step[k].code) <= N + 1 - k}
<1>7. 1 .. N + 1 \subseteq Short
  <2>1. N + 1 \in Short
    BY <1>1, <1>4
  <2>2. ASSUME NEW k \in 1 .. N, k + 1 \in Short PROVE k \in Short
    <3>0. k \in 1 .. N + 1 /\ k + 1 \in 1 .. N + 1
      BY <1>1
    <3>1. Len(step[k].code) <= Len(step[k + 1].code) + 1
      <4>1. Len(step[k].code) \in Nat /\ Len(step[k + 1].code) \in Nat
        BY <1>6, <3>0
      <4>2. Goes(k) \/ Stays(k)
        BY <1>5
      <4> QED BY <4>1, <4>2
    <3>2. Len(step[k + 1].code) <= N + 1 - (k + 1) /\ k \in 1 .. N + 1 /\ k + 1 \in 1 .. N + 1
      BY <1>1, <2>2
    <3> QED BY <1>1, <1>6, <3>1, <3>2, SMTT(30)
  <2>3. N + 1 \in Nat \ {0} /\ (N + 1) - 1 = N
    BY <1>1
  <2> HIDE DEF Short
  <2> QED BY <2>1, <2>2, <2>3, DownInduction
<1> DEFINE Whole == {n \in Nat : n <= N => Len(step[n + 1].code) = N - n}
<1>8. ASSUME NEW k \in 1 .. N, Len(step[k].code) = N + 1 - k
      PROVE  /\ blk.code[k].op = "copy" => blk.code[k].dst \in step[k + 1].live
             /\ step[k].live = (step[k + 1].live \ Defines(blk.code[k])) \cup blk.code[k].reads
             /\ Len(step[k + 1].code) = N - k
  <2>1. k + 1 \in 1 .. N + 1 /\ k \in 1 .. N + 1
    BY <1>1
  <2>2. k + 1 \in Short
    BY <1>7, <2>1
  <2>3. Len(step[k + 1].code) <= N - k /\ Len(step[k + 1].code) \in Nat
    BY <1>1, <1>6, <2>1, <2>2
  <2>4. ~Goes(k)
    BY <1>1, <1>8, <2>3
  <2>5. Stays(k)
    BY <1>5, <2>4
  <2>6. Len(step[k + 1].code) = N - k
    <3>1. Len(step[k].code) = Len(step[k + 1].code) + 1
      BY <2>5
    <3>2. N \in Nat /\ k \in Nat
      BY <1>1
    <3> DEFINE kept == Len(step[k + 1].code)
    <3>3. kept + 1 = N + 1 - k /\ kept \in Nat
      BY <1>8, <2>3, <3>1
    <3>4. kept = N - k
      <4> HIDE DEF kept
      <4> QED BY <3>2, <3>3
    <3> QED BY <3>4
  <2> QED BY <2>5, <2>6
<1>9. Nat \subseteq Whole
  <2>1. 0 \in Whole
    BY <1>1, <1>4 DEF N
  <2>2. ASSUME NEW n \in Nat, n \in Whole PROVE n + 1 \in Whole
    <3> SUFFICES ASSUME n + 1 <= N PROVE Len(step[(n + 1) + 1].code) = N - (n + 1)
      OBVIOUS
    <3> DEFINE k == n + 1
    <3>1. k \in 1 .. N /\ N - n = N + 1 - k
      BY <1>1
    <3>2. Len(step[k].code) = N + 1 - k
      BY <1>1, <2>2, <3>1
    <3> QED BY <1>8, <3>1, <3>2
  <2> HIDE DEF Whole
  <2> QED BY <2>1, <2>2, SetInduction
<1>10. \A k \in 1 .. N : Len(step[k].code) = N + 1 - k
  <2> TAKE k \in 1 .. N
  <2>1. k - 1 \in Nat /\ k - 1 <= N /\ (k - 1) + 1 = k /\ N - (k - 1) = N + 1 - k
    BY <1>1
  <2>2. k - 1 \in Whole
    BY <1>9, <2>1
  <2> QED BY <2>1, <2>2
<1> DEFINE Same == {k \in 1 .. N + 1 : step[k].live = live[k]}
<1>11. 1 .. N + 1 \subseteq Same
  <2>0. N + 1 \in 1 .. N + 1
    BY <1>1
  <2>1. N + 1 \in Same
    BY <1>2, <1>4, <2>0
  <2>2. ASSUME NEW k \in 1 .. N, k + 1 \in Same PROVE k \in Same
    <3>1. step[k].live = (step[k + 1].live \ Defines(blk.code[k])) \cup blk.code[k].reads
      BY <1>8, <1>10
    <3>2. k \in 1 .. N + 1
      BY <1>1
    <3> QED BY <1>2, <2>2, <3>1, <3>2
  <2>3. N + 1 \in Nat \ {0} /\ (N + 1) - 1 = N
    BY <1>1
  <2> HIDE DEF Same
  <2> QED BY <2>1, <2>2, <2>3, DownInduction
<1>12. ASSUME NEW k \in 1 .. N, blk.code[k].op = "copy" PROVE blk.code[k].dst \in live[k + 1]
  <2>1. k + 1 \in 1 .. N + 1
    BY <1>1
  <2> QED BY <1>8, <1>10, <1>11, <1>12, <2>1
<1> QED BY <1>1, <1>12 DEF blk, live

---------------------------------------------------------------------------
\* The sets never hold more than what is live, so that where the iteration stops they
\* hold exactly that.
LivenessInv ==
  /\ RoundInv
  /\ IsFunction(source) /\ IsFunction(fn)
  /\ changed \in BOOLEAN /\ pc \in {"scan", "stable", "clean"}
  /\ \A b \in DOMAIN fn.blocks :
       /\ liveIn[b] \subseteq LiveBefore(fn)[<<b, 1>>]
       /\ liveOut[b] \subseteq LiveAfter(fn)[<<b, LastIndex(fn, b)>>]
  /\ pc = "clean" => Swept(fn, liveOut) = fn

LEMMA LivenessVisitBlock ==
  ASSUME LivenessInv, VisitBlock
  PROVE  LivenessInv'
<1> DEFINE newOut == UNION {liveIn[s] : s \in fn.blocks[block].next}
           newIn == LiveInto(block, newOut)
<1>1. /\ pc = "scan" /\ pc' = "scan" /\ fn' = fn /\ source' = source
      /\ block \in DOMAIN fn.blocks
      /\ liveOut' = [liveOut EXCEPT ![block] = newOut]
      /\ liveIn' = [liveIn EXCEPT ![block] = newIn]
      /\ changed' \in BOOLEAN
  BY DEF LivenessInv, RoundInv, VisitBlock
<1>2. newOut \subseteq LiveAfter(fn)[<<block, LastIndex(fn, block)>>]
  <2>1. \A s \in fn.blocks[block].next : s \in DOMAIN fn.blocks
    BY <1>1, FunctionTypes DEF LivenessInv
  <2>2. \A s \in fn.blocks[block].next : liveIn[s] \subseteq LiveBefore(fn)[<<s, 1>>]
    BY <2>1 DEF LivenessInv
  <2>3. newOut \subseteq UNION {LiveBefore(fn)[<<s, 1>>] : s \in fn.blocks[block].next}
    BY <2>2
  <2> HIDE DEF newOut
  <2> QED BY <1>1, <2>3, LiveAcrossEdges, ZenonT(30) DEF LivenessInv
<1> HIDE DEF newOut
<1>3. newIn \subseteq LiveBefore(fn)[<<block, 1>>]
  BY <1>1, <1>2, BlockNeedsAreLive DEF LivenessInv
<1> HIDE DEF newIn
<1>4. liveIn = [b \in DOMAIN fn.blocks |-> liveIn[b]] /\ liveOut = [b \in DOMAIN fn.blocks |-> liveOut[b]]
  BY DEF LivenessInv, RoundInv
<1>5. ASSUME NEW b \in DOMAIN fn.blocks
      PROVE  /\ liveIn'[b] \subseteq LiveBefore(fn)[<<b, 1>>]
             /\ liveOut'[b] \subseteq LiveAfter(fn)[<<b, LastIndex(fn, b)>>]
  <2>1. CASE b = block
    <3>1. liveIn'[b] = newIn /\ liveOut'[b] = newOut
      BY <1>1, <1>4, <2>1
    <3> QED BY <1>2, <1>3, <2>1, <3>1
  <2>2. CASE b # block
    <3>1. liveIn'[b] = liveIn[b] /\ liveOut'[b] = liveOut[b]
      BY <1>1, <1>4, <2>2
    <3> QED BY <3>1 DEF LivenessInv
  <2> QED BY <2>1, <2>2
<1>6. RoundInv'
  BY VisitBlockInv DEF LivenessInv
<1> QED BY <1>1, <1>5, <1>6 DEF LivenessInv

LEMMA LivenessSweep ==
  ASSUME LivenessInv, RemoveDeadCopies
  PROVE  LivenessInv'
<1>1. pc = "stable" /\ source' = source /\ fn' = Swept(fn, liveOut)
  BY DEF RemoveDeadCopies
<1>2. RoundInv'
  BY RemoveDeadCopiesInv DEF LivenessInv
<1>3. \A b \in DOMAIN fn.blocks : liveOut[b] \subseteq Reg
  BY EndPoints DEF LivenessInv
<1>4. IsFunction(fn') /\ DOMAIN fn'.blocks = DOMAIN fn.blocks
  BY <1>1, <1>3, SweptIsFunction DEF LivenessInv
<1>5. CASE fn' = fn
  <2>1. UNCHANGED <<liveIn, liveOut, changed>> /\ pc' = "clean"
    BY <1>1, <1>5 DEF RemoveDeadCopies
  <2>2. Swept(fn', liveOut') = fn'
    BY <1>1, <1>5, <2>1
  <2> QED BY <1>1, <1>2, <1>5, <2>1, <2>2 DEF LivenessInv
<1>6. CASE fn' # fn
  <2>1. /\ liveIn' = [b \in DOMAIN fn'.blocks |-> {}]
        /\ liveOut' = [b \in DOMAIN fn'.blocks |-> {}]
        /\ changed' = FALSE /\ pc' = "scan"
    BY <1>1, <1>6 DEF RemoveDeadCopies, Restarted
  <2>2. \A b \in DOMAIN fn'.blocks : liveIn'[b] = {} /\ liveOut'[b] = {}
    BY <2>1
  <2> QED BY <1>1, <1>2, <1>4, <2>1, <2>2 DEF LivenessInv
<1> QED BY <1>5, <1>6

LEMMA LivenessInvHolds == Spec => []LivenessInv
<1>1. Init => LivenessInv
  <2> SUFFICES ASSUME Init PROVE LivenessInv
    OBVIOUS
  <2>1. RoundInv
    BY RoundInvInit
  <2>2. IsFunction(source) /\ IsFunction(fn)
    BY FunctionsAssumption DEF Init
  <2>3. \A b \in DOMAIN fn.blocks : liveIn[b] = {} /\ liveOut[b] = {}
    BY DEF Init
  <2> QED BY <2>1, <2>2, <2>3 DEF Init, LivenessInv
<1>2. LivenessInv /\ [Next]_vars => LivenessInv'
  <2> SUFFICES ASSUME LivenessInv, [Next]_vars PROVE LivenessInv'
    OBVIOUS
  <2>1. CASE VisitBlock
    BY <2>1, LivenessVisitBlock
  <2>2. CASE EndRound
    <3>1. /\ UNCHANGED <<source, fn, liveIn, liveOut>> /\ changed' \in BOOLEAN
          /\ pc' \in {"scan", "stable"}
      BY <2>2 DEF EndRound, LivenessInv
    <3>2. RoundInv'
      BY <2>2, EndRoundInv DEF LivenessInv
    <3> QED BY <3>1, <3>2 DEF LivenessInv
  <2>3. CASE RemoveDeadCopies
    BY <2>3, LivenessSweep
  <2>4. CASE UNCHANGED vars
    <3>1. UNCHANGED <<source, fn, liveIn, liveOut, block, changed, pc>>
      BY <2>4 DEF vars
    <3>2. \A b \in DOMAIN fn.blocks : Solves(b) <=> Solves(b)'
      BY <3>1 DEF Solves, LiveInto
    <3>3. RoundInv'
      BY <3>1, <3>2 DEF LivenessInv, RoundInv
    <3> QED BY <3>1, <3>3 DEF LivenessInv
  <2> QED BY <2>1, <2>2, <2>3, <2>4 DEF Next, Finished
<1> QED BY <1>1, <1>2, PTL DEF Spec

\* A solution below what is live is what is live, at block ends.
LEMMA StableIsExact ==
  ASSUME LivenessInv, pc # "scan", NEW b \in DOMAIN fn.blocks
  PROVE  /\ liveIn[b] = LiveBefore(fn)[<<b, 1>>]
         /\ liveOut[b] = LiveAfter(fn)[<<b, LastIndex(fn, b)>>]
<1>1. IsFunction(fn) /\ \A a \in DOMAIN fn.blocks : Solves(a)
  BY DEF LivenessInv, RoundInv
<1>2. \A a \in DOMAIN fn.blocks : liveIn[a] = LiveBefore(fn)[<<a, 1>>]
  BY <1>1, SolutionHoldsLive DEF LivenessInv
<1>3. liveOut[b] = UNION {liveIn[s] : s \in fn.blocks[b].next}
  BY <1>1 DEF Solves
<1>4. \A s \in fn.blocks[b].next : s \in DOMAIN fn.blocks
  BY <1>1, FunctionTypes
<1>5. UNION {liveIn[s] : s \in fn.blocks[b].next} = UNION {LiveBefore(fn)[<<s, 1>>] : s \in fn.blocks[b].next}
  BY <1>2, <1>4
<1> QED BY <1>1, <1>2, <1>3, <1>5, LiveAcrossEdges

\* Inside a block, what is live after an instruction is what is live before the next.
LEMMA LiveAfterInstruction ==
  ASSUME LivenessInv, pc # "scan", NEW p \in Points(fn), ~IsTerminator(fn, p)
  PROVE  /\ p = <<p[1], p[2]>> /\ p[1] \in DOMAIN fn.blocks /\ p[2] \in DOMAIN fn.blocks[p[1]].code
         /\ WalkBack(fn.blocks[p[1]], liveOut[p[1]])[p[2] + 1] = LiveAfter(fn)[p]
<1> DEFINE b == p[1]
           k == p[2]
<1>1. IsFunction(fn)
  BY DEF LivenessInv
<1>2. p = <<b, k>> /\ b \in DOMAIN fn.blocks /\ k \in 1 .. LastIndex(fn, b)
  BY <1>1, PointShape
<1>3. k # LastIndex(fn, b)
  BY DEF IsTerminator
<1>4. k \in DOMAIN fn.blocks[b].code /\ k + 1 \in 1 .. LastIndex(fn, b)
  BY <1>1, <1>2, <1>3, FunctionTypes, SMTT(30)
<1>5. WalkBack(fn.blocks[b], liveOut[b])[k + 1] = LiveBefore(fn)[<<b, k + 1>>]
  <2>1. liveOut[b] = LiveAfter(fn)[<<b, LastIndex(fn, b)>>]
    BY <1>2, StableIsExact
  <2> QED BY <1>1, <1>2, <1>4, <2>1, WalkBackExact
<1>6. LiveAfter(fn)[p] = LiveBefore(fn)[<<b, k + 1>>]
  <2> DEFINE before == LiveBefore(fn)
             after == LiveAfter(fn)[p]
             next == NextPoints(fn, p)
             q == <<b, k + 1>>
  <2>1. after = UNION {before[s] : s \in next}
    BY <1>1, LiveEquations
  <2>2. next = {q}
    BY DEF NextPoints
  <2> HIDE DEF before, after, next, q
  <2>3. after = before[q]
    BY <2>1, <2>2
  <2> QED BY <2>3 DEF before, after, q
<1> QED BY <1>2, <1>4, <1>5, <1>6

\* Types hold, whatever the functions.
THEOREM LivenessTypes == Spec => []TypeOK
<1>1. LivenessInv => TypeOK
  <2> SUFFICES ASSUME LivenessInv PROVE TypeOK
    OBVIOUS
  <2>1. \A b \in DOMAIN fn.blocks : liveIn[b] \subseteq Reg /\ liveOut[b] \subseteq Reg
    BY EndPoints DEF LivenessInv
  <2> QED BY <2>1 DEF LivenessInv, RoundInv, TypeOK
<1> QED BY <1>1, LivenessInvHolds, PTL

\* The iteration stops at what the paths of the function define, for every function: a
\* register is reported live at a block's ends or across a call exactly when a path
\* from there reads it before writing it.
THEOREM LivenessIsExact == Spec => []LivenessExact
<1>1. LivenessInv => LivenessExact
  <2> SUFFICES ASSUME LivenessInv, pc # "scan"
               PROVE  /\ \A b \in DOMAIN fn.blocks :
                           /\ liveIn[b] = LiveBefore(fn)[<<b, 1>>]
                           /\ liveOut[b] = LiveAfter(fn)[<<b, LastIndex(fn, b)>>]
                      /\ \A p \in CallPoints(fn) :
                           LiveAcrossCalls(fn, liveOut)[p] = LiveAfter(fn)[p] \ DefinesAt(fn, p)
    BY DEF LivenessExact
  <2>1. ASSUME NEW p \in CallPoints(fn)
        PROVE  LiveAcrossCalls(fn, liveOut)[p] = LiveAfter(fn)[p] \ DefinesAt(fn, p)
    <3>1. p \in Points(fn) /\ ~IsTerminator(fn, p)
      BY DEF CallPoints
    <3>2. WalkBack(fn.blocks[p[1]], liveOut[p[1]])[p[2] + 1] = LiveAfter(fn)[p]
      BY <3>1, LiveAfterInstruction
    <3> QED BY <3>2 DEF LiveAcrossCalls
  <2> QED BY <2>1, StableIsExact
<1> QED BY <1>1, LivenessInvHolds, PTL

\* The pass ends with no copy left that nothing reads, however long the chains.
THEOREM NoDeadCopies == Spec => []NoDeadCopyLeft
<1>1. LivenessInv => NoDeadCopyLeft
  <2> SUFFICES ASSUME LivenessInv, pc = "clean", NEW p \in Points(fn),
                      ~IsTerminator(fn, p), InstructionAt(fn, p).op = "copy"
               PROVE  InstructionAt(fn, p).dst \in LiveAfter(fn)[p]
    BY DEF NoDeadCopyLeft
  <2> DEFINE b == p[1]
             k == p[2]
  <2>1. /\ b \in DOMAIN fn.blocks /\ k \in DOMAIN fn.blocks[b].code
        /\ WalkBack(fn.blocks[b], liveOut[b])[k + 1] = LiveAfter(fn)[p]
    BY LiveAfterInstruction
  <2>2. IsFunction(fn) /\ \A a \in DOMAIN fn.blocks : liveOut[a] \subseteq Reg
    BY EndPoints DEF LivenessInv
  <2>3. Kept(fn.blocks[b], liveOut[b]) = fn.blocks[b].code
    BY <2>1, <2>2, SweptIsFunction DEF LivenessInv
  <2>4. InstructionAt(fn, p) = fn.blocks[b].code[k]
    BY DEF InstructionAt
  <2>5. fn.blocks[b].code[k].dst \in WalkBack(fn.blocks[b], liveOut[b])[k + 1]
    BY <2>1, <2>2, <2>3, <2>4, KeptWhole
  <2> QED BY <2>1, <2>4, <2>5
<1> QED BY <1>1, LivenessInvHolds, PTL

---------------------------------------------------------------------------
(***************************************************************************)
(* What reaches a use: a write's values go on along the paths that do not  *)
(* write again, and sweeps change none of it that is still used.           *)
(***************************************************************************)
\* Where control is right after a write of r on the line.
Starts(f, r, line) ==
  (UNION {NextPoints(f, p) : p \in {p \in Points(f) : r \in DefinesAt(f, p) /\ InstructionAt(f, p).line = line}})
    \cup (IF line = 0 THEN {<<f.entry, 1>>} ELSE {})

\* ReachedFrom is the least set that holds the starts and goes on where r is kept.
LEMMA ReachedLeast ==
  ASSUME NEW f, IsFunction(f), NEW r, NEW line
  PROVE  /\ ReachedFrom(f, r, line) \subseteq Points(f)
         /\ Starts(f, r, line) \subseteq ReachedFrom(f, r, line)
         /\ \A p \in ReachedFrom(f, r, line) :
              r \notin DefinesAt(f, p) => NextPoints(f, p) \subseteq ReachedFrom(f, r, line)
         /\ \A X : (/\ Starts(f, r, line) \subseteq X
                    /\ \A p \in X : (p \in Points(f) /\ r \notin DefinesAt(f, p)) => NextPoints(f, p) \subseteq X)
                   => ReachedFrom(f, r, line) \subseteq X
<1> DEFINE P == Points(f)
           N == Cardinality(P)
           start == Starts(f, r, line)
           E == UNION {{p} \X NextPoints(f, p) : p \in {p \in P : r \notin DefinesAt(f, p)}}
           R == ReachedFrom(f, r, line)
           g == CHOOSE g : Spreads(start, E, N, g)
<1>1. R = g[N]
  BY DEF ReachedFrom, Spreads, Starts
<1>2. IsFiniteSet(P) /\ N \in Nat /\ N = Cardinality(P)
  BY PointsFinite
<1>3. start \in SUBSET P
  <2>1. <<f.entry, 1>> \in P
    BY FunctionTypes, EndPoints
  <2> QED BY <2>1, PointsFlow DEF Starts
<1>4. /\ \A p \in P : r \notin DefinesAt(f, p) => \A q \in NextPoints(f, p) : <<p, q>> \in E
      /\ \A e \in E : e[1] \in P /\ r \notin DefinesAt(f, e[1]) /\ e[2] \in NextPoints(f, e[1])
      /\ E \in SUBSET (P \X P)
  <2>1. \A p \in P : NextPoints(f, p) \subseteq P
    BY PointsFlow
  <2> QED BY <2>1
<1> HIDE DEF start, E, N, P, R
<1>5. Spreads(start, E, N, g)
  <2>1. \E h : Spreads(start, E, N, h)
    BY <1>2, <1>3, <1>4, SpreadExists
  <2> QED BY <2>1
<1> HIDE DEF g
<1>6. /\ g[N] \subseteq P /\ start \subseteq g[N]
      /\ \A e \in E : e[1] \in g[N] => e[2] \in g[N]
      /\ \A X : (start \subseteq X /\ \A e \in E : e[1] \in X => e[2] \in X) => g[N] \subseteq X
  <2>1. LeastClosed(P, start, E, g[N])
    BY <1>2, <1>3, <1>4, <1>5, SpreadLeast
  <2> QED BY <2>1 DEF LeastClosed
<1>7. \A p \in R : r \notin DefinesAt(f, p) => NextPoints(f, p) \subseteq R
  <2> SUFFICES ASSUME NEW p \in R, r \notin DefinesAt(f, p), NEW q \in NextPoints(f, p)
               PROVE  q \in R
    OBVIOUS
  <2>1. <<p, q>> \in E
    BY <1>1, <1>4, <1>6
  <2> QED BY <1>1, <1>6, <2>1
<1>8. ASSUME NEW X, start \subseteq X,
             \A p \in X : (p \in P /\ r \notin DefinesAt(f, p)) => NextPoints(f, p) \subseteq X
      PROVE  R \subseteq X
  <2>1. \A e \in E : e[1] \in X => e[2] \in X
    BY <1>4, <1>8
  <2> QED BY <1>1, <1>6, <1>8, <2>1
<1> QED BY <1>1, <1>6, <1>7, <1>8 DEF P, R, start

\* g is f without some copies: instruction p of g was origin[p] in f, and ahead[x] is
\* where control that stood at x in f stands in g, the instructions between are
\* copies whose targets are not in live.
Sheds(f, g, live, origin, ahead) ==
  /\ IsFunction(f) /\ IsFunction(g) /\ g.entry = f.entry
  /\ \A b \in DOMAIN f.blocks : ahead[<<b, 1>>] = <<b, 1>>
  /\ \A p \in Points(g) :
       /\ origin[p] \in Points(f) /\ origin[p][1] = p[1]
       /\ IsTerminator(g, p) <=> IsTerminator(f, origin[p])
       /\ ~IsTerminator(g, p) => InstructionAt(g, p) = InstructionAt(f, origin[p])
       /\ ahead[origin[p]] = p
       /\ LiveBefore(g)[p] \subseteq live[origin[p]]
       /\ \A q \in NextPoints(g, p) : \E y \in NextPoints(f, origin[p]) : ahead[y] = q
       /\ \A q \in Points(g) : (p[1] = q[1] /\ p[2] < q[2]) => origin[p][2] < origin[q][2]
  /\ \A x \in Points(f) :
       /\ ahead[x] \in Points(g)
       /\ live[x] = live[origin[ahead[x]]] /\ live[x] \subseteq LiveBefore(f)[x]
       /\ origin[ahead[x]] # x =>
            /\ ~IsTerminator(f, x) /\ InstructionAt(f, x).op = "copy"
            /\ \A y \in NextPoints(f, x) : ahead[y] = ahead[x] /\ InstructionAt(f, x).dst \notin live[y]
       /\ origin[ahead[x]] = x => \A y \in NextPoints(f, x) : ahead[y] \in NextPoints(g, ahead[x])

\* A skipped copy neither reads nor writes what is live past it.
LEMMA SkippedKeeps ==
  ASSUME NEW f, NEW g, NEW live, NEW origin, NEW ahead, Sheds(f, g, live, origin, ahead),
         NEW x \in Points(f), origin[ahead[x]] # x, NEW y \in NextPoints(f, x),
         NEW r \in LiveBefore(g)[ahead[y]]
  PROVE  r \notin DefinesAt(f, x) /\ ahead[y] = ahead[x]
<1>1. y \in Points(f)
  BY PointsFlow DEF Sheds
<1>2. r \in live[y]
  BY <1>1 DEF Sheds
<1>3. ~IsTerminator(f, x) /\ InstructionAt(f, x).dst \notin live[y] /\ ahead[y] = ahead[x]
  BY DEF Sheds
<1> QED BY <1>2, <1>3 DEF DefinesAt, Defines

\* A kept instruction writes what it wrote.
LEMMA KeptDefines ==
  ASSUME NEW f, NEW g, NEW live, NEW origin, NEW ahead, Sheds(f, g, live, origin, ahead),
         NEW p \in Points(g)
  PROVE  DefinesAt(g, p) = DefinesAt(f, origin[p])
<1>1. /\ IsTerminator(g, p) <=> IsTerminator(f, origin[p])
      /\ ~IsTerminator(g, p) => InstructionAt(g, p) = InstructionAt(f, origin[p])
  BY DEF Sheds
<1> QED BY <1>1 DEF DefinesAt

\* Control that carries a write past the copies still carries it at what they precede.
LEMMA ReachesPast ==
  ASSUME NEW f, NEW g, NEW live, NEW origin, NEW ahead, Sheds(f, g, live, origin, ahead),
         NEW line, NEW x \in Points(f), NEW r \in LiveBefore(g)[ahead[x]],
         x \in ReachedFrom(f, r, line)
  PROVE  origin[ahead[x]] \in ReachedFrom(f, r, line)
<1> DEFINE R == ReachedFrom(f, r, line)
           b == x[1]
           M == LastIndex(f, b)
           S == {k \in 1 .. M : (<<b, k>> \in R /\ r \in LiveBefore(g)[ahead[<<b, k>>]])
                                   => origin[ahead[<<b, k>>]] \in R}
<1>1. IsFunction(f)
  BY DEF Sheds
<1>2. x = <<b, x[2]>> /\ b \in DOMAIN f.blocks /\ x[2] \in 1 .. M /\ M \in Nat \ {0}
  BY <1>1, PointShape, FunctionTypes
<1> HIDE DEF b
<1>3. \A k \in 1 .. M : <<b, k>> \in Points(f)
  BY <1>1, <1>2, PointShape
<1>4. M \in S
  <2>1. IsTerminator(f, <<b, M>>) /\ <<b, M>> \in Points(f) /\ M \in 1 .. M
    BY <1>2, <1>3 DEF IsTerminator
  <2>2. origin[ahead[<<b, M>>]] = <<b, M>>
    BY <2>1 DEF Sheds
  <2> QED BY <2>1, <2>2
<1>5. ASSUME NEW k \in 1 .. M - 1, k + 1 \in S PROVE k \in S
  <2>1. k \in 1 .. M /\ k # M
    BY <1>2
  <2> SUFFICES ASSUME <<b, k>> \in R, r \in LiveBefore(g)[ahead[<<b, k>>]],
                      origin[ahead[<<b, k>>]] # <<b, k>>
               PROVE  origin[ahead[<<b, k>>]] \in R
    BY <2>1
  <2>2. <<b, k>> \in Points(f) /\ NextPoints(f, <<b, k>>) = {<<b, k + 1>>}
    BY <1>3, <2>1 DEF NextPoints, IsTerminator
  <2>3. ahead[<<b, k + 1>>] = ahead[<<b, k>>]
    BY <2>2 DEF Sheds
  <2>4. r \notin DefinesAt(f, <<b, k>>)
    BY <2>2, <2>3, SkippedKeeps
  <2>5. <<b, k + 1>> \in R
    BY <1>1, <2>2, <2>4, ReachedLeast
  <2> QED BY <1>5, <2>3, <2>5
<1>6. 1 .. M \subseteq S
  <2> HIDE DEF S, M
  <2> QED BY <1>2, <1>4, <1>5, DownInduction
<1> QED BY <1>2, <1>6

\* What reaches a live use still reaches it.
LEMMA ReachesKept ==
  ASSUME NEW f, NEW g, NEW live, NEW origin, NEW ahead, Sheds(f, g, live, origin, ahead),
         NEW line, NEW x, NEW r, x \in ReachedFrom(f, r, line), r \in LiveBefore(g)[ahead[x]]
  PROVE  ahead[x] \in ReachedFrom(g, r, line)
<1> DEFINE R == ReachedFrom(g, r, line)
           X == {y \in Points(f) : r \in LiveBefore(g)[ahead[y]] => ahead[y] \in R}
<1>1. IsFunction(f) /\ IsFunction(g)
  BY DEF Sheds
<1>2. /\ \A y \in Points(f) : NextPoints(f, y) \subseteq Points(f)
      /\ \A y \in Points(f) : ahead[y] \in Points(g)
  BY <1>1, PointsFlow DEF Sheds
<1>3. Starts(f, r, line) \subseteq X
  <2>1. ASSUME line = 0 PROVE <<f.entry, 1>> \in X
    <3>1. f.entry \in DOMAIN f.blocks /\ <<f.entry, 1>> \in Points(f)
      BY <1>1, FunctionTypes, EndPoints
    <3>2. ahead[<<f.entry, 1>>] = <<g.entry, 1>>
      BY <3>1 DEF Sheds
    <3>3. <<g.entry, 1>> \in Starts(g, r, line)
      BY <2>1 DEF Starts
    <3>4. <<g.entry, 1>> \in R
      BY <1>1, <3>3, ReachedLeast
    <3> QED BY <3>1, <3>2, <3>4
  <2>2. ASSUME NEW w \in Points(f), r \in DefinesAt(f, w), InstructionAt(f, w).line = line,
               NEW y \in NextPoints(f, w), r \in LiveBefore(g)[ahead[y]]
        PROVE  ahead[y] \in R
    <3>1. origin[ahead[w]] = w
      BY <2>2, SkippedKeeps
    <3>2. ahead[w] \in Points(g) /\ ahead[y] \in NextPoints(g, ahead[w])
      BY <1>2, <3>1 DEF Sheds
    <3>3. r \in DefinesAt(g, ahead[w])
      BY <2>2, <3>1, <3>2, KeptDefines
    <3>4. ~IsTerminator(g, ahead[w])
      BY <3>3 DEF DefinesAt
    <3>5. InstructionAt(g, ahead[w]) = InstructionAt(f, w)
      BY <3>1, <3>2, <3>4 DEF Sheds
    <3>6. ahead[y] \in Starts(g, r, line)
      BY <2>2, <3>2, <3>3, <3>5 DEF Starts
    <3> QED BY <1>1, <3>6, ReachedLeast
  <2> QED BY <1>2, <2>1, <2>2 DEF Starts
<1>4. ASSUME NEW w \in X, r \notin DefinesAt(f, w), NEW y \in NextPoints(f, w) PROVE y \in X
  <2> SUFFICES ASSUME r \in LiveBefore(g)[ahead[y]] PROVE ahead[y] \in R
    BY <1>2
  <2>1. w \in Points(f) /\ y \in Points(f)
    BY <1>2
  <2>2. CASE origin[ahead[w]] # w
    BY <1>4, <2>1, <2>2, SkippedKeeps
  <2>3. CASE origin[ahead[w]] = w
    <3>1. ahead[w] \in Points(g) /\ ahead[y] \in NextPoints(g, ahead[w])
      BY <2>1, <2>3 DEF Sheds
    <3>2. r \notin DefinesAt(g, ahead[w])
      BY <1>4, <2>3, <3>1, KeptDefines
    <3>3. r \in LiveBefore(g)[ahead[w]]
      BY <1>1, <3>1, <3>2, LiveEquations
    <3>4. ahead[w] \in R
      BY <3>3
    <3> QED BY <1>1, <3>1, <3>2, <3>4, ReachedLeast
  <2> QED BY <2>2, <2>3
<1>5. ReachedFrom(f, r, line) \subseteq X
  <2> HIDE DEF X
  <2> QED BY <1>1, <1>3, <1>4, ReachedLeast
<1> QED BY <1>5

\* Nothing new reaches a live use.
LEMMA ReachesNothingNew ==
  ASSUME NEW f, NEW g, NEW live, NEW origin, NEW ahead, Sheds(f, g, live, origin, ahead),
         NEW line, NEW p, NEW r, p \in ReachedFrom(g, r, line), r \in LiveBefore(g)[p]
  PROVE  origin[p] \in ReachedFrom(f, r, line)
<1> DEFINE R == ReachedFrom(f, r, line)
           X == {q \in Points(g) : r \in LiveBefore(g)[q] => origin[q] \in R}
<1>1. IsFunction(f) /\ IsFunction(g)
  BY DEF Sheds
<1>2. ASSUME NEW y \in R, r \in LiveBefore(g)[ahead[y]] PROVE origin[ahead[y]] \in R
  <2>1. y \in Points(f)
    BY <1>1, ReachedLeast
  <2> QED BY <1>2, <2>1, ReachesPast
<1>3. /\ \A q \in Points(g) : NextPoints(g, q) \subseteq Points(g)
      /\ \A q \in Points(g) : origin[q] \in Points(f)
  BY <1>1, PointsFlow DEF Sheds
<1>4. Starts(g, r, line) \subseteq X
  <2>1. ASSUME line = 0 PROVE <<g.entry, 1>> \in X
    <3>1. f.entry \in DOMAIN f.blocks /\ <<g.entry, 1>> \in Points(g)
      BY <1>1, FunctionTypes, EndPoints
    <3>2. ahead[<<f.entry, 1>>] = <<g.entry, 1>>
      BY <3>1 DEF Sheds
    <3>3. <<f.entry, 1>> \in R
      BY <1>1, <2>1, ReachedLeast DEF Starts
    <3> QED BY <1>2, <3>1, <3>2, <3>3
  <2>2. ASSUME NEW w \in Points(g), r \in DefinesAt(g, w), InstructionAt(g, w).line = line,
               NEW q \in NextPoints(g, w), r \in LiveBefore(g)[q]
        PROVE  origin[q] \in R
    <3>1. PICK y \in NextPoints(f, origin[w]) : ahead[y] = q
      BY DEF Sheds
    <3>2. origin[w] \in Points(f) /\ r \in DefinesAt(f, origin[w])
      BY <1>3, <2>2, KeptDefines
    <3>3. ~IsTerminator(g, w)
      BY <2>2 DEF DefinesAt
    <3>4. InstructionAt(g, w) = InstructionAt(f, origin[w])
      BY <3>3 DEF Sheds
    <3>5. y \in Starts(f, r, line)
      BY <2>2, <3>1, <3>2, <3>4 DEF Starts
    <3>6. y \in R
      BY <1>1, <3>5, ReachedLeast
    <3> QED BY <1>2, <2>2, <3>1, <3>6
  <2> QED BY <1>3, <2>1, <2>2 DEF Starts
<1>5. ASSUME NEW w \in X, r \notin DefinesAt(g, w), NEW q \in NextPoints(g, w) PROVE q \in X
  <2> SUFFICES ASSUME r \in LiveBefore(g)[q] PROVE origin[q] \in R
    BY <1>3
  <2>1. PICK y \in NextPoints(f, origin[w]) : ahead[y] = q
    BY DEF Sheds
  <2>2. origin[w] \in Points(f) /\ r \notin DefinesAt(f, origin[w])
    BY <1>3, <1>5, KeptDefines
  <2>3. r \in LiveBefore(g)[w]
    BY <1>1, <1>5, LiveEquations
  <2>4. y \in R
    BY <1>1, <2>1, <2>2, <2>3, ReachedLeast
  <2> QED BY <1>2, <2>1, <2>4
<1>6. ReachedFrom(g, r, line) \subseteq X
  <2> HIDE DEF X
  <2> QED BY <1>1, <1>4, <1>5, ReachedLeast
<1> QED BY <1>6

\* Which of N instructions, numbered o before, was the first at k or after.
PassesAt(o, N, k, i) == i \in 1 .. N /\ o[i] >= k /\ \A j \in 1 .. N : j < i => o[j] < k

Passes(o, N, k) == CHOOSE i : PassesAt(o, N, k, i)

\* N numbers, strictly ascending, the last of them M.
Ascends(o, N, M) ==
  /\ M \in Nat \ {0} /\ N \in Nat \ {0}
  /\ \A i \in 1 .. N : o[i] \in 1 .. M
  /\ o[N] = M
  /\ \A i, j \in 1 .. N : i < j => o[i] < o[j]

\* What the numbers pass over, k by k.
PassesInOrder(o, N, M) ==
  /\ \A k \in 1 .. M : Passes(o, N, k) \in 1 .. N
  /\ Passes(o, N, 1) = 1
  /\ \A i \in 1 .. N : Passes(o, N, o[i]) = i
  /\ \A i \in 1 .. N - 1 : Passes(o, N, o[i] + 1) = i + 1
  /\ \A k \in 1 .. M - 1 : o[Passes(o, N, k)] # k => Passes(o, N, k + 1) = Passes(o, N, k)

\* Ascending numbers pass over what they leave out, in order.
LEMMA PassesFacts ==
  ASSUME NEW M, NEW N, NEW o, Ascends(o, N, M)
  PROVE  PassesInOrder(o, N, M)
<1> USE DEF Ascends
<1>1. ASSUME NEW k \in 1 .. M PROVE \E i : PassesAt(o, N, k, i)
  <2> DEFINE T == {i \in 1 .. N : o[i] >= k}
  <2>1. N \in T /\ T \subseteq Nat
    OBVIOUS
  <2>2. PICK i \in T : \A j \in T : i <= j
    <3> HIDE DEF T
    <3> QED BY <2>1, LeastNatural
  <2>3. \A j \in 1 .. N : j < i => o[j] < k
    BY <2>2
  <2> QED BY <2>2, <2>3 DEF PassesAt
<1>2. ASSUME NEW k \in Nat, NEW i, NEW j, PassesAt(o, N, k, i), PassesAt(o, N, k, j) PROVE i = j
  BY <1>2 DEF PassesAt
<1>3. ASSUME NEW k \in Nat, NEW i, PassesAt(o, N, k, i)
      PROVE  PassesAt(o, N, k, Passes(o, N, k)) /\ Passes(o, N, k) = i
  <2>1. PassesAt(o, N, k, Passes(o, N, k))
    BY <1>3 DEF Passes
  <2> QED BY <1>2, <1>3, <2>1
<1>4. ASSUME NEW k \in 1 .. M PROVE PassesAt(o, N, k, Passes(o, N, k))
  BY <1>1, <1>3
<1>5. PassesAt(o, N, 1, 1)
  BY DEF PassesAt
<1>6. ASSUME NEW i \in 1 .. N PROVE PassesAt(o, N, o[i], i)
  BY DEF PassesAt
<1>7. ASSUME NEW i \in 1 .. N - 1 PROVE PassesAt(o, N, o[i] + 1, i + 1)
  <2>1. i \in 1 .. N /\ i + 1 \in 1 .. N /\ o[i] \in 1 .. M /\ o[i + 1] \in 1 .. M /\ o[i] < o[i + 1]
    OBVIOUS
  <2>2. ASSUME NEW j \in 1 .. N, j < i + 1 PROVE o[j] < o[i] + 1
    <3>1. j = i \/ j < i
      BY <2>2
    <3>2. o[j] \in 1 .. M
      OBVIOUS
    <3> QED BY <2>1, <3>1, <3>2
  <2> QED BY <2>1, <2>2 DEF PassesAt
<1>8. ASSUME NEW k \in 1 .. M - 1, o[Passes(o, N, k)] # k
      PROVE  PassesAt(o, N, k + 1, Passes(o, N, k))
  <2> DEFINE i == Passes(o, N, k)
  <2>1. k \in 1 .. M
    OBVIOUS
  <2>2. PassesAt(o, N, k, i)
    BY <1>4, <2>1
  <2>3. i \in 1 .. N /\ o[i] >= k /\ o[i] # k /\ \A j \in 1 .. N : j < i => o[j] < k
    BY <1>8, <2>2 DEF PassesAt
  <2> HIDE DEF i
  <2>4. o[i] \in 1 .. M
    BY <2>3
  <2>5. ASSUME NEW j \in 1 .. N, j < i PROVE o[j] < k + 1
    <3>1. o[j] < k /\ o[j] \in 1 .. M
      BY <2>3, <2>5
    <3> QED BY <3>1
  <2>6. PassesAt(o, N, k + 1, i)
    BY <2>3, <2>4, <2>5 DEF PassesAt
  <2> QED BY <2>6 DEF i
<1>9. \A k \in 1 .. M : Passes(o, N, k) \in 1 .. N
  BY <1>4 DEF PassesAt
<1>10. /\ \A i \in 1 .. N : o[i] \in Nat /\ o[i] + 1 \in Nat
       /\ \A i \in 1 .. N - 1 : i \in 1 .. N
  OBVIOUS
<1> QED BY <1>3, <1>10, <1>5, <1>6, <1>7, <1>8, <1>9 DEF PassesInOrder

\* Block by block, what a sweep passes over.
LEMMA SweepPasses ==
  ASSUME NEW f, IsFunction(f), NEW out, \A b \in DOMAIN f.blocks : out[b] \subseteq Reg,
         NEW g, g = Swept(f, out), NEW b \in DOMAIN f.blocks,
         NEW live, live = SweepLive(f, out, b), NEW o, o = SweepOrigin(f, out, b),
         NEW N, N = LastIndex(g, b), NEW M, M = LastIndex(f, b)
  PROVE  /\ Sweeps(f, out, b, g, live, o)
         /\ M \in Nat \ {0} /\ DOMAIN f.blocks[b].code = 1 .. M - 1
         /\ N \in Nat \ {0} /\ DOMAIN g.blocks[b].code = 1 .. N - 1
         /\ Ascends(o, N, M) /\ PassesInOrder(o, N, M) /\ \A i \in 1 .. N : o[i] = M <=> i = N
         /\ \A k \in 1 .. M : o[Passes(o, N, k)] # k => k # M /\ Dead(f.blocks[b], live, k)
         /\ \A k \in 1 .. M : live[k] = live[o[Passes(o, N, k)]]
<1>1. Sweeps(f, out, b, g, live, o)
  BY SweptBlock
<1>2. IsFunction(g) /\ b \in DOMAIN g.blocks
  BY SweptIsFunction
<1>3. /\ M \in Nat \ {0} /\ DOMAIN f.blocks[b].code = 1 .. M - 1
      /\ N \in Nat \ {0} /\ DOMAIN g.blocks[b].code = 1 .. N - 1
  <2>1. /\ DOMAIN f.blocks[b].code = 1 .. Len(f.blocks[b].code) /\ Len(f.blocks[b].code) \in Nat
        /\ LastIndex(f, b) = Len(f.blocks[b].code) + 1
    BY FunctionTypes
  <2>2. /\ DOMAIN g.blocks[b].code = 1 .. Len(g.blocks[b].code) /\ Len(g.blocks[b].code) \in Nat
        /\ LastIndex(g, b) = Len(g.blocks[b].code) + 1
    BY <1>2, FunctionTypes
  <2>3. M - 1 = Len(f.blocks[b].code) /\ M \in Nat \ {0}
    BY <2>1
  <2>4. N - 1 = Len(g.blocks[b].code) /\ N \in Nat \ {0}
    BY <2>2
  <2> QED BY <2>1, <2>2, <2>3, <2>4
<1>4. /\ \A i \in 1 .. N : o[i] \in 1 .. M
      /\ o[N] = M
      /\ \A i \in 1 .. N - 1 : o[i] \in 1 .. M - 1
      /\ \A k \in 1 .. M - 1 : Dead(f.blocks[b], live, k) => live[k] = live[k + 1]
      /\ \A k \in 1 .. M - 1 : Dead(f.blocks[b], live, k) \/ \E i \in 1 .. N - 1 : o[i] = k
  BY <1>1, <1>3 DEF Sweeps
<1>5. \A i, j \in 1 .. N : i < j => o[i] < o[j]
  BY OriginsAscend
<1>6. \A i \in 1 .. N : o[i] = M <=> i = N
  <2> TAKE i \in 1 .. N
  <2>1. i = N \/ i \in 1 .. N - 1
    BY <1>3
  <2>2. i \in 1 .. N - 1 => o[i] # M /\ i # N
    BY <1>3, <1>4
  <2> QED BY <1>4, <2>1, <2>2
<1>7. Ascends(o, N, M) /\ PassesInOrder(o, N, M)
  <2>1. Ascends(o, N, M)
    BY <1>3, <1>4, <1>5 DEF Ascends
  <2> QED BY <2>1, PassesFacts
<1>8. ASSUME NEW k \in 1 .. M, o[Passes(o, N, k)] # k PROVE k # M /\ Dead(f.blocks[b], live, k)
  <2>1. k # M
    <3>1. N \in 1 .. N /\ o[N] = M
      BY <1>3, <1>4
    <3>2. o[Passes(o, N, M)] = M
      BY <1>7, <3>1 DEF PassesInOrder
    <3> QED BY <1>8, <3>2
  <2>2. k \in 1 .. M - 1
    BY <1>3, <2>1
  <2>3. ASSUME NEW i \in 1 .. N - 1, o[i] = k PROVE FALSE
    <3>1. i \in 1 .. N
      BY <1>3
    <3> QED BY <1>7, <1>8, <2>3, <3>1 DEF PassesInOrder
  <2> QED BY <1>4, <2>1, <2>2, <2>3
<1>9. \A k \in 1 .. M : live[k] = live[o[Passes(o, N, k)]]
  <2> DEFINE S == {k \in 1 .. M : live[k] = live[o[Passes(o, N, k)]]}
  <2>1. M \in S
    <3>1. M \in 1 .. M /\ N \in 1 .. N
      BY <1>3
    <3>2. Passes(o, N, M) = N
      BY <1>4, <1>7, <3>1 DEF PassesInOrder
    <3> QED BY <1>4, <3>1, <3>2
  <2>2. ASSUME NEW k \in 1 .. M - 1, k + 1 \in S PROVE k \in S
    <3>1. k \in 1 .. M
      BY <1>3
    <3>2. CASE o[Passes(o, N, k)] = k
      BY <3>1, <3>2
    <3>3. CASE o[Passes(o, N, k)] # k
      BY <1>4, <1>7, <1>8, <2>2, <3>1, <3>3 DEF PassesInOrder
    <3> QED BY <3>2, <3>3
  <2>3. 1 .. M \subseteq S
    <3> HIDE DEF S
    <3> QED BY <1>3, <2>1, <2>2, DownInduction
  <2> QED BY <2>3
<1> QED BY <1>1, <1>3, <1>6, <1>7, <1>8, <1>9

\* A sweep leaves the function without some copies.
LEMMA SweepSheds ==
  ASSUME NEW f, IsFunction(f), NEW g, g = Swept(f, LiveOut(f))
  PROVE  \E live, origin, ahead :
           Sheds(f, g, live, origin, ahead) /\ origin \in [Points(g) -> Points(f)]
<1> DEFINE out == LiveOut(f)
           lives(b) == SweepLive(f, out, b)
           from(b) == SweepOrigin(f, out, b)
           to(b, k) == Passes(from(b), LastIndex(g, b), k)
           live == [x \in Points(f) |-> lives(x[1])[x[2]]]
           origin == [p \in Points(g) |-> <<p[1], from(p[1])[p[2]]>>]
           ahead == [x \in Points(f) |-> <<x[1], to(x[1], x[2])>>]
<1>1. \A b \in DOMAIN f.blocks : out[b] \subseteq Reg
  BY LiveOutIsAfter
<1>2. /\ IsFunction(g) /\ DOMAIN g.blocks = DOMAIN f.blocks /\ g.entry = f.entry
      /\ \A b \in DOMAIN f.blocks : g.blocks[b].next = f.blocks[b].next
  <2> HIDE DEF out
  <2>1. g = Swept(f, out)
    BY DEF out
  <2>2. IsFunction(g) /\ DOMAIN g.blocks = DOMAIN f.blocks
    BY <1>1, <2>1, SweptIsFunction
  <2>3. g.entry = f.entry /\ \A b \in DOMAIN f.blocks : g.blocks[b].next = f.blocks[b].next
    BY <2>1 DEF Swept, IsFunction
  <2> QED BY <2>2, <2>3
<1>3. ASSUME NEW b \in DOMAIN f.blocks, NEW N, N = LastIndex(g, b), NEW M, M = LastIndex(f, b)
      PROVE  /\ M \in Nat \ {0} /\ DOMAIN f.blocks[b].code = 1 .. M - 1
             /\ N \in Nat \ {0} /\ DOMAIN g.blocks[b].code = 1 .. N - 1
             /\ \A i \in 1 .. N : from(b)[i] \in 1 .. M /\ (from(b)[i] = M <=> i = N)
             /\ \A i, j \in 1 .. N : i < j => from(b)[i] < from(b)[j]
             /\ \A i \in 1 .. N - 1 : g.blocks[b].code[i] = f.blocks[b].code[from(b)[i]]
             /\ \A k \in 1 .. M : to(b, k) \in 1 .. N
             /\ to(b, 1) = 1
             /\ \A i \in 1 .. N : to(b, from(b)[i]) = i
             /\ \A i \in 1 .. N - 1 : to(b, from(b)[i] + 1) = i + 1
             /\ \A k \in 1 .. M - 1 : from(b)[to(b, k)] # k => to(b, k + 1) = to(b, k)
             /\ \A k \in 1 .. M : from(b)[to(b, k)] # k => k # M /\ Dead(f.blocks[b], lives(b), k)
             /\ \A k \in 1 .. M : lives(b)[k] = lives(b)[from(b)[to(b, k)]]
  <2> DEFINE l == lives(b)
             o == from(b)
  <2> HIDE DEF l, o, out
  <2>1. l = SweepLive(f, out, b) /\ o = SweepOrigin(f, out, b) /\ g = Swept(f, out)
    BY DEF l, o, out
  <2>2. Sweeps(f, out, b, g, l, o)
    BY <1>1, <1>3, <2>1, SweepPasses
  <2>3. \A i \in DOMAIN g.blocks[b].code : g.blocks[b].code[i] = f.blocks[b].code[o[i]]
    BY <2>2 DEF Sweeps
  <2>4. /\ M \in Nat \ {0} /\ DOMAIN f.blocks[b].code = 1 .. M - 1
        /\ N \in Nat \ {0} /\ DOMAIN g.blocks[b].code = 1 .. N - 1
        /\ Ascends(o, N, M) /\ PassesInOrder(o, N, M) /\ \A i \in 1 .. N : o[i] = M <=> i = N
        /\ \A k \in 1 .. M : o[Passes(o, N, k)] # k => k # M /\ Dead(f.blocks[b], l, k)
        /\ \A k \in 1 .. M : l[k] = l[o[Passes(o, N, k)]]
    BY <1>1, <1>3, <2>1, SweepPasses
  <2> QED BY <1>3, <2>3, <2>4 DEF l, o, Ascends, PassesInOrder
<1> HIDE DEF to
<1>4. ASSUME NEW p \in Points(g)
      PROVE  /\ p = <<p[1], p[2]>> /\ p[1] \in DOMAIN f.blocks /\ p[2] \in 1 .. LastIndex(g, p[1])
             /\ origin[p] = <<p[1], from(p[1])[p[2]]>> /\ origin[p] \in Points(f)
  <2>1. p = <<p[1], p[2]>> /\ p[1] \in DOMAIN f.blocks /\ p[2] \in 1 .. LastIndex(g, p[1])
    BY <1>2, PointShape
  <2>2. origin[p] = <<p[1], from(p[1])[p[2]]>> /\ from(p[1])[p[2]] \in 1 .. LastIndex(f, p[1])
    BY <1>3, <2>1
  <2>3. <<p[1], from(p[1])[p[2]]>> \in Points(f)
    BY <2>1, <2>2, PointShape
  <2> QED BY <2>1, <2>2, <2>3
<1>5. ASSUME NEW x \in Points(f)
      PROVE  /\ x = <<x[1], x[2]>> /\ x[1] \in DOMAIN f.blocks /\ x[2] \in 1 .. LastIndex(f, x[1])
             /\ ahead[x] = <<x[1], to(x[1], x[2])>> /\ ahead[x] \in Points(g)
             /\ live[x] = lives(x[1])[x[2]]
             /\ origin[ahead[x]] = <<x[1], from(x[1])[to(x[1], x[2])]>>
  <2>1. x = <<x[1], x[2]>> /\ x[1] \in DOMAIN f.blocks /\ x[2] \in 1 .. LastIndex(f, x[1])
    BY PointShape
  <2>2. ahead[x] = <<x[1], to(x[1], x[2])>> /\ to(x[1], x[2]) \in 1 .. LastIndex(g, x[1])
    BY <1>3, <2>1
  <2>3. <<x[1], to(x[1], x[2])>> \in Points(g)
    BY <1>2, <2>1, <2>2, PointShape
  <2>4. origin[<<x[1], to(x[1], x[2])>>] = <<x[1], from(x[1])[to(x[1], x[2])]>>
    BY <1>4, <2>3
  <2> QED BY <2>1, <2>2, <2>3, <2>4
<1>6. origin \in [Points(g) -> Points(f)]
  BY <1>4
<1> HIDE DEF live, origin, ahead, lives, from, out
<1>7. \A b \in DOMAIN f.blocks : ahead[<<b, 1>>] = <<b, 1>>
  <2> TAKE b \in DOMAIN f.blocks
  <2>1. <<b, 1>> \in Points(f)
    BY EndPoints
  <2>2. to(b, 1) = 1
    BY <1>3
  <2> QED BY <1>5, <2>1, <2>2
<1>8. ASSUME NEW p \in Points(g)
      PROVE  /\ IsTerminator(g, p) <=> IsTerminator(f, origin[p])
             /\ ~IsTerminator(g, p) => InstructionAt(g, p) = InstructionAt(f, origin[p])
             /\ ahead[origin[p]] = p
             /\ LiveBefore(g)[p] \subseteq live[origin[p]]
             /\ \A q \in NextPoints(g, p) : \E y \in NextPoints(f, origin[p]) : ahead[y] = q
             /\ \A q \in Points(g) : (p[1] = q[1] /\ p[2] < q[2]) => origin[p][2] < origin[q][2]
  <2> DEFINE b == p[1]  i == p[2]
             M == LastIndex(f, b)  N == LastIndex(g, b)
             o == from(b)  x == origin[p]
  <2>1. p = <<b, i>> /\ b \in DOMAIN f.blocks /\ i \in 1 .. N /\ x = <<b, o[i]>> /\ x \in Points(f)
    BY <1>4
  <2>2. /\ N \in Nat \ {0} /\ M \in Nat \ {0}
        /\ \A j \in 1 .. N : o[j] \in 1 .. M /\ (o[j] = M <=> j = N)
        /\ \A j, k \in 1 .. N : j < k => o[j] < o[k]
        /\ \A j \in 1 .. N - 1 : g.blocks[b].code[j] = f.blocks[b].code[o[j]]
        /\ \A j \in 1 .. N : to(b, o[j]) = j
        /\ \A j \in 1 .. N - 1 : to(b, o[j] + 1) = j + 1
    <3>1. b \in DOMAIN f.blocks /\ N = LastIndex(g, b) /\ M = LastIndex(f, b)
      BY <2>1
    <3> HIDE DEF b, N, M
    <3> QED BY <1>3, <3>1
  <2>3. live[x] = lives(b)[o[i]] /\ ahead[x] = <<b, to(b, o[i])>>
    BY <1>5, <2>1
  <2>4. LiveBefore(g)[p] \subseteq lives(b)[o[i]]
    BY SweptLive DEF lives, from, out
  <2>5. \A q \in Points(g) : q[2] \in 1 .. LastIndex(g, q[1]) /\ origin[q] = <<q[1], from(q[1])[q[2]]>>
    BY <1>4
  <2>6. ASSUME NEW q \in Points(g), b = q[1], i < q[2] PROVE x[2] < origin[q][2]
    BY <2>1, <2>2, <2>5, <2>6
  <2>7. IsTerminator(g, p) <=> IsTerminator(f, x)
    BY <2>1, <2>2 DEF IsTerminator
  <2>8. CASE IsTerminator(g, p)
    <3>1. /\ NextPoints(g, p) = {<<s, 1>> : s \in f.blocks[b].next}
          /\ NextPoints(f, x) = {<<s, 1>> : s \in f.blocks[b].next}
      BY <1>2, <2>1, <2>7, <2>8 DEF NextPoints
    <3>2. \A s \in f.blocks[b].next : ahead[<<s, 1>>] = <<s, 1>>
      BY <1>7, <2>1, FunctionTypes
    <3>3. \A q \in NextPoints(g, p) : \E y \in NextPoints(f, x) : ahead[y] = q
      BY <3>1, <3>2
    <3> QED BY <2>1, <2>2, <2>3, <2>4, <2>6, <2>7, <2>8, <3>3 DEF i, b, x
  <2>9. CASE ~IsTerminator(g, p)
    <3>1. i \in 1 .. N - 1
      BY <2>1, <2>2, <2>9 DEF IsTerminator
    <3>2. NextPoints(g, p) = {<<b, i + 1>>} /\ NextPoints(f, x) = {<<b, o[i] + 1>>}
      BY <2>1, <2>7, <2>9 DEF NextPoints
    <3>3. ahead[<<b, o[i] + 1>>] = <<b, i + 1>>
      <4>1. <<b, o[i] + 1>> \in Points(f)
        BY <2>1, <3>2, PointsFlow
      <4> QED BY <1>5, <2>2, <3>1, <4>1
    <3>4. InstructionAt(g, p) = InstructionAt(f, x)
      BY <2>1, <2>2, <3>1 DEF InstructionAt
    <3>5. \A q \in NextPoints(g, p) : \E y \in NextPoints(f, x) : ahead[y] = q
      BY <3>2, <3>3
    <3> QED BY <2>1, <2>2, <2>3, <2>4, <2>6, <2>7, <3>4, <3>5 DEF i, b, x
  <2> QED BY <2>8, <2>9
<1>9. ASSUME NEW x \in Points(f)
      PROVE  /\ live[x] = live[origin[ahead[x]]] /\ live[x] \subseteq LiveBefore(f)[x]
             /\ origin[ahead[x]] # x =>
                  /\ ~IsTerminator(f, x) /\ InstructionAt(f, x).op = "copy"
                  /\ \A y \in NextPoints(f, x) : ahead[y] = ahead[x] /\ InstructionAt(f, x).dst \notin live[y]
             /\ origin[ahead[x]] = x => \A y \in NextPoints(f, x) : ahead[y] \in NextPoints(g, ahead[x])
  <2> DEFINE b == x[1]  k == x[2]
             M == LastIndex(f, b)  N == LastIndex(g, b)
             o == from(b)  i == to(b, k)
  <2>1. /\ x = <<b, k>> /\ b \in DOMAIN f.blocks /\ k \in 1 .. M
        /\ ahead[x] = <<b, i>> /\ ahead[x] \in Points(g) /\ origin[ahead[x]] = <<b, o[i]>>
        /\ live[x] = lives(b)[k]
    BY <1>5
  <2>2. /\ N \in Nat \ {0} /\ M \in Nat \ {0} /\ DOMAIN f.blocks[b].code = 1 .. M - 1 /\ i \in 1 .. N
        /\ \A j \in 1 .. N : o[j] = M <=> j = N
        /\ \A j \in 1 .. N - 1 : to(b, o[j] + 1) = j + 1
        /\ k # M /\ o[i] # k => to(b, k + 1) = i
        /\ o[i] # k => k # M /\ Dead(f.blocks[b], lives(b), k)
        /\ lives(b)[k] = lives(b)[o[i]]
    <3>1. k # M => k \in 1 .. M - 1
      BY <1>3, <2>1
    <3> QED BY <1>3, <2>1, <3>1
  <2>3. live[x] = live[origin[ahead[x]]]
    BY <1>4, <1>5, <2>1, <2>2
  <2>4. live[x] \subseteq LiveBefore(f)[x]
    BY <2>1, SweepLiveIsLive DEF lives, out
  <2>5. ASSUME k # M
        PROVE  /\ ~IsTerminator(f, x) /\ NextPoints(f, x) = {<<b, k + 1>>}
               /\ live[<<b, k + 1>>] = lives(b)[k + 1] /\ ahead[<<b, k + 1>>] = <<b, to(b, k + 1)>>
    <3>1. ~IsTerminator(f, x) /\ NextPoints(f, x) = {<<b, k + 1>>}
      BY <2>1, <2>5 DEF NextPoints, IsTerminator
    <3>2. <<b, k + 1>> \in Points(f)
      BY <3>1, PointsFlow
    <3> QED BY <1>5, <3>1, <3>2
  <2>6. ASSUME origin[ahead[x]] # x
        PROVE  /\ ~IsTerminator(f, x) /\ InstructionAt(f, x).op = "copy"
               /\ \A y \in NextPoints(f, x) : ahead[y] = ahead[x] /\ InstructionAt(f, x).dst \notin live[y]
    <3>1. o[i] # k
      BY <2>1, <2>6
    <3>2. k # M /\ Dead(f.blocks[b], lives(b), k) /\ to(b, k + 1) = i
      BY <2>2, <3>1
    <3>3. f.blocks[b].code[k].op = "copy" /\ f.blocks[b].code[k].dst \notin lives(b)[k + 1]
      BY <3>2 DEF Dead
    <3>4. InstructionAt(f, x) = f.blocks[b].code[k]
      BY DEF InstructionAt
    <3> QED BY <2>1, <2>5, <3>2, <3>3, <3>4
  <2>7. ASSUME origin[ahead[x]] = x, NEW y \in NextPoints(f, x) PROVE ahead[y] \in NextPoints(g, ahead[x])
    <3>1. o[i] = k
      BY <2>1, <2>7
    <3>2. CASE k = M
      <4>1. i = N
        BY <2>2, <3>1, <3>2
      <4>2. /\ NextPoints(g, ahead[x]) = {<<s, 1>> : s \in f.blocks[b].next}
            /\ NextPoints(f, x) = {<<s, 1>> : s \in f.blocks[b].next}
        BY <1>2, <2>1, <3>2, <4>1 DEF NextPoints, IsTerminator
      <4>3. \A s \in f.blocks[b].next : ahead[<<s, 1>>] = <<s, 1>>
        BY <1>7, <2>1, FunctionTypes
      <4> QED BY <4>2, <4>3
    <3>3. CASE k # M
      <4>1. i \in 1 .. N - 1
        BY <2>2, <3>1, <3>3
      <4>2. to(b, k + 1) = i + 1
        BY <2>2, <3>1, <4>1
      <4>3. NextPoints(g, ahead[x]) = {<<b, i + 1>>}
        BY <2>1, <2>2, <4>1 DEF NextPoints, IsTerminator
      <4> QED BY <2>5, <2>7, <3>3, <4>2, <4>3
    <3> QED BY <3>2, <3>3
  <2> QED BY <2>3, <2>4, <2>6, <2>7
<1>10. \A p \in Points(g) : origin[p] \in Points(f) /\ origin[p][1] = p[1]
  BY <1>4
<1>11. Sheds(f, g, live, origin, ahead)
  BY <1>2, <1>5, <1>8, <1>9, <1>7, <1>10 DEF Sheds
<1> QED BY <1>6, <1>11

\* g is f, in its order, without some copies, and what is live in it is reached by the
\* writes that reached it in f.
Descends(f, g, o) ==
  /\ o \in [Points(g) -> Points(f)]
  /\ \A p \in Points(g) :
       /\ o[p][1] = p[1]
       /\ IsTerminator(g, p) <=> IsTerminator(f, o[p])
       /\ ~IsTerminator(g, p) => InstructionAt(g, p) = InstructionAt(f, o[p])
       /\ LiveBefore(g)[p] \subseteq LiveBefore(f)[o[p]]
  /\ \A p, q \in Points(g) : (p[1] = q[1] /\ p[2] < q[2]) => o[p][2] < o[q][2]
  /\ \A x \in Points(f) :
       (\A p \in Points(g) : o[p] # x) => ~IsTerminator(f, x) /\ InstructionAt(f, x).op = "copy"
  /\ \A p \in Points(g) : \A r \in LiveBefore(g)[p] : \A line :
       p \in ReachedFrom(g, r, line) <=> o[p] \in ReachedFrom(f, r, line)

\* A function descends from itself.
LEMMA DescendsFromItself ==
  ASSUME NEW f
  PROVE  \E o : Descends(f, f, o)
<1> DEFINE o == [p \in Points(f) |-> p]
<1>1. \A p \in Points(f) : o[p] = p
  OBVIOUS
<1>2. o \in [Points(f) -> Points(f)]
  OBVIOUS
<1> HIDE DEF o
<1>3. Descends(f, f, o)
  BY <1>1, <1>2 DEF Descends
<1> QED BY <1>3

\* One sweep makes a descendant.
LEMMA SweepDescends ==
  ASSUME NEW f, IsFunction(f), NEW g, g = Swept(f, LiveOut(f))
  PROVE  \E o : Descends(f, g, o)
<1>1. PICK live, origin, ahead :
        Sheds(f, g, live, origin, ahead) /\ origin \in [Points(g) -> Points(f)]
  BY SweepSheds
<1>2. ASSUME NEW p \in Points(g)
      PROVE  /\ origin[p] \in Points(f) /\ origin[p][1] = p[1]
             /\ IsTerminator(g, p) <=> IsTerminator(f, origin[p])
             /\ ~IsTerminator(g, p) => InstructionAt(g, p) = InstructionAt(f, origin[p])
             /\ ahead[origin[p]] = p
             /\ LiveBefore(g)[p] \subseteq LiveBefore(f)[origin[p]]
             /\ \A q \in Points(g) : (p[1] = q[1] /\ p[2] < q[2]) => origin[p][2] < origin[q][2]
  BY <1>1 DEF Sheds
<1>3. ASSUME NEW x \in Points(f), \A p \in Points(g) : origin[p] # x
      PROVE  ~IsTerminator(f, x) /\ InstructionAt(f, x).op = "copy"
  <2>1. ahead[x] \in Points(g)
    BY <1>1 DEF Sheds
  <2>2. origin[ahead[x]] # x
    BY <1>3, <2>1
  <2> QED BY <1>1, <2>2 DEF Sheds
<1>4. ASSUME NEW p \in Points(g), NEW r \in LiveBefore(g)[p], NEW line
      PROVE  p \in ReachedFrom(g, r, line) <=> origin[p] \in ReachedFrom(f, r, line)
  <2>1. ahead[origin[p]] = p
    BY <1>2
  <2>2. ASSUME p \in ReachedFrom(g, r, line) PROVE origin[p] \in ReachedFrom(f, r, line)
    BY <1>1, <2>2, ReachesNothingNew
  <2>3. ASSUME origin[p] \in ReachedFrom(f, r, line) PROVE p \in ReachedFrom(g, r, line)
    BY <1>1, <2>1, <2>3, ReachesKept
  <2> QED BY <2>2, <2>3
<1>5. Descends(f, g, origin)
  BY <1>1, <1>2, <1>3, <1>4 DEF Descends
<1> QED BY <1>5

\* A descendant's descendant is one.
LEMMA DescendsAgain ==
  ASSUME NEW f, NEW g, NEW h, NEW o, Descends(f, g, o), NEW n, Descends(g, h, n)
  PROVE  \E m : Descends(f, h, m)
<1> DEFINE m == [p \in Points(h) |-> o[n[p]]]
<1>1. /\ o \in [Points(g) -> Points(f)] /\ n \in [Points(h) -> Points(g)]
      /\ \A p \in Points(h) : n[p] \in Points(g) /\ m[p] = o[n[p]] /\ m[p] \in Points(f)
      /\ m \in [Points(h) -> Points(f)]
  BY DEF Descends
<1> HIDE DEF m
<1>2. ASSUME NEW p \in Points(h)
      PROVE  /\ m[p][1] = p[1]
             /\ IsTerminator(h, p) <=> IsTerminator(f, m[p])
             /\ ~IsTerminator(h, p) => InstructionAt(h, p) = InstructionAt(f, m[p])
             /\ LiveBefore(h)[p] \subseteq LiveBefore(f)[m[p]]
  BY <1>1 DEF Descends
<1>3. ASSUME NEW p \in Points(h), NEW q \in Points(h), p[1] = q[1], p[2] < q[2]
      PROVE  m[p][2] < m[q][2]
  <2>1. n[p][1] = n[q][1] /\ n[p][2] < n[q][2]
    BY <1>3 DEF Descends
  <2> QED BY <1>1, <2>1 DEF Descends
<1>4. ASSUME NEW x \in Points(f), \A p \in Points(h) : m[p] # x
      PROVE  ~IsTerminator(f, x) /\ InstructionAt(f, x).op = "copy"
  <2>1. CASE \A q \in Points(g) : o[q] # x
    BY <2>1 DEF Descends
  <2>2. CASE \E q \in Points(g) : o[q] = x
    <3>1. PICK q \in Points(g) : o[q] = x
      BY <2>2
    <3>2. \A p \in Points(h) : n[p] # q
      BY <1>1, <1>4, <3>1
    <3>3. ~IsTerminator(g, q) /\ InstructionAt(g, q).op = "copy"
      BY <3>2 DEF Descends
    <3> QED BY <3>1, <3>3 DEF Descends
  <2> QED BY <2>1, <2>2
<1>5. ASSUME NEW p \in Points(h), NEW r \in LiveBefore(h)[p], NEW line
      PROVE  p \in ReachedFrom(h, r, line) <=> m[p] \in ReachedFrom(f, r, line)
  <2>1. n[p] \in Points(g) /\ r \in LiveBefore(g)[n[p]]
    BY <1>1 DEF Descends
  <2>2. p \in ReachedFrom(h, r, line) <=> n[p] \in ReachedFrom(g, r, line)
    BY DEF Descends
  <2>3. n[p] \in ReachedFrom(g, r, line) <=> o[n[p]] \in ReachedFrom(f, r, line)
    BY <2>1 DEF Descends
  <2> QED BY <1>1, <2>2, <2>3
<1>6. Descends(f, h, m)
  BY <1>1, <1>2, <1>3, <1>4, <1>5 DEF Descends
<1> QED BY <1>6

\* Through every sweep the function descends from its source.
DescentInv == LivenessInv /\ \E o : Descends(source, fn, o)

\* Every reachable state has such an origin.
LEMMA DescentInvHolds == Spec => []DescentInv
<1>1. Init /\ LivenessInv => DescentInv
  BY DescendsFromItself DEF Init, DescentInv
<1>2. DescentInv /\ LivenessInv' /\ [Next]_vars => DescentInv'
  <2> SUFFICES ASSUME DescentInv, LivenessInv', [Next]_vars
               PROVE  \E o : Descends(source', fn', o)
    BY DEF DescentInv
  <2>1. LivenessInv /\ \E o : Descends(source, fn, o)
    BY DEF DescentInv
  <2>2. CASE UNCHANGED <<source, fn>>
    BY <2>1, <2>2
  <2>3. CASE RemoveDeadCopies
    <3>1. pc = "stable" /\ source' = source /\ fn' = Swept(fn, liveOut)
      BY <2>3 DEF RemoveDeadCopies
    <3>2. IsFunction(fn) /\ liveOut = [b \in DOMAIN fn.blocks |-> liveOut[b]]
      BY <2>1 DEF LivenessInv, RoundInv
    <3>3. \A b \in DOMAIN fn.blocks : liveOut[b] = LiveOut(fn)[b]
      BY <2>1, <3>1, <3>2, StableIsExact, LiveOutIsAfter
    <3>4. liveOut = LiveOut(fn)
      BY <3>2, <3>3 DEF LiveOut
    <3>5. \E n : Descends(fn, fn', n)
      BY <3>1, <3>2, <3>4, SweepDescends
    <3> QED BY <2>1, <3>1, <3>5, DescendsAgain
  <2> QED BY <2>2, <2>3 DEF Next, vars, VisitBlock, EndRound, Finished
<1> QED BY <1>1, <1>2, LivenessInvHolds, PTL DEF Spec

\* Removing copies, sweep after sweep, changes nothing a program can see: what is left
\* is the source in its order without some copies, and every instruction left reads
\* what the same writes produced.
THEOREM SweepsPreserveReads == Spec => []SweepPreservesReads
<1>1. DescentInv => SweepPreservesReads
  <2> SUFFICES ASSUME DescentInv, pc = "clean", LinesDistinct(source) PROVE SweepPreservesReads
    BY DEF SweepPreservesReads
  <2>1. IsFunction(source) /\ IsFunction(fn)
    BY DEF DescentInv, LivenessInv
  <2>2. PICK o : Descends(source, fn, o)
    BY DEF DescentInv
  <2>3. \A p \in Points(fn) : o[p] \in Points(source)
    BY <2>2 DEF Descends
  <2>4. ASSUME NEW p \in Points(fn) PROVE Origin(p) = o[p]
    <3>1. /\ o[p] \in Points(source) /\ o[p][1] = p[1]
          /\ IsTerminator(fn, p) <=> IsTerminator(source, o[p])
          /\ ~IsTerminator(fn, p) => InstructionAt(fn, p) = InstructionAt(source, o[p])
      BY <2>2, <2>3 DEF Descends
    <3>2. CASE IsTerminator(fn, p)
      <4>1. o[p] = <<p[1], LastIndex(source, p[1])>>
        BY <2>1, <3>1, <3>2, PointShape DEF IsTerminator
      <4> QED BY <3>2, <4>1 DEF Origin
    <3>3. CASE ~IsTerminator(fn, p)
      <4> DEFINE Was(q) == /\ q[1] = p[1] /\ ~IsTerminator(source, q)
                           /\ InstructionAt(source, q) = InstructionAt(fn, p)
      <4>1. Was(o[p])
        BY <3>1, <3>3
      <4>2. ASSUME NEW q \in Points(source), Was(q) PROVE q = o[p]
        <5>1. InstructionAt(source, q).line = InstructionAt(source, o[p]).line
          BY <4>1, <4>2
        <5> QED BY <2>1, <3>1, <4>1, <4>2, <5>1 DEF LinesDistinct
      <4>3. Origin(p) = CHOOSE q \in Points(source) : Was(q)
        BY <3>3 DEF Origin
      <4> HIDE DEF Was
      <4> QED BY <3>1, <4>1, <4>2, <4>3
    <3> QED BY <3>2, <3>3
  <2>5. ASSUME NEW p \in Points(fn), ~IsTerminator(fn, p)
        PROVE  /\ Origin(p) \in Points(source) /\ ~IsTerminator(source, Origin(p))
               /\ InstructionAt(source, Origin(p)) = InstructionAt(fn, p)
    BY <2>2, <2>3, <2>4, <2>5 DEF Descends
  <2>6. ASSUME NEW p \in Points(fn), NEW q \in Points(fn), p[1] = q[1], p[2] < q[2]
        PROVE  Origin(p)[2] < Origin(q)[2]
    BY <2>2, <2>4, <2>6 DEF Descends
  <2>7. ASSUME NEW x \in Points(source), \A p \in Points(fn) : Origin(p) # x
        PROVE  ~IsTerminator(source, x) /\ InstructionAt(source, x).op = "copy"
    BY <2>2, <2>4, <2>7 DEF Descends
  <2>8. ASSUME NEW r, NEW line, NEW p \in Points(fn), r \in ReadsAt(fn, p)
        PROVE  p \in ReachedFrom(fn, r, line) <=> Origin(p) \in ReachedFrom(source, r, line)
    <3>1. r \in LiveBefore(fn)[p]
      BY <2>1, <2>8, LiveEquations
    <3> QED BY <2>2, <2>4, <3>1 DEF Descends
  <2> QED BY <2>5, <2>6, <2>7, <2>8 DEF SweepPreservesReads
<1> QED BY <1>1, DescentInvHolds, PTL
===========================================================================
