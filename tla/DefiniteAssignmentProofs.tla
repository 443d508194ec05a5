----------------------- MODULE DefiniteAssignmentProofs -----------------------
(***************************************************************************)
(* A function the verifier accepts never reads a register it has not       *)
(* assigned, whatever its control flow, and a function it refuses has a    *)
(* path that does.                                                         *)
(***************************************************************************)
EXTENDS DefiniteAssignment, IrProofs

Types ==
  /\ fn \in Candidates
  /\ Blocks = 1 .. Len(fn.blocks) /\ Len(fn.blocks) \in Nat
  /\ atEntry = [b \in Blocks |-> atEntry[b]]
  /\ atExit = [b \in Blocks |-> atExit[b]]
  /\ predecessors = [b \in Blocks |-> predecessors[b]]
  /\ reachable \subseteq Blocks /\ pending \subseteq Blocks
  /\ block \in Nat \ {0}

\* Discovery knows every edge out of the blocks it has seen, and where each leads is
\* seen or will be.
EdgesFound ==
  /\ fn.entry \in reachable \cup pending
  /\ \A b \in reachable : \A n \in fn.blocks[b].next :
       n \in reachable \cup pending /\ b \in predecessors[n]
  /\ pc # "discover" => pending = {}

Settled(b) == atEntry[b] = Incoming(b) /\ atExit[b] = atEntry[b] \cup Written(b)

\* While nothing has changed in a round, the blocks visited in it are settled.
RoundInv ==
  /\ pc = "discover" => block = 1
  /\ pc = "flow" => \A b \in reachable : (~changed /\ b < block) => Settled(b)
  /\ pc = "accepted" => ReadsVerified /\ \A b \in reachable : Settled(b)

\* What the flow promises at the point control has reached is there.
WalkInv ==
  /\ at \in Points(fn)
  /\ pc # "accepted" => at = <<fn.entry, 1>> /\ assigned = Params(fn)
  /\ pc = "accepted" => at[1] \in reachable /\ AssignedBefore(at[1], at[2]) \subseteq assigned

VerifierInv == Types /\ EdgesFound /\ RoundInv /\ WalkInv

LEMMA BlockTypes ==
  ASSUME NEW f \in Candidates
  PROVE  /\ DOMAIN f.blocks = 1 .. Len(f.blocks) /\ Len(f.blocks) \in Nat
         /\ f.entry \in DOMAIN f.blocks
         /\ \A b \in DOMAIN f.blocks :
              /\ f.blocks[b].next \subseteq DOMAIN f.blocks
              /\ DOMAIN f.blocks[b].code = 1 .. Len(f.blocks[b].code)
              /\ Len(f.blocks[b].code) \in Nat
<1>1. IsFunction(f)
  BY CandidatesAssumption
<1>2. f.blocks \in Seq(Block)
  BY <1>1 DEF IsFunction
<1>3. \A b \in DOMAIN f.blocks : f.blocks[b] \in Block
  BY <1>2
<1>4. \A b \in DOMAIN f.blocks : f.blocks[b].code \in Seq(Instruction)
  BY <1>3 DEF Block
<1>5. \A b \in DOMAIN f.blocks :
        DOMAIN f.blocks[b].code = 1 .. Len(f.blocks[b].code) /\ Len(f.blocks[b].code) \in Nat
  BY <1>4
<1> QED
  BY <1>1, <1>2, <1>5 DEF IsFunction

\* Points are what they look like.
LEMMA PointTypes ==
  ASSUME NEW f \in Candidates
  PROVE  \A b, k : <<b, k>> \in Points(f) <=> b \in DOMAIN f.blocks /\ k \in 1 .. LastIndex(f, b)
BY DEF Points

LEMMA PointPairs ==
  ASSUME NEW f \in Candidates, NEW p \in Points(f)
  PROVE  p = <<p[1], p[2]>> /\ p[1] \in DOMAIN f.blocks /\ p[2] \in 1 .. LastIndex(f, p[1])
BY DEF Points

LEMMA VerifierInvInit == Init => VerifierInv
<1> SUFFICES ASSUME Init PROVE VerifierInv
  OBVIOUS
<1>1. fn \in Candidates /\ fn.entry \in Blocks
  BY BlockTypes DEF Init, Blocks
<1>2. Types
  BY <1>1, BlockTypes DEF Init, Types, Blocks
<1>3. EdgesFound /\ RoundInv
  BY DEF Init, EdgesFound, RoundInv
<1>4. LastIndex(fn, fn.entry) \in Nat /\ 1 <= LastIndex(fn, fn.entry)
  BY <1>1, BlockTypes DEF LastIndex, Blocks
<1>5. WalkInv
  BY <1>1, <1>4, PointTypes DEF Init, WalkInv, Blocks
<1> QED BY <1>2, <1>3, <1>5 DEF VerifierInv

\* Before the verdict nothing walks.
LEMMA NotWalking ==
  ASSUME VerifierInv, pc # "accepted", pc' # "accepted", UNCHANGED <<fn, walk>>
  PROVE  WalkInv'
<1>1. at \in Points(fn) /\ at = <<fn.entry, 1>> /\ assigned = Params(fn)
  BY DEF VerifierInv, WalkInv
<1>2. at' = at /\ assigned' = assigned /\ fn' = fn
  BY DEF walk
<1>3. at' \in Points(fn') /\ at' = <<fn'.entry, 1>> /\ assigned' = Params(fn')
  BY <1>1, <1>2
<1> QED BY <1>3 DEF WalkInv

LEMMA DiscoverInv ==
  ASSUME VerifierInv, Discover
  PROVE  VerifierInv'
<1>1. PICK b \in pending :
        IF b \in reachable THEN pending' = pending \ {b} /\ UNCHANGED <<reachable, predecessors>>
        ELSE /\ reachable' = reachable \cup {b}
             /\ predecessors' = [n \in Blocks |->
                  IF n \in fn.blocks[b].next THEN predecessors[n] \cup {b} ELSE predecessors[n]]
             /\ pending' = (pending \ {b}) \cup fn.blocks[b].next
  BY DEF Discover
<1>2. /\ pc = "discover" /\ pc' = "discover" /\ fn' = fn
      /\ UNCHANGED <<flow, walk>>
  BY DEF Discover
<1>3. b \in Blocks /\ fn.blocks[b].next \subseteq Blocks /\ fn \in Candidates
  BY BlockTypes DEF VerifierInv, Types, Blocks
<1>4. Types' /\ EdgesFound'
  <2>1. CASE b \in reachable
    BY <1>1, <1>2, <2>1 DEF VerifierInv, Types, EdgesFound, flow, Blocks
  <2>2. CASE b \notin reachable
    <3>1. Types'
      BY <1>1, <1>2, <1>3, <2>2 DEF VerifierInv, Types, flow, Blocks
    <3>2. fn.entry \in reachable' \cup pending'
      BY <1>1, <2>2 DEF VerifierInv, EdgesFound
    <3>3. ASSUME NEW a \in reachable', NEW n \in fn.blocks[a].next
          PROVE  n \in reachable' \cup pending' /\ a \in predecessors'[n]
      <4>1. n \in Blocks
        BY <1>1, <1>3, <2>2, BlockTypes DEF VerifierInv, Types, Blocks
      <4>2. CASE a = b
        BY <1>1, <2>2, <4>1, <4>2
      <4>3. CASE a \in reachable
        BY <1>1, <2>2, <4>1, <4>3 DEF VerifierInv, EdgesFound
      <4> QED BY <1>1, <2>2, <4>2, <4>3
    <3> QED BY <1>2, <3>1, <3>2, <3>3 DEF EdgesFound
  <2> QED BY <2>1, <2>2
<1>5. RoundInv'
  BY <1>2 DEF VerifierInv, RoundInv, flow
<1>6. WalkInv'
  BY <1>2, NotWalking
<1> QED BY <1>4, <1>5, <1>6 DEF VerifierInv

LEMMA VisitBlockInv ==
  ASSUME VerifierInv, VisitBlock
  PROVE  VerifierInv'
<1> DEFINE entry == Incoming(block)
           exit == Incoming(block) \cup Written(block)
<1>1. /\ pc = "flow" /\ pc' = "flow" /\ block \in Blocks /\ block' = block + 1
      /\ UNCHANGED <<fn, pending, reachable, predecessors, walk>>
  BY DEF VisitBlock
<1>2. EdgesFound' /\ WalkInv'
  BY <1>1, NotWalking DEF VerifierInv, EdgesFound
<1>3. CASE block \in reachable
  <2>1. /\ atEntry' = [atEntry EXCEPT ![block] = entry]
        /\ atExit' = [atExit EXCEPT ![block] = exit]
        /\ changed' = (changed \/ entry # atEntry[block] \/ exit # atExit[block])
    BY <1>3 DEF VisitBlock
  <2> HIDE DEF entry, exit
  <2>2. Types'
    <3>1. atEntry' = [b \in Blocks |-> atEntry'[b]]
      BY <2>1 DEF VerifierInv, Types
    <3>2. atExit' = [b \in Blocks |-> atExit'[b]]
      BY <2>1 DEF VerifierInv, Types
    <3>3. Blocks' = Blocks /\ block' \in Nat \ {0}
      BY <1>1 DEF VerifierInv, Types, Blocks
    <3> QED BY <1>1, <3>1, <3>2, <3>3 DEF VerifierInv, Types
  <2>3. ASSUME NEW b \in reachable, ~changed', b < block'
        PROVE  Settled(b)'
    <3>1. ~changed /\ entry = atEntry[block] /\ exit = atExit[block]
      BY <2>1, <2>3
    <3>2. atEntry = [a \in Blocks |-> atEntry[a]] /\ atExit = [a \in Blocks |-> atExit[a]]
      BY DEF VerifierInv, Types
    <3>3. atEntry' = atEntry /\ atExit' = atExit
      BY <2>1, <3>1, <3>2
    <3>4. Settled(b)
      <4>1. CASE b = block
        BY <3>1, <4>1 DEF Settled, entry, exit
      <4>2. CASE b # block
        BY <1>1, <2>3, <3>1, <4>2 DEF VerifierInv, RoundInv, Types
      <4> QED BY <4>1, <4>2
    <3> QED BY <1>1, <3>3, <3>4 DEF Settled, Incoming, Written
  <2>4. RoundInv'
    BY <1>1, <2>3 DEF RoundInv
  <2> QED BY <1>1, <1>2, <2>2, <2>4 DEF VerifierInv
<1>4. CASE block \notin reachable
  <2>1. UNCHANGED <<atEntry, atExit, changed>>
    BY <1>4 DEF VisitBlock
  <2>2. Types'
    BY <1>1, <2>1 DEF VerifierInv, Types, Blocks
  <2>3. ASSUME NEW b \in reachable, ~changed', b < block'
        PROVE  Settled(b)'
    <3>1. Settled(b)
      BY <1>1, <1>4, <2>1, <2>3 DEF VerifierInv, RoundInv, Types
    <3> QED BY <1>1, <2>1, <3>1 DEF Settled, Incoming, Written
  <2>4. RoundInv'
    BY <1>1, <2>3 DEF RoundInv
  <2> QED BY <1>1, <1>2, <2>2, <2>4 DEF VerifierInv
<1> QED BY <1>3, <1>4

\* The entry block is settled with no more than the parameters.
LEMMA JudgeInv ==
  ASSUME VerifierInv, Judge
  PROVE  VerifierInv'
<1>1. /\ pc = "flow" /\ ~changed /\ block \notin Blocks
      /\ pc' = (IF ReadsVerified THEN "accepted" ELSE "refused")
      /\ UNCHANGED <<fn, pending, reachable, predecessors, flow, walk>>
  BY DEF Judge, RoundOver
<1>2. Types' /\ EdgesFound'
  BY <1>1 DEF VerifierInv, Types, EdgesFound, flow, Blocks
<1>3. \A b \in reachable : Settled(b)
  BY <1>1 DEF VerifierInv, RoundInv, Types
<1>4. (\A b \in reachable : Settled(b))'
  BY <1>1, <1>3 DEF flow, Settled, Incoming, Written
<1>5. ReadsVerified => ReadsVerified'
  BY <1>1 DEF flow, ReadsVerified, AssignedBefore
<1>6. fn.entry \in reachable
  BY <1>1 DEF VerifierInv, EdgesFound
<1>7. AssignedBefore(fn.entry, 1) \subseteq Params(fn)
  <2>1. atEntry[fn.entry] \subseteq Params(fn)
    BY <1>3, <1>6 DEF Settled, Incoming
  <2>2. {j \in DOMAIN fn.blocks[fn.entry].code : j < 1} = {}
    BY <1>6, BlockTypes DEF VerifierInv, Types, Blocks
  <2> QED BY <2>1, <2>2 DEF AssignedBefore
<1>8. WalkInv'
  <2>1. at = <<fn.entry, 1>> /\ assigned = Params(fn) /\ at \in Points(fn)
    BY <1>1 DEF VerifierInv, WalkInv
  <2>2. at' = <<fn'.entry, 1>> /\ assigned' = Params(fn') /\ at' \in Points(fn')
    BY <1>1, <2>1 DEF walk
  <2>3. AssignedBefore(fn.entry, 1)' \subseteq Params(fn)
    BY <1>1, <1>7 DEF flow, AssignedBefore
  <2>4. at'[1] = fn.entry /\ at'[2] = 1
    BY <1>1, <2>2
  <2>5. AssignedBefore(at[1], at[2])' \subseteq assigned'
    BY <1>1, <2>1, <2>3, <2>4 DEF walk, flow, AssignedBefore
  <2> QED BY <1>1, <1>6, <2>2, <2>4, <2>5 DEF WalkInv
<1>9. RoundInv'
  BY <1>1, <1>4, <1>5 DEF RoundInv
<1> QED BY <1>2, <1>8, <1>9 DEF VerifierInv

\* One step down a path: inside a block what the step writes is what the next point
\* is promised more; across an edge the next block was promised no more than this exit.
LEMMA WalkStepInv ==
  ASSUME VerifierInv, Walk
  PROVE  VerifierInv'
<1>1. /\ pc = "accepted" /\ pc' = "accepted"
      /\ assigned' = assigned \cup DefinesAt(fn, at) /\ at' \in NextPoints(fn, at)
      /\ UNCHANGED <<fn, pending, reachable, predecessors, flow>>
  BY DEF Walk
<1>2. Types' /\ EdgesFound'
  BY <1>1 DEF VerifierInv, Types, EdgesFound, flow, Blocks
<1>3. RoundInv'
  BY <1>1 DEF VerifierInv, RoundInv, flow, Settled, Incoming, Written, ReadsVerified, AssignedBefore
<1> DEFINE b == at[1]
           k == at[2]
<1>4. /\ fn \in Candidates /\ at = <<b, k>> /\ b \in Blocks /\ k \in 1 .. LastIndex(fn, b)
      /\ b \in reachable /\ AssignedBefore(b, k) \subseteq assigned
      /\ DOMAIN fn.blocks[b].code = 1 .. Len(fn.blocks[b].code) /\ Len(fn.blocks[b].code) \in Nat
  BY <1>1, PointPairs, BlockTypes DEF VerifierInv, Types, WalkInv, Blocks
<1>5. CASE IsTerminator(fn, at)
  <2>1. k = LastIndex(fn, b)
    BY <1>5 DEF IsTerminator
  <2>2. PICK n \in fn.blocks[b].next : at' = <<n, 1>>
    BY <1>1, <1>5 DEF NextPoints
  <2>3. n \in reachable /\ b \in predecessors[n] /\ n \in Blocks
    BY <1>1, <1>4, <2>2, BlockTypes DEF VerifierInv, EdgesFound, Blocks
  <2>4. atEntry[n] \subseteq atExit[b] /\ atExit[b] = atEntry[b] \cup Written(b)
    BY <1>1, <1>4, <2>3 DEF VerifierInv, RoundInv, Settled, Incoming
  <2>5. Written(b) \subseteq AssignedBefore(b, k) /\ atEntry[b] \subseteq AssignedBefore(b, k)
    BY <1>4, <2>1 DEF Written, AssignedBefore, LastIndex
  <2>6. DOMAIN fn.blocks[n].code = 1 .. Len(fn.blocks[n].code) /\ Len(fn.blocks[n].code) \in Nat
    BY <1>4, <2>3, BlockTypes DEF Blocks
  <2>7. AssignedBefore(n, 1) = atEntry[n]
    BY <2>6 DEF AssignedBefore
  <2>8. at' \in Points(fn)
    BY <1>4, <2>2, <2>3, <2>6, PointTypes DEF LastIndex, Blocks
  <2>9. AssignedBefore(n, 1) \subseteq assigned'
    BY <1>1, <1>4, <2>4, <2>5, <2>7
  <2> QED BY <1>1, <1>2, <1>3, <2>2, <2>3, <2>8, <2>9 DEF VerifierInv, WalkInv, flow, AssignedBefore, Points, LastIndex
<1>6. CASE ~IsTerminator(fn, at)
  <2>1. k \in 1 .. Len(fn.blocks[b].code) /\ k + 1 \in 1 .. LastIndex(fn, b)
    BY <1>4, <1>6 DEF IsTerminator, LastIndex
  <2>2. at' = <<b, k + 1>>
    BY <1>1, <1>6 DEF NextPoints
  <2>3. DefinesAt(fn, at) = Defines(fn.blocks[b].code[k])
    BY <1>6 DEF DefinesAt, InstructionAt
  <2>4. AssignedBefore(b, k + 1) \subseteq AssignedBefore(b, k) \cup Defines(fn.blocks[b].code[k])
    <3> SUFFICES ASSUME NEW j \in DOMAIN fn.blocks[b].code, j < k + 1
                 PROVE  j < k \/ j = k
      BY DEF AssignedBefore
    <3> QED BY <1>4, <2>1
  <2>5. AssignedBefore(b, k + 1) \subseteq assigned'
    BY <1>1, <1>4, <2>3, <2>4
  <2>6. at' \in Points(fn)
    BY <1>4, <2>1, <2>2, PointTypes DEF Blocks
  <2> QED BY <1>1, <1>2, <1>3, <1>4, <2>2, <2>5, <2>6 DEF VerifierInv, WalkInv, flow, AssignedBefore, Points, LastIndex
<1> QED BY <1>5, <1>6

LEMMA VerifierInvNext ==
  ASSUME VerifierInv, [Next]_verifierVars
  PROVE  VerifierInv'
<1>1. CASE Discover
  BY <1>1, DiscoverInv
<1>2. CASE Discovered
  <2>1. /\ pc = "discover" /\ pc' = "flow" /\ pending = {} /\ block' = block
        /\ UNCHANGED <<fn, pending, reachable, predecessors, flow, walk>>
    BY <1>2 DEF Discovered, flow
  <2>2. Types' /\ EdgesFound'
    BY <2>1 DEF VerifierInv, Types, EdgesFound, flow, Blocks
  <2>3. \A b \in reachable : ~(b < block)
    BY <2>1 DEF VerifierInv, RoundInv, Types
  <2> QED BY <2>1, <2>2, <2>3, NotWalking DEF VerifierInv, RoundInv
<1>3. CASE VisitBlock
  BY <1>3, VisitBlockInv
<1>4. CASE AnotherRound
  <2>1. /\ pc = "flow" /\ pc' = "flow" /\ block' = 1 /\ ~changed'
        /\ UNCHANGED <<fn, pending, reachable, predecessors, atEntry, atExit, walk>>
    BY <1>4 DEF AnotherRound, RoundOver
  <2>2. Types' /\ EdgesFound'
    BY <2>1 DEF VerifierInv, Types, EdgesFound, Blocks
  <2>3. \A b \in reachable' : ~(b < block')
    BY <2>1 DEF VerifierInv, Types
  <2> QED BY <2>1, <2>2, <2>3, NotWalking DEF VerifierInv, RoundInv
<1>5. CASE Judge
  BY <1>5, JudgeInv
<1>6. CASE Walk
  BY <1>6, WalkStepInv
<1>7. CASE UNCHANGED verifierVars
  <2>1. UNCHANGED <<fn, pending, reachable, predecessors, flow, atEntry, atExit, block, changed, pc,
                    walk, at, assigned>>
    BY <1>7 DEF verifierVars, flow, walk
  <2>2. Types' /\ EdgesFound'
    BY <2>1 DEF VerifierInv, Types, EdgesFound, Blocks
  <2>3. RoundInv'
    BY <2>1 DEF VerifierInv, RoundInv, Settled, Incoming, Written, ReadsVerified, AssignedBefore
  <2>4. WalkInv'
    BY <2>1 DEF VerifierInv, WalkInv, AssignedBefore
  <2> QED BY <2>2, <2>3, <2>4 DEF VerifierInv
<1> QED
  BY <1>1, <1>2, <1>3, <1>4, <1>5, <1>6, <1>7 DEF Next, Verify, Over

\* The verifier is sound: no path of an accepted function reads a register that no
\* parameter and no earlier instruction on that path has assigned.
THEOREM AcceptedCodeAssignsFirst == Spec => []NothingReadUnassigned
<1>1. VerifierInv => NothingReadUnassigned
  <2> SUFFICES ASSUME VerifierInv, pc = "accepted" PROVE ReadsAt(fn, at) \subseteq assigned
    BY DEF NothingReadUnassigned
  <2>1. at = <<at[1], at[2]>> /\ at[2] \in 1 .. LastIndex(fn, at[1])
    BY PointPairs DEF VerifierInv, Types, WalkInv
  <2>2. ReadsAt(fn, <<at[1], at[2]>>) \subseteq AssignedBefore(at[1], at[2])
    BY <2>1 DEF VerifierInv, RoundInv, WalkInv, ReadsVerified
  <2> QED BY <2>1, <2>2 DEF VerifierInv, WalkInv
<1> QED
  BY <1>1, VerifierInvInit, VerifierInvNext, PTL DEF Spec
---------------------------------------------------------------------------
(***************************************************************************)
(* The verdict is exact.                                                   *)
(***************************************************************************)

\* Edges found are edges.
PredecessorsAreReal ==
  \A n \in Blocks : \A b \in predecessors[n] : b \in Blocks /\ n \in fn.blocks[b].next

\* A register missing from a set although it is live there is missing on a whole
\* path from the entry, so that no later round could bring it back.
MissingIsUnassigned ==
  \A b \in Blocks : \A r \in Reg :
    /\ r \notin atEntry[b] /\ r \in LiveBefore(fn)[<<b, 1>>] => ~DefinitelyAssigned(fn)
    /\ r \notin atExit[b] /\ r \in LiveAfter(fn)[<<b, LastIndex(fn, b)>>] => ~DefinitelyAssigned(fn)

VerdictInv ==
  /\ VerifierInv
  /\ PredecessorsAreReal
  /\ MissingIsUnassigned
  /\ pc = "refused" => ~DefinitelyAssigned(fn)

\* What the sets promise when they are settled covers what is live.
LEMMA AcceptedIsAssigned ==
  ASSUME VerifierInv, pc = "accepted"
  PROVE  DefinitelyAssigned(fn)
<1> DEFINE claim == [p \in Points(fn) |-> IF p[1] \in reachable THEN AssignedBefore(p[1], p[2]) ELSE Reg]
<1>1. /\ fn \in Candidates /\ IsFunction(fn) /\ reachable \subseteq Blocks /\ pending = {}
      /\ ReadsVerified /\ (\A b \in reachable : Settled(b)) /\ fn.entry \in reachable
  BY CandidatesAssumption DEF VerifierInv, Types, EdgesFound, RoundInv
<1>2. ASSUME NEW p \in Points(fn)
      PROVE  /\ ReadsAt(fn, p) \subseteq claim[p]
             /\ \A q \in NextPoints(fn, p) : (Reg \cap claim[q]) \ DefinesAt(fn, p) \subseteq claim[p]
  <2> DEFINE b == p[1]
             k == p[2]
  <2>1. p = <<b, k>> /\ b \in Blocks /\ k \in 1 .. LastIndex(fn, b)
    BY <1>1, PointPairs DEF Blocks
  <2>2. CASE b \notin reachable
    <3>1. claim[p] = Reg /\ ReadsAt(fn, p) \subseteq Reg
      BY <1>1, <2>2, PointsFlow
    <3> QED BY <3>1
  <2>3. CASE b \in reachable
    <3>1. claim[p] = AssignedBefore(b, k)
      BY <2>3
    <3>2. ReadsAt(fn, p) \subseteq claim[p]
      BY <1>1, <2>1, <2>3, <3>1 DEF ReadsVerified
    <3>3. /\ Len(fn.blocks[b].code) \in Nat /\ LastIndex(fn, b) = Len(fn.blocks[b].code) + 1
          /\ DOMAIN fn.blocks[b].code = 1 .. Len(fn.blocks[b].code)
      BY <1>1, <2>1, FunctionTypes DEF Blocks
    <3>4. ASSUME NEW q \in NextPoints(fn, p) PROVE claim[q] \subseteq claim[p] \cup DefinesAt(fn, p)
      <4>1. q \in Points(fn)
        BY <1>1, PointsFlow
      <4>2. CASE IsTerminator(fn, p)
        <5>1. k = LastIndex(fn, b)
          BY <4>2 DEF IsTerminator
        <5>2. PICK n \in fn.blocks[b].next : q = <<n, 1>>
          BY <4>2 DEF NextPoints
        <5>3. n \in reachable /\ b \in predecessors[n] /\ n \in Blocks
          BY <1>1, <2>1, <2>3, <5>2, BlockTypes DEF VerifierInv, EdgesFound, Blocks
        <5>4. atEntry[n] \subseteq atExit[b] /\ atExit[b] = atEntry[b] \cup Written(b)
          BY <1>1, <2>3, <5>3 DEF Settled, Incoming
        <5>5. Written(b) \subseteq AssignedBefore(b, k) /\ atEntry[b] \subseteq AssignedBefore(b, k)
          BY <3>3, <5>1 DEF Written, AssignedBefore
        <5>6. DOMAIN fn.blocks[n].code = 1 .. Len(fn.blocks[n].code) /\ Len(fn.blocks[n].code) \in Nat
          BY <1>1, <5>3, BlockTypes DEF Blocks
        <5>7. AssignedBefore(n, 1) = atEntry[n]
          BY <5>6 DEF AssignedBefore
        <5>8. claim[q] = AssignedBefore(n, 1)
          BY <4>1, <5>2, <5>3
        <5> QED BY <3>1, <5>4, <5>5, <5>7, <5>8
      <4>3. CASE ~IsTerminator(fn, p)
        <5>1. k \in 1 .. Len(fn.blocks[b].code)
          BY <2>1, <3>3, <4>3 DEF IsTerminator
        <5>2. q = <<b, k + 1>>
          BY <4>3 DEF NextPoints
        <5>3. DefinesAt(fn, p) = Defines(fn.blocks[b].code[k])
          BY <4>3 DEF DefinesAt, InstructionAt
        <5>4. AssignedBefore(b, k + 1) \subseteq AssignedBefore(b, k) \cup Defines(fn.blocks[b].code[k])
          <6> SUFFICES ASSUME NEW j \in DOMAIN fn.blocks[b].code, j < k + 1
                       PROVE  j < k \/ j = k
            BY DEF AssignedBefore
          <6> QED BY <3>3, <5>1
        <5>5. claim[q] = AssignedBefore(b, k + 1)
          BY <2>3, <4>1, <5>2
        <5> QED BY <3>1, <5>3, <5>4, <5>5
      <4> QED BY <4>2, <4>3
    <3> QED BY <3>2, <3>4
  <2> QED BY <2>2, <2>3
<1> DEFINE start == <<fn.entry, 1>>
<1>3. fn.entry \in Blocks /\ start \in Points(fn)
  <2>1. fn.entry \in Blocks /\ 1 \in 1 .. LastIndex(fn, fn.entry)
    BY <1>1, FunctionTypes DEF Blocks
  <2> QED BY <1>1, <2>1, PointTypes DEF Blocks
<1>4. LiveBefore(fn)[start] \subseteq claim[start]
  <2> HIDE DEF claim
  <2> QED BY <1>1, <1>2, <1>3, LiveLeast
<1>5. claim[start] = AssignedBefore(fn.entry, 1)
  BY <1>1, <1>3
<1>6. AssignedBefore(fn.entry, 1) \subseteq Params(fn)
  <2>1. atEntry[fn.entry] \subseteq Params(fn)
    BY <1>1 DEF Settled, Incoming
  <2>2. {j \in DOMAIN fn.blocks[fn.entry].code : j < 1} = {}
    BY <1>1, BlockTypes DEF Blocks
  <2> QED BY <2>1, <2>2 DEF AssignedBefore
<1> QED BY <1>4, <1>5, <1>6 DEF DefinitelyAssigned

\* What a block is found to lack on entry although it is live there, some path to it
\* never assigned.
LEMMA IncomingIsUnassigned ==
  ASSUME VerdictInv, NEW b \in Blocks, NEW r \in Reg,
         r \notin Incoming(b), r \in LiveBefore(fn)[<<b, 1>>]
  PROVE  ~DefinitelyAssigned(fn)
<1>1. fn \in Candidates /\ IsFunction(fn)
  BY CandidatesAssumption DEF VerdictInv, VerifierInv, Types
<1>2. CASE b = fn.entry /\ r \notin Params(fn)
  BY <1>2 DEF DefinitelyAssigned
<1>3. ASSUME NEW p \in predecessors[b], r \notin atExit[p] PROVE ~DefinitelyAssigned(fn)
  <2>1. p \in Blocks /\ b \in fn.blocks[p].next
    BY DEF VerdictInv, PredecessorsAreReal
  <2> DEFINE last == <<p, LastIndex(fn, p)>>
  <2>2. last \in Points(fn)
    <3>1. LastIndex(fn, p) \in 1 .. LastIndex(fn, p)
      BY <1>1, <2>1, FunctionTypes DEF Blocks
    <3> QED BY <1>1, <2>1, <3>1, PointTypes DEF Blocks
  <2>3. <<b, 1>> \in NextPoints(fn, last)
    BY <2>1 DEF NextPoints, IsTerminator
  <2>4. r \in LiveAfter(fn)[last]
    BY <1>1, <2>2, <2>3, LiveEquations
  <2> QED BY <1>3, <2>1, <2>4 DEF VerdictInv, MissingIsUnassigned
<1> QED BY <1>2, <1>3 DEF Incoming

LEMMA VerdictVisitBlock ==
  ASSUME VerdictInv, VisitBlock
  PROVE  VerdictInv'
<1>1. /\ pc = "flow" /\ pc' = "flow" /\ block \in Blocks
      /\ UNCHANGED <<fn, pending, reachable, predecessors, walk>>
  BY DEF VisitBlock
<1>2. fn \in Candidates /\ IsFunction(fn)
  BY CandidatesAssumption DEF VerdictInv, VerifierInv, Types
<1>3. /\ VerifierInv' /\ PredecessorsAreReal'
      /\ atEntry = [b \in Blocks |-> atEntry[b]] /\ atExit = [b \in Blocks |-> atExit[b]]
  BY <1>1, VisitBlockInv DEF VerdictInv, PredecessorsAreReal, Blocks, VerifierInv, Types
<1>4. MissingIsUnassigned'
  <2>1. CASE block \notin reachable
    <3>1. UNCHANGED <<atEntry, atExit>>
      BY <2>1 DEF VisitBlock
    <3> QED BY <1>1, <3>1 DEF VerdictInv, MissingIsUnassigned, Blocks
  <2>2. CASE block \in reachable
    <3>1. /\ atEntry' = [atEntry EXCEPT ![block] = Incoming(block)]
          /\ atExit' = [atExit EXCEPT ![block] = Incoming(block) \cup Written(block)]
      BY <2>2 DEF VisitBlock
    <3> SUFFICES ASSUME NEW b \in Blocks, NEW r \in Reg
                 PROVE  /\ r \notin atEntry'[b] /\ r \in LiveBefore(fn)[<<b, 1>>]
                              => ~DefinitelyAssigned(fn)
                        /\ r \notin atExit'[b] /\ r \in LiveAfter(fn)[<<b, LastIndex(fn, b)>>]
                              => ~DefinitelyAssigned(fn)
      BY <1>1 DEF MissingIsUnassigned, Blocks
    <3>2. CASE b # block
      <4>1. atEntry'[b] = atEntry[b] /\ atExit'[b] = atExit[b]
        BY <1>3, <3>1, <3>2
      <4> QED BY <4>1 DEF VerdictInv, MissingIsUnassigned
    <3>3. CASE b = block
      <4>1. atEntry'[b] = Incoming(b) /\ atExit'[b] = Incoming(b) \cup Written(b)
        BY <1>3, <3>1, <3>3
      <4>2. ASSUME r \notin atExit'[b], r \in LiveAfter(fn)[<<b, LastIndex(fn, b)>>]
            PROVE  ~DefinitelyAssigned(fn)
        <5> DEFINE last == <<b, LastIndex(fn, b)>>
        <5>1. LastIndex(fn, b) \in 1 .. LastIndex(fn, b)
          BY <1>2, FunctionTypes DEF Blocks
        <5>2. last \in Points(fn)
          BY <1>2, <5>1, PointTypes DEF Blocks
        <5>3. DefinesAt(fn, last) = {}
          BY DEF DefinesAt, IsTerminator
        <5>4. r \in LiveBefore(fn)[last]
          BY <1>2, <4>2, <5>2, <5>3, LiveEquations
        <5>5. \A j \in DOMAIN fn.blocks[b].code : r \notin Defines(fn.blocks[b].code[j])
          BY <4>1, <4>2 DEF Written
        <5>6. r \in LiveBefore(fn)[<<b, 1>>]
          BY <1>2, <5>1, <5>4, <5>5, LiveThroughBlock DEF Blocks
        <5> QED BY <4>1, <4>2, <5>6, IncomingIsUnassigned
      <4> QED BY <4>1, <4>2, IncomingIsUnassigned
    <3> QED BY <3>2, <3>3
  <2> QED BY <2>1, <2>2
<1> QED BY <1>1, <1>3, <1>4 DEF VerdictInv

\* A register read and not assigned before is live at the start of its block.
LEMMA VerdictJudge ==
  ASSUME VerdictInv, Judge
  PROVE  VerdictInv'
<1>1. /\ pc' = (IF ReadsVerified THEN "accepted" ELSE "refused")
      /\ UNCHANGED <<fn, predecessors, atEntry, atExit>>
  BY DEF Judge, flow
<1>2. fn \in Candidates /\ IsFunction(fn) /\ reachable \subseteq Blocks
  BY CandidatesAssumption DEF VerdictInv, VerifierInv, Types
<1>3. VerifierInv' /\ PredecessorsAreReal' /\ MissingIsUnassigned'
  BY <1>1, JudgeInv DEF VerdictInv, PredecessorsAreReal, MissingIsUnassigned, Blocks
<1>4. ASSUME ~ReadsVerified PROVE ~DefinitelyAssigned(fn)
  <2>0. PICK b \in reachable : \E k \in 1 .. LastIndex(fn, b) :
          ~ (ReadsAt(fn, <<b, k>>) \subseteq AssignedBefore(b, k))
    BY <1>4 DEF ReadsVerified
  <2>1. PICK k \in 1 .. LastIndex(fn, b) : \E r \in ReadsAt(fn, <<b, k>>) :
          r \notin AssignedBefore(b, k)
    BY <2>0
  <2> PICK r \in ReadsAt(fn, <<b, k>>) : r \notin AssignedBefore(b, k)
    BY <2>1
  <2>2. b \in DOMAIN fn.blocks /\ <<b, k>> \in Points(fn)
    BY <1>2, PointTypes DEF Blocks
  <2>3. r \in Reg /\ r \in LiveBefore(fn)[<<b, k>>]
    BY <1>2, <2>2, LiveEquations, PointsFlow
  <2>4. r \notin atEntry[b]
    BY <2>1 DEF AssignedBefore
  <2>5. \A j \in DOMAIN fn.blocks[b].code : j < k => r \notin Defines(fn.blocks[b].code[j])
    BY <2>1 DEF AssignedBefore
  <2>6. r \in LiveBefore(fn)[<<b, 1>>]
    BY <1>2, <2>2, <2>3, <2>5, LiveThroughBlock
  <2> QED BY <2>2, <2>3, <2>4, <2>6 DEF VerdictInv, MissingIsUnassigned, Blocks
<1> QED BY <1>1, <1>3, <1>4 DEF VerdictInv

LEMMA VerdictInvNext ==
  ASSUME VerdictInv, [Next]_verifierVars
  PROVE  VerdictInv'
<1>1. VerifierInv'
  BY VerifierInvNext DEF VerdictInv
<1>2. CASE Discover
  <2>1. UNCHANGED <<fn, atEntry, atExit>> /\ pc' = "discover"
    BY <1>2 DEF Discover, flow
  <2>2. MissingIsUnassigned'
    BY <2>1 DEF VerdictInv, MissingIsUnassigned, Blocks
  <2>3. PICK b \in pending :
          \/ UNCHANGED predecessors
          \/ predecessors' = [n \in Blocks |->
               IF n \in fn.blocks[b].next THEN predecessors[n] \cup {b} ELSE predecessors[n]]
    BY <1>2 DEF Discover
  <2>4. b \in Blocks
    BY DEF VerdictInv, VerifierInv, Types
  <2>5. ASSUME NEW n \in Blocks, NEW a \in predecessors'[n]
        PROVE  a \in Blocks /\ n \in fn.blocks[a].next
    <3>1. a \in predecessors[n] \/ (a = b /\ n \in fn.blocks[b].next)
      BY <2>3
    <3> QED BY <2>4, <3>1 DEF VerdictInv, PredecessorsAreReal
  <2>6. PredecessorsAreReal'
    BY <2>1, <2>5 DEF PredecessorsAreReal, Blocks
  <2> QED BY <1>1, <2>1, <2>2, <2>6 DEF VerdictInv
<1>3. CASE VisitBlock
  BY <1>3, VerdictVisitBlock
<1>4. CASE Judge
  BY <1>4, VerdictJudge
<1>5. CASE Discovered \/ AnotherRound \/ Walk \/ UNCHANGED verifierVars
  <2>1. UNCHANGED <<fn, predecessors, atEntry, atExit>> /\ (pc' = "refused" => pc = "refused")
    BY <1>5 DEF Discovered, AnotherRound, Walk, verifierVars, flow
  <2> QED BY <1>1, <2>1 DEF VerdictInv, PredecessorsAreReal, MissingIsUnassigned, Blocks
<1> QED
  BY <1>2, <1>3, <1>4, <1>5 DEF Next, Verify, Over

\* The verdict is exact, for every function: what is accepted reads no register on any
\* path that the path has not assigned, and what is refused has a path that does.
THEOREM VerifierIsExact == Spec => []VerdictExact
<1>1. Init => VerdictInv
  <2> SUFFICES ASSUME Init PROVE VerdictInv
    OBVIOUS
  <2>1. VerifierInv
    BY VerifierInvInit
  <2>2. IsFunction(fn)
    BY CandidatesAssumption DEF Init
  <2>3. PredecessorsAreReal /\ pc # "refused"
    BY DEF Init, PredecessorsAreReal
  <2>4. MissingIsUnassigned
    BY DEF Init, MissingIsUnassigned
  <2> QED BY <2>1, <2>3, <2>4 DEF VerdictInv
<1>2. VerdictInv => VerdictExact
  BY AcceptedIsAssigned DEF VerdictInv, VerdictExact
<1> QED
  BY <1>1, <1>2, VerdictInvNext, PTL DEF Spec
===============================================================================
