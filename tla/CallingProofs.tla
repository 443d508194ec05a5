---------------------------- MODULE CallingProofs ----------------------------
(***************************************************************************)
(* A parallel move delivers every value, for every list of moves, any      *)
(* number of registers and any contents; and a call keeps the convention,  *)
(* for any number of arguments and any placement of them.                  *)
(***************************************************************************)
EXTENDS Calling, Induction

---------------------------------------------------------------------------
(***************************************************************************)
(* Parallel moves.  The proofs of this part use MoveAssumption only.       *)
(***************************************************************************)
IsRegisters(f) == f = [r \in XReg |-> f[r]]

MoveTypes ==
  /\ moves \in Seq(Move)
  /\ left \subseteq Pending(moves)
  /\ IsRegisters(regs) /\ IsRegisters(start)
  /\ phase \in {"checking", "sequencing", "refused", "done"}

Written == Pending(moves) \ left

\* A pending move's source, Scratch when parked, still holds what is to be moved;
\* what is not yet written is as it was.
MoveInv ==
  /\ MoveTypes
  /\ phase = "done" => left = {}
  /\ IsAssignment(moves) =>
       /\ \A i \in left : Agrees(regs[SourceOf(i)], start[moves[i].src], moves[i].width)
       /\ \A i \in Written : Agrees(regs[moves[i].dst], start[moves[i].src], moves[i].width)
       /\ \A r \in XReg \ {Scratch} : (\A i \in Written : moves[i].dst # r) => regs[r] = start[r]
  /\ phase = "checking" => parked = {}

LEMMA MoveElements ==
  ASSUME NEW list \in Seq(Move)
  PROVE  /\ \A i \in DOMAIN list : /\ list[i].dst \in XReg /\ list[i].src \in XReg
                                   /\ list[i].width \in {32, 64}
         /\ DOMAIN list = 1 .. Len(list) /\ Len(list) \in Nat
<1>1. \A i \in 1 .. Len(list) : list[i] \in Move
  OBVIOUS
<1> QED BY <1>1 DEF Move

\* When nothing is ready the pending moves are a permutation: each destination has
\* its one reader, so none is left to read Scratch.
LEMMA ScratchUnread ==
  ASSUME MoveTypes, IsAssignment(moves), Ready = {}
  PROVE  \A k \in left : SourceOf(k) # Scratch
<1> SUFFICES ASSUME NEW k \in left, SourceOf(k) = Scratch PROVE FALSE
  OBVIOUS
<1>1. left \subseteq 1 .. Len(moves) /\ Len(moves) \in Nat
  BY MoveElements DEF MoveTypes, Pending
<1>2. IsFiniteSet(left)
  <2>1. IsFiniteSet(1 .. Len(moves))
    BY <1>1, FS_Interval
  <2> QED BY <1>1, <2>1, FS_Subset
<1> DEFINE reader == [i \in left |-> CHOOSE j \in left : SourceOf(j) = moves[i].dst]
<1>3. \A i \in left : reader[i] \in left /\ SourceOf(reader[i]) = moves[i].dst
  BY DEF Ready
<1>4. \A i \in left : moves[i].dst # Scratch
  BY <1>1, MoveElements DEF MoveTypes, IsAssignment
<1>5. reader \in [left -> left \ {k}]
  BY <1>3, <1>4
<1>6. IsFiniteSet(left \ {k}) /\ Cardinality(left \ {k}) = Cardinality(left) - 1
  BY <1>2, FS_RemoveElement
<1>7. Cardinality(left) \in Nat
  BY <1>2, FS_CardinalityType
<1>8. \E x, y \in left : x # y /\ reader[x] = reader[y]
  <2> HIDE DEF reader
  <2> QED BY <1>2, <1>5, <1>6, <1>7, FS_PigeonHole
<1>9. PICK x, y \in left : x # y /\ reader[x] = reader[y]
  BY <1>8
<1>10. moves[x].dst = moves[y].dst
  BY <1>3, <1>9
<1>11. x \in DOMAIN moves /\ y \in DOMAIN moves
  BY DEF MoveTypes, Pending
<1> QED BY <1>9, <1>10, <1>11 DEF IsAssignment

LEMMA MovedWord ==
  ASSUME IsRegisters(regs), NEW dst \in XReg, NEW src \in XReg, NEW width,
         regs' = Moved(dst, src, width)
  PROVE  /\ IsRegisters(regs')
         /\ regs'[dst].low = regs[src].low
         /\ width = 64 => regs'[dst].high = regs[src].high
         /\ \A r \in XReg : r # dst => regs'[r] = regs[r]
<1> DEFINE moved == [low |-> regs[src].low, high |-> IF width = 64 THEN regs[src].high ELSE Zero]
<1>1. moved.low = regs[src].low /\ (width = 64 => moved.high = regs[src].high)
  OBVIOUS
<1>2. regs' = [regs EXCEPT ![dst] = moved]
  BY DEF Moved
<1> HIDE DEF moved
<1>3. /\ regs'[dst] = moved /\ \A r \in XReg : r # dst => regs'[r] = regs[r]
      /\ regs' = [r \in XReg |-> regs'[r]]
  BY <1>2 DEF IsRegisters
<1> QED BY <1>1, <1>3 DEF IsRegisters

LEMMA SourceInXReg == ASSUME MoveTypes PROVE \A i \in left : SourceOf(i) \in XReg
BY MoveElements, MoveAssumption DEF MoveTypes, Pending, SourceOf

\* A list of moves none of which has been made.
MovesAhead ==
  /\ moves \in Seq(Move) /\ left = Pending(moves) /\ parked = {} /\ phase = "checking"
  /\ IsRegisters(regs) /\ start = regs

LEMMA MovesAheadInv == MovesAhead => MoveInv
<1> SUFFICES ASSUME MovesAhead PROVE MoveInv
  OBVIOUS
<1>1. MoveTypes
  BY DEF MovesAhead, MoveTypes
<1>2. Written = {}
  BY DEF MovesAhead, Written
<1>3. \A i \in left : SourceOf(i) = moves[i].src
  BY DEF MovesAhead, SourceOf
<1> QED BY <1>1, <1>2, <1>3 DEF MoveInv, MovesAhead, Agrees

LEMMA MoveInvInit == MoveInit => MoveInv
<1> SUFFICES ASSUME MoveInit PROVE MoveInv
  OBVIOUS
<1>1. moves \in Seq(Move) /\ regs \in [XReg -> Word]
  BY MoveAssumption DEF MoveInit
<1>2. MovesAhead
  BY <1>1 DEF MoveInit, MovesAhead, IsRegisters
<1> QED BY <1>2, MovesAheadInv

LEMMA EmitReadyStep == ASSUME MoveInv, EmitReady PROVE MoveInv'
<1>1. PICK i \in Ready : /\ regs' = Moved(moves[i].dst, SourceOf(i), moves[i].width)
                         /\ left' = left \ {i}
  BY DEF EmitReady
<1>2. phase = "sequencing" /\ UNCHANGED <<moves, parked, phase, start>>
  BY DEF EmitReady
<1>3. i \in left /\ \A j \in left : SourceOf(j) # moves[i].dst
  BY DEF Ready
<1>4. moves[i].dst \in XReg /\ SourceOf(i) \in XReg /\ i \in DOMAIN moves
  BY <1>3, SourceInXReg, MoveElements DEF MoveInv, MoveTypes, Pending
<1>5. /\ IsRegisters(regs')
      /\ regs'[moves[i].dst].low = regs[SourceOf(i)].low
      /\ moves[i].width = 64 => regs'[moves[i].dst].high = regs[SourceOf(i)].high
      /\ \A r \in XReg : r # moves[i].dst => regs'[r] = regs[r]
  BY <1>1, <1>4, MovedWord DEF MoveInv, MoveTypes
<1>6. MoveTypes'
  BY <1>1, <1>2, <1>5 DEF MoveInv, MoveTypes, Pending
<1>7. Written' = Written \cup {i}
  BY <1>1, <1>2, <1>3 DEF Written, MoveInv, MoveTypes
<1>8. ASSUME IsAssignment(moves)
      PROVE  /\ \A j \in left' : Agrees(regs'[SourceOf(j)'], start[moves[j].src], moves[j].width)
             /\ \A j \in Written' : Agrees(regs'[moves[j].dst], start[moves[j].src], moves[j].width)
             /\ \A r \in XReg \ {Scratch} :
                  (\A j \in Written' : moves[j].dst # r) => regs'[r] = start[r]
  <2>1. \A j \in left' : SourceOf(j)' = SourceOf(j) /\ regs'[SourceOf(j)] = regs[SourceOf(j)]
    BY <1>1, <1>2, <1>3, <1>5, SourceInXReg DEF SourceOf, MoveInv
  <2>2. \A j \in Written : regs'[moves[j].dst] = regs[moves[j].dst]
    <3> SUFFICES ASSUME NEW j \in Written PROVE regs'[moves[j].dst] = regs[moves[j].dst]
      OBVIOUS
    <3>1. j \in DOMAIN moves /\ j # i
      BY <1>3 DEF Written, Pending
    <3>2. moves[j].dst # moves[i].dst
      BY <3>1, <1>4, <1>8 DEF IsAssignment
    <3>3. moves[j].dst \in XReg
      BY <3>1, MoveElements DEF MoveInv, MoveTypes
    <3> QED BY <3>2, <3>3, <1>5
  <2>3. Agrees(regs'[moves[i].dst], start[moves[i].src], moves[i].width)
    BY <1>3, <1>5, <1>8 DEF MoveInv, Agrees
  <2> QED BY <1>1, <1>5, <1>7, <1>8, <2>1, <2>2, <2>3 DEF MoveInv
<1> QED BY <1>2, <1>6, <1>8 DEF MoveInv, IsAssignment, Agrees, Written, Pending

LEMMA BreakCycleStep == ASSUME MoveInv, BreakCycle PROVE MoveInv'
<1>1. PICK i \in left : Park(moves[i].dst)
  BY DEF BreakCycle
<1> DEFINE victim == moves[i].dst
<1>2. PICK k \in left : /\ First(k, ReadersOf(victim))
                        /\ regs' = Moved(Scratch, victim, moves[k].width)
                        /\ parked' = parked \cup ReadersOf(victim)
  BY <1>1 DEF Park
<1>3. /\ phase = "sequencing" /\ Ready = {} /\ UNCHANGED <<moves, left, phase, start>>
      /\ k \in left /\ SourceOf(k) = victim /\ i \in DOMAIN moves
  BY <1>2 DEF BreakCycle, First, ReadersOf, MoveInv, MoveTypes, Pending
<1>4. victim \in XReg
  BY <1>3, MoveElements DEF MoveInv, MoveTypes
<1>5. /\ IsRegisters(regs')
      /\ regs'[Scratch].low = regs[victim].low
      /\ moves[k].width = 64 => regs'[Scratch].high = regs[victim].high
      /\ \A r \in XReg : r # Scratch => regs'[r] = regs[r]
  <2> HIDE DEF victim
  <2> QED BY <1>2, <1>4, MovedWord, MoveAssumption DEF MoveInv, MoveTypes
<1>6. MoveTypes' /\ Written' = Written
  BY <1>3, <1>5 DEF MoveInv, MoveTypes, Written, Pending
<1>7. ASSUME IsAssignment(moves)
      PROVE  /\ \A j \in left : Agrees(regs'[SourceOf(j)'], start[moves[j].src], moves[j].width)
             /\ \A j \in Written : Agrees(regs'[moves[j].dst], start[moves[j].src], moves[j].width)
             /\ \A r \in XReg \ {Scratch} :
                  (\A j \in Written : moves[j].dst # r) => regs'[r] = start[r]
  <2>1. victim # Scratch /\ \A j \in left : SourceOf(j) # Scratch
    BY <1>3, <1>7, ScratchUnread DEF MoveInv, IsAssignment
  <2>2. ASSUME NEW j \in left, SourceOf(j) = victim
        PROVE  Agrees(regs'[SourceOf(j)'], start[moves[j].src], moves[j].width)
    <3>1. SourceOf(j)' = Scratch
      BY <1>2, <2>2 DEF SourceOf, ReadersOf
    <3>2. moves[j].src = victim /\ moves[k].src = victim
      BY <1>3, <2>1, <2>2 DEF SourceOf
    <3>3. j \in DOMAIN moves /\ k \in DOMAIN moves
      BY <1>3 DEF MoveInv, MoveTypes, Pending
    <3>4. moves[j].width = moves[k].width
      BY <3>2, <3>3, <1>7 DEF IsAssignment
    <3> QED BY <1>5, <1>7, <2>2, <3>1, <3>4 DEF MoveInv, Agrees
  <2>3. ASSUME NEW j \in left, SourceOf(j) # victim
        PROVE  Agrees(regs'[SourceOf(j)'], start[moves[j].src], moves[j].width)
    <3>1. SourceOf(j)' = SourceOf(j)
      BY <1>2, <1>3, <2>3 DEF SourceOf, ReadersOf
    <3>2. regs'[SourceOf(j)] = regs[SourceOf(j)]
      BY <1>5, <2>1, SourceInXReg DEF MoveInv
    <3> QED BY <3>1, <3>2, <1>7 DEF MoveInv
  <2>4. \A j \in Written : moves[j].dst # Scratch /\ moves[j].dst \in XReg
    BY <1>7, MoveElements DEF Written, Pending, IsAssignment, MoveInv, MoveTypes
  <2>5. \A j \in Written : regs'[moves[j].dst] = regs[moves[j].dst]
    BY <2>4, <1>5
  <2>6. \A r \in XReg \ {Scratch} : regs'[r] = regs[r]
    BY <1>5
  <2> QED BY <1>7, <2>2, <2>3, <2>5, <2>6 DEF MoveInv
<1> QED BY <1>3, <1>6, <1>7 DEF MoveInv

LEMMA MoveInvStep == MoveInv /\ [MoveStep \/ Stopped]_moveVars => MoveInv'
<1> SUFFICES ASSUME MoveInv, [MoveStep \/ Stopped]_moveVars PROVE MoveInv'
  OBVIOUS
<1>1. ASSUME UNCHANGED moveVars PROVE MoveInv'
  BY <1>1 DEF moveVars, MoveInv, MoveTypes, Written, Pending, SourceOf, IsAssignment, Agrees
<1>2. ASSUME UNCHANGED <<moves, left, parked, regs, start>>,
             phase' \in {"sequencing", "refused"} \/ (phase' = "done" /\ left = {})
      PROVE  MoveInv'
  BY <1>2 DEF MoveInv, MoveTypes, Written, Pending, SourceOf, IsAssignment, Agrees
<1>3. CASE Accept
  BY <1>2, <1>3 DEF Accept
<1>4. CASE Refuse
  BY <1>2, <1>4 DEF Refuse
<1>5. CASE Sequenced
  BY <1>2, <1>5 DEF Sequenced
<1>6. CASE Stopped
  BY <1>1, <1>6 DEF Stopped
<1> QED BY <1>1, <1>3, <1>4, <1>5, <1>6, EmitReadyStep, BreakCycleStep DEF MoveStep

LEMMA MoveInvDelivers == MoveInv => Delivered
<1> SUFFICES ASSUME MoveInv, phase = "done", IsAssignment(moves)
             PROVE  /\ \A i \in DOMAIN moves :
                         Agrees(regs[moves[i].dst], start[moves[i].src], moves[i].width)
                    /\ \A r \in XReg \ {Scratch} :
                         (\A i \in DOMAIN moves : moves[i].dst # r) => regs[r] = start[r]
  BY DEF Delivered
<1>1. Written = Pending(moves) /\ Pending(moves) \subseteq DOMAIN moves
  BY DEF MoveInv, Written, Pending
<1>2. ASSUME NEW i \in DOMAIN moves
      PROVE  Agrees(regs[moves[i].dst], start[moves[i].src], moves[i].width)
  <2>1. CASE i \in Pending(moves)
    BY <2>1, <1>1 DEF MoveInv
  <2>2. CASE i \notin Pending(moves)
    <3>1. moves[i].dst = moves[i].src
      BY <2>2 DEF Pending
    <3>2. \A j \in Written : moves[j].dst # moves[i].dst
      BY <1>1, <2>2 DEF IsAssignment
    <3>3. moves[i].dst \in XReg \ {Scratch}
      BY MoveElements DEF MoveInv, MoveTypes, IsAssignment
    <3> QED BY <3>1, <3>2, <3>3 DEF MoveInv, Agrees
  <2> QED BY <2>1, <2>2
<1> QED BY <1>1, <1>2 DEF MoveInv

\* The moves in sequence deliver what they would at once: parallel_move, for every
\* list its callers may pass.
THEOREM ParallelMoveDelivers == MoveSpec => []Delivered
<1>1. MoveSpec => []MoveInv
  BY MoveInvInit, MoveInvStep, PTL DEF MoveSpec
<1> QED BY <1>1, MoveInvDelivers, PTL

\* r10 is free whenever a cycle is broken: no second cycle is parked on top of one
\* that is still being unwound.
THEOREM ScratchNeverOverwritten == MoveSpec => ScratchKept
<1> DEFINE Kept == (IsAssignment(moves) /\ regs'[Scratch] # regs[Scratch])
                     => \A i \in left : SourceOf(i) # Scratch
<1>1. ASSUME MoveInv, MoveStep \/ Stopped PROVE Kept
  <2> SUFFICES ASSUME IsAssignment(moves), regs'[Scratch] # regs[Scratch]
               PROVE  \A i \in left : SourceOf(i) # Scratch
    OBVIOUS
  <2>1. CASE EmitReady
    <3>1. PICK i \in Ready : regs' = Moved(moves[i].dst, SourceOf(i), moves[i].width)
      BY <2>1 DEF EmitReady
    <3>2. i \in left /\ i \in DOMAIN moves
      BY <1>1 DEF Ready, MoveInv, MoveTypes, Pending
    <3>3. MoveTypes /\ IsRegisters(regs)
      BY <1>1 DEF MoveInv, MoveTypes
    <3>4. moves[i].dst # Scratch /\ moves[i].dst \in XReg /\ SourceOf(i) \in XReg
      BY <3>2, <3>3, MoveElements, SourceInXReg DEF MoveTypes, IsAssignment
    <3>5. regs'[Scratch] = regs[Scratch]
      BY <3>1, <3>3, <3>4, MovedWord, MoveAssumption
    <3> QED BY <3>5
  <2>2. CASE BreakCycle
    <3>1. MoveTypes /\ Ready = {}
      BY <1>1, <2>2 DEF BreakCycle, MoveInv
    <3> QED BY <3>1, ScratchUnread
  <2>3. CASE UNCHANGED regs
    BY <2>3
  <2> QED BY <1>1, <2>1, <2>2, <2>3 DEF MoveStep, Stopped, Accept, Refuse, Sequenced, moveVars
<1>2. MoveInv /\ [MoveStep \/ Stopped]_moveVars => [Kept]_moveVars
  BY <1>1
<1>3. MoveSpec => []MoveInv
  BY MoveInvInit, MoveInvStep, PTL DEF MoveSpec
<1> QED BY <1>2, <1>3, PTL DEF MoveSpec, ScratchKept

---------------------------------------------------------------------------
(***************************************************************************)
(* A call.  One predicate per stage says what the stages after it rely on. *)
(* Nothing is said of registers while a parallel move is under way but     *)
(* MoveInv: what was true when it started is said of start.                *)
(***************************************************************************)
CalleeSavedSet == Elements(CalleeSaved)
SavedSet == Elements(Saved)

\* rsp at the call instruction, and where a stack argument lies then.
Base == -(Padding + StackArgs)
Pushed(i) == Base + (i - Len(ArgumentRegs)) - 1

Arrived(i, word) == Agrees(word, before.args[i], WidthOf(i))
StackArrived == \A i \in Args \ RegisterArgs : Arrived(i, mem[Pushed(i)])
AsBefore(R, file) == \A r \in R : file[r] = before.regs[r]

OperandBefore(i) ==
  CASE call.args[i].at = Memory -> Loaded(before.mem[FrameCell(i)], WidthOf(i))
    [] call.args[i].at = Immediate -> All(FrameCell(i))
    [] OTHER -> before.regs[call.args[i].at]

PointerBefore ==
  CASE call.pointer = Direct -> before.regs[R11]
    [] call.pointer = Memory -> before.mem[PointerCell]
    [] OTHER -> before.regs[call.pointer]

CallTypes ==
  /\ call \in Calls /\ IsRegisters(regs) /\ mem = [c \in Cells |-> mem[c]]
  /\ \A c \in Cells : c >= 0 => mem[c] = before.mem[c]
  /\ \A i \in Args : before.args[i] = OperandBefore(i)
  /\ before.pointer = PointerBefore

\* The caller.
CallerStages == {"pointer", "push", "arguments", "call"}

AtPointer == rsp = 0 /\ toPush = StackArgs /\ regs = before.regs

AtPush ==
  /\ toPush \in 0 .. StackArgs /\ rsp = Base + toPush
  /\ AsBefore(Allocatable, regs) /\ regs[R11] = before.pointer
  /\ \A i \in Args : i > Len(ArgumentRegs) + toPush => Arrived(i, mem[Pushed(i)])

ArgumentMove(i) == MoveOf(ArgumentRegs[i], call.args[i].at, call.args[i].width)

AtArguments ==
  /\ rsp = Base /\ StackArrived
  /\ MoveInv /\ IsAssignment(moves)
  /\ \A n \in DOMAIN moves :
       \E i \in RegisterArgs : InRegister(i) /\ moves[n] = ArgumentMove(i)
  /\ \A i \in RegisterArgs :
       InRegister(i) => \E n \in DOMAIN moves : moves[n] = ArgumentMove(i)
  /\ AsBefore(Allocatable, start) /\ start[R11] = before.pointer

AtCall ==
  /\ rsp = Base /\ StackArrived
  /\ \A i \in RegisterArgs : Arrived(i, regs[ArgumentRegs[i]])
  /\ AsBefore(CalleeSavedSet, regs) /\ regs[R11] = before.pointer

\* The callee.
CalleeStages == {"entered", "parameters", "shadow", "body", "epilogue", "leave"}

FrameStands ==
  /\ rbp = Base - 2 /\ rsp = rbp - FrameSize
  /\ mem[rbp] = All(before.rbp)
  /\ \A i \in DOMAIN Saved : mem[rbp - i] = before.regs[Saved[i]]
  /\ pc # "parameters" => AsBefore(CalleeSavedSet \ SavedSet, regs)
  /\ pc \notin {"body", "epilogue"} => current = before.current

AtEntered == \A i \in Args : Arrived(i, Incoming(i))

ParameterMove(i) == MoveOf(call.params[i], ArgumentRegs[i], WidthOf(i))

AtParameters ==
  /\ StackArrived
  /\ \A i \in Params : call.params[i] \in Nat => Arrived(i, mem[SpillCell(rbp, call.params[i])])
  /\ MoveInv /\ IsAssignment(moves)
  /\ \A n \in DOMAIN moves :
       \E i \in RegisterArgs : call.params[i] \notin Nat /\ moves[n] = ParameterMove(i)
  /\ \A i \in RegisterArgs :
       call.params[i] \notin Nat => \E n \in DOMAIN moves : moves[n] = ParameterMove(i)
  /\ \A i \in RegisterArgs : Arrived(i, start[ArgumentRegs[i]])
  /\ AsBefore(CalleeSavedSet \ SavedSet, start)

AtShadow == \A i \in Args : Arrived(i, PlaceOf(i))

Linked ==
  IF call.hasCalls
    THEN /\ current = ShadowBase(rbp) /\ mem[current] = All(before.current)
         /\ mem[current + 1] = All(call.roots)
    ELSE current = before.current

AtBody ==
  /\ AtShadow /\ Linked
  /\ call.hasCalls => \A s \in 0 .. call.roots - 1 : mem[RootCell(rbp, s)] = All(Zero)

AtLeave == call.returns => regs[Rax] = All(Result)

AtReturn ==
  /\ rbp = before.rbp /\ current = before.current
  /\ AsBefore(CalleeSavedSet, regs)
  /\ call.returns => regs[Rax] = All(Result)

CallInv ==
  /\ CallTypes
  /\ pc \in CallerStages \cup CalleeStages \cup {"return", "returned"}
  /\ pc \in CallerStages => rbp = before.rbp /\ current = before.current
  /\ pc = "pointer" => AtPointer
  /\ pc = "push" => AtPush
  /\ pc = "arguments" => AtArguments
  /\ pc = "call" => AtCall
  /\ pc \in CalleeStages => FrameStands
  /\ pc = "entered" => AtEntered
  /\ pc = "parameters" => AtParameters
  /\ pc = "shadow" => AtShadow
  /\ pc = "body" => AtBody
  /\ pc = "epilogue" => Linked /\ regs[Rax] = All(Result)
  /\ pc = "leave" => AtLeave
  /\ pc \in {"return", "returned"} => AtReturn
  /\ pc = "return" => rsp = Base
  /\ pc = "returned" => rsp = 0

---------------------------------------------------------------------------
LEMMA IndicesInOrder ==
  ASSUME NEW N \in Nat, NEW S \in SUBSET (1 .. N)
  PROVE  /\ Cardinality(S) \in Nat /\ Cardinality(S) <= N
         /\ DOMAIN IndicesOf(S) = 1 .. Cardinality(S)
         /\ \A n \in DOMAIN IndicesOf(S) : IndicesOf(S)[n] \in S
         /\ \A m, n \in DOMAIN IndicesOf(S) : IndicesOf(S)[m] = IndicesOf(S)[n] => m = n
         /\ \A i \in S : \E n \in DOMAIN IndicesOf(S) : IndicesOf(S)[n] = i
<1>1. Cardinality(S) \in Nat /\ Cardinality(S) <= N
  <2>1. IsFiniteSet(1 .. N) /\ Cardinality(1 .. N) = N
    BY FS_Interval
  <2> QED BY <2>1, FS_Subset, FS_CardinalityType
<1>2. IndicesOf(S) = CHOOSE s \in [1 .. Cardinality(S) -> S] : Ordered(S, s)
  BY DEF IndicesOf, Ordered
<1>3. Ordered(S, IndicesOf(S))
  <2>1. \E s \in [1 .. Cardinality(S) -> S] : Ordered(S, s)
    <3>1. IsFiniteSet(1 .. N) /\ 1 .. N \subseteq Nat
      BY FS_Interval
    <3>2. IsFiniteSet(S) /\ S \subseteq Nat
      BY <3>1, FS_Subset
    <3>3. \E s : Ordered(S, s)
      BY <3>2, OrderExists
    <3> QED BY <3>3, ZenonT(30) DEF Ordered
  <2> QED BY <1>2, <2>1
<1>4. \A m, n \in DOMAIN IndicesOf(S) : IndicesOf(S)[m] = IndicesOf(S)[n] => m = n
  <2> DEFINE s == IndicesOf(S)
  <2>1. IsFiniteSet(S) /\ S \subseteq Nat /\ Ordered(S, s)
    <3>1. IsFiniteSet(1 .. N) /\ 1 .. N \subseteq Nat
      BY FS_Interval
    <3>2. IsFiniteSet(S) /\ S \subseteq Nat
      BY <3>1, FS_Subset
    <3> QED BY <1>3, <3>2
  <2> HIDE DEF s
  <2>2. \A m, n \in DOMAIN s : s[m] = s[n] => m = n
    BY <2>1, OrderRepeatsNothing
  <2> QED BY <2>2 DEF s
<1> QED BY <1>1, <1>3, <1>4 DEF Ordered

---------------------------------------------------------------------------
LEMMA RegisterFacts ==
  /\ {Rax, R11, Scratch} \subseteq XReg
  /\ \A r \in Allocatable : r \in XReg \ {Rax, R11, Scratch, Memory, Immediate, Direct} /\ r \notin Nat
  /\ Len(ArgumentRegs) \in Nat /\ DOMAIN ArgumentRegs = 1 .. Len(ArgumentRegs)
  /\ \A i \in DOMAIN ArgumentRegs :
       ArgumentRegs[i] \in Allocatable /\ ArgumentRegs[i] \notin CalleeSavedSet
  /\ Len(CalleeSaved) \in Nat /\ DOMAIN CalleeSaved = 1 .. Len(CalleeSaved)
  /\ CalleeSavedSet \subseteq Allocatable
<1>1. Rax \in XReg /\ R11 \in XReg /\ Scratch \in XReg
  BY CallingAssumption, MoveAssumption
<1>2. \A r \in Allocatable : r \in XReg \ {Rax, R11, Scratch, Memory, Immediate, Direct} /\ r \notin Nat
  BY CallingAssumption DEF Allocatable
<1>3. ArgumentRegs \in Seq(Allocatable) /\ CalleeSaved \in Seq(Allocatable)
  BY CallingAssumption
<1>4. \A i \in DOMAIN ArgumentRegs : ArgumentRegs[i] \in Elements(ArgumentRegs)
  BY DEF Elements
<1>5. CalleeSavedSet \cap Elements(ArgumentRegs) = {}
  BY CallingAssumption DEF CalleeSavedSet
<1>6. /\ Len(ArgumentRegs) \in Nat /\ DOMAIN ArgumentRegs = 1 .. Len(ArgumentRegs)
      /\ \A i \in DOMAIN ArgumentRegs : ArgumentRegs[i] \in Allocatable
  BY <1>3
<1>7. /\ Len(CalleeSaved) \in Nat /\ DOMAIN CalleeSaved = 1 .. Len(CalleeSaved)
      /\ \A i \in DOMAIN CalleeSaved : CalleeSaved[i] \in Allocatable
  BY <1>3
<1>8. CalleeSavedSet \subseteq Allocatable
  BY <1>7 DEF CalleeSavedSet, Elements
<1>9. \A i \in DOMAIN ArgumentRegs : ArgumentRegs[i] \notin CalleeSavedSet
  BY <1>4, <1>5
<1> QED BY <1>1, <1>2, <1>6, <1>7, <1>8, <1>9

LEMMA CallFacts ==
  ASSUME call \in Calls
  PROVE  /\ Len(call.args) \in Nat /\ Args = 1 .. Len(call.args) /\ Params = Args
         /\ \A i \in Args : /\ call.args[i].at \in Allocatable \cup {Memory, Immediate}
                            /\ call.args[i].width \in {32, 64}
                            /\ call.params[i] \in Allocatable \cup 0 .. call.spills - 1
         /\ \A i, j \in Args :
              /\ InRegister(i) /\ call.args[i].at = call.args[j].at => WidthOf(i) = WidthOf(j)
              /\ call.params[i] = call.params[j] => i = j
         /\ call.pointer \in Allocatable \cup {Memory, Direct}
         /\ call.spills \in Nat /\ call.roots \in Nat /\ call.locals \subseteq Allocatable
         /\ call.hasCalls \in BOOLEAN /\ call.returns \in BOOLEAN
         /\ call.hasCalls => \A i \in Args : call.params[i] \notin CallerSaved
         /\ ~call.hasCalls => call.roots = 0
         /\ -StackNeed(call) .. Len(call.args) \subseteq Cells
<1>1. IsCall(call) /\ -StackNeed(call) .. Len(call.args) \subseteq Cells
  BY CallsAssumption
<1>2. /\ call.args \in Seq([at : Allocatable \cup {Memory, Immediate}, width : {32, 64}])
      /\ call.params \in Seq(Allocatable \cup 0 .. call.spills - 1)
      /\ Len(call.params) = Len(call.args)
  BY <1>1 DEF IsCall
<1>3. /\ Len(call.args) \in Nat /\ Args = 1 .. Len(call.args) /\ Params = Args
      /\ \A i \in Args : call.args[i] \in [at : Allocatable \cup {Memory, Immediate}, width : {32, 64}]
      /\ \A i \in Args : call.params[i] \in Allocatable \cup 0 .. call.spills - 1
  <2> DEFINE Places == [at : Allocatable \cup {Memory, Immediate}, width : {32, 64}]
             Ends == Allocatable \cup 0 .. call.spills - 1
             args == call.args
             params == call.params
  <2>1. Args = DOMAIN args /\ Params = DOMAIN params
    BY DEF Args, Params
  <2>2. args \in Seq(Places) /\ params \in Seq(Ends) /\ Len(params) = Len(args)
    BY <1>2
  <2> HIDE DEF Places, Ends, args, params
  <2>3. /\ Len(args) \in Nat /\ DOMAIN args = 1 .. Len(args) /\ DOMAIN params = DOMAIN args
        /\ \A i \in DOMAIN args : args[i] \in Places /\ params[i] \in Ends
    BY <2>2
  <2> QED BY <2>1, <2>3 DEF Places, Ends, args, params
<1>4. \A i, j \in Args :
        /\ InRegister(i) /\ call.args[i].at = call.args[j].at => WidthOf(i) = WidthOf(j)
        /\ call.params[i] = call.params[j] => i = j
  BY <1>1, <1>3 DEF IsCall, InRegister, WidthOf, Args, Params
<1>5. \A i \in Args : call.args[i].at \in Allocatable \cup {Memory, Immediate}
                      /\ call.args[i].width \in {32, 64}
  BY <1>3
<1> QED BY <1>1, <1>3, <1>4, <1>5 DEF IsCall, Params

\* Arguments beyond the registers; with the padding they keep rsp even.
LEMMA StackFacts ==
  ASSUME call \in Calls
  PROVE  /\ StackArgs = IF Len(call.args) > Len(ArgumentRegs)
                          THEN Len(call.args) - Len(ArgumentRegs) ELSE 0
         /\ StackArgs \in Nat /\ StackArgs <= Len(call.args)
         /\ Padding \in {0, 1} /\ Base \in Int /\ Base % 2 = 0
         /\ Base <= 0 /\ Base >= -(Len(call.args) + 1)
<1> DEFINE n == Len(call.args)
           A == Len(ArgumentRegs)
<1>1. n \in Nat /\ A \in Nat /\ Args = 1 .. n
  BY CallFacts, RegisterFacts
<1>2. Args \ RegisterArgs = A + 1 .. n
  BY <1>1 DEF RegisterArgs
<1>3. Cardinality(A + 1 .. n) = IF A + 1 > n THEN 0 ELSE n - (A + 1) + 1
  <2>1. A + 1 \in Int /\ n \in Int
    BY <1>1
  <2> QED BY <2>1, FS_Interval
<1> HIDE DEF n, A
<1>4. StackArgs = IF n > A THEN n - A ELSE 0
  <2>1. StackArgs = IF A + 1 > n THEN 0 ELSE n - (A + 1) + 1
    BY <1>2, <1>3 DEF StackArgs
  <2> QED BY <1>1, <2>1
<1>5. StackArgs \in Nat /\ StackArgs <= n
  BY <1>1, <1>4
<1>6. Padding \in {0, 1} /\ (Padding + StackArgs) % 2 = 0
  BY <1>5 DEF Padding
<1>7. Padding + StackArgs \in Nat /\ Padding + StackArgs <= n + 1
  BY <1>1, <1>5, <1>6
<1>8. \A k \in Nat : k % 2 = 0 => (-k) % 2 = 0 /\ -k \in Int /\ -k <= 0
  OBVIOUS
<1>9. Base \in Int /\ Base % 2 = 0 /\ Base <= 0
  BY <1>6, <1>7, <1>8 DEF Base
<1>10. Base >= -(n + 1)
  BY <1>1, <1>7 DEF Base
<1> QED BY <1>4, <1>5, <1>6, <1>9, <1>10 DEF n, A

LEMMA SavedFacts ==
  ASSUME call \in Calls
  PROVE  /\ Len(Saved) \in Nat /\ Len(Saved) <= Len(CalleeSaved) /\ DOMAIN Saved = 1 .. Len(Saved)
         /\ \A i \in DOMAIN Saved : Saved[i] \in CalleeSavedSet
         /\ \A i, j \in DOMAIN Saved : Saved[i] = Saved[j] => i = j
         /\ SavedSet = CalleeSavedSet \cap PlacesUsed
<1> DEFINE N == Len(CalleeSaved)
           S == {i \in DOMAIN CalleeSaved : CalleeSaved[i] \in PlacesUsed}
           at == IndicesOf(S)
<1>1. N \in Nat /\ S \in SUBSET (1 .. N)
  BY RegisterFacts
<1>2. /\ Cardinality(S) \in Nat /\ Cardinality(S) <= N
      /\ DOMAIN at = 1 .. Cardinality(S)
      /\ \A n \in DOMAIN at : at[n] \in S
      /\ \A m, n \in DOMAIN at : at[m] = at[n] => m = n
      /\ \A i \in S : \E n \in DOMAIN at : at[n] = i
  <2> HIDE DEF N, S
  <2> QED BY <1>1, IndicesInOrder
<1>3. Saved = [n \in DOMAIN at |-> CalleeSaved[at[n]]]
  BY DEF Saved, CalleeSavedAmong
<1> HIDE DEF at
<1>4. /\ DOMAIN Saved = 1 .. Cardinality(S) /\ \A n \in DOMAIN at : Saved[n] = CalleeSaved[at[n]]
  BY <1>2, <1>3
<1>5. Len(Saved) = Cardinality(S)
  <2>1. Saved \in Seq(Allocatable)
    <3>1. \A n \in 1 .. Cardinality(S) : Saved[n] \in Allocatable
      BY <1>2, <1>4, RegisterFacts, SMTT(30) DEF CalleeSavedSet, Elements
    <3> DEFINE c == Cardinality(S)
    <3>2. Saved = [n \in 1 .. c |-> Saved[n]]
      BY <1>2, <1>3, <1>4
    <3>3. c \in Nat /\ \A n \in 1 .. c : Saved[n] \in Allocatable
      BY <1>2, <3>1
    <3> HIDE DEF c
    <3>4. Saved \in [1 .. c -> Allocatable]
      BY <3>2, <3>3
    <3> QED BY <3>3, <3>4
  <2> QED BY <1>2, <1>4, <2>1
<1>6. \A i \in DOMAIN Saved : Saved[i] \in CalleeSavedSet /\ Saved[i] \in PlacesUsed
  BY <1>2, <1>4 DEF CalleeSavedSet, Elements
<1>7. \A i, j \in DOMAIN Saved : Saved[i] = Saved[j] => i = j
  <2>1. \A i, j \in S : CalleeSaved[i] = CalleeSaved[j] => i = j
    BY CallingAssumption
  <2> QED BY <1>2, <1>4, <2>1
<1>8. \A r \in CalleeSavedSet \cap PlacesUsed : \E i \in DOMAIN Saved : Saved[i] = r
  BY <1>2, <1>4 DEF CalleeSavedSet, Elements
<1>9. SavedSet = CalleeSavedSet \cap PlacesUsed
  BY <1>6, <1>8 DEF SavedSet, Elements
<1> HIDE DEF S
<1> QED BY <1>2, <1>4, <1>5, <1>6, <1>7, <1>9

LEMMA FrameFacts ==
  ASSUME call \in Calls
  PROVE  /\ ShadowSize \in Nat /\ Spills \in Nat /\ FrameSize \in Nat /\ Len(Saved) <= FrameSize
         /\ call.hasCalls => ShadowSize = 2 + call.roots
         /\ SpillStart = Len(Saved) + ShadowSize
         /\ SpillStart + Spills <= FrameSize
         /\ call.hasCalls => SpillStart + Spills + 1 <= FrameSize
         /\ FrameSize % 2 = 0
         /\ \A c \in Int : Base - 2 - FrameSize <= c /\ c <= Len(call.args) => c \in Cells
<1> DEFINE S == Len(Saved)
           used == SpillStart + Spills + (IF call.hasCalls THEN 1 ELSE 0)
<1>1. /\ S \in Nat /\ S <= Len(CalleeSaved) /\ Len(CalleeSaved) \in Nat /\ Len(call.args) \in Nat
      /\ call.roots \in Nat /\ Spills \in Nat /\ call.spills = Spills
  BY SavedFacts, RegisterFacts, CallFacts DEF Spills
<1>2. /\ ShadowSize \in Nat /\ ShadowSize <= 2 + call.roots
      /\ call.hasCalls => ShadowSize = 2 + call.roots
  BY <1>1 DEF ShadowSize
<1>3. SpillStart = S + ShadowSize /\ SpillStart \in Nat
  BY <1>1, <1>2 DEF SpillStart
<1>4. /\ used \in Nat /\ SpillStart + Spills <= used /\ used <= SpillStart + Spills + 1
      /\ call.hasCalls => used = SpillStart + Spills + 1
  BY <1>1, <1>3
<1>5. FrameSize = used + (used % 2)
  BY DEF FrameSize
<1> HIDE DEF used, S
<1>6. FrameSize \in Nat /\ FrameSize % 2 = 0 /\ used <= FrameSize /\ FrameSize <= used + 1
  BY <1>4, <1>5
<1>7. FrameSize <= Len(CalleeSaved) + 2 + call.roots + Spills + 2
  <2>1. FrameSize <= SpillStart + Spills + 2
    <3>1. /\ SpillStart \in Nat /\ Spills \in Nat /\ used \in Nat /\ FrameSize \in Nat
          /\ used <= SpillStart + Spills + 1 /\ FrameSize <= used + 1
      BY <1>1, <1>3, <1>4, <1>6
    <3> HIDE DEF SpillStart, Spills, used, FrameSize
    <3> QED BY ONLY <3>1
  <2>2. SpillStart <= Len(CalleeSaved) + 2 + call.roots
    BY <1>1, <1>2, <1>3
  <2>3. /\ Spills \in Nat /\ Len(CalleeSaved) \in Nat /\ call.roots \in Nat
        /\ SpillStart \in Nat /\ FrameSize \in Nat
    BY <1>1, <1>3, <1>6
  <2> DEFINE most == Len(CalleeSaved) + 2 + call.roots
  <2>4. most \in Nat /\ SpillStart <= most
    BY <2>2, <2>3
  <2>5. FrameSize <= most + Spills + 2
    <3> HIDE DEF most
    <3> QED BY <2>1, <2>3, <2>4
  <2> QED BY <2>3, <2>5
<1>8. StackNeed(call) = Len(call.args) + 1 + 2 + Len(CalleeSaved) + 2 + call.roots + Spills + 2
  BY <1>1 DEF StackNeed
<1>9. -StackNeed(call) \in Int /\ -StackNeed(call) <= Base - 2 - FrameSize
  <2>1. Base \in Int /\ Base >= -(Len(call.args) + 1)
    BY StackFacts
  <2> DEFINE n == Len(call.args)
             L == Len(CalleeSaved)
             roots == call.roots
  <2>2. /\ n \in Nat /\ L \in Nat /\ roots \in Nat /\ Base >= -(n + 1)
        /\ FrameSize <= L + 2 + roots + Spills + 2
        /\ StackNeed(call) = n + 1 + 2 + L + 2 + roots + Spills + 2
    BY <1>1, <1>7, <1>8, <2>1
  <2> HIDE DEF n, L, roots
  <2> QED BY <1>1, <1>6, <2>1, <2>2
<1>10. ASSUME NEW c \in Int, Base - 2 - FrameSize <= c, c <= Len(call.args)
       PROVE  c \in Cells
  <2>1. Base \in Int /\ Len(call.args) \in Int
    BY StackFacts, <1>1
  <2>2. c \in -StackNeed(call) .. Len(call.args)
    BY <1>6, <1>9, <1>10, <2>1
  <2> QED BY <2>2, CallFacts
<1>11. S <= FrameSize
  BY <1>1, <1>2, <1>3, <1>4, <1>6
<1> QED BY <1>1, <1>2, <1>3, <1>4, <1>6, <1>10, <1>11, SMTT(30) DEF S

\* From rbp downwards: saved registers, shadow frame, spill slots, the return value.
LEMMA FrameAreas ==
  ASSUME call \in Calls, NEW fp \in Int
  PROVE  /\ \A i \in DOMAIN Saved : fp - i \in Int /\ fp - i < fp /\ fp - i >= fp - Len(Saved)
         /\ \A k \in 0 .. Spills - 1 :
              /\ SpillCell(fp, k) \in Int /\ SpillCell(fp, k) < fp - Len(Saved)
              /\ fp - FrameSize <= SpillCell(fp, k)
              /\ call.hasCalls => RetSave(fp) < SpillCell(fp, k) /\ SpillCell(fp, k) < ShadowBase(fp)
              /\ \A l \in 0 .. Spills - 1 : SpillCell(fp, k) = SpillCell(fp, l) => k = l
         /\ call.hasCalls =>
              /\ RetSave(fp) \in Int /\ fp - FrameSize <= RetSave(fp) /\ RetSave(fp) < ShadowBase(fp)
              /\ ShadowBase(fp) \in Int /\ ShadowBase(fp) + 1 < fp - Len(Saved)
              /\ fp - FrameSize <= ShadowBase(fp)
              /\ \A s \in 0 .. call.roots - 1 :
                   /\ RootCell(fp, s) \in Int /\ ShadowBase(fp) + 1 < RootCell(fp, s)
                   /\ RootCell(fp, s) < fp - Len(Saved)
<1> DEFINE S == Len(Saved)
<1>1. /\ S \in Nat /\ DOMAIN Saved = 1 .. S /\ ShadowSize \in Nat /\ Spills \in Nat
      /\ FrameSize \in Nat /\ call.roots \in Nat
      /\ call.hasCalls => ShadowSize = 2 + call.roots
      /\ SpillStart = S + ShadowSize
      /\ SpillStart + Spills <= FrameSize
      /\ call.hasCalls => SpillStart + Spills + 1 <= FrameSize
  BY SavedFacts, FrameFacts, CallFacts
<1>2. ShadowBase(fp) = fp - (S + ShadowSize) /\ RetSave(fp) = fp - (S + ShadowSize + Spills + 1)
  BY <1>1 DEF ShadowBase, RetSave
<1>3. \A k \in 0 .. Spills - 1 : SpillCell(fp, k) = fp - (S + ShadowSize + k + 1)
  BY <1>1 DEF SpillCell
<1>4. \A s \in 0 .. call.roots - 1 : RootCell(fp, s) = fp - (S + ShadowSize) + 2 + s
  BY <1>2 DEF RootCell
<1> HIDE DEF S
<1>5. \A i \in DOMAIN Saved : fp - i \in Int /\ fp - i < fp /\ fp - i >= fp - S
  BY <1>1
<1>6. ASSUME NEW k \in 0 .. Spills - 1
      PROVE  /\ SpillCell(fp, k) \in Int /\ SpillCell(fp, k) < fp - S
             /\ fp - FrameSize <= SpillCell(fp, k)
             /\ call.hasCalls => RetSave(fp) < SpillCell(fp, k) /\ SpillCell(fp, k) < ShadowBase(fp)
             /\ \A l \in 0 .. Spills - 1 : SpillCell(fp, k) = SpillCell(fp, l) => k = l
  BY <1>1, <1>2, <1>3, SMTT(30)
<1>7. ASSUME call.hasCalls
      PROVE  /\ RetSave(fp) \in Int /\ fp - FrameSize <= RetSave(fp) /\ RetSave(fp) < ShadowBase(fp)
             /\ ShadowBase(fp) \in Int /\ ShadowBase(fp) + 1 < fp - S
             /\ fp - FrameSize <= ShadowBase(fp)
             /\ \A s \in 0 .. call.roots - 1 :
                  /\ RootCell(fp, s) \in Int /\ ShadowBase(fp) + 1 < RootCell(fp, s)
                  /\ RootCell(fp, s) < fp - S
  BY <1>1, <1>2, <1>4, <1>7, SMTT(30)
<1> QED BY <1>5, <1>6, <1>7 DEF S

---------------------------------------------------------------------------
(***************************************************************************)
(* The steps of a call.                                                    *)
(***************************************************************************)

\* What depends on the call alone.
LEMMA SameCall ==
  ASSUME call' = call
  PROVE  /\ Args' = Args /\ Params' = Params /\ RegisterArgs' = RegisterArgs
         /\ StackArgs' = StackArgs /\ Padding' = Padding /\ Base' = Base
         /\ Saved' = Saved /\ SavedSet' = SavedSet
         /\ FrameSize' = FrameSize /\ Spills' = Spills
         /\ \A i : /\ WidthOf(i)' = WidthOf(i) /\ Pushed(i)' = Pushed(i)
                   /\ InRegister(i)' <=> InRegister(i)
                   /\ ArgumentMove(i)' = ArgumentMove(i) /\ ParameterMove(i)' = ParameterMove(i)
         /\ \A fp, k : /\ SpillCell(fp, k)' = SpillCell(fp, k) /\ RootCell(fp, k)' = RootCell(fp, k)
                       /\ ShadowBase(fp)' = ShadowBase(fp) /\ RetSave(fp)' = RetSave(fp)
<1>1. /\ Args' = Args /\ Params' = Params /\ RegisterArgs' = RegisterArgs
      /\ \A i : WidthOf(i)' = WidthOf(i) /\ (InRegister(i)' <=> InRegister(i))
  BY DEF Args, Params, RegisterArgs, WidthOf, InRegister
<1>2. StackArgs' = StackArgs
  BY <1>1 DEF StackArgs
<1>3. Padding' = Padding /\ Base' = Base
  BY <1>2 DEF Padding, Base
<1>4. \A i : Pushed(i)' = Pushed(i)
  BY <1>3 DEF Pushed
<1>5. \A i : ArgumentMove(i)' = ArgumentMove(i) /\ ParameterMove(i)' = ParameterMove(i)
  BY <1>1 DEF ArgumentMove, ParameterMove, MoveOf
<1>6. Saved' = Saved
  BY DEF Saved, PlacesUsed
<1>7. SavedSet' = SavedSet /\ ShadowSize' = ShadowSize /\ Spills' = Spills
  BY <1>6 DEF SavedSet, ShadowSize, Spills
<1>8. SpillStart' = SpillStart
  BY <1>6, <1>7 DEF SpillStart
<1>9. FrameSize' = FrameSize
  BY <1>7, <1>8 DEF FrameSize
<1>10. \A fp : ShadowBase(fp)' = ShadowBase(fp) /\ RetSave(fp)' = RetSave(fp)
  BY <1>6, <1>7, <1>8 DEF ShadowBase, RetSave
<1>11. \A fp, k : SpillCell(fp, k)' = SpillCell(fp, k) /\ RootCell(fp, k)' = RootCell(fp, k)
  BY <1>8, <1>10 DEF SpillCell, RootCell
<1> QED BY <1>1, <1>2, <1>3, <1>4, <1>5, <1>6, <1>7, <1>9, <1>10, <1>11

LEMMA SameTypes ==
  ASSUME CallTypes, call' = call, before' = before, IsRegisters(regs'),
         mem' = [c \in Cells |-> mem'[c]],
         \A c \in Cells : c >= 0 => mem'[c] = mem[c]
  PROVE  CallTypes'
<1>1. \A i : OperandBefore(i)' = OperandBefore(i)
  BY SameCall DEF OperandBefore, FrameCell
<1>2. PointerBefore' = PointerBefore
  BY DEF PointerBefore, PointerCell
<1> QED BY <1>1, <1>2, SameCall DEF CallTypes

LEMMA Agree ==
  /\ \A word, width : Agrees(word, word, width)
  /\ \A word, width : Agrees(Loaded(word, width), word, width)
  /\ \A word, value, width :
       Agrees(word, value, width) => Agrees(Loaded(word, width), value, width)
  /\ \A word, value, width, old :
       Agrees(word, value, width) => Agrees(Stored(word, width, old), value, width)
BY DEF Agrees, Loaded, Stored

\* An operand is what it was when the call was reached, while its place is as it was.
LEMMA OperandKept ==
  ASSUME CallTypes, NEW i \in Args,
         InRegister(i) => regs[call.args[i].at] = before.regs[call.args[i].at]
  PROVE  Operand(i) = before.args[i]
<1>1. call \in Calls /\ before.args[i] = OperandBefore(i)
  BY DEF CallTypes
<1>2. Len(call.args) \in Nat /\ i \in 1 .. Len(call.args)
  BY <1>1, CallFacts
<1>3. FrameCell(i) \in Cells /\ FrameCell(i) >= 0
  <2>1. FrameCell(i) \in Int /\ FrameCell(i) >= 0 /\ FrameCell(i) <= Len(call.args)
    BY <1>2 DEF FrameCell
  <2>2. Base - 2 - FrameSize <= FrameCell(i)
    BY <1>1, <2>1, StackFacts, FrameFacts
  <2> QED BY <1>1, <2>1, <2>2, FrameFacts
<1>4. mem[FrameCell(i)] = before.mem[FrameCell(i)]
  BY <1>3 DEF CallTypes
<1> QED BY <1>1, <1>4 DEF Operand, OperandBefore, InRegister, WidthOf

LEMMA CallInitially == CallInit => CallInv
<1> SUFFICES ASSUME CallInit PROVE CallInv
  OBVIOUS
<1>1. /\ call \in Calls /\ regs \in [XReg -> Word] /\ pc = "pointer"
      /\ mem = [c \in Cells |-> All(IF c >= 0 THEN 100 + c ELSE Junk)]
      /\ before = [regs |-> regs, mem |-> mem, rbp |-> rbp, current |-> current,
               args |-> [i \in Args |-> Operand(i)],
               pointer |-> CASE call.pointer = Direct -> regs[R11]
                             [] call.pointer = Memory -> mem[PointerCell]
                             [] OTHER -> regs[call.pointer]]
      /\ rsp = 0 /\ toPush = StackArgs
  BY MoveAssumption DEF CallInit
<1>2. IsRegisters(regs) /\ mem = [c \in Cells |-> mem[c]]
  BY <1>1 DEF IsRegisters
<1>3. /\ before.regs = regs /\ before.mem = mem /\ before.rbp = rbp /\ before.current = current
      /\ before.args = [i \in Args |-> Operand(i)] /\ before.pointer = PointerBefore
  BY <1>1 DEF PointerBefore
<1>4. \A i \in Args : before.args[i] = OperandBefore(i)
  BY <1>3 DEF Operand, OperandBefore, WidthOf
<1>5. CallTypes
  BY <1>1, <1>2, <1>3, <1>4 DEF CallTypes
<1>6. AtPointer
  BY <1>1, <1>3 DEF AtPointer
<1> QED BY <1>1, <1>3, <1>5, <1>6 DEF CallInv, CallerStages, CalleeStages

\* The stack down to the callee's frame pointer.
LEMMA StackCells ==
  ASSUME call \in Calls, NEW c \in Int, Base - 2 <= c, c <= Len(call.args)
  PROVE  c \in Cells
<1>1. FrameSize \in Nat /\ Base \in Int
  BY FrameFacts, StackFacts
<1>2. Base - 2 - FrameSize <= c
  BY <1>1
<1> QED BY <1>2, FrameFacts

LEMMA TakePointerStep == ASSUME CallInv, TakePointer PROVE CallInv'
<1>1. /\ pc = "pointer" /\ pc' = "push" /\ rsp' = rsp - Padding
      /\ regs' = [regs EXCEPT ![R11] =
           CASE call.pointer = Direct -> @
             [] call.pointer = Memory -> mem[PointerCell]
             [] OTHER -> regs[call.pointer]]
      /\ UNCHANGED <<call, toPush, mem, rbp, current, before>>
  BY DEF TakePointer
<1>2. /\ CallTypes /\ AtPointer /\ call \in Calls
      /\ rbp = before.rbp /\ current = before.current
  BY <1>1 DEF CallInv, CallerStages, CallTypes
<1>3. R11 \in XReg /\ R11 \notin Allocatable /\ regs = before.regs /\ IsRegisters(regs)
  BY <1>2, RegisterFacts DEF AtPointer, CallTypes
<1>4. IsRegisters(regs') /\ \A r \in XReg : r # R11 => regs'[r] = regs[r]
  BY <1>1, <1>3 DEF IsRegisters
<1>5. regs'[R11] = before.pointer
  <2>1. PointerCell \in Cells /\ PointerCell >= 0
    <3>1. PointerCell = Len(call.args) /\ Len(call.args) \in Nat
      BY <1>2, CallFacts DEF PointerCell
    <3>2. Base - 2 - FrameSize <= PointerCell
      BY <1>2, <3>1, StackFacts, FrameFacts
    <3> QED BY <1>2, <3>1, <3>2, FrameFacts
  <2>2. mem[PointerCell] = before.mem[PointerCell]
    BY <1>2, <2>1 DEF CallTypes
  <2>3. regs'[R11] = CASE call.pointer = Direct -> regs[R11]
             [] call.pointer = Memory -> mem[PointerCell]
             [] OTHER -> regs[call.pointer]
    BY <1>1, <1>3 DEF IsRegisters
  <2> QED BY <1>2, <1>3, <2>2, <2>3 DEF CallTypes, PointerBefore
<1>6. CallTypes'
  BY <1>1, <1>2, <1>4, SameTypes DEF CallTypes
<1>7. rsp' = Base + StackArgs /\ toPush' = StackArgs /\ StackArgs \in 0 .. StackArgs
  <2>1. Padding \in {0, 1} /\ StackArgs \in Nat /\ Base = -(Padding + StackArgs)
    BY <1>2, StackFacts DEF Base
  <2>2. rsp' = 0 - Padding /\ toPush' = StackArgs
    BY <1>1, <1>2 DEF AtPointer
  <2> QED BY <2>1, <2>2
<1>8. \A i \in Args : ~(i > Len(ArgumentRegs) + StackArgs)
  <2>1. /\ Len(ArgumentRegs) \in Nat /\ Len(call.args) \in Nat /\ Args = 1 .. Len(call.args)
        /\ StackArgs \in Nat
        /\ StackArgs = IF Len(call.args) > Len(ArgumentRegs)
                         THEN Len(call.args) - Len(ArgumentRegs) ELSE 0
    BY <1>2, RegisterFacts, CallFacts, StackFacts
  <2>2. Len(call.args) <= Len(ArgumentRegs) + StackArgs
    BY <2>1
  <2> QED BY <2>1, <2>2
<1>9. AtPush'
  <2>1. AsBefore(Allocatable, regs)'
    BY <1>1, <1>3, <1>4, RegisterFacts DEF AsBefore
  <2> QED BY <1>1, <1>5, <1>7, <1>8, <2>1, SameCall DEF AtPush
<1> QED BY <1>1, <1>2, <1>6, <1>9 DEF CallInv, CallerStages, CalleeStages

LEMMA PushArgumentStep == ASSUME CallInv, PushArgument PROVE CallInv'
<1> DEFINE A == Len(ArgumentRegs)
           i == A + toPush
<1>1. /\ pc = "push" /\ pc' = "push" /\ toPush > 0
      /\ mem' = [mem EXCEPT ![rsp - 1] = Operand(i)]
      /\ regs' = IF call.args[i].at = Memory THEN [regs EXCEPT ![Rax] = Operand(i)] ELSE regs
      /\ rsp' = rsp - 1 /\ toPush' = toPush - 1
      /\ UNCHANGED <<call, rbp, current, before>>
  BY DEF PushArgument, CallInv
<1>2. /\ CallTypes /\ AtPush /\ call \in Calls
      /\ rbp = before.rbp /\ current = before.current
  BY <1>1 DEF CallInv, CallerStages, CallTypes
<1>3. /\ A \in Nat /\ Len(call.args) \in Nat /\ Args = 1 .. Len(call.args)
      /\ StackArgs \in Nat /\ toPush \in 1 .. StackArgs
      /\ StackArgs = IF Len(call.args) > A THEN Len(call.args) - A ELSE 0
      /\ Base \in Int /\ rsp = Base + toPush /\ Base = -(Padding + StackArgs) /\ Padding \in {0, 1}
  BY <1>1, <1>2, RegisterFacts, CallFacts, StackFacts DEF AtPush, Base
<1> HIDE DEF A
<1>4. i \in Args /\ i > A /\ rsp - 1 = Pushed(i) /\ rsp - 1 < 0 /\ rsp - 1 >= Base
  <2>1. i \in Args /\ i > A
    BY <1>3
  <2>2. Pushed(i) = Base + (i - A) - 1
    BY DEF Pushed, A
  <2> QED BY <1>3, <2>1, <2>2
<1>5. rsp - 1 \in Cells
  BY <1>2, <1>3, <1>4, StackCells, SMTT(30)
<1>6. /\ mem' = [c \in Cells |-> mem'[c]] /\ mem'[rsp - 1] = Operand(i)
      /\ \A c \in Cells : c # rsp - 1 => mem'[c] = mem[c]
  BY <1>1, <1>2, <1>5 DEF CallTypes
<1>7. Operand(i) = before.args[i]
  BY <1>2, <1>4, CallFacts, OperandKept DEF AtPush, AsBefore, InRegister
<1>8. IsRegisters(regs') /\ \A r \in XReg : r # Rax => regs'[r] = regs[r]
  BY <1>1, <1>2 DEF CallTypes, IsRegisters
<1>9. CallTypes'
  <2>1. \A c \in Cells : c >= 0 => mem'[c] = mem[c]
    <3>1. rsp - 1 \in Int /\ ~(rsp - 1 >= 0)
      BY <1>3, <1>4
    <3> QED BY <1>6, <3>1
  <2> QED BY <1>1, <1>2, <1>6, <1>8, <2>1, SameTypes
<1>10. AsBefore(Allocatable, regs)' /\ regs'[R11] = before.pointer
  BY <1>1, <1>2, <1>8, RegisterFacts, CallingAssumption DEF AtPush, AsBefore
<1>11. ASSUME NEW j \in Args, j > A + (toPush - 1) PROVE Arrived(j, mem[Pushed(j)])'
  <2>1. Arrived(j, mem[Pushed(j)])' <=> Agrees(mem'[Pushed(j)], before.args[j], WidthOf(j))
    BY <1>1, SameCall DEF Arrived, Agrees
  <2>2. CASE j = i
    BY <1>4, <1>6, <1>7, <2>1, <2>2, Agree
  <2>3. CASE j # i
    <3>1. j > i /\ j \in Nat
      BY <1>3, <1>11, <2>3
    <3>2. Pushed(j) = Base + (j - A) - 1 /\ Pushed(i) = Base + (i - A) - 1
      BY DEF Pushed, A
    <3>3. Pushed(j) \in Int /\ Base <= Pushed(j) /\ Pushed(j) # rsp - 1 /\ Pushed(j) <= Len(call.args)
      BY <1>3, <1>4, <3>1, <3>2
    <3>4. Pushed(j) \in Cells
      BY <1>2, <1>3, <3>3, StackCells
    <3>5. Arrived(j, mem[Pushed(j)])
      BY <1>2, <3>1 DEF AtPush, A
    <3> QED BY <1>6, <2>1, <3>3, <3>4, <3>5 DEF Arrived
  <2> QED BY <2>2, <2>3
<1>12. AtPush'
  <2>1. toPush' \in 0 .. StackArgs /\ rsp' = Base + toPush'
    BY <1>1, <1>3, SMTT(30)
  <2> QED BY <1>1, <1>10, <1>11, <2>1, SameCall DEF AtPush, A
<1> QED BY <1>1, <1>2, <1>9, <1>12 DEF CallInv, CallerStages, CalleeStages

\* One move for each of some indices, in order, is an assignment.
Assigning(S, move) ==
  /\ \A i \in S : move[i] \in Move /\ Scratch \notin {move[i].dst, move[i].src}
  /\ \A i, j \in S : /\ move[i].dst = move[j].dst => i = j
                     /\ move[i].src = move[j].src => move[i].width = move[j].width

InOrder(S, move) == [n \in DOMAIN IndicesOf(S) |-> move[IndicesOf(S)[n]]]

ListsMoves(list, S, move) ==
  /\ list \in Seq(Move) /\ IsAssignment(list)
  /\ \A n \in DOMAIN list : \E i \in S : list[n] = move[i]
  /\ \A i \in S : \E n \in DOMAIN list : list[n] = move[i]

LEMMA MovesInOrder ==
  ASSUME NEW N \in Nat, NEW S \in SUBSET (1 .. N), NEW move, Assigning(S, move)
  PROVE  ListsMoves(InOrder(S, move), S, move)
<1> DEFINE list == InOrder(S, move)
<1> DEFINE at == IndicesOf(S)
           c == Cardinality(S)
<1>1. /\ c \in Nat /\ DOMAIN at = 1 .. c
      /\ \A n \in DOMAIN at : at[n] \in S
      /\ \A m, n \in DOMAIN at : at[m] = at[n] => m = n
      /\ \A i \in S : \E n \in DOMAIN at : at[n] = i
  BY IndicesInOrder
<1>2. list = [n \in DOMAIN at |-> move[at[n]]]
  BY DEF InOrder
<1> HIDE DEF at, c, list
<1>3. /\ DOMAIN list = 1 .. c
      /\ \A n \in 1 .. c : list[n] = move[at[n]] /\ at[n] \in S /\ list[n] \in Move
  <2>1. DOMAIN list = 1 .. c /\ \A n \in 1 .. c : list[n] = move[at[n]] /\ at[n] \in S
    BY <1>1, <1>2
  <2> QED BY <2>1 DEF Assigning
<1>4. list \in Seq(Move)
  <2>1. list = [n \in 1 .. c |-> list[n]]
    BY <1>1, <1>2
  <2>2. list \in [1 .. c -> Move]
    BY <1>3, <2>1
  <2> QED BY <1>1, <2>2
<1>5. IsAssignment(list)
  <2>1. \A n \in DOMAIN list : Scratch \notin {list[n].dst, list[n].src}
    <3>1. \A i \in S : Scratch \notin {move[i].dst, move[i].src}
      BY DEF Assigning
    <3> QED BY <1>3, <3>1
  <2>2. ASSUME NEW m \in DOMAIN list, NEW n \in DOMAIN list
        PROVE  /\ list[m].dst = list[n].dst => m = n
               /\ list[m].src = list[n].src => list[m].width = list[n].width
    <3>1. list[m] = move[at[m]] /\ list[n] = move[at[n]] /\ at[m] \in S /\ at[n] \in S
      BY <1>3
    <3>2. at[m] = at[n] => m = n
      BY <1>1, <1>3
    <3>3. /\ move[at[m]].dst = move[at[n]].dst => at[m] = at[n]
          /\ move[at[m]].src = move[at[n]].src => move[at[m]].width = move[at[n]].width
      BY <3>1 DEF Assigning
    <3> QED BY <3>1, <3>2, <3>3
  <2> QED BY <2>1, <2>2 DEF IsAssignment
<1>6. \A i \in S : \E n \in DOMAIN list : list[n] = move[i]
  <2> SUFFICES ASSUME NEW i \in S PROVE \E n \in DOMAIN list : list[n] = move[i]
    OBVIOUS
  <2>1. PICK n \in DOMAIN at : at[n] = i
    BY <1>1
  <2> QED BY <1>1, <1>3, <2>1
<1>7. \A n \in DOMAIN list : \E i \in S : list[n] = move[i]
  BY <1>3
<1>8. ListsMoves(list, S, move)
  BY <1>4, <1>5, <1>6, <1>7 DEF ListsMoves
<1> QED BY <1>8 DEF list

LEMMA StartArgumentsStep == ASSUME CallInv, StartArguments PROVE CallInv'
<1> DEFINE S == {i \in RegisterArgs : InRegister(i)}
           move == [i \in S |-> ArgumentMove(i)]
<1>1. /\ pc = "push" /\ toPush = 0 /\ pc' = "arguments" /\ start' = regs
      /\ left' = Pending(moves') /\ parked' = {} /\ phase' = "checking"
      /\ UNCHANGED <<call, mem, rsp, rbp, current, before, regs>>
      /\ moves' = [n \in DOMAIN IndicesOf(S) |->
           MoveOf(ArgumentRegs[IndicesOf(S)[n]], call.args[IndicesOf(S)[n]].at,
                  call.args[IndicesOf(S)[n]].width)]
  BY DEF StartArguments, StartMoves, stack
<1>2. /\ CallTypes /\ AtPush /\ call \in Calls
      /\ rbp = before.rbp /\ current = before.current
  BY <1>1 DEF CallInv, CallerStages, CallTypes
<1>3. /\ Len(call.args) \in Nat /\ S \in SUBSET (1 .. Len(call.args))
      /\ Args = 1 .. Len(call.args) /\ Base \in Int
  BY <1>2, CallFacts, StackFacts DEF RegisterArgs
<1>4. \A i \in S : /\ move[i] = ArgumentMove(i) /\ i \in Args /\ i \in DOMAIN ArgumentRegs
                   /\ InRegister(i)
  BY <1>3, RegisterFacts DEF RegisterArgs
<1>5. \A i \in S : move[i] \in Move /\ Scratch \notin {move[i].dst, move[i].src}
  <2> SUFFICES ASSUME NEW i \in S
               PROVE  move[i] \in Move /\ Scratch \notin {move[i].dst, move[i].src}
    OBVIOUS
  <2>1. call.args[i].at \in Allocatable /\ call.args[i].width \in {32, 64}
    BY <1>2, <1>4, CallFacts DEF InRegister
  <2>2. ArgumentRegs[i] \in Allocatable
    BY <1>4, RegisterFacts
  <2> QED BY <1>4, <2>1, <2>2, RegisterFacts DEF ArgumentMove, MoveOf, Move
<1>6. ASSUME NEW i \in S, NEW j \in S
      PROVE  /\ move[i].dst = move[j].dst => i = j
             /\ move[i].src = move[j].src => move[i].width = move[j].width
  <2>1. ArgumentRegs[i] = ArgumentRegs[j] => i = j
    BY <1>4, CallingAssumption
  <2>2. call.args[i].at = call.args[j].at => call.args[i].width = call.args[j].width
    BY <1>2, <1>4, CallFacts DEF WidthOf
  <2>3. move[i] = ArgumentMove(i) /\ move[j] = ArgumentMove(j)
    BY <1>4
  <2> HIDE DEF move
  <2> QED BY <2>1, <2>2, <2>3 DEF ArgumentMove, MoveOf
<1>7. moves' = InOrder(S, move)
  <2>1. \A n \in DOMAIN IndicesOf(S) : IndicesOf(S)[n] \in S
    <3> HIDE DEF S
    <3> QED BY <1>3, IndicesInOrder
  <2> QED BY <1>1, <2>1 DEF ArgumentMove, InOrder
<1> HIDE DEF move, S
<1>8. ListsMoves(moves', S, move)
  <2>1. Assigning(S, move)
    BY <1>5, <1>6 DEF Assigning
  <2> QED BY <1>3, <1>7, <2>1, MovesInOrder
<1>9. MoveInv'
  <2>1. MovesAhead'
    BY <1>1, <1>2, <1>8 DEF MovesAhead, CallTypes, IsRegisters, Pending, ListsMoves
  <2>2. (MovesAhead => MoveInv)'
    BY MovesAheadInv, PTL
  <2> QED BY <2>1, <2>2
<1>10. StackArrived'
  <2>1. ASSUME NEW i \in Args \ RegisterArgs PROVE Arrived(i, mem[Pushed(i)])
    <3>1. i > Len(ArgumentRegs) + toPush
      BY <1>1, <1>3, <2>1, RegisterFacts DEF RegisterArgs
    <3> QED BY <1>2, <3>1 DEF AtPush
  <2> QED BY <1>1, <2>1, SameCall DEF StackArrived, Arrived, Agrees
<1>11. AtArguments'
  <2>1. rsp' = Base /\ AsBefore(Allocatable, start)' /\ start'[R11] = before.pointer
    BY <1>1, <1>2, <1>3 DEF AtPush, AsBefore
  <2>2. \A n \in DOMAIN moves' : \E i \in RegisterArgs : InRegister(i) /\ moves'[n] = ArgumentMove(i)
    BY <1>4, <1>8 DEF S, ListsMoves
  <2>3. \A i \in RegisterArgs :
          InRegister(i) => \E n \in DOMAIN moves' : moves'[n] = ArgumentMove(i)
    BY <1>4, <1>8 DEF S, ListsMoves
  <2>4. IsAssignment(moves)'
    BY <1>8 DEF IsAssignment, ListsMoves
  <2> QED BY <1>1, <1>9, <1>10, <2>1, <2>2, <2>3, <2>4, SameCall DEF AtArguments
<1>12. CallTypes'
  BY <1>1, <1>2, SameTypes DEF CallTypes
<1> QED BY <1>1, <1>2, <1>11, <1>12 DEF CallInv, CallerStages, CalleeStages

LEMMA MovingStep == ASSUME CallInv, Moving PROVE CallInv'
<1>1. /\ pc \in {"arguments", "parameters"} /\ MoveStep
      /\ UNCHANGED <<call, pc, toPush, mem, rsp, rbp, current, before>>
  BY DEF Moving, callVars, stack
<1>2. CallTypes /\ MoveInv /\ IsAssignment(moves) /\ call \in Calls
  BY <1>1 DEF CallInv, AtArguments, AtParameters, CallTypes
<1>3. UNCHANGED <<moves, start>>
  BY <1>1 DEF MoveStep, Accept, Refuse, EmitReady, BreakCycle, Sequenced
<1>4. MoveInv'
  BY <1>1, <1>2, MoveInvStep
<1>5. IsRegisters(regs')
  BY <1>4 DEF MoveInv, MoveTypes, IsRegisters
<1>6. CallTypes'
  BY <1>1, <1>2, <1>5, SameTypes DEF CallTypes
<1>7. StackArrived' <=> StackArrived
  BY <1>1, SameCall DEF StackArrived, Arrived, Agrees
<1>8. CASE pc = "arguments"
  <2>1. AtArguments
    BY <1>8 DEF CallInv
  <2>2. AtArguments'
    BY <1>1, <1>3, <1>4, <1>7, <2>1, SameCall DEF AtArguments, AsBefore, IsAssignment
  <2> QED BY <1>1, <1>6, <1>8, <2>2 DEF CallInv, CallerStages, CalleeStages
<1>9. CASE pc = "parameters"
  <2>1. AtParameters /\ FrameStands
    BY <1>9 DEF CallInv, CalleeStages
  <2>2. AtParameters'
    BY <1>1, <1>3, <1>4, <1>7, <2>1, SameCall
       DEF AtParameters, AsBefore, IsAssignment, Arrived, Agrees
  <2>3. FrameStands'
    BY <1>1, <1>9, <2>1, SameCall DEF FrameStands
  <2> QED BY <1>1, <1>6, <1>9, <2>2, <2>3 DEF CallInv, CallerStages, CalleeStages
<1> QED BY <1>1, <1>8, <1>9

LEMMA LoadOthersStep == ASSUME CallInv, LoadOthers PROVE CallInv'
<1> DEFINE Other(r, i) == i \in RegisterArgs /\ ArgumentRegs[i] = r /\ ~InRegister(i)
<1>1. /\ pc = "arguments" /\ phase = "done" /\ pc' = "call"
      /\ UNCHANGED <<call, toPush, mem, rsp, rbp, current, before>>
      /\ regs' = [r \in XReg |->
           IF \E i \in RegisterArgs : ArgumentRegs[i] = r /\ ~InRegister(i)
             THEN LET i == CHOOSE i \in RegisterArgs : ArgumentRegs[i] = r
                  IN Loaded(Operand(i), call.args[i].width)
             ELSE regs[r]]
  BY DEF LoadOthers, stack
<1>2. /\ CallTypes /\ AtArguments /\ call \in Calls
      /\ rbp = before.rbp /\ current = before.current
  BY <1>1 DEF CallInv, CallerStages, CallTypes
<1>3. IsRegisters(regs') /\ CallTypes'
  <2>1. IsRegisters(regs')
    BY <1>1 DEF IsRegisters
  <2> QED BY <1>1, <1>2, <2>1, SameTypes DEF CallTypes
<1>4. /\ \A n \in DOMAIN moves : Agrees(regs[moves[n].dst], start[moves[n].src], moves[n].width)
      /\ \A r \in XReg \ {Scratch} : (\A n \in DOMAIN moves : moves[n].dst # r) => regs[r] = start[r]
  BY <1>1, <1>2, MoveInvDelivers DEF AtArguments, Delivered
<1>5. ASSUME NEW i \in RegisterArgs
      PROVE  /\ i \in Args /\ i \in DOMAIN ArgumentRegs /\ ArgumentRegs[i] \in Allocatable
             /\ \A j \in RegisterArgs : ArgumentRegs[j] = ArgumentRegs[i] => j = i
  <2>1. \A j \in RegisterArgs : j \in Args /\ j \in DOMAIN ArgumentRegs
    BY <1>2, CallFacts, RegisterFacts DEF RegisterArgs
  <2> QED BY <2>1, RegisterFacts, CallingAssumption
<1>6. ASSUME NEW i \in RegisterArgs PROVE Arrived(i, regs[ArgumentRegs[i]])'
  <2> DEFINE r == ArgumentRegs[i]
  <2>1. r \in XReg /\ i \in Args /\ \A j \in RegisterArgs : ArgumentRegs[j] = r => j = i
    BY <1>5, RegisterFacts
  <2>2. Agrees(regs'[r], before.args[i], WidthOf(i))
    <3>1. CASE InRegister(i)
      <4>1. ~ \E j \in RegisterArgs : ArgumentRegs[j] = r /\ ~InRegister(j)
        BY <2>1, <3>1
      <4>2. regs'[r] = regs[r]
        BY <1>1, <2>1, <4>1
      <4>3. PICK n \in DOMAIN moves : moves[n] = ArgumentMove(i)
        BY <1>2, <3>1 DEF AtArguments
      <4>4. Agrees(regs[r], start[call.args[i].at], WidthOf(i))
        BY <1>4, <4>3 DEF ArgumentMove, MoveOf, WidthOf
      <4>5. start[call.args[i].at] = before.args[i]
        <5>1. call.args[i].at \in Allocatable
          BY <1>2, <2>1, <3>1, CallFacts DEF InRegister
        <5>2. before.args[i] = before.regs[call.args[i].at]
          BY <1>2, <2>1, <3>1 DEF CallTypes, OperandBefore, InRegister
        <5> QED BY <1>2, <5>1, <5>2 DEF AtArguments, AsBefore
      <4> QED BY <4>2, <4>4, <4>5
    <3>2. CASE ~InRegister(i)
      <4> DEFINE c == CHOOSE j \in RegisterArgs : ArgumentRegs[j] = r
      <4>1. c = i
        BY <2>1
      <4>2. regs'[r] = Loaded(Operand(c), call.args[c].width)
        BY <1>1, <2>1, <3>2
      <4>3. Operand(i) = before.args[i]
        BY <1>2, <2>1, <3>2, OperandKept
      <4> HIDE DEF c
      <4> QED BY <4>1, <4>2, <4>3, Agree DEF WidthOf
    <3> QED BY <3>1, <3>2
  <2> QED BY <1>1, <2>2, SameCall DEF Arrived, Agrees
<1>7. ASSUME NEW r \in XReg \ {Scratch}, \A i \in RegisterArgs : ArgumentRegs[i] # r
      PROVE  regs'[r] = start[r]
  <2>1. regs'[r] = regs[r]
    BY <1>1, <1>7
  <2>2. \A n \in DOMAIN moves : moves[n].dst # r
    BY <1>2, <1>7 DEF AtArguments, ArgumentMove, MoveOf
  <2> QED BY <1>4, <2>1, <2>2
<1>8. AsBefore(CalleeSavedSet, regs)' /\ regs'[R11] = before.pointer
  <2>1. \A r \in CalleeSavedSet \cup {R11} : r \in XReg \ {Scratch}
    BY RegisterFacts, CallingAssumption
  <2>2. \A r \in CalleeSavedSet \cup {R11} : \A i \in RegisterArgs : ArgumentRegs[i] # r
    BY <1>5, RegisterFacts
  <2>3. \A r \in CalleeSavedSet \cup {R11} : regs'[r] = start[r]
    BY <1>7, <2>1, <2>2
  <2> QED BY <1>1, <1>2, <2>3, RegisterFacts DEF AtArguments, AsBefore, CalleeSavedSet
<1>9. StackArrived'
  BY <1>1, <1>2, SameCall DEF AtArguments, StackArrived, Arrived, Agrees
<1>10. AtCall'
  BY <1>1, <1>2, <1>6, <1>8, <1>9, SameCall DEF AtCall, AtArguments
<1> QED BY <1>1, <1>2, <1>3, <1>10 DEF CallInv, CallerStages, CalleeStages

LEMMA EnterCalleeStep == ASSUME CallInv, EnterCallee PROVE CallInv'
<1> DEFINE fp == Base - 2
<1>1. /\ pc = "call" /\ pc' = "entered" /\ rbp' = rsp - 2 /\ rsp' = rbp' - FrameSize
      /\ UNCHANGED <<call, toPush, current, before, regs>>
      /\ mem' = [c \in Cells |->
           CASE c = rsp - 1 -> All(Result)
             [] c = rsp - 2 -> All(rbp)
             [] \E i \in DOMAIN Saved : c = rbp' - i -> regs[Saved[rbp' - c]]
             [] OTHER -> mem[c]]
  BY DEF EnterCallee
<1>2. /\ CallTypes /\ AtCall /\ call \in Calls
      /\ rbp = before.rbp /\ current = before.current
  BY <1>1 DEF CallInv, CallerStages, CallTypes
<1>3. /\ Base \in Int /\ Base <= 0 /\ rsp = Base /\ rbp' = fp /\ fp \in Int
      /\ DOMAIN Saved = 1 .. Len(Saved) /\ Len(Saved) \in Nat /\ Len(call.args) \in Nat
  BY <1>1, <1>2, StackFacts, SavedFacts, CallFacts DEF AtCall
<1> HIDE DEF fp
<1>4. fp = Base - 2
  BY DEF fp
<1>5. mem'[fp] = All(before.rbp)
  <2>1. fp \in Cells
    BY <1>2, <1>3, <1>4, StackCells
  <2>2. fp = rsp - 2 /\ rsp - 2 # rsp - 1
    BY <1>3, <1>4
  <2>3. mem'[rsp - 2] = All(rbp)
    <3>1. rsp - 2 \in Cells
      BY <2>1, <2>2
    <3>2. ~ \E i \in DOMAIN Saved : rsp - 2 = rbp' - i
      BY <1>3, <1>4
    <3> QED BY ONLY <1>1, <2>2, <3>1, <3>2
  <2> QED BY <1>2, <2>2, <2>3
<1>6. ASSUME NEW i \in DOMAIN Saved PROVE mem'[fp - i] = before.regs[Saved[i]]
  <2>1. fp - i \in Int /\ fp - i # rsp - 1 /\ fp - i # rsp - 2 /\ fp - (fp - i) = i
        /\ fp - i <= Len(call.args) /\ i <= Len(Saved)
    BY <1>3, <1>4
  <2>2. fp - i \in Cells
    <3>1. FrameSize \in Nat /\ Len(Saved) <= FrameSize
      BY <1>2, <1>3, FrameFacts
    <3>2. Base - 2 - FrameSize <= fp - i
      BY <1>3, <1>4, <2>1, <3>1
    <3> QED BY <1>2, <2>1, <3>2, FrameFacts
  <2>3. mem'[fp - i] = regs[Saved[i]]
    BY <1>1, <1>3, <2>1, <2>2
  <2>4. Saved[i] \in CalleeSavedSet
    BY <1>2, SavedFacts
  <2> QED BY <1>2, <2>3, <2>4 DEF AtCall, AsBefore
<1>7. ASSUME NEW c \in Cells, c >= Base PROVE mem'[c] = mem[c]
  <2>1. c \in Int
    BY CallingAssumption
  <2>2. c # rsp - 1 /\ c # rsp - 2 /\ ~ \E i \in DOMAIN Saved : c = rbp' - i
    BY <1>3, <1>4, <1>7, <2>1
  <2> QED BY <1>1, <2>2
<1>8. CallTypes'
  <2>1. \A c \in Cells : c >= 0 => mem'[c] = mem[c]
    <3>1. \A c \in Cells : c \in Int
      BY CallingAssumption
    <3> QED BY <1>3, <1>7, <3>1
  <2>2. mem' = [c \in Cells |-> mem'[c]]
    BY <1>1
  <2> QED BY <1>1, <1>2, <2>1, <2>2, SameTypes DEF CallTypes
<1>9. FrameStands'
  <2>1. AsBefore(CalleeSavedSet \ SavedSet, regs)'
    BY <1>1, <1>2, SameCall DEF AtCall, AsBefore
  <2> QED BY <1>1, <1>2, <1>3, <1>4, <1>5, <1>6, <2>1, SameCall DEF FrameStands
<1>10. ASSUME NEW i \in Args PROVE Arrived(i, Incoming(i))'
  <2>1. Arrived(i, Incoming(i))' <=> Agrees(Incoming(i)', before.args[i], WidthOf(i))
    BY <1>1, SameCall DEF Arrived, Agrees
  <2>2. i \in Nat /\ i <= Len(call.args) /\ Len(ArgumentRegs) \in Nat
    BY <1>2, CallFacts, RegisterFacts
  <2>3. CASE i <= Len(ArgumentRegs)
    <3>1. Incoming(i)' = regs[ArgumentRegs[i]] /\ i \in RegisterArgs
      BY <1>1, <2>3 DEF Incoming, RegisterArgs
    <3> QED BY <1>2, <2>1, <3>1 DEF AtCall, Arrived
  <2>4. CASE ~(i <= Len(ArgumentRegs))
    <3>1. Pushed(i) = Base + (i - Len(ArgumentRegs)) - 1 /\ i \in Args \ RegisterArgs
      BY <2>4 DEF Pushed, RegisterArgs
    <3> DEFINE A == Len(ArgumentRegs)
               n == Len(call.args)
    <3> HIDE DEF A, n
    <3>2. /\ rbp' + 1 + i - A = Pushed(i) /\ Pushed(i) \in Int
          /\ Pushed(i) >= Base /\ Pushed(i) <= n
      BY <1>3, <1>4, <2>2, <2>4, <3>1 DEF A, n
    <3>3. Pushed(i) \in Cells
      BY <1>2, <1>3, <3>2, StackCells DEF n
    <3>4. Incoming(i)' = mem'[Pushed(i)] /\ mem'[Pushed(i)] = mem[Pushed(i)]
      BY <1>7, <2>4, <3>2, <3>3 DEF Incoming, A
    <3> QED BY <1>2, <2>1, <3>1, <3>4 DEF AtCall, StackArrived, Arrived
  <2> QED BY <2>3, <2>4
<1>11. AtEntered'
  BY <1>1, <1>10, SameCall DEF AtEntered
<1> QED BY <1>1, <1>8, <1>9, <1>11 DEF CallInv, CallerStages, CalleeStages

LEMMA StoreParamsStep == ASSUME CallInv, StoreParams PROVE CallInv'
<1> DEFINE S == {i \in Params : i <= Len(ArgumentRegs) /\ call.params[i] \notin Nat}
           move == [i \in S |-> ParameterMove(i)]
           Stores(c, i) == i \in Params /\ call.params[i] \in Nat /\ c = SpillCell(rbp, call.params[i])
<1>1. /\ pc = "entered" /\ pc' = "parameters" /\ start' = regs'
      /\ left' = Pending(moves') /\ parked' = {} /\ phase' = "checking"
      /\ UNCHANGED <<call, toPush, rsp, rbp, current, before>>
      /\ mem' = [c \in Cells |->
           IF \E i \in Params : call.params[i] \in Nat /\ c = SpillCell(rbp, call.params[i])
             THEN LET i == CHOOSE i \in Params : call.params[i] \in Nat /\ c = SpillCell(rbp, call.params[i])
                  IN Stored(Incoming(i), WidthOf(i), mem[c])
             ELSE mem[c]]
      /\ moves' = [n \in DOMAIN IndicesOf(S) |->
           MoveOf(call.params[IndicesOf(S)[n]], ArgumentRegs[IndicesOf(S)[n]],
                  WidthOf(IndicesOf(S)[n]))]
  BY DEF StoreParams, StartMoves
<1>2. \E word : regs' = regs \/ regs' = [regs EXCEPT ![Rax] = word]
  BY DEF StoreParams
<1>3. /\ CallTypes /\ FrameStands /\ AtEntered /\ call \in Calls
  BY <1>1 DEF CallInv, CalleeStages, CallTypes
<1>4. IsRegisters(regs') /\ \A r \in XReg : r # Rax => regs'[r] = regs[r]
  BY <1>2, <1>3 DEF CallTypes, IsRegisters
<1>5. /\ Len(call.args) \in Nat /\ S \in SUBSET (1 .. Len(call.args)) /\ Params = Args
      /\ Args = 1 .. Len(call.args) /\ Base \in Int /\ Base <= 0 /\ rbp = Base - 2 /\ rbp \in Int
      /\ Len(Saved) \in Nat /\ Spills = call.spills /\ Spills \in Nat
  BY <1>3, CallFacts, StackFacts, SavedFacts DEF FrameStands, Spills
<1>6. \A i \in S : /\ move[i] = ParameterMove(i) /\ i \in Args /\ i \in DOMAIN ArgumentRegs
                   /\ i \in RegisterArgs /\ call.params[i] \notin Nat
  BY <1>5, RegisterFacts DEF RegisterArgs
<1>7. Assigning(S, move)
  <2>1. ASSUME NEW i \in S PROVE move[i] \in Move /\ Scratch \notin {move[i].dst, move[i].src}
    <3>1. call.params[i] \in Allocatable /\ WidthOf(i) \in {32, 64}
      BY <1>3, <1>6, CallFacts DEF WidthOf
    <3>2. ArgumentRegs[i] \in Allocatable
      BY <1>6, RegisterFacts
    <3> QED BY <1>6, <3>1, <3>2, RegisterFacts DEF ParameterMove, MoveOf, Move
  <2>2. ASSUME NEW i \in S, NEW j \in S
        PROVE  /\ move[i].dst = move[j].dst => i = j
               /\ move[i].src = move[j].src => move[i].width = move[j].width
    <3>1. ArgumentRegs[i] = ArgumentRegs[j] => i = j
      BY <1>6, CallingAssumption
    <3>2. call.params[i] = call.params[j] => i = j
      BY <1>3, <1>6, CallFacts
    <3>3. move[i] = ParameterMove(i) /\ move[j] = ParameterMove(j)
      BY <1>6
    <3> HIDE DEF move
    <3> QED BY <3>1, <3>2, <3>3 DEF ParameterMove, MoveOf
  <2> HIDE DEF move, S
  <2> QED BY <2>1, <2>2 DEF Assigning
<1>8. moves' = InOrder(S, move)
  <2>1. \A n \in DOMAIN IndicesOf(S) : IndicesOf(S)[n] \in S
    <3> HIDE DEF S
    <3> QED BY <1>5, IndicesInOrder
  <2> QED BY <1>1, <2>1 DEF ParameterMove, InOrder
<1> HIDE DEF move, S
<1>9. ListsMoves(moves', S, move)
  BY <1>5, <1>7, <1>8, MovesInOrder
<1>10. MoveInv'
  <2>1. MovesAhead'
    BY <1>1, <1>4, <1>9 DEF MovesAhead, IsRegisters, Pending, ListsMoves
  <2>2. (MovesAhead => MoveInv)'
    BY MovesAheadInv, PTL
  <2> QED BY <2>1, <2>2
<1>11. ASSUME NEW c \in Cells, c >= rbp - Len(Saved) PROVE mem'[c] = mem[c]
  <2>1. ~ \E i \in Params : call.params[i] \in Nat /\ c = SpillCell(rbp, call.params[i])
    <3> SUFFICES ASSUME NEW i \in Params, call.params[i] \in Nat
                 PROVE  c # SpillCell(rbp, call.params[i])
      OBVIOUS
    <3>1. call.params[i] \in 0 .. Spills - 1
      BY <1>3, <1>5, CallFacts, RegisterFacts
    <3>2. SpillCell(rbp, call.params[i]) \in Int /\ SpillCell(rbp, call.params[i]) < rbp - Len(Saved)
      BY <1>3, <1>5, <3>1, FrameAreas
    <3>3. c \in Int
      BY CallingAssumption
    <3> QED BY <1>5, <1>11, <3>2, <3>3
  <2> QED BY <1>1, <2>1
<1>12. CallTypes'
  <2>1. \A c \in Cells : c >= 0 => mem'[c] = mem[c]
    <3>1. \A c \in Cells : c \in Int
      BY CallingAssumption
    <3> QED BY <1>5, <1>11, <3>1
  <2>2. mem' = [c \in Cells |-> mem'[c]]
    BY <1>1
  <2> QED BY <1>1, <1>3, <1>4, <2>1, <2>2, SameTypes
<1>13. ASSUME NEW c \in Int, c >= rbp - Len(Saved), c <= Len(call.args)
       PROVE  c \in Cells /\ mem'[c] = mem[c]
  <2>1. FrameSize \in Nat /\ Len(Saved) <= FrameSize
    BY <1>3, <1>5, FrameFacts
  <2>2. Base - 2 - FrameSize <= c
    BY <1>5, <1>13, <2>1
  <2> QED BY <1>3, <1>11, <1>13, <2>2, FrameFacts
<1>14. FrameStands'
  <2>1. mem'[rbp] = mem[rbp]
    BY <1>5, <1>13
  <2>2. ASSUME NEW i \in DOMAIN Saved PROVE mem'[rbp - i] = mem[rbp - i]
    <3>1. i \in 1 .. Len(Saved)
      BY <1>3, SavedFacts
    <3> QED BY <1>5, <1>13, <3>1
  <2> QED BY <1>1, <1>3, <2>1, <2>2, SameCall DEF FrameStands
<1>15. StackArrived'
  <2>1. ASSUME NEW i \in Args \ RegisterArgs PROVE Arrived(i, mem[Pushed(i)])'
    <3>1. i \in Nat /\ ~(i <= Len(ArgumentRegs)) /\ i <= Len(call.args) /\ Len(ArgumentRegs) \in Nat
      BY <1>5, <2>1, RegisterFacts DEF RegisterArgs
    <3>2. /\ Pushed(i) = Base + (i - Len(ArgumentRegs)) - 1
          /\ Incoming(i) = mem[rbp + 1 + i - Len(ArgumentRegs)]
      BY <3>1 DEF Pushed, Incoming
    <3> DEFINE A == Len(ArgumentRegs)
               n == Len(call.args)
    <3> HIDE DEF A, n
    <3>3. /\ rbp + 1 + i - A = Pushed(i) /\ Pushed(i) \in Int
          /\ Pushed(i) >= rbp - Len(Saved) /\ Pushed(i) <= n
      BY <1>5, <3>1, <3>2 DEF A, n
    <3>4. mem'[Pushed(i)] = Incoming(i)
      BY <1>13, <3>2, <3>3 DEF A, n
    <3> QED BY <1>1, <1>3, <2>1, <3>4, SameCall DEF AtEntered, Arrived, Agrees
  <2> QED BY <1>1, <2>1, SameCall DEF StackArrived
<1>16. ASSUME NEW i \in Params, call.params[i] \in Nat
       PROVE  Arrived(i, mem[SpillCell(rbp, call.params[i])])'
  <2> DEFINE c == SpillCell(rbp, call.params[i])
             j == CHOOSE j \in Params : call.params[j] \in Nat /\ c = SpillCell(rbp, call.params[j])
  <2>1. \A k \in Params : call.params[k] \in Nat => call.params[k] \in 0 .. Spills - 1
    BY <1>3, <1>5, CallFacts, RegisterFacts
  <2>2. j \in Params /\ call.params[j] \in Nat /\ c = SpillCell(rbp, call.params[j])
    BY <1>16
  <2>3. j = i
    <3>1. call.params[j] = call.params[i]
      <4> HIDE DEF j
      <4> QED BY <1>3, <1>5, <1>16, <2>1, <2>2, FrameAreas
    <3> HIDE DEF j
    <3> QED BY <1>3, <1>5, <1>16, <2>2, <3>1, CallFacts
  <2>4. c \in Cells
    <3>1. c \in Int /\ rbp - FrameSize <= c /\ c < rbp - Len(Saved)
      BY <1>3, <1>5, <1>16, <2>1, FrameAreas
    <3> HIDE DEF c
    <3>2. Base - 2 - FrameSize <= c /\ c <= Len(call.args)
      BY <1>5, <3>1
    <3> QED BY <1>3, <3>1, <3>2, FrameFacts
  <2>5. mem'[c] = Stored(Incoming(j), WidthOf(j), mem[c])
    BY <1>1, <1>16, <2>4
  <2>6. Arrived(i, Incoming(i))
    BY <1>3, <1>5, <1>16 DEF AtEntered
  <2>7. Agrees(mem'[c], before.args[i], WidthOf(i))
    <3> HIDE DEF c, j
    <3> QED BY <2>3, <2>5, <2>6, Agree DEF Arrived
  <2>8. /\ rbp' = rbp /\ before' = before /\ call' = call /\ WidthOf(i)' = WidthOf(i)
        /\ SpillCell(rbp, call.params[i])' = c
    BY <1>1, SameCall
  <2> HIDE DEF c, j
  <2> QED BY <2>7, <2>8 DEF Arrived
<1>17. ASSUME NEW i \in RegisterArgs PROVE Arrived(i, start[ArgumentRegs[i]])'
  <2>1. i \in Args /\ i <= Len(ArgumentRegs) /\ i \in DOMAIN ArgumentRegs
    BY <1>5, RegisterFacts DEF RegisterArgs
  <2>2. regs'[ArgumentRegs[i]] = Incoming(i)
    BY <1>4, <2>1, RegisterFacts DEF Incoming
  <2> QED BY <1>1, <1>3, <2>1, <2>2, SameCall DEF AtEntered, Arrived, Agrees
<1>18. AtParameters'
  <2>1. AsBefore(CalleeSavedSet \ SavedSet, start)'
    BY <1>1, <1>3, <1>4, SameCall, RegisterFacts DEF FrameStands, AsBefore, CalleeSavedSet
  <2>2. \A n \in DOMAIN moves' :
          \E i \in RegisterArgs : call.params[i] \notin Nat /\ moves'[n] = ParameterMove(i)
    BY <1>6, <1>9 DEF ListsMoves
  <2>3. \A i \in RegisterArgs :
          call.params[i] \notin Nat => \E n \in DOMAIN moves' : moves'[n] = ParameterMove(i)
    <3> SUFFICES ASSUME NEW i \in RegisterArgs, call.params[i] \notin Nat
                 PROVE  \E n \in DOMAIN moves' : moves'[n] = ParameterMove(i)
      OBVIOUS
    <3>1. i \in S
      BY <1>5 DEF S, RegisterArgs
    <3>2. \E n \in DOMAIN moves' : moves'[n] = move[i]
      BY <1>9, <3>1 DEF ListsMoves
    <3> QED BY <1>6, <3>1, <3>2
  <2>4. IsAssignment(moves)'
    BY <1>9 DEF IsAssignment, ListsMoves
  <2> QED BY <1>1, <1>10, <1>15, <1>16, <1>17, <2>1, <2>2, <2>3, <2>4, SameCall DEF AtParameters
<1> QED BY <1>1, <1>12, <1>14, <1>18 DEF CallInv, CallerStages, CalleeStages

LEMMA LoadParamsStep == ASSUME CallInv, LoadParams PROVE CallInv'
<1> DEFINE A == Len(ArgumentRegs)
<1>1. /\ pc = "parameters" /\ phase = "done" /\ pc' = "shadow"
      /\ UNCHANGED <<call, toPush, mem, rsp, rbp, current, before>>
      /\ regs' = [r \in XReg |->
           IF \E i \in Params : i > Len(ArgumentRegs) /\ call.params[i] = r
             THEN LET i == CHOOSE i \in Params : call.params[i] = r
                  IN Loaded(Incoming(i), WidthOf(i))
             ELSE regs[r]]
  BY DEF LoadParams, stack
<1>2. /\ CallTypes /\ FrameStands /\ AtParameters /\ call \in Calls
  BY <1>1 DEF CallInv, CalleeStages, CallTypes
<1>3. IsRegisters(regs') /\ CallTypes'
  <2>1. IsRegisters(regs')
    BY <1>1 DEF IsRegisters
  <2> QED BY <1>1, <1>2, <2>1, SameTypes DEF CallTypes
<1>4. /\ \A n \in DOMAIN moves : Agrees(regs[moves[n].dst], start[moves[n].src], moves[n].width)
      /\ \A r \in XReg \ {Scratch} : (\A n \in DOMAIN moves : moves[n].dst # r) => regs[r] = start[r]
  BY <1>1, <1>2, MoveInvDelivers DEF AtParameters, Delivered
<1>5. /\ Params = Args /\ Len(call.args) \in Nat /\ Args = 1 .. Len(call.args) /\ A \in Nat
      /\ Base \in Int /\ rbp = Base - 2
      /\ \A i, j \in Args : call.params[i] = call.params[j] => i = j
      /\ \A i \in Args : call.params[i] \notin Nat => call.params[i] \in Allocatable
  BY <1>2, CallFacts, RegisterFacts, StackFacts, SMTT(30) DEF FrameStands
<1> HIDE DEF A
<1>6. ASSUME NEW i \in Args, call.params[i] \notin Nat
      PROVE  Agrees(regs'[call.params[i]], before.args[i], WidthOf(i))
  <2> DEFINE r == call.params[i]
  <2>1. r \in XReg /\ \A j \in Params : call.params[j] = r => j = i
    BY <1>5, <1>6, RegisterFacts
  <2>2. CASE i \in RegisterArgs
    <3>1. ~ \E j \in Params : j > Len(ArgumentRegs) /\ call.params[j] = r
      BY <1>5, <2>1, <2>2 DEF RegisterArgs, A
    <3>2. regs'[r] = regs[r]
      BY <1>1, <2>1, <3>1
    <3>3. PICK n \in DOMAIN moves : moves[n] = ParameterMove(i)
      BY <1>2, <1>6, <2>2 DEF AtParameters
    <3>4. Agrees(regs[r], start[ArgumentRegs[i]], WidthOf(i))
      BY <1>4, <3>3 DEF ParameterMove, MoveOf
    <3>5. Agrees(start[ArgumentRegs[i]], before.args[i], WidthOf(i))
      BY <1>2, <2>2 DEF AtParameters, Arrived
    <3> QED BY <3>2, <3>4, <3>5 DEF Agrees
  <2>3. CASE i \notin RegisterArgs
    <3> DEFINE c == CHOOSE j \in Params : call.params[j] = r
    <3>1. i > Len(ArgumentRegs) /\ i \in Params
      BY <1>5, <2>3 DEF RegisterArgs, A
    <3>2. c = i
      BY <2>1, <3>1
    <3>3. regs'[r] = Loaded(Incoming(c), WidthOf(c))
      BY <1>1, <2>1, <3>1
    <3>4. Incoming(i) = mem[Pushed(i)]
      <4>1. Incoming(i) = mem[rbp + 1 + i - A] /\ Pushed(i) = Base + (i - A) - 1
        BY <1>5, <3>1 DEF Incoming, Pushed, A
      <4>2. rbp + 1 + i - A = Pushed(i)
        BY <1>5, <4>1
      <4> QED BY <4>1, <4>2
    <3>5. Arrived(i, mem[Pushed(i)])
      BY <1>2, <2>3 DEF AtParameters, StackArrived
    <3> HIDE DEF c, r
    <3>6. Agrees(regs'[r], before.args[i], WidthOf(i))
      BY <3>2, <3>3, <3>4, <3>5, Agree DEF Arrived
    <3> QED BY <3>6 DEF r
  <2> QED BY <2>2, <2>3
<1>7. AtShadow'
  <2>1. ASSUME NEW i \in Args PROVE Arrived(i, PlaceOf(i))'
    <3>1. CASE call.params[i] \in Nat
      <4>1. Arrived(i, mem[SpillCell(rbp, call.params[i])])
        BY <1>2, <1>5, <3>1 DEF AtParameters
      <4>2. PlaceOf(i)' = mem[SpillCell(rbp, call.params[i])]
        BY <1>1, <3>1, SameCall DEF PlaceOf
      <4> QED BY <1>1, <4>1, <4>2, SameCall DEF Arrived, Agrees
    <3>2. CASE call.params[i] \notin Nat
      <4>1. PlaceOf(i)' = regs'[call.params[i]]
        BY <1>1, <3>2 DEF PlaceOf
      <4>2. Agrees(PlaceOf(i)', before.args[i], WidthOf(i))
        BY <1>6, <3>2, <4>1
      <4> QED BY <1>1, <4>2, SameCall DEF Arrived, Agrees
    <3> QED BY <3>1, <3>2
  <2> QED BY <1>1, <2>1, SameCall DEF AtShadow
<1>8. ASSUME NEW r \in CalleeSavedSet \ SavedSet PROVE regs'[r] = before.regs[r]
  <2>1. r \in XReg \ {Scratch}
    BY RegisterFacts
  <2>2. \A i \in Params : call.params[i] # r
    BY <1>2, SavedFacts DEF PlacesUsed, Elements, Params
  <2>3. regs'[r] = regs[r]
    BY <1>1, <2>1, <2>2
  <2>4. \A n \in DOMAIN moves : moves[n].dst # r
    <3> SUFFICES ASSUME NEW n \in DOMAIN moves PROVE moves[n].dst # r
      OBVIOUS
    <3>1. PICK i \in RegisterArgs : moves[n] = ParameterMove(i)
      BY <1>2 DEF AtParameters
    <3>2. i \in Params
      BY <1>5 DEF RegisterArgs
    <3> QED BY <2>2, <3>1, <3>2 DEF ParameterMove, MoveOf
  <2>5. regs[r] = start[r]
    BY <1>4, <2>1, <2>4
  <2> QED BY <1>2, <2>3, <2>5 DEF AtParameters, AsBefore
<1>9. FrameStands'
  <2>1. AsBefore(CalleeSavedSet \ SavedSet, regs)'
    BY <1>1, <1>8, SameCall DEF AsBefore, CalleeSavedSet
  <2> QED BY <1>1, <1>2, <2>1, SameCall DEF FrameStands
<1> QED BY <1>1, <1>3, <1>7, <1>9 DEF CallInv, CallerStages, CalleeStages

LEMMA PushShadowStep == ASSUME CallInv, PushShadow PROVE CallInv'
<1>1. /\ pc = "shadow" /\ pc' = "body"
      /\ UNCHANGED <<call, toPush, rsp, rbp, before>>
  BY DEF PushShadow
<1>2. /\ CallTypes /\ FrameStands /\ AtShadow /\ call \in Calls
  BY <1>1 DEF CallInv, CalleeStages, CallTypes
<1>3. /\ Params = Args /\ Len(call.args) \in Nat /\ Base \in Int /\ Base <= 0
      /\ rbp = Base - 2 /\ rbp \in Int /\ FrameSize \in Nat
      /\ Len(Saved) \in Nat /\ Spills = call.spills /\ Spills \in Nat
      /\ call.roots \in Nat /\ call.hasCalls \in BOOLEAN
  BY <1>2, CallFacts, StackFacts, SavedFacts, FrameFacts DEF FrameStands, Spills
<1>4. CASE ~call.hasCalls
  <2>1. UNCHANGED <<mem, current, regs>>
    BY <1>4 DEF PushShadow
  <2>2. CallTypes'
    BY <1>1, <1>2, <2>1, SameTypes DEF CallTypes
  <2>3. FrameStands'
    BY <1>1, <1>2, <2>1, SameCall DEF FrameStands, AsBefore
  <2>4. AtShadow'
    BY <1>1, <1>2, <1>3, <2>1, SameCall DEF AtShadow, Arrived, Agrees, PlaceOf
  <2>5. Linked'
    BY <1>1, <1>2, <1>4, <2>1 DEF Linked, FrameStands
  <2>6. AtBody'
    BY <1>1, <1>4, <2>4, <2>5 DEF AtBody
  <2> QED BY <1>1, <2>2, <2>3, <2>6 DEF CallInv, CallerStages, CalleeStages
<1>5. CASE call.hasCalls
  <2> DEFINE sb == ShadowBase(rbp)
  <2>1. /\ mem' = [c \in Cells |->
                 CASE c = ShadowBase(rbp) -> All(current)
                   [] c = ShadowBase(rbp) + 1 -> All(call.roots)
                   [] \E s \in 0 .. call.roots - 1 : c = RootCell(rbp, s) -> All(Zero)
                   [] OTHER -> mem[c]]
        /\ current' = sb /\ regs' = Clobbered(CallerSaved)
    BY <1>5 DEF PushShadow
  <2>2. /\ sb \in Int /\ sb + 1 < rbp - Len(Saved) /\ rbp - FrameSize <= sb
        /\ \A s \in 0 .. call.roots - 1 :
             /\ RootCell(rbp, s) \in Int /\ sb + 1 < RootCell(rbp, s)
             /\ RootCell(rbp, s) < rbp - Len(Saved)
    <3>1. call \in Calls /\ rbp \in Int
      BY <1>2, <1>3
    <3> QED BY ONLY <1>5, <3>1, FrameAreas
  <2>3. \A k \in 0 .. Spills - 1 :
          /\ SpillCell(rbp, k) \in Int /\ SpillCell(rbp, k) < sb
          /\ rbp - FrameSize <= SpillCell(rbp, k)
    BY <1>2, <1>3, <1>5, FrameAreas
  <2> HIDE DEF sb
  <2>4. ASSUME NEW c \in Int, rbp - FrameSize <= c, c <= Len(call.args) PROVE c \in Cells
    <3>1. Base - 2 - FrameSize <= c
      BY <1>3, <2>4
    <3> QED BY <1>2, <2>4, <3>1, FrameFacts
  <2>5. ASSUME NEW c \in Cells, c < sb \/ c >= rbp - Len(Saved) PROVE mem'[c] = mem[c]
    <3>1. c \in Int
      BY CallingAssumption
    <3>2. /\ c # sb /\ c # sb + 1
          /\ ~ \E s \in 0 .. call.roots - 1 : c = RootCell(rbp, s)
      BY <1>3, <2>2, <2>5, <3>1
    <3> QED BY <2>1, <3>2 DEF sb
  <2>6. mem'[sb] = All(before.current) /\ mem'[sb + 1] = All(call.roots)
    <3>1. sb \in Cells /\ sb + 1 \in Cells
      BY <1>3, <2>2, <2>4
    <3>2. /\ sb # sb + 1
          /\ ~ \E s \in 0 .. call.roots - 1 : sb = RootCell(rbp, s)
          /\ ~ \E s \in 0 .. call.roots - 1 : sb + 1 = RootCell(rbp, s)
      BY <2>2
    <3>3. current = before.current
      BY <1>1, <1>2 DEF FrameStands
    <3> QED BY <2>1, <3>1, <3>2, <3>3 DEF sb
  <2>7. \A s \in 0 .. call.roots - 1 : mem'[RootCell(rbp, s)] = All(Zero)
    <3> SUFFICES ASSUME NEW s \in 0 .. call.roots - 1 PROVE mem'[RootCell(rbp, s)] = All(Zero)
      OBVIOUS
    <3>1. RootCell(rbp, s) # sb /\ RootCell(rbp, s) # sb + 1
      BY <2>2
    <3>2. RootCell(rbp, s) \in Cells
      BY <1>3, <2>2, <2>4
    <3> QED BY <2>1, <3>1, <3>2 DEF sb
  <2>8. IsRegisters(regs') /\ \A r \in XReg \ CallerSaved : regs'[r] = regs[r]
    BY <2>1 DEF Clobbered, IsRegisters
  <2>9. CallTypes'
    <3>1. \A c \in Cells : c >= 0 => mem'[c] = mem[c]
      <4>1. \A c \in Cells : c \in Int
        BY CallingAssumption
      <4> QED BY <1>3, <2>5, <4>1
    <3>2. mem' = [c \in Cells |-> mem'[c]]
      BY <2>1
    <3> QED BY <1>1, <1>2, <2>8, <3>1, <3>2, SameTypes
  <2>10. FrameStands'
    <3>1. mem'[rbp] = mem[rbp]
      BY <1>3, <2>4, <2>5
    <3>2. ASSUME NEW i \in DOMAIN Saved PROVE mem'[rbp - i] = mem[rbp - i]
      <4>1. i \in 1 .. Len(Saved) /\ Len(Saved) <= FrameSize
        BY <1>2, <1>3, SavedFacts, FrameFacts
      <4>2. rbp - i \in Int /\ rbp - i >= rbp - Len(Saved) /\ rbp - FrameSize <= rbp - i
            /\ rbp - i <= Len(call.args)
        BY <1>3, <4>1
      <4> QED BY <2>4, <2>5, <4>2
    <3>3. AsBefore(CalleeSavedSet \ SavedSet, regs)'
      BY <1>1, <1>2, <2>8, SameCall, RegisterFacts DEF FrameStands, AsBefore, CallerSaved, CalleeSavedSet
    <3> QED BY <1>1, <1>2, <3>1, <3>2, <3>3, SameCall DEF FrameStands
  <2>11. AtShadow'
    <3>1. ASSUME NEW i \in Args PROVE PlaceOf(i)' = PlaceOf(i)
      <4>1. CASE call.params[i] \in Nat
        <5>1. call.params[i] \in 0 .. Spills - 1
          BY <1>2, <1>3, <3>1, <4>1, CallFacts, RegisterFacts
        <5>2. /\ SpillCell(rbp, call.params[i]) \in Cells
              /\ SpillCell(rbp, call.params[i]) < sb
          BY <1>3, <2>2, <2>3, <2>4, <5>1, SMTT(30)
        <5>3. mem'[SpillCell(rbp, call.params[i])] = mem[SpillCell(rbp, call.params[i])]
          BY <2>5, <5>2
        <5> QED BY <1>1, <4>1, <5>3, SameCall DEF PlaceOf
      <4>2. CASE call.params[i] \notin Nat
        <5>1. call.params[i] \in XReg \ CallerSaved
          BY <1>2, <1>5, <3>1, <4>2, CallFacts, RegisterFacts
        <5> QED BY <1>1, <2>8, <4>2, <5>1 DEF PlaceOf
      <4> QED BY <4>1, <4>2
    <3> QED BY <1>1, <1>2, <3>1, SameCall DEF AtShadow, Arrived, Agrees
  <2>12. AtBody'
    <3>1. Linked'
      BY <1>1, <1>5, <2>1, <2>6, SameCall DEF Linked, sb
    <3> QED BY <1>1, <2>7, <2>11, <3>1, SameCall DEF AtBody
  <2> QED BY <1>1, <2>9, <2>10, <2>12 DEF CallInv, CallerStages, CalleeStages
<1> QED BY <1>3, <1>4, <1>5

\* Registers a callee may write, and rax with its result.
LEMMA Clobbering ==
  ASSUME NEW rs, NEW word, regs' = [Clobbered(rs) EXCEPT ![Rax] = word]
  PROVE  /\ IsRegisters(regs') /\ regs'[Rax] = word
         /\ \A r \in XReg \ (rs \cup {Rax}) : regs'[r] = regs[r]
<1>1. Rax \in XReg
  BY RegisterFacts
<1>2. /\ Clobbered(rs) = [r \in XReg |-> Clobbered(rs)[r]]
      /\ \A r \in XReg \ rs : Clobbered(rs)[r] = regs[r]
  BY DEF Clobbered
<1>3. regs'[Rax] = word /\ \A r \in XReg : r # Rax => regs'[r] = Clobbered(rs)[r]
  BY <1>1, <1>2
<1>4. IsRegisters(regs')
  BY <1>1, <1>2 DEF IsRegisters
<1> QED BY <1>2, <1>3, <1>4

LEMMA BodyStep == ASSUME CallInv, Body PROVE CallInv'
<1> DEFINE Writes(c) == \/ c < rsp
                        \/ \E k \in 0 .. Spills - 1 : c = SpillCell(rbp, k)
                        \/ call.hasCalls /\ \E s \in 0 .. call.roots - 1 : c = RootCell(rbp, s)
           clob == CallerSaved \cup (PlacesUsed \ Nat)
<1>1. /\ pc = "body" /\ pc' = "epilogue"
      /\ UNCHANGED <<call, toPush, rsp, rbp, current, before>>
      /\ regs' = [Clobbered(clob) EXCEPT ![Rax] = All(Result)]
      /\ mem' = [c \in Cells |-> IF Writes(c) THEN All(Junk) ELSE mem[c]]
  BY DEF Body
<1>2. /\ CallTypes /\ FrameStands /\ AtBody /\ call \in Calls
  BY <1>1 DEF CallInv, CalleeStages, CallTypes
<1>3. /\ Len(call.args) \in Nat /\ Base \in Int /\ Base <= 0
      /\ rbp = Base - 2 /\ rbp \in Int /\ FrameSize \in Nat /\ rsp = rbp - FrameSize
      /\ Len(Saved) \in Nat /\ Len(Saved) <= FrameSize /\ DOMAIN Saved = 1 .. Len(Saved)
      /\ Spills \in Nat /\ call.roots \in Nat
  BY <1>2, CallFacts, StackFacts, SavedFacts, FrameFacts DEF FrameStands
<1>4. /\ IsRegisters(regs') /\ regs'[Rax] = All(Result)
      /\ \A r \in XReg \ (clob \cup {Rax}) : regs'[r] = regs[r]
  <2> HIDE DEF clob
  <2> QED BY <1>1, Clobbering
<1>5. ASSUME NEW c \in Cells, ~Writes(c) PROVE mem'[c] = mem[c]
  BY <1>1, <1>5
<1>6. ASSUME NEW c \in Int, c >= rbp - Len(Saved), c <= Len(call.args)
      PROVE  c \in Cells /\ mem'[c] = mem[c]
  <2>1. \A k \in 0 .. Spills - 1 : SpillCell(rbp, k) \in Int /\ SpillCell(rbp, k) < rbp - Len(Saved)
    BY <1>2, <1>3, FrameAreas
  <2>2. call.hasCalls => \A s \in 0 .. call.roots - 1 :
          RootCell(rbp, s) \in Int /\ RootCell(rbp, s) < rbp - Len(Saved)
    BY <1>2, <1>3, FrameAreas
  <2>3. ~(c < rsp) /\ Base - 2 - FrameSize <= c
    BY <1>3, <1>6
  <2>4. ~Writes(c)
    BY <1>3, <1>6, <2>1, <2>2, <2>3
  <2>5. c \in Cells
    BY <1>2, <1>6, <2>3, FrameFacts
  <2> HIDE DEF Writes
  <2> QED BY <1>5, <2>4, <2>5
<1>7. CallTypes'
  <2>1. \A c \in Cells : c >= 0 => mem'[c] = mem[c]
    <3> SUFFICES ASSUME NEW c \in Cells, c >= 0 PROVE mem'[c] = mem[c]
      OBVIOUS
    <3>1. c \in Int
      BY CallingAssumption
    <3>2. \A k \in 0 .. Spills - 1 : SpillCell(rbp, k) \in Int /\ SpillCell(rbp, k) < rbp - Len(Saved)
      BY <1>2, <1>3, FrameAreas
    <3>3. call.hasCalls => \A s \in 0 .. call.roots - 1 :
            RootCell(rbp, s) \in Int /\ RootCell(rbp, s) < rbp - Len(Saved)
      BY <1>2, <1>3, FrameAreas
    <3>4. ~Writes(c)
      BY <1>3, <3>1, <3>2, <3>3
    <3> HIDE DEF Writes
    <3> QED BY <1>5, <3>4
  <2>2. mem' = [c \in Cells |-> mem'[c]]
    BY <1>1
  <2> QED BY <1>1, <1>2, <1>4, <2>1, <2>2, SameTypes
<1>8. FrameStands'
  <2>1. mem'[rbp] = mem[rbp]
    BY <1>3, <1>6
  <2>2. ASSUME NEW i \in DOMAIN Saved PROVE mem'[rbp - i] = mem[rbp - i]
    <3>1. rbp - i \in Int /\ rbp - i >= rbp - Len(Saved) /\ rbp - i <= Len(call.args)
      BY <1>3
    <3> QED BY <1>6, <3>1
  <2>3. \A r \in CalleeSavedSet \ SavedSet : r \in XReg \ (clob \cup {Rax})
    BY <1>2, RegisterFacts, SavedFacts DEF CallerSaved, CalleeSavedSet
  <2>4. AsBefore(CalleeSavedSet \ SavedSet, regs)'
    BY <1>1, <1>2, <1>4, <2>3, SameCall DEF FrameStands, AsBefore, CalleeSavedSet
  <2> QED BY <1>1, <1>2, <2>1, <2>2, <2>4, SameCall DEF FrameStands
<1>9. Linked'
  <2>1. CASE ~call.hasCalls
    BY <1>1, <1>2, <2>1 DEF AtBody, Linked
  <2>2. CASE call.hasCalls
    <3> DEFINE sb == ShadowBase(rbp)
    <3>1. /\ sb \in Int /\ rbp - FrameSize <= sb /\ sb + 1 < rbp - Len(Saved)
          /\ \A s \in 0 .. call.roots - 1 : RootCell(rbp, s) \in Int /\ sb + 1 < RootCell(rbp, s)
          /\ \A k \in 0 .. Spills - 1 : SpillCell(rbp, k) \in Int /\ SpillCell(rbp, k) < sb
      <4>1. call \in Calls /\ rbp \in Int
        BY <1>2, <1>3
      <4> QED BY ONLY <2>2, <4>1, FrameAreas
    <3>2. current = sb
      BY <1>2, <2>2 DEF AtBody, Linked
    <3> HIDE DEF sb
    <3>3. ASSUME NEW c \in {sb, sb + 1} PROVE mem'[c] = mem[c]
      <4>1. c \in Int /\ Base - 2 - FrameSize <= c /\ c <= Len(call.args) /\ ~(c < rsp)
        BY <1>3, <3>1
      <4>2. ~Writes(c)
        BY <1>3, <3>1, <4>1
      <4>3. c \in Cells
        BY <1>2, <4>1, FrameFacts
      <4> HIDE DEF Writes
      <4> QED BY <1>5, <4>2, <4>3
    <3> QED BY <1>1, <1>2, <2>2, <3>2, <3>3, SameCall DEF AtBody, Linked
  <2> QED BY <2>1, <2>2
<1> QED BY <1>1, <1>4, <1>7, <1>8, <1>9 DEF CallInv, CallerStages, CalleeStages

LEMMA PopShadowStep == ASSUME CallInv, PopShadow PROVE CallInv'
<1>1. /\ pc = "epilogue" /\ pc' = "leave"
      /\ UNCHANGED <<call, toPush, rsp, rbp, before>>
  BY DEF PopShadow
<1>2. /\ CallTypes /\ FrameStands /\ Linked /\ regs[Rax] = All(Result) /\ call \in Calls
  BY <1>1 DEF CallInv, CalleeStages, CallTypes
<1>3. /\ Len(call.args) \in Nat /\ Base \in Int /\ Base <= 0
      /\ rbp = Base - 2 /\ rbp \in Int /\ FrameSize \in Nat
      /\ Len(Saved) \in Nat /\ Len(Saved) <= FrameSize /\ DOMAIN Saved = 1 .. Len(Saved)
  BY <1>2, CallFacts, StackFacts, SavedFacts, FrameFacts DEF FrameStands
<1>4. CASE ~call.hasCalls
  <2>1. UNCHANGED <<mem, current, regs>>
    BY <1>4 DEF PopShadow
  <2>2. CallTypes'
    BY <1>1, <1>2, <2>1, SameTypes DEF CallTypes
  <2>3. FrameStands'
    BY <1>1, <1>2, <1>4, <2>1, SameCall DEF FrameStands, AsBefore, Linked
  <2>4. AtLeave'
    BY <1>1, <1>2, <2>1 DEF AtLeave
  <2> QED BY <1>1, <2>2, <2>3, <2>4 DEF CallInv, CallerStages, CalleeStages
<1>5. CASE call.hasCalls
  <2> DEFINE ret == RetSave(rbp)
             sb == ShadowBase(rbp)
  <2>1. /\ mem' = IF call.returns THEN [mem EXCEPT ![ret] = regs[Rax]] ELSE mem
        /\ current' = mem'[current].low
        /\ regs' = IF call.returns
                     THEN [Clobbered(CallerSaved) EXCEPT ![Rax] = mem'[ret]]
                     ELSE Clobbered(CallerSaved)
    BY <1>5 DEF PopShadow
  <2>2. /\ ret \in Int /\ rbp - FrameSize <= ret /\ ret < sb
        /\ sb \in Int /\ sb + 1 < rbp - Len(Saved)
    <3>1. call \in Calls /\ rbp \in Int
      BY <1>2, <1>3
    <3> QED BY ONLY <1>5, <3>1, FrameAreas
  <2>3. current = sb /\ mem[sb] = All(before.current)
    BY <1>2, <1>5 DEF Linked
  <2> HIDE DEF ret, sb
  <2>4. ret \in Cells
    <3>1. Base - 2 - FrameSize <= ret /\ ret <= Len(call.args)
      BY <1>3, <2>2
    <3> QED BY <1>2, <2>2, <3>1, FrameFacts
  <2>5. /\ mem' = [c \in Cells |-> mem'[c]]
        /\ \A c : c # ret => mem'[c] = mem[c]
        /\ call.returns => mem'[ret] = regs[Rax]
    BY <1>2, <2>1, <2>4 DEF CallTypes
  <2>6. /\ IsRegisters(regs') /\ (call.returns => regs'[Rax] = mem'[ret])
        /\ \A r \in XReg \ (CallerSaved \cup {Rax}) : regs'[r] = regs[r]
    <3>1. CASE call.returns
      BY <2>1, <3>1, Clobbering
    <3>2. CASE ~call.returns
      BY <2>1, <3>2 DEF Clobbered, IsRegisters
    <3> QED BY <3>1, <3>2
  <2>7. current' = before.current
    <3>1. mem'[current] = All(before.current)
      BY <2>2, <2>3, <2>5
    <3> QED BY <2>1, <3>1 DEF All
  <2>8. CallTypes'
    <3>1. \A c \in Cells : c >= 0 => mem'[c] = mem[c]
      <4>1. \A c \in Cells : c \in Int
        BY CallingAssumption
      <4> QED BY <1>3, <2>2, <2>5, <4>1
    <3>2. IsRegisters(regs')
      BY <2>6
    <3> QED BY <1>1, <1>2, <2>5, <3>1, <3>2, SameTypes
  <2>9. FrameStands'
    <3>1. mem'[rbp] = mem[rbp]
      BY <1>3, <2>2, <2>5
    <3>2. ASSUME NEW i \in DOMAIN Saved PROVE mem'[rbp - i] = mem[rbp - i]
      BY <1>3, <2>2, <2>5
    <3>3. \A r \in CalleeSavedSet \ SavedSet : r \in XReg \ (CallerSaved \cup {Rax})
      BY RegisterFacts DEF CallerSaved, CalleeSavedSet
    <3>4. AsBefore(CalleeSavedSet \ SavedSet, regs)'
      BY <1>1, <1>2, <2>6, <3>3, SameCall DEF FrameStands, AsBefore, CalleeSavedSet
    <3> QED BY <1>1, <1>2, <2>7, <3>1, <3>2, <3>4, SameCall DEF FrameStands
  <2>10. AtLeave'
    BY <1>1, <1>2, <2>5, <2>6 DEF AtLeave
  <2> QED BY <1>1, <2>8, <2>9, <2>10 DEF CallInv, CallerStages, CalleeStages
<1> QED BY <1>4, <1>5

LEMMA LeaveStep == ASSUME CallInv, Leave PROVE CallInv'
<1>1. /\ pc = "leave" /\ pc' = "return"
      /\ regs' = [r \in XReg |->
           IF \E i \in DOMAIN Saved : Saved[i] = r
             THEN mem[rbp - (CHOOSE i \in DOMAIN Saved : Saved[i] = r)] ELSE regs[r]]
      /\ rbp' = mem[rbp].low /\ rsp' = rbp + 2
      /\ UNCHANGED <<call, toPush, mem, current, before>>
  BY DEF Leave
<1>2. /\ CallTypes /\ FrameStands /\ AtLeave /\ call \in Calls
  BY <1>1 DEF CallInv, CalleeStages, CallTypes
<1>3. rbp' = before.rbp /\ rsp' = Base /\ current' = before.current
  <2>1. mem[rbp] = All(before.rbp) /\ rbp = Base - 2 /\ current = before.current
    BY <1>1, <1>2 DEF FrameStands
  <2>2. rbp' = before.rbp
    BY <1>1, <2>1 DEF All
  <2> QED BY <1>1, <1>2, <2>1, <2>2, StackFacts
<1>4. IsRegisters(regs')
  BY <1>1 DEF IsRegisters
<1>5. CallTypes'
  BY <1>1, <1>2, <1>4, SameTypes DEF CallTypes
<1>6. \A r \in CalleeSavedSet : r \in XReg /\ r # Rax
  BY RegisterFacts
<1>7. ASSUME NEW r \in CalleeSavedSet PROVE regs'[r] = before.regs[r]
  <2>1. CASE r \in SavedSet
    <3> DEFINE i == CHOOSE i \in DOMAIN Saved : Saved[i] = r
    <3>1. \E j \in DOMAIN Saved : Saved[j] = r
      BY <2>1 DEF SavedSet, Elements
    <3>2. i \in DOMAIN Saved /\ Saved[i] = r
      BY <3>1
    <3>3. regs'[r] = mem[rbp - i]
      BY <1>1, <1>6, <3>1
    <3> HIDE DEF i
    <3> QED BY <1>2, <3>2, <3>3 DEF FrameStands
  <2>2. CASE r \notin SavedSet
    <3>1. ~ \E i \in DOMAIN Saved : Saved[i] = r
      BY <2>2 DEF SavedSet, Elements
    <3>2. regs'[r] = regs[r]
      BY <1>1, <1>6, <3>1
    <3> QED BY <1>1, <1>2, <2>2, <3>2 DEF FrameStands, AsBefore
  <2> QED BY <2>1, <2>2
<1>8. regs'[Rax] = regs[Rax]
  <2>1. ~ \E i \in DOMAIN Saved : Saved[i] = Rax
    BY <1>2, <1>6, SavedFacts
  <2> QED BY <1>1, <2>1, RegisterFacts
<1>9. AtReturn'
  BY <1>1, <1>2, <1>3, <1>7, <1>8 DEF AtReturn, AtLeave, AsBefore, CalleeSavedSet
<1> QED BY <1>1, <1>3, <1>5, <1>9, SameCall DEF CallInv, CallerStages, CalleeStages

LEMMA CleanUpStep == ASSUME CallInv, CleanUp PROVE CallInv'
<1>1. /\ pc = "return" /\ pc' = "returned" /\ rsp' = rsp + StackArgs + Padding
      /\ UNCHANGED <<call, toPush, mem, rbp, current, before, regs>>
  BY DEF CleanUp
<1>2. CallTypes /\ AtReturn /\ rsp = Base /\ call \in Calls
  BY <1>1 DEF CallInv, CallTypes
<1>3. CallTypes'
  BY <1>1, <1>2, SameTypes DEF CallTypes
<1>4. AtReturn'
  BY <1>1, <1>2 DEF AtReturn, AsBefore
<1>5. rsp' = 0
  <2>1. Padding \in {0, 1} /\ StackArgs \in Nat /\ Base = -(Padding + StackArgs)
    BY <1>2, StackFacts DEF Base
  <2> QED BY <1>1, <1>2, <2>1
<1> QED BY <1>1, <1>3, <1>4, <1>5 DEF CallInv, CallerStages, CalleeStages

LEMMA CallInvStep == CallInv /\ [CallNext]_<<callVars, moveVars>> => CallInv'
<1> SUFFICES ASSUME CallInv, [CallNext]_<<callVars, moveVars>> PROVE CallInv'
  OBVIOUS
<1>1. ASSUME UNCHANGED <<callVars, moveVars>> PROVE CallInv'
  <2>1. UNCHANGED <<call, pc, toPush, mem, rsp, rbp, current, before, moves, left, parked, phase,
                    regs, start>>
    BY <1>1 DEF callVars, stack, moveVars
  <2>2. /\ \A i : /\ OperandBefore(i)' = OperandBefore(i) /\ Incoming(i)' = Incoming(i)
                  /\ PlaceOf(i)' = PlaceOf(i)
                  /\ \A word : Arrived(i, word)' <=> Arrived(i, word)
        /\ PointerBefore' = PointerBefore
    BY <2>1, SameCall
       DEF OperandBefore, FrameCell, Incoming, PlaceOf, Arrived, Agrees, PointerBefore, PointerCell
  <2>3. CallTypes' = CallTypes /\ FrameStands' = FrameStands
    BY <2>1, <2>2, SameCall DEF CallTypes, IsRegisters, FrameStands, AsBefore
  <2>4. MoveInv' = MoveInv /\ IsAssignment(moves)' = IsAssignment(moves)
    BY <2>1 DEF MoveInv, MoveTypes, IsRegisters, Pending, Written, SourceOf, IsAssignment, Agrees
  <2>5. StackArrived' = StackArrived
    BY <2>1, SameCall DEF StackArrived, Arrived, Agrees
  <2>6. AtPointer' = AtPointer /\ AtPush' = AtPush /\ AtArguments' = AtArguments /\ AtCall' = AtCall
    BY <2>1, <2>4, <2>5, SameCall
       DEF AtPointer, AtPush, AtArguments, AtCall, AsBefore, Arrived, Agrees
  <2>7. AtEntered' = AtEntered /\ AtParameters' = AtParameters /\ AtShadow' = AtShadow
    BY <2>1, <2>2, <2>4, <2>5, SameCall
       DEF AtEntered, AtParameters, AtShadow, AsBefore, Arrived, Agrees, PlaceOf, Incoming
  <2>8. Linked' = Linked /\ AtLeave' = AtLeave /\ AtReturn' = AtReturn
    BY <2>1, SameCall DEF Linked, AtLeave, AtReturn, AsBefore
  <2>9. AtBody' = AtBody
    BY <2>1, <2>7, <2>8, SameCall DEF AtBody
  <2> QED BY <2>1, <2>3, <2>6, <2>7, <2>8, <2>9, SameCall DEF CallInv
<1>2. CASE TakePointer
  BY <1>2, TakePointerStep
<1>3. CASE PushArgument
  BY <1>3, PushArgumentStep
<1>4. CASE StartArguments
  BY <1>4, StartArgumentsStep
<1>5. CASE Moving
  BY <1>5, MovingStep
<1>6. CASE LoadOthers
  BY <1>6, LoadOthersStep
<1>7. CASE EnterCallee
  BY <1>7, EnterCalleeStep
<1>8. CASE StoreParams
  BY <1>8, StoreParamsStep
<1>9. CASE LoadParams
  BY <1>9, LoadParamsStep
<1>10. CASE PushShadow
  BY <1>10, PushShadowStep
<1>11. CASE Body
  BY <1>11, BodyStep
<1>12. CASE PopShadow
  BY <1>12, PopShadowStep
<1>13. CASE Leave
  BY <1>13, LeaveStep
<1>14. CASE CleanUp
  BY <1>14, CleanUpStep
<1>15. CASE CallReturned
  BY <1>1, <1>15 DEF CallReturned
<1> QED BY <1>1, <1>2, <1>3, <1>4, <1>5, <1>6, <1>7, <1>8, <1>9, <1>10, <1>11, <1>12, <1>13, <1>14,
           <1>15 DEF CallNext

LEMMA CallInvAlways == CallSpec => []CallInv
BY CallInitially, CallInvStep, PTL DEF CallSpec

---------------------------------------------------------------------------
\* Every argument is in its parameter's place when the body starts, and r11 holds the
\* pointer at the call: Selector::call and Frame::prologue, for any number of arguments,
\* in any places, through registers or the stack.
THEOREM ArgumentsAlwaysArrive == CallSpec => []ArgumentsArrive
<1>1. CallInv => ArgumentsArrive
  BY DEF CallInv, AtBody, AtShadow, Arrived, AtCall, ArgumentsArrive
<1> QED BY <1>1, CallInvAlways, PTL

\* rsp is 16-byte aligned at the call and at every call of the callee's.
THEOREM CallsAreAligned == CallSpec => []AlignedCalls
<1>1. CallInv => AlignedCalls
  <2> SUFFICES ASSUME CallInv, pc \in {"call", "shadow", "body", "epilogue"} PROVE rsp % 2 = 0
    BY DEF AlignedCalls
  <2>1. call \in Calls
    BY DEF CallInv, CallTypes
  <2>2. Base \in Int /\ Base % 2 = 0 /\ FrameSize \in Nat /\ FrameSize % 2 = 0
    BY <2>1, StackFacts, FrameFacts
  <2>3. rsp = Base \/ rsp = Base - 2 - FrameSize
    BY DEF CallInv, CalleeStages, AtCall, FrameStands
  <2>4. (Base - 2 - FrameSize) % 2 = 0
    BY <2>2
  <2> QED BY <2>2, <2>3, <2>4
<1> QED BY <1>1, CallInvAlways, PTL

\* The shadow frame stays linked and its count of roots intact while the callee runs, and
\* starts with null slots: the spill slots and the other areas of Frame::new keep off it.
THEOREM FramesAreLinked == CallSpec => []FrameLinked
<1>1. CallInv => FrameLinked
  BY DEF CallInv, AtBody, Linked, FrameLinked
<1> QED BY <1>1, CallInvAlways, PTL

\* A call leaves its caller's registers, stack and shadow frame as they were and its
\* result in rax, whichever callee-saved registers the callee's allocation used.
THEOREM ConventionIsKept == CallSpec => []ConventionKept
<1>1. CallInv => ConventionKept
  BY DEF CallInv, CallTypes, AtReturn, AsBefore, CalleeSavedSet, ConventionKept
<1> QED BY <1>1, CallInvAlways, PTL
===============================================================================
