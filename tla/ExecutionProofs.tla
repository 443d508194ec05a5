--------------------------- MODULE ExecutionProofs ----------------------------
(***************************************************************************)
(* Justified code reads current values, whatever the function, the number  *)
(* of registers and places, the callees and the collections.               *)
(* Rooted code is justified, whatever the function, and at its calls the   *)
(* slots hold exactly the references still needed.                         *)
(***************************************************************************)
EXTENDS Execution, IrProofs

\* What is live is in its place; what is recorded as stored is in its slot.
Agrees ==
  /\ \A r \in program.live[at] : held[Place(r)] = ContentsOf(r, truth[r])
  /\ \A x \in program.stored[at] : slots[x[1]] = ContentsOf(x[2], truth[x[2]])

RunInv ==
  /\ Justified(program)
  /\ held = [l \in Location |-> held[l]]
  /\ slots = [s \in Slot |-> slots[s]]
  /\ truth = [r \in Reg |-> truth[r]]
  /\ at \in Points(fn)
  /\ pc = "entry" => at = <<fn.entry, 1>>
  /\ pc = "running" => Agrees

LEMMA EntryIsPoint ==
  ASSUME NEW f, IsFunction(f)
  PROVE  <<f.entry, 1>> \in Points(f)
<1>1. /\ f.entry \in DOMAIN f.blocks
      /\ LastIndex(f, f.entry) = Len(f.blocks[f.entry].code) + 1
      /\ Len(f.blocks[f.entry].code) \in Nat
  BY FunctionTypes
<1>2. 1 \in 1 .. LastIndex(f, f.entry)
  BY <1>1
<1> QED BY <1>1, <1>2, PointShape

LEMMA RunInvInit ==
  ASSUME \A prog \in Programs : Justified(prog), Init
  PROVE  RunInv
<1>1. Justified(program) /\ IsFunction(fn)
  BY DEF Init, Justified, fn
<1>2. at \in Points(fn)
  BY <1>1, EntryIsPoint DEF Init, fn
<1> QED BY <1>1, <1>2 DEF Init, RunInv, fn

\* What an advancing step may rely on.
LEMMA Step ==
  ASSUME RunInv, pc = "running", Advance
  PROVE  /\ program' = program /\ fn' = fn /\ pc' = pc
         /\ at' \in NextPoints(fn, at) /\ at' \in Points(fn)
         /\ WellTyped(fn, at)
         /\ ReadsAt(fn, at) \subseteq program.live[at]
         /\ Undisturbed(program, at, at')
         /\ program.stored[at'] \subseteq StoredAfter(fn, at, program.stored[at])
         /\ DefinesAt(fn, at) \subseteq DOMAIN program.location
         /\ program.live[at'] \subseteq DOMAIN program.location
         /\ program.live[at] \subseteq DOMAIN program.location
         /\ \A r \in DOMAIN program.location : r \in Reg /\ Place(r) \in Location
         /\ \A x \in program.stored[at'] : x[1] \in Slot /\ x[2] \in Reg
         /\ Agrees
<1>1. program' = program /\ pc' = pc /\ at' \in NextPoints(fn, at)
  BY DEF Advance
<1>2. fn' = fn
  BY <1>1 DEF fn
<1>3. IsFunction(fn) /\ at \in Points(fn)
  BY DEF RunInv, Justified, fn
<1>4. at' \in Points(fn)
  <2> DEFINE q == at'
  <2>1. q \in NextPoints(fn, at)
    BY <1>1
  <2> HIDE DEF q
  <2>2. q \in Points(fn)
    BY <2>1, <1>3, PointsFlow
  <2> QED BY <2>2 DEF q
<1>5. Justified(program)
  BY DEF RunInv
<1> HIDE DEF RunInv
<1>6. /\ WellTyped(fn, at) /\ ReadsAt(fn, at) \subseteq program.live[at]
      /\ DefinesAt(fn, at) \subseteq DOMAIN program.location
  BY <1>5, <1>3 DEF Justified, fn
<1>7. /\ Undisturbed(program, at, at')
      /\ program.stored[at'] \subseteq StoredAfter(fn, at, program.stored[at])
  BY <1>5, <1>3, <1>1 DEF Justified, fn
<1>8. /\ program.live \in [Points(fn) -> SUBSET DOMAIN program.location]
      /\ program.location \in [DOMAIN program.location -> Location]
      /\ DOMAIN program.location \subseteq Reg
  BY <1>5 DEF Justified, fn
<1>9. \A r \in DOMAIN program.location : r \in Reg /\ Place(r) \in Location
  BY <1>8 DEF Place
<1>10. Agrees
  BY DEF RunInv
<1>11. \A x \in program.stored[at'] : x[1] \in Slot /\ x[2] \in Reg
  <2>1. program.stored \in [Points(fn) -> SUBSET (Slot \X DOMAIN program.location)]
    BY <1>5 DEF Justified, fn
  <2>2. program.stored[at'] \subseteq Slot \X DOMAIN program.location
    BY <2>1, <1>4
  <2> QED BY <2>2, <1>8
<1> QED BY <1>1, <1>2, <1>3, <1>4, <1>6, <1>7, <1>8, <1>9, <1>10, <1>11

LEMMA EnterInv ==
  ASSUME RunInv, Enter
  PROVE  RunInv'
<1> DEFINE f == fn
           entry == <<f.entry, 1>>
<1>1. /\ program' = program /\ at' = at /\ slots' = slots /\ pc' = "running" /\ fn' = fn
      /\ at = entry
  BY DEF Enter, RunInv, fn
<1>2. Justified(program)
  BY DEF RunInv
<1>3. /\ program.live[entry] \subseteq Params(f) /\ program.stored[entry] = {}
      /\ Params(f) \subseteq DOMAIN program.location /\ DOMAIN program.location \subseteq Reg
      /\ program.location \in [DOMAIN program.location -> Location]
      /\ \A r, s \in Params(f) : program.location[r] = program.location[s] => r = s
      /\ HasCalls(f) => \A r \in program.live[entry] : program.location[r] \notin CallerSaved
  BY <1>2 DEF Justified, fn
<1>4. PICK arguments \in [Params(f) -> Value] :
       /\ truth' = [r \in Reg |-> IF r \in Params(f) THEN arguments[r] ELSE Null]
       /\ held' = [l \in Location |->
            IF HasCalls(f) /\ l \in CallerSaved THEN Garbage
            ELSE IF \E r \in Params(f) : Place(r) = l
              THEN LET r == CHOOSE r \in Params(f) : Place(r) = l IN ContentsOf(r, arguments[r])
              ELSE Garbage]
  BY DEF Enter
<1>5. ASSUME NEW r \in program.live[entry]
      PROVE  held'[Place(r)] = ContentsOf(r, truth'[r])
  <2>1. r \in Params(f) /\ r \in Reg /\ Place(r) \in Location
    BY <1>3 DEF Place
  <2>2. ~(HasCalls(f) /\ Place(r) \in CallerSaved)
    BY <1>3 DEF Place
  <2>3. \A s \in Params(f) : Place(s) = Place(r) => s = r
    BY <1>3, <2>1 DEF Place
  <2>4. (CHOOSE s \in Params(f) : Place(s) = Place(r)) = r
    BY <2>1, <2>3
  <2>5. held'[Place(r)] = ContentsOf(r, arguments[r])
    <3> DEFINE l == Place(r)
    <3>1. l \in Location /\ \E s \in Params(f) : Place(s) = l
      BY <2>1
    <3>2. held'[l] = LET s == CHOOSE s \in Params(f) : Place(s) = l
                     IN  ContentsOf(s, arguments[s])
      BY <1>4, <2>2, <3>1
    <3> QED BY <3>2, <2>4
  <2>6. truth'[r] = arguments[r]
    BY <1>4, <2>1
  <2> QED BY <2>5, <2>6
<1>6. Agrees'
  <2>1. \A r \in program'.live[at'] : held'[program'.location[r]] = ContentsOf(r, truth'[r])
    BY <1>1, <1>5 DEF Place
  <2>2. program'.stored[at'] = {}
    BY <1>1, <1>3
  <2> QED BY <2>1, <2>2 DEF Agrees, Place, ContentsOf
<1>7. held' = [l \in Location |-> held'[l]] /\ truth' = [r \in Reg |-> truth'[r]]
  BY <1>4
<1>8. slots' = [s \in Slot |-> slots'[s]] /\ at' \in Points(fn')
  BY <1>1 DEF RunInv
<1>9. Justified(program)'
  BY <1>1, <1>2
<1> QED BY <1>1, <1>6, <1>7, <1>8, <1>9 DEF RunInv

\* An advancing step that leaves places and slots in agreement keeps the rest.
LEMMA Advanced ==
  ASSUME RunInv, pc = "running", Advance,
         \A r \in program.live[at'] : held'[Place(r)] = ContentsOf(r, truth'[r]),
         \A x \in program.stored[at'] : slots'[x[1]] = ContentsOf(x[2], truth'[x[2]]),
         held' = [l \in Location |-> held'[l]],
         slots' = [s \in Slot |-> slots'[s]],
         truth' = [r \in Reg |-> truth'[r]]
  PROVE  RunInv'
<1>1. program' = program /\ fn' = fn /\ pc' = "running" /\ at' \in Points(fn)
  BY Step
<1>2. Justified(program)'
  BY <1>1 DEF RunInv
<1>3. Agrees'
  BY <1>1 DEF Agrees, Place, ContentsOf
<1> QED BY <1>1, <1>2, <1>3 DEF RunInv

\* Writing a register: everything else that stays live is elsewhere.
LEMMA WriteInv ==
  ASSUME RunInv, pc = "running", Advance, UNCHANGED slots,
         NEW d \in Reg, DefinesAt(fn, at) = {d},
         at \notin CallPoints(fn),
         NEW contents, NEW v, Write(d, contents, v), contents = ContentsOf(d, v),
         program.stored[at'] \subseteq {x \in program.stored[at] : x[2] # d}
  PROVE  RunInv'
<1>1. /\ held' = [held EXCEPT ![Place(d)] = contents]
      /\ truth' = [truth EXCEPT ![d] = v] /\ slots' = slots
  BY DEF Write
<1>2. d \in DOMAIN program.location /\ Place(d) \in Location
  BY Step
<1>3. ASSUME NEW r \in program.live[at']
      PROVE  held'[Place(r)] = ContentsOf(r, truth'[r])
  <2>1. r \in Reg /\ Place(r) \in Location
    BY Step
  <2>2. CASE r = d
    BY <1>1, <1>2, <2>2 DEF RunInv
  <2>3. CASE r # d
    <3>1. r \in program.live[at] /\ Place(r) # Place(d)
      BY <2>3, Step DEF Undisturbed, Place, fn
    <3>2. held[Place(r)] = ContentsOf(r, truth[r])
      BY <3>1, Step DEF Agrees
    <3>3. held'[Place(r)] = held[Place(r)] /\ truth'[r] = truth[r]
      BY <1>1, <2>1, <2>3, <3>1 DEF RunInv
    <3> QED BY <3>2, <3>3
  <2> QED BY <2>2, <2>3
<1>4. ASSUME NEW x \in program.stored[at']
      PROVE  slots'[x[1]] = ContentsOf(x[2], truth'[x[2]])
  <2>1. x \in program.stored[at] /\ x[2] # d
    OBVIOUS
  <2>2. slots[x[1]] = ContentsOf(x[2], truth[x[2]])
    BY <2>1, Step DEF Agrees
  <2>3. truth'[x[2]] = truth[x[2]]
    BY <1>1, <2>1 DEF RunInv
  <2> QED BY <1>1, <2>2, <2>3
<1>5. /\ held' = [l \in Location |-> held'[l]] /\ truth' = [r \in Reg |-> truth'[r]]
      /\ slots' = [s \in Slot |-> slots'[s]]
  BY <1>1 DEF RunInv
<1> QED BY <1>3, <1>4, <1>5, Advanced

LEMMA ComputeInv == ASSUME RunInv, Compute PROVE RunInv'
<1> DEFINE d == InstructionNow.dst
<1>1. /\ pc = "running" /\ Advance /\ UNCHANGED slots /\ ~IsTerminator(fn, at)
      /\ InstructionNow.op \in {"compute", "load", "copy"}
      /\ InstructionNow = InstructionAt(fn, at)
  BY DEF Compute, Running, InstructionNow
<1>2. PICK v \in Value : Write(d, ContentsOf(d, v), v)
  BY DEF Compute
<1>3. WellTyped(fn, at)
  BY <1>1, Step
<1>4. d \in Reg /\ d # NoReg
  BY <1>1, <1>3, IrAssumption DEF WellTyped
<1>5. DefinesAt(fn, at) = {d}
  BY <1>1, <1>4 DEF DefinesAt, Defines
<1>6. at \notin CallPoints(fn)
  BY <1>1 DEF CallPoints, IsCall
<1>7. program.stored[at'] \subseteq {x \in program.stored[at] : x[2] # d}
  BY <1>1, <1>5, Step DEF StoredAfter
<1> HIDE DEF d
<1> QED BY <1>1, <1>2, <1>4, <1>5, <1>6, <1>7, WriteInv

LEMMA CopyInv == ASSUME RunInv, Copy PROVE RunInv'
<1> DEFINE d == InstructionNow.dst
<1>1. /\ pc = "running" /\ Advance /\ UNCHANGED slots /\ ~IsTerminator(fn, at)
      /\ InstructionNow.op = "copy"
      /\ InstructionNow = InstructionAt(fn, at)
  BY DEF Copy, Running, InstructionNow
<1>2. PICK src \in InstructionNow.reads : Write(d, held[Place(src)], truth[src])
  BY DEF Copy
<1>3. WellTyped(fn, at)
  BY <1>1, Step
<1>4. d \in Reg /\ d # NoReg /\ (src \in RefRegs <=> d \in RefRegs)
  BY <1>1, <1>3, IrAssumption DEF WellTyped
<1>5. DefinesAt(fn, at) = {d}
  BY <1>1, <1>4 DEF DefinesAt, Defines
<1>6. at \notin CallPoints(fn)
  BY <1>1 DEF CallPoints, IsCall
<1>7. program.stored[at'] \subseteq {x \in program.stored[at] : x[2] # d}
  BY <1>1, <1>5, Step DEF StoredAfter
<1>8. src \in program.live[at]
  BY <1>1, Step DEF ReadsAt
<1>9. held[Place(src)] = ContentsOf(d, truth[src])
  BY <1>1, <1>4, <1>8, Step DEF Agrees, ContentsOf
<1> HIDE DEF d
<1> QED BY <1>1, <1>2, <1>4, <1>5, <1>6, <1>7, <1>9, WriteInv

\* A step that writes no register.
LEMMA NoWriteInv ==
  ASSUME RunInv, pc = "running", Advance, UNCHANGED <<held, truth>>,
         DefinesAt(fn, at) = {},
         \A x \in program.stored[at'] : slots'[x[1]] = ContentsOf(x[2], truth[x[2]]),
         slots' = [s \in Slot |-> slots'[s]]
  PROVE  RunInv'
<1>1. held' = held /\ truth' = truth
  OBVIOUS
<1>2. \A r \in program.live[at'] : held'[Place(r)] = ContentsOf(r, truth'[r])
  BY <1>1, Step DEF Undisturbed, Agrees, fn
<1>3. held' = [l \in Location |-> held'[l]] /\ truth' = [r \in Reg |-> truth'[r]]
  BY <1>1 DEF RunInv
<1> QED BY <1>1, <1>2, <1>3, Advanced

LEMMA StoreInv == ASSUME RunInv, Store PROVE RunInv'
<1>1. /\ pc = "running" /\ Advance /\ UNCHANGED <<held, truth>> /\ slots' = slots
      /\ ~IsTerminator(fn, at) /\ InstructionNow.op = "store"
      /\ InstructionNow = InstructionAt(fn, at)
  BY DEF Store, Running, InstructionNow
<1>2. DefinesAt(fn, at) = {}
  BY <1>1, Step DEF WellTyped, DefinesAt, Defines
<1>3. \A x \in program.stored[at'] : x \in program.stored[at]
  BY <1>1, Step DEF StoredAfter
<1>4. \A x \in program.stored[at'] : slots'[x[1]] = ContentsOf(x[2], truth[x[2]])
  BY <1>1, <1>3, Step DEF Agrees
<1>5. slots' = [s \in Slot |-> slots'[s]]
  BY <1>1 DEF RunInv
<1> QED BY <1>1, <1>2, <1>4, <1>5, NoWriteInv

LEMMA BranchInv == ASSUME RunInv, Branch PROVE RunInv'
<1>1. /\ pc = "running" /\ Advance /\ UNCHANGED <<held, truth>> /\ slots' = slots
      /\ IsTerminator(fn, at)
  BY DEF Branch
<1>2. DefinesAt(fn, at) = {}
  BY <1>1 DEF DefinesAt
<1>3. \A x \in program.stored[at'] : x \in program.stored[at]
  BY <1>1, Step DEF StoredAfter
<1>4. \A x \in program.stored[at'] : slots'[x[1]] = ContentsOf(x[2], truth[x[2]])
  BY <1>1, <1>3, Step DEF Agrees
<1>5. slots' = [s \in Slot |-> slots'[s]]
  BY <1>1 DEF RunInv
<1> QED BY <1>1, <1>2, <1>4, <1>5, NoWriteInv

LEMMA RootSaveInv == ASSUME RunInv, RootSave PROVE RunInv'
<1> DEFINE n == InstructionNow.slot
<1>1. /\ pc = "running" /\ Advance /\ UNCHANGED <<held, truth>>
      /\ ~IsTerminator(fn, at) /\ InstructionNow.op = "root_store"
      /\ InstructionNow = InstructionAt(fn, at)
  BY DEF RootSave, Running, InstructionNow
<1>2. /\ DefinesAt(fn, at) = {} /\ n \in Slot
      /\ \A r, s \in InstructionNow.reads : r = s
      /\ InstructionNow.reads \subseteq program.live[at]
  BY <1>1, Step DEF WellTyped, DefinesAt, Defines, ReadsAt
<1>3. \/ InstructionNow.reads = {} /\ slots' = [slots EXCEPT ![n] = Empty]
      \/ \E r \in InstructionNow.reads : slots' = [slots EXCEPT ![n] = held[Place(r)]]
  BY DEF RootSave
<1>4. slots' = [s \in Slot |-> slots'[s]] /\ \A s \in Slot : s # n => slots'[s] = slots[s]
  BY <1>3 DEF RunInv
<1>5. program.stored[at'] \subseteq {x \in program.stored[at] : x[1] # n} \cup ({n} \X InstructionNow.reads)
  BY <1>1, Step DEF StoredAfter
<1>6. ASSUME NEW x \in program.stored[at']
      PROVE  slots'[x[1]] = ContentsOf(x[2], truth[x[2]])
  <2>1. CASE x \in program.stored[at] /\ x[1] # n
    BY <1>1, <2>1, <1>4, Step DEF Agrees
  <2>2. CASE x \in {n} \X InstructionNow.reads
    <3>1. x[1] = n /\ x[2] \in InstructionNow.reads
      BY <2>2
    <3>2. slots'[n] = held[Place(x[2])]
      BY <1>2, <1>3, <3>1 DEF RunInv
    <3>3. held[Place(x[2])] = ContentsOf(x[2], truth[x[2]])
      BY <3>1, <1>1, <1>2, Step DEF Agrees
    <3> QED BY <3>1, <3>2, <3>3
  <2> QED BY <2>1, <2>2, <1>5
<1> HIDE DEF n
<1> QED BY <1>1, <1>2, <1>4, <1>6, NoWriteInv

LEMMA RootReloadInv == ASSUME RunInv, RootReload PROVE RunInv'
<1> DEFINE d == InstructionNow.dst
           n == InstructionNow.slot
<1>1. /\ pc = "running" /\ Advance /\ slots' = slots /\ truth' = truth
      /\ held' = [held EXCEPT ![Place(d)] = slots[n]]
      /\ ~IsTerminator(fn, at) /\ InstructionNow.op = "root_load"
      /\ InstructionNow = InstructionAt(fn, at)
  BY DEF RootReload, Running, InstructionNow
<1>2. WellTyped(fn, at) /\ at \in Points(fn) /\ Justified(program)
  BY <1>1, Step DEF RunInv
<1>3. d \in Reg /\ d # NoReg
  BY <1>1, <1>2, IrAssumption DEF WellTyped
<1>4. DefinesAt(fn, at) = {d}
  BY <1>1, <1>3 DEF DefinesAt, Defines
<1>5. <<n, d>> \in program.stored[at]
  BY <1>1, <1>2 DEF Justified, fn
<1>6. slots[n] = ContentsOf(d, truth[d])
  BY <1>1, <1>5, Step DEF Agrees
<1>7. Write(d, slots[n], truth[d])
  BY <1>1, <1>3 DEF Write, RunInv
<1>8. program.stored[at'] \subseteq program.stored[at]
  BY <1>1, Step DEF StoredAfter
<1>9. ASSUME NEW r \in program.live[at']
      PROVE  held'[Place(r)] = ContentsOf(r, truth'[r])
  <2>1. r \in Reg /\ Place(r) \in Location /\ Place(d) \in Location
    BY <1>1, <1>4, Step
  <2>2. CASE r = d
    BY <1>1, <1>6, <2>1, <2>2 DEF RunInv
  <2>3. CASE r # d
    <3>1. r \in program.live[at] /\ Place(r) # Place(d)
      BY <2>3, <1>1, <1>4, Step DEF Undisturbed, Place, fn
    <3>2. held[Place(r)] = ContentsOf(r, truth[r])
      BY <3>1, <1>1, Step DEF Agrees
    <3>3. held'[Place(r)] = held[Place(r)]
      BY <1>1, <2>1, <3>1 DEF RunInv
    <3> QED BY <1>1, <3>2, <3>3
  <2> QED BY <2>2, <2>3
<1>10. \A x \in program.stored[at'] : slots'[x[1]] = ContentsOf(x[2], truth'[x[2]])
  BY <1>1, <1>8, Step DEF Agrees
<1>11. /\ held' = [l \in Location |-> held'[l]] /\ truth' = [r \in Reg |-> truth'[r]]
       /\ slots' = [s \in Slot |-> slots'[s]]
  BY <1>1 DEF RunInv
<1> QED BY <1>1, <1>9, <1>10, <1>11, Advanced

LEMMA CallInv == ASSUME RunInv, Call PROVE RunInv'
<1> DEFINE dst == InstructionNow.dst
<1>1. /\ pc = "running" /\ Advance /\ slots' = slots
      /\ ~IsTerminator(fn, at) /\ InstructionNow.op = "call"
      /\ InstructionNow = InstructionAt(fn, at)
  BY DEF Call, Running, InstructionNow
<1>2. PICK collects \in BOOLEAN, v \in Value :
       LET kept(l) == IF l \in CallerSaved THEN Garbage
                      ELSE IF collects THEN Outdated(held[l]) ELSE held[l] IN
       IF dst = NoReg
         THEN held' = [l \in Location |-> kept(l)] /\ UNCHANGED truth
         ELSE /\ held' = [l \in Location |-> IF l = Place(dst) THEN ContentsOf(dst, v) ELSE kept(l)]
              /\ truth' = [truth EXCEPT ![dst] = v]
  BY DEF Call
<1>3. at \in CallPoints(fn)
  BY <1>1 DEF CallPoints, IsCall, RunInv
<1>4. DefinesAt(fn, at) = {dst} \ {NoReg}
  BY <1>1 DEF DefinesAt, Defines
<1>5. \A d \in DefinesAt(fn, at) : d \in Reg /\ Place(d) \in Location
  BY <1>1, Step
<1>6. ASSUME NEW r \in program.live[at']
      PROVE  held'[Place(r)] = ContentsOf(r, truth'[r])
  <2>1. r \in Reg /\ Place(r) \in Location
    BY <1>1, Step
  <2>2. CASE r \in DefinesAt(fn, at)
    <3>1. r = dst /\ dst # NoReg
      BY <2>2, <1>4
    <3>2. held'[Place(r)] = ContentsOf(r, v) /\ truth'[r] = v
      BY <3>1, <1>2, <2>1 DEF RunInv
    <3> QED BY <3>2
  <2>3. CASE r \notin DefinesAt(fn, at)
    <3>1. /\ r \in program.live[at] /\ r \notin RefRegs /\ Place(r) \notin CallerSaved
          /\ \A d \in DefinesAt(fn, at) : Place(r) # Place(d)
      BY <2>3, <1>1, <1>3, Step DEF Undisturbed, Place, fn
    <3>2. held[Place(r)] = ContentsOf(r, truth[r])
      BY <3>1, <1>1, Step DEF Agrees
    <3>3. Outdated(held[Place(r)]) = held[Place(r)]
      BY <3>1, <3>2 DEF Outdated, ContentsOf
    <3>4. held'[Place(r)] = held[Place(r)] /\ truth'[r] = truth[r]
      <4>1. CASE dst = NoReg
        BY <4>1, <1>2, <2>1, <3>1, <3>3
      <4>2. CASE dst # NoReg
        <5>1. Place(r) # Place(dst) /\ r # dst
          BY <4>2, <1>4, <2>3, <3>1
        <5>2. truth'[r] = truth[r]
          BY <4>2, <1>2, <2>1, <5>1 DEF RunInv
        <5>3. held'[Place(r)] = held[Place(r)]
          BY <4>2, <1>2, <2>1, <3>1, <3>3, <5>1
        <5> QED BY <5>2, <5>3
      <4> QED BY <4>1, <4>2
    <3> QED BY <3>2, <3>4
  <2> QED BY <2>2, <2>3
<1>7. ASSUME NEW x \in program.stored[at']
      PROVE  slots'[x[1]] = ContentsOf(x[2], truth'[x[2]])
  <2>1. x \in program.stored[at] /\ x[2] \notin DefinesAt(fn, at)
    BY <1>1, Step DEF StoredAfter
  <2>2. slots[x[1]] = ContentsOf(x[2], truth[x[2]])
    BY <2>1, <1>1, Step DEF Agrees
  <2>3. truth'[x[2]] = truth[x[2]]
    <3>1. CASE dst = NoReg
      BY <3>1, <1>2
    <3>2. CASE dst # NoReg
      <4>1. x[2] \in Reg /\ x[2] # dst
        BY <3>2, <1>1, <1>4, <2>1, Step
      <4> QED BY <3>2, <4>1, <1>2 DEF RunInv
    <3> QED BY <3>1, <3>2
  <2> QED BY <1>1, <2>2, <2>3
<1>8. held' = [l \in Location |-> held'[l]]
  BY <1>2
<1>9. truth' = [r \in Reg |-> truth'[r]]
  <2>1. truth' = truth \/ truth' = [truth EXCEPT ![dst] = v]
    BY <1>2
  <2> QED BY <2>1 DEF RunInv
<1>10. slots' = [s \in Slot |-> slots'[s]]
  BY <1>1 DEF RunInv
<1> HIDE DEF dst
<1> QED BY <1>1, <1>6, <1>7, <1>8, <1>9, <1>10, Advanced

LEMMA StillInv ==
  ASSUME RunInv, UNCHANGED <<program, at, held, slots, truth>>,
         pc' = "returned" \/ pc' = pc
  PROVE  RunInv'
<1>1. /\ program' = program /\ at' = at /\ held' = held /\ slots' = slots /\ truth' = truth
      /\ fn' = fn
  BY DEF fn
<1>2. pc' = "entry" => pc = "entry"
  OBVIOUS
<1>3. pc' = "running" => Agrees'
  BY <1>1 DEF RunInv, Agrees, Place, ContentsOf
<1>4. Justified(program)'
  BY <1>1 DEF RunInv
<1> QED BY <1>1, <1>2, <1>3, <1>4 DEF RunInv

LEMMA NextInv == ASSUME RunInv, [Next]_vars PROVE RunInv'
<1>1. CASE Enter BY <1>1, EnterInv
<1>2. CASE Compute BY <1>2, ComputeInv
<1>3. CASE Copy BY <1>3, CopyInv
<1>4. CASE Store BY <1>4, StoreInv
<1>5. CASE RootSave BY <1>5, RootSaveInv
<1>6. CASE RootReload BY <1>6, RootReloadInv
<1>7. CASE Call BY <1>7, CallInv
<1>8. CASE Branch BY <1>8, BranchInv
<1>9. CASE Return BY <1>9, StillInv DEF Return
<1>10. CASE Returned BY <1>10, StillInv DEF Returned, vars
<1>11. CASE UNCHANGED vars BY <1>11, StillInv DEF vars
<1> QED BY <1>1, <1>2, <1>3, <1>4, <1>5, <1>6, <1>7, <1>8, <1>9, <1>10, <1>11 DEF Next

LEMMA RunInvReads == ASSUME RunInv PROVE ReadsCurrent
<1> SUFFICES ASSUME pc = "running", NEW r \in ReadsAt(fn, at)
             PROVE  held[Place(r)] = ContentsOf(r, truth[r])
  BY DEF ReadsCurrent
<1>1. Justified(program) /\ at \in Points(fn) /\ Agrees
  BY DEF RunInv
<1>2. r \in program.live[at]
  BY <1>1 DEF Justified, fn
<1> QED BY <1>1, <1>2 DEF Agrees

\* If every program is annotated soundly, no execution of any of them reads a
\* value other than the one written, or an address from before a collection.
THEOREM JustifiedCodeReadsCurrent ==
  ASSUME \A prog \in Programs : Justified(prog)
  PROVE  Spec => []ReadsCurrent
<1>1. Init => RunInv
  BY RunInvInit
<1>2. RunInv /\ [Next]_vars => RunInv'
  BY NextInv
<1>3. RunInv => ReadsCurrent
  BY RunInvReads
<1> QED BY <1>1, <1>2, <1>3, PTL DEF Spec

---------------------------------------------------------------------------
(***************************************************************************)
(* The slots hold what the reloads expect.                                 *)
(***************************************************************************)
\* What the pass is given: a lowered function, with no root operation in it yet.
Rootable(f) ==
  /\ IsFunction(f) /\ DefinitelyAssigned(f)
  /\ \A p \in Points(f) : ~IsTerminator(f, p) =>
       WellTyped(f, p) /\ InstructionAt(f, p).op \notin {"root_store", "root_load"}

SlotsSuffice == 0 .. Cardinality(RefRegs) - 1 \subseteq Slot

LEMMA SlotsOfAreSlots ==
  ASSUME NEW f, IsFunction(f), SlotsSuffice, NEW p
  PROVE  /\ \A i \in 1 .. SaveCount(f, p) : SlotsOf(f)[Saved(f, p, i)] \in Slot
         /\ \A i \in 1 .. NullCount(f, p) :
              /\ Nulled(f, p, i) \in Slot
              /\ \A j \in 1 .. SaveCount(f, p) : Nulled(f, p, i) # SlotsOf(f)[Saved(f, p, j)]
<1>1. \A i \in 1 .. SaveCount(f, p) : SlotsOf(f)[Saved(f, p, i)] \in Slot
  BY SavedAreRefs DEF SlotsSuffice
<1>2. ASSUME NEW i \in 1 .. NullCount(f, p)
      PROVE  /\ Nulled(f, p, i) \in Slot
             /\ \A j \in 1 .. SaveCount(f, p) : Nulled(f, p, i) # SlotsOf(f)[Saved(f, p, j)]
  <2>1. Nulled(f, p, i) \in Unused(f, p)
    BY SavedInOrder
  <2>2. PICK r \in DOMAIN SlotsOf(f) \ Saves(f, p) : Nulled(f, p, i) = SlotsOf(f)[r]
    BY <2>1 DEF Unused
  <2>3. SlotsOf(f)[r] \in Slot
    BY SlotFacts DEF SlotsSuffice
  <2>4. ASSUME NEW j \in 1 .. SaveCount(f, p) PROVE SlotsOf(f)[r] # SlotsOf(f)[Saved(f, p, j)]
    <3>1. Saved(f, p, j) \in DOMAIN SlotsOf(f) /\ Saved(f, p, j) \in Saves(f, p)
      BY SavedAreRefs
    <3>2. Saved(f, p, j) # r
      BY <3>1
    <3> QED BY <3>1, <3>2, SlotFacts
  <2> QED BY <2>2, <2>3, <2>4
<1> QED BY <1>1, <1>2

LEMMA WellTypedStore ==
  ASSUME NEW g, NEW q, NEW slot \in Slot, NEW reads, \A r, s \in reads : r = s, NEW line,
         InstructionAt(g, q) = RootStore(slot, reads, line)
  PROVE  WellTyped(g, q)
<1>1. /\ InstructionAt(g, q).op = "root_store" /\ InstructionAt(g, q).dst = NoReg
      /\ InstructionAt(g, q).slot = slot /\ InstructionAt(g, q).reads = reads
  BY DEF RootStore
<1> QED BY <1>1 DEF WellTyped

LEMMA WellTypedLoad ==
  ASSUME NEW g, NEW q, NEW slot \in Slot, NEW r \in Reg, NEW line,
         InstructionAt(g, q) = RootLoad(slot, r, line)
  PROVE  WellTyped(g, q)
<1>1. /\ InstructionAt(g, q).op = "root_load" /\ InstructionAt(g, q).dst = r
      /\ InstructionAt(g, q).slot = slot
  BY DEF RootLoad
<1> QED BY <1>1 DEF WellTyped

LEMMA RootedTyped ==
  ASSUME NEW f, Rootable(f), SlotsSuffice, NEW q \in Points(Rooted(f))
  PROVE  WellTyped(Rooted(f), q)
<1> DEFINE g == Rooted(f)
<1>0. IsFunction(f)
  BY DEF Rootable
<1>a. PICK b \in DOMAIN f.blocks :
        \E k \in 1 .. LastIndex(f, b) : \E i \in 1 .. Width(f, b, k) : q = Spot(f, b, k, i)
  BY <1>0, EverySpot
<1>b. PICK k \in 1 .. LastIndex(f, b) : \E i \in 1 .. Width(f, b, k) : q = Spot(f, b, k, i)
  BY <1>a
<1>1. PICK i \in 1 .. Width(f, b, k) : q = Spot(f, b, k, i)
  BY <1>b
<1> DEFINE p == <<b, k>>
<1>2. CASE k = LastIndex(f, b) /\ Width(f, b, k) = 1
  <2>1. q = Spot(f, b, LastIndex(f, b), 1)
    BY <1>1, <1>2
  <2> QED BY <1>0, <2>1, EndFacts DEF WellTyped
<1>3. CASE k \in DOMAIN f.blocks[b].code
  <2>1. CASE \E j \in 1 .. SaveCount(f, p) : i = j \/ i = Centre(f, p) + j
    <3>1. PICK j \in 1 .. SaveCount(f, p) : i = j \/ i = Centre(f, p) + j
      BY <2>1
    <3>2. SlotsOf(f)[Saved(f, p, j)] \in Slot /\ Saved(f, p, j) \in Reg
      BY <1>0, SlotsOfAreSlots, SavedAreRefs
    <3>3. CASE i = j
      <4>1. InstructionAt(g, q) =
              RootStore(SlotsOf(f)[Saved(f, p, j)], {Saved(f, p, j)}, InstructionAt(f, p).line)
        BY <1>0, <1>1, <1>3, <3>3, SpotKinds
      <4> HIDE DEF g
      <4> QED BY <3>2, <4>1, WellTypedStore DEF g
    <3>4. CASE i = Centre(f, p) + j
      <4>1. InstructionAt(g, q) =
              RootLoad(SlotsOf(f)[Saved(f, p, j)], Saved(f, p, j), InstructionAt(f, p).line)
        BY <1>0, <1>1, <1>3, <3>4, SpotKinds
      <4> HIDE DEF g
      <4> QED BY <3>2, <4>1, WellTypedLoad DEF g
    <3> QED BY <3>1, <3>3, <3>4
  <2>2. CASE \E j \in 1 .. NullCount(f, p) : i = SaveCount(f, p) + j
    <3>1. PICK j \in 1 .. NullCount(f, p) : i = SaveCount(f, p) + j
      BY <2>2
    <3>2. Nulled(f, p, j) \in Slot
      BY <1>0, SlotsOfAreSlots
    <3>3. InstructionAt(g, q) = RootStore(Nulled(f, p, j), {}, InstructionAt(f, p).line)
      BY <1>0, <1>1, <1>3, <3>1, SpotKinds
    <3> HIDE DEF g
    <3> QED BY <3>2, <3>3, WellTypedStore DEF g
  <2>3. CASE i = Centre(f, p)
    <3>1. InstructionAt(g, q) = InstructionAt(f, p)
      BY <1>0, <1>1, <1>3, <2>3, SpotKinds
    <3>2. p \in Points(f) /\ ~IsTerminator(f, p)
      BY <1>0, <1>3, InnerPoint
    <3>3. WellTyped(f, p)
      BY <3>2 DEF Rootable
    <3>4. WellTyped(g, q)
      <4> HIDE DEF g, p
      <4> QED BY <3>1, <3>2, <3>3 DEF WellTyped
    <3> QED BY <3>4
  <2> QED BY <1>0, <1>3, <2>1, <2>2, <2>3, SpotKinds
<1> QED BY <1>0, <1>2, <1>3, InnerOrEnd

LEMMA StoredTypes ==
  ASSUME NEW g, IsFunction(g), NEW p \in Points(g), WellTyped(g, p),
         NEW stored, stored \subseteq Slot \X Reg
  PROVE  StoredAfter(g, p, stored) \subseteq Slot \X Reg
<1>1. CASE IsTerminator(g, p)
  BY <1>1 DEF StoredAfter
<1>2. CASE ~IsTerminator(g, p)
  <2>1. ReadsAt(g, p) \subseteq Reg
    BY PointsFlow
  <2>2. InstructionAt(g, p).reads \subseteq Reg
    BY <1>2, <2>1 DEF ReadsAt
  <2>3. InstructionAt(g, p).op = "root_store" => InstructionAt(g, p).slot \in Slot
    BY <1>2 DEF WellTyped
  <2> QED BY <1>2, <2>2, <2>3 DEF StoredAfter
<1> QED BY <1>1, <1>2

\* `stored`, instruction by instruction.
LEMMA StoredEquations ==
  ASSUME NEW g, IsFunction(g), \A p \in Points(g) : WellTyped(g, p), NEW b \in DOMAIN g.blocks
  PROVE  /\ StoredBefore(g)[<<b, 1>>] = {}
         /\ \A k \in 1 .. LastIndex(g, b) : StoredBefore(g)[<<b, k>>] \subseteq Slot \X Reg
         /\ \A k \in 1 .. LastIndex(g, b) - 1 :
              StoredBefore(g)[<<b, k + 1>>] = StoredAfter(g, <<b, k>>, StoredBefore(g)[<<b, k>>])
<1> DEFINE n == LastIndex(g, b)
           D == SUBSET (Slot \X Reg)
           From(h) == [k \in 1 .. n |-> IF k = 1 THEN {} ELSE StoredAfter(g, <<b, k - 1>>, h[k - 1])]
           h == CHOOSE h : h = From(h)
           step == [e \in (1 .. n - 1) \X D |-> StoredAfter(g, <<b, e[1]>>, e[2])]
<1>1. n \in Nat \ {0} /\ \A k \in 1 .. n : <<b, k>> \in Points(g)
  BY FunctionTypes, PointShape
<1>2. \A k \in 1 .. n : StoredBefore(g)[<<b, k>>] = h[k]
  BY <1>1 DEF StoredBefore
<1> HIDE DEF n
<1>3. ASSUME NEW k \in 1 .. n - 1, NEW d \in D
      PROVE  step[<<k, d>>] = StoredAfter(g, <<b, k>>, d) /\ step[<<k, d>>] \in D
  <2>1. k \in 1 .. n
    BY <1>1
  <2>2. <<b, k>> \in Points(g) /\ WellTyped(g, <<b, k>>)
    BY <1>1, <2>1
  <2>3. StoredAfter(g, <<b, k>>, d) \subseteq Slot \X Reg
    BY <2>2, StoredTypes
  <2>4. step[<<k, d>>] = StoredAfter(g, <<b, k>>, d)
    OBVIOUS
  <2> QED BY <2>3, <2>4
<1>4. {} \in D
  OBVIOUS
<1> HIDE DEF step, D
<1>5. PICK it : Iterates(D, {}, step, n - 1, it)
  <2>1. n - 1 \in Nat
    BY <1>1
  <2> QED BY <1>3, <1>4, <2>1, IterationExists
<1>6. /\ it \in [0 .. n - 1 -> D] /\ it[0] = {}
      /\ \A k \in 1 .. n - 1 : it[k] = step[<<k, it[k - 1]>>]
  BY <1>5 DEF Iterates
<1> DEFINE j == [k \in 1 .. n |-> it[k - 1]]
<1>7. j = From(j)
  <2>1. ASSUME NEW k \in 1 .. n
        PROVE  j[k] = IF k = 1 THEN {} ELSE StoredAfter(g, <<b, k - 1>>, j[k - 1])
    <3>1. CASE k = 1
      BY <1>6, <3>1
    <3>2. CASE k # 1
      <4>1. k - 1 \in 1 .. n - 1 /\ k - 1 \in 1 .. n /\ (k - 1) - 1 \in 0 .. n - 1
        BY <1>1, <3>2
      <4>2. it[k - 1] = step[<<k - 1, it[(k - 1) - 1]>>] /\ it[(k - 1) - 1] \in D
        BY <1>6, <4>1
      <4>3. it[k - 1] = StoredAfter(g, <<b, k - 1>>, it[(k - 1) - 1])
        BY <1>3, <4>1, <4>2
      <4> QED BY <3>2, <4>1, <4>3
    <3> QED BY <3>1, <3>2
  <2> QED BY <2>1
<1>8. h = From(h)
  <2> HIDE DEF From, j
  <2> QED BY <1>7, Zenon
<1> HIDE DEF h
<1>9. \A k \in 1 .. n : h[k] = IF k = 1 THEN {} ELSE StoredAfter(g, <<b, k - 1>>, h[k - 1])
  BY <1>8
<1> HIDE DEF From, j
<1> DEFINE S == {m \in Nat : m + 1 <= n => h[m + 1] \in D}
<1>10. 0 \in S
  <2>1. 1 \in 1 .. n /\ 0 + 1 = 1
    BY <1>1
  <2>2. h[1] = {}
    BY <1>9, <2>1
  <2> QED BY <1>4, <2>1, <2>2
<1>11. ASSUME NEW m \in Nat, m \in S PROVE m + 1 \in S
  <2> SUFFICES ASSUME (m + 1) + 1 <= n PROVE h[(m + 1) + 1] \in D
    OBVIOUS
  <2>1. /\ m + 1 <= n /\ (m + 1) + 1 \in 1 .. n /\ (m + 1) + 1 # 1 /\ ((m + 1) + 1) - 1 = m + 1
        /\ m + 1 \in 1 .. n - 1
    BY <1>1
  <2>2. h[m + 1] \in D
    BY <1>11, <2>1
  <2>3. h[(m + 1) + 1] = StoredAfter(g, <<b, m + 1>>, h[m + 1])
    BY <1>9, <2>1
  <2>4. step[<<m + 1, h[m + 1]>>] = StoredAfter(g, <<b, m + 1>>, h[m + 1])
        /\ step[<<m + 1, h[m + 1]>>] \in D
    BY <1>3, <2>1, <2>2
  <2> QED BY <2>3, <2>4
<1>12. Nat \subseteq S
  <2> HIDE DEF S
  <2> QED BY <1>10, <1>11, SetInduction
<1>13. \A k \in 1 .. n : h[k] \in D
  <2> SUFFICES ASSUME NEW k \in 1 .. n PROVE h[k] \in D
    OBVIOUS
  <2>1. k - 1 \in Nat /\ (k - 1) + 1 = k /\ k <= n
    BY <1>1
  <2>2. k - 1 \in S
    <3> HIDE DEF S
    <3> QED BY <1>12, <2>1
  <2> QED BY <2>1, <2>2
<1>14. \A k \in 1 .. n - 1 : h[k + 1] = StoredAfter(g, <<b, k>>, h[k])
  <2> SUFFICES ASSUME NEW k \in 1 .. n - 1 PROVE h[k + 1] = StoredAfter(g, <<b, k>>, h[k])
    OBVIOUS
  <2>1. k + 1 \in 1 .. n /\ k + 1 # 1 /\ (k + 1) - 1 = k
    BY <1>1
  <2> QED BY <1>9, <2>1
<1>15. 1 \in 1 .. n /\ \A k \in 1 .. n - 1 : k \in 1 .. n /\ k + 1 \in 1 .. n
  BY <1>1
<1>16. h[1] = {}
  BY <1>9, <1>15
<1>17. StoredBefore(g)[<<b, 1>>] = {}
  BY <1>2, <1>15, <1>16
<1>18. \A k \in 1 .. n : StoredBefore(g)[<<b, k>>] \subseteq Slot \X Reg
  BY <1>2, <1>13 DEF D
<1>19. \A k \in 1 .. n - 1 :
         StoredBefore(g)[<<b, k + 1>>] = StoredAfter(g, <<b, k>>, StoredBefore(g)[<<b, k>>])
  BY <1>2, <1>14, <1>15
<1> QED BY <1>17, <1>18, <1>19 DEF n

LEMMA AfterSave ==
  ASSUME NEW g, NEW q, ~IsTerminator(g, q), NEW slot, NEW reads, NEW line, NEW was,
         InstructionAt(g, q) = RootStore(slot, reads, line)
  PROVE  StoredAfter(g, q, was) = {x \in was : x[1] # slot} \cup ({slot} \X reads)
<1>1. /\ InstructionAt(g, q).op = "root_store"
      /\ InstructionAt(g, q).slot = slot /\ InstructionAt(g, q).reads = reads
  BY DEF RootStore
<1> QED BY <1>1 DEF StoredAfter

\* At a place past the store of a register, its slot holds it.
LEMMA SavedStored ==
  ASSUME NEW f, Rootable(f), SlotsSuffice,
         NEW b \in DOMAIN f.blocks, NEW k \in DOMAIN f.blocks[b].code, NEW p, p = <<b, k>>,
         NEW i \in 1 .. Width(f, b, k), NEW j \in 1 .. SaveCount(f, p), j < i
  PROVE  <<SlotsOf(f)[Saved(f, p, j)], Saved(f, p, j)>> \in StoredBefore(Rooted(f))[Spot(f, b, k, i)]
<1> DEFINE g == Rooted(f)
           w == Width(f, b, k)
           m == SaveCount(f, p)
           c == Centre(f, p)
           r == Saved(f, p, j)
           pair == <<SlotsOf(f)[r], r>>
           st(l) == StoredBefore(g)[Spot(f, b, k, l)]
           S == {n \in Nat : n + 1 <= w => (j < n + 1 => pair \in st(n + 1))}
<1>0. IsFunction(f) /\ IsFunction(g) /\ DOMAIN g.blocks = DOMAIN f.blocks
  BY RootedShape DEF Rootable
<1>1. \A q \in Points(g) : WellTyped(g, q)
  BY RootedTyped
<1>2. m \in Nat /\ c \in Nat \ {0} /\ w \in Nat \ {0} /\ w = c + m /\ NullCount(f, p) \in Nat
  BY <1>0, SavedInOrder, OffsetFacts, SpotKinds
<1>3. ASSUME NEW l \in 1 .. w, l # w PROVE st(l + 1) = StoredAfter(g, Spot(f, b, k, l), st(l))
  <2> DEFINE o == Offsets(f, b)[k]
  <2>0. k \in 1 .. LastIndex(f, b) /\ l \in Nat
    BY <1>0, <1>2, OffsetFacts
  <2>1. /\ o \in Nat /\ o + l \in 1 .. LastIndex(g, b) - 1
    BY <1>0, <2>0, OffsetFacts
  <2> HIDE DEF g, o
  <2> DEFINE x == o + l
  <2>2. StoredBefore(g)[<<b, x + 1>>] = StoredAfter(g, <<b, x>>, StoredBefore(g)[<<b, x>>])
    <3>1. x \in 1 .. LastIndex(g, b) - 1
      BY <2>1
    <3>2. \A y \in 1 .. LastIndex(g, b) - 1 :
            StoredBefore(g)[<<b, y + 1>>] = StoredAfter(g, <<b, y>>, StoredBefore(g)[<<b, y>>])
      <4>1. IsFunction(g) /\ b \in DOMAIN g.blocks
        BY <1>0
      <4> HIDE DEF x
      <4> QED BY <1>1, <4>1, StoredEquations, ZenonT(60)
    <3> HIDE DEF x
    <3> QED BY <3>1, <3>2
  <2>3. (o + l) + 1 = o + (l + 1)
    BY <2>0, <2>1
  <2> QED BY <2>2, <2>3 DEF Spot, g, o
<1>4. /\ r \in Saves(f, p) /\ r \in DOMAIN SlotsOf(f)
      /\ \A l \in 1 .. m : SlotsOf(f)[Saved(f, p, l)] = SlotsOf(f)[r] => l = j
  <2>1. \A l \in 1 .. m : Saved(f, p, l) \in Saves(f, p) /\ Saved(f, p, l) \in DOMAIN SlotsOf(f)
    BY <1>0, SavedAreRefs
  <2>2. \A l \in 1 .. m : Saved(f, p, l) = Saved(f, p, j) => l = j
    BY <1>0, SavedInOrder
  <2> QED BY <1>0, <2>1, <2>2, SlotFacts
<1>5. r \notin DefinesAt(f, p)
  <2>1. p \in CallPoints(f)
    BY <1>4 DEF Saves
  <2> QED BY <1>0, <1>4, <2>1, NeedsExact DEF Saves
<1>6. ASSUME NEW l \in 1 .. w, l # w, j < l => pair \in st(l), j < l + 1 PROVE pair \in st(l + 1)
  <2>0. l \in Nat /\ j \in Nat /\ (j < l \/ j = l)
    BY <1>2, <1>6
  <2>1. st(l + 1) = StoredAfter(g, Spot(f, b, k, l), st(l))
    BY <1>3, <1>6
  <2>2. ~IsTerminator(g, Spot(f, b, k, l))
    BY <1>0, SpotFacts
  <2> DEFINE was == st(l)  next == st(l + 1)  q == Spot(f, b, k, l)
  <2> HIDE DEF was, next, q
  <2>3. next = StoredAfter(g, q, was) /\ ~IsTerminator(g, q) /\ (j < l => pair \in was)
    BY <1>6, <2>1, <2>2 DEF was, next, q
  <2>4. CASE l \in 1 .. m
    <3>1. InstructionAt(g, q) =
            RootStore(SlotsOf(f)[Saved(f, p, l)], {Saved(f, p, l)}, InstructionAt(f, p).line)
      BY <1>0, <2>4, SaveSpot DEF q
    <3>2. next = {x \in was : x[1] # SlotsOf(f)[Saved(f, p, l)]}
                   \cup ({SlotsOf(f)[Saved(f, p, l)]} \X {Saved(f, p, l)})
      <4> HIDE DEF g
      <4> QED BY <2>3, <3>1, AfterSave
    <3>3. pair \in next
      <4>1. CASE j = l
        BY <3>2, <4>1
      <4>2. CASE j # l
        <5>1. SlotsOf(f)[Saved(f, p, l)] # SlotsOf(f)[r] /\ pair \in was
          BY <1>4, <2>0, <2>3, <2>4, <4>2
        <5> QED BY <3>2, <5>1
      <4> QED BY <4>1, <4>2
    <3> QED BY <3>3 DEF next
  <2>5. CASE \E n \in 1 .. NullCount(f, p) : l = m + n
    <3>1. PICK n \in 1 .. NullCount(f, p) : l = m + n
      BY <2>5
    <3>2. InstructionAt(g, q) = RootStore(Nulled(f, p, n), {}, InstructionAt(f, p).line)
      BY <1>0, <3>1, SpotKinds DEF q
    <3>3. next = {x \in was : x[1] # Nulled(f, p, n)} \cup ({Nulled(f, p, n)} \X {})
      <4> HIDE DEF g
      <4> QED BY <2>3, <3>2, AfterSave
    <3>4. j < l
      BY <1>2, <3>1
    <3>5. Nulled(f, p, n) # SlotsOf(f)[r]
      BY <1>0, SlotsOfAreSlots
    <3> QED BY <2>3, <3>3, <3>4, <3>5 DEF next
  <2>6. CASE l = c
    <3>1. InstructionAt(g, q) = InstructionAt(f, p) /\ DefinesAt(g, q) = DefinesAt(f, p)
      BY <1>0, <2>6, SpotKinds, SpotEffects DEF q
    <3>2. InstructionAt(f, p).op \notin {"root_store", "root_load"}
      <4>1. p \in Points(f) /\ ~IsTerminator(f, p)
        BY <1>0, InnerPoint
      <4> QED BY <4>1 DEF Rootable
    <3>3. next = {x \in was : x[2] \notin DefinesAt(f, p)}
      <4> HIDE DEF g
      <4> QED BY <2>3, <3>1, <3>2 DEF StoredAfter
    <3>4. j < l
      BY <1>2, <2>6, SavedInOrder, <1>0 DEF Centre
    <3> QED BY <1>5, <2>3, <3>3, <3>4 DEF next
  <2>7. CASE \E n \in 1 .. m : l = c + n
    <3>1. PICK n \in 1 .. m : l = c + n
      BY <2>7
    <3>2. InstructionAt(g, q) =
            RootLoad(SlotsOf(f)[Saved(f, p, n)], Saved(f, p, n), InstructionAt(f, p).line)
      BY <1>0, <3>1, SpotKinds DEF q
    <3>3. next = was
      <4> HIDE DEF g
      <4> QED BY <2>3, <3>2 DEF StoredAfter, RootLoad
    <3>4. j < l
      BY <1>2, <3>1, SavedInOrder, <1>0 DEF Centre
    <3> QED BY <2>3, <3>3, <3>4 DEF next
  <2> QED BY <1>0, <2>4, <2>5, <2>6, <2>7, SpotKinds
<1> HIDE DEF st, pair, w, r, g
<1>7. 0 \in S
  OBVIOUS
<1>8. ASSUME NEW n \in Nat, n \in S PROVE n + 1 \in S
  <2> SUFFICES ASSUME (n + 1) + 1 <= w, j < (n + 1) + 1 PROVE pair \in st((n + 1) + 1)
    OBVIOUS
  <2>1. n + 1 \in 1 .. w /\ n + 1 # w /\ n + 1 <= w
    BY <1>2
  <2>2. j < n + 1 => pair \in st(n + 1)
    BY <1>8, <2>1
  <2> QED BY <1>6, <2>1, <2>2
<1>9. Nat \subseteq S
  <2> HIDE DEF S
  <2> QED BY <1>7, <1>8, SetInduction
<1>10. i - 1 \in Nat /\ (i - 1) + 1 = i /\ i <= w
  BY <1>2 DEF w
<1>11. i - 1 \in S
  <2> HIDE DEF S
  <2> QED BY <1>9, <1>10
<1>12. pair \in st(i)
  BY <1>10, <1>11
<1> QED BY <1>12 DEF pair, st, r, g

---------------------------------------------------------------------------
(***************************************************************************)
(* Rooted code is justified: no reference is kept across a call but in a   *)
(* slot, and every reload finds its register there.                        *)
(***************************************************************************)
LEMMA LoadStored ==
  ASSUME NEW f, Rootable(f), SlotsSuffice, NEW q \in Points(Rooted(f)),
         ~IsTerminator(Rooted(f), q), InstructionAt(Rooted(f), q).op = "root_load"
  PROVE  <<InstructionAt(Rooted(f), q).slot, InstructionAt(Rooted(f), q).dst>>
           \in StoredBefore(Rooted(f))[q]
<1> DEFINE g == Rooted(f)
<1>0. IsFunction(f)
  BY DEF Rootable
<1>2. PICK b \in DOMAIN f.blocks : \E k \in DOMAIN f.blocks[b].code :
        \E i \in 1 .. Width(f, b, k) : q = Spot(f, b, k, i)
  BY <1>0, InnerSpot
<1>3. PICK k \in DOMAIN f.blocks[b].code : \E i \in 1 .. Width(f, b, k) : q = Spot(f, b, k, i)
  BY <1>2
<1>4. PICK i \in 1 .. Width(f, b, k) : q = Spot(f, b, k, i)
  BY <1>3
<1> DEFINE p == <<b, k>>
<1>6. \E j \in 1 .. SaveCount(f, p) : i = Centre(f, p) + j
  <2>1. ASSUME NEW j \in 1 .. SaveCount(f, p), i = j PROVE FALSE
    <3>1. InstructionAt(g, q) =
            RootStore(SlotsOf(f)[Saved(f, p, j)], {Saved(f, p, j)}, InstructionAt(f, p).line)
      BY <1>0, <1>4, <2>1, SaveSpot
    <3>2. InstructionAt(g, q).op = "root_load"
      OBVIOUS
    <3> HIDE DEF g, p
    <3> QED BY <3>1, <3>2 DEF RootStore
  <2>2. ASSUME NEW j \in 1 .. NullCount(f, p), i = SaveCount(f, p) + j PROVE FALSE
    <3>1. InstructionAt(g, q) = RootStore(Nulled(f, p, j), {}, InstructionAt(f, p).line)
      BY <1>0, <1>4, <2>2, SpotKinds
    <3>2. InstructionAt(g, q).op = "root_load"
      OBVIOUS
    <3> HIDE DEF g, p
    <3> QED BY <3>1, <3>2 DEF RootStore
  <2>3. ASSUME i = Centre(f, p) PROVE FALSE
    <3>1. InstructionAt(g, q) = InstructionAt(f, p)
      BY <1>0, <1>4, <2>3, SpotKinds
    <3>2. p \in Points(f) /\ ~IsTerminator(f, p)
      BY <1>0, InnerPoint
    <3>3. InstructionAt(f, p).op # "root_load"
      BY <3>2 DEF Rootable
    <3> QED BY <3>1, <3>3
  <2>4. \/ i \in 1 .. SaveCount(f, p)
        \/ \E j \in 1 .. NullCount(f, p) : i = SaveCount(f, p) + j
        \/ i = Centre(f, p)
        \/ \E j \in 1 .. SaveCount(f, p) : i = Centre(f, p) + j
    BY <1>0, SpotKinds
  <2> QED BY <2>1, <2>2, <2>3, <2>4
<1>7. PICK j \in 1 .. SaveCount(f, p) : i = Centre(f, p) + j
  BY <1>6
<1>8. InstructionAt(g, q) =
        RootLoad(SlotsOf(f)[Saved(f, p, j)], Saved(f, p, j), InstructionAt(f, p).line)
  BY <1>0, <1>4, <1>7, SpotKinds
<1>9. InstructionAt(g, q).slot = SlotsOf(f)[Saved(f, p, j)] /\ InstructionAt(g, q).dst = Saved(f, p, j)
  <2> HIDE DEF g, p
  <2> QED BY <1>8 DEF RootLoad
<1>10. j < i
  <2>1. Centre(f, p) \in Nat \ {0} /\ SaveCount(f, p) \in Nat
    BY <1>0, SavedInOrder
  <2> QED BY <1>7, <2>1
<1>11. <<SlotsOf(f)[Saved(f, p, j)], Saved(f, p, j)>> \in StoredBefore(g)[q]
  BY <1>4, <1>10, SavedStored
<1> QED BY <1>9, <1>11

LEMMA RootedStoredType ==
  ASSUME NEW g, IsFunction(g), \A q \in Points(g) : WellTyped(g, q)
  PROVE  /\ StoredBefore(g) \in [Points(g) -> SUBSET (Slot \X Reg)]
         /\ StoredBefore(g)[<<g.entry, 1>>] = {}
         /\ \A p \in Points(g) : \A q \in NextPoints(g, p) :
              StoredBefore(g)[q] \subseteq StoredAfter(g, p, StoredBefore(g)[p])
<1>1. \A q \in Points(g) : StoredBefore(g)[q] \subseteq Slot \X Reg
  <2> SUFFICES ASSUME NEW q \in Points(g) PROVE StoredBefore(g)[q] \subseteq Slot \X Reg
    OBVIOUS
  <2>1. PICK b, k : q = <<b, k>>
    BY PointShape
  <2>2. b \in DOMAIN g.blocks /\ k \in 1 .. LastIndex(g, b)
    BY <2>1, PointShape
  <2> QED BY <2>1, <2>2, StoredEquations
<1>2. StoredBefore(g) = [q \in Points(g) |-> StoredBefore(g)[q]]
  BY DEF StoredBefore
<1>3. StoredBefore(g) \in [Points(g) -> SUBSET (Slot \X Reg)]
  BY <1>1, <1>2
<1>4. StoredBefore(g)[<<g.entry, 1>>] = {}
  BY StoredEquations DEF IsFunction
<1>5. ASSUME NEW p \in Points(g), NEW q \in NextPoints(g, p)
      PROVE  StoredBefore(g)[q] \subseteq StoredAfter(g, p, StoredBefore(g)[p])
  <2>1. PICK b, k : p = <<b, k>>
    BY PointShape
  <2>2. b \in DOMAIN g.blocks /\ k \in 1 .. LastIndex(g, b) /\ LastIndex(g, b) \in Nat \ {0}
    BY <2>1, PointShape, FunctionTypes
  <2>3. CASE IsTerminator(g, p)
    <3>1. PICK c \in g.blocks[b].next : q = <<c, 1>>
      BY <2>1, <2>3 DEF NextPoints
    <3>2. c \in DOMAIN g.blocks
      BY <2>2 DEF IsFunction
    <3> QED BY <3>1, <3>2, StoredEquations
  <2>4. CASE ~IsTerminator(g, p)
    <3>1. q = <<b, k + 1>>
      BY <2>1, <2>4 DEF NextPoints
    <3>2. k # LastIndex(g, b)
      BY <2>1, <2>4 DEF IsTerminator
    <3>3. k \in 1 .. LastIndex(g, b) - 1
      BY <2>2, <3>2
    <3> QED BY <2>1, <2>2, <3>1, <3>3, StoredEquations
  <2> QED BY <2>3, <2>4
<1> QED BY <1>3, <1>4, <1>5

---------------------------------------------------------------------------
(***************************************************************************)
(* Code fit to run, given places that fit.  A sweep leaves rooted code so. *)
(***************************************************************************)
\* The registers of a function.
Occurring(f) == Params(f) \cup UNION {ReadsAt(f, p) \cup DefinesAt(f, p) : p \in Points(f)}

\* What gc_roots.rs makes of lowered code and every sweep keeps.
Ready(f) ==
  /\ IsFunction(f) /\ DefinitelyAssigned(f)
  /\ \A p \in Points(f) :
       /\ WellTyped(f, p)
       /\ ~IsTerminator(f, p) /\ InstructionAt(f, p).op = "root_load" =>
            <<InstructionAt(f, p).slot, InstructionAt(f, p).dst>> \in StoredBefore(f)[p]
  /\ \A p \in CallPoints(f) : (LiveAfter(f)[p] \ DefinesAt(f, p)) \cap RefRegs = {}

\* What the places of registers must be for prepared code to be fit to run.
Fits(f, location) ==
  /\ location \in [DOMAIN location -> Location]
  /\ Occurring(f) \subseteq DOMAIN location /\ DOMAIN location \subseteq Reg
  /\ \A r, s \in Params(f) : location[r] = location[s] => r = s
  /\ HasCalls(f) => \A r \in LiveBefore(f)[<<f.entry, 1>>] : location[r] \notin CallerSaved
  /\ \A p \in Points(f) : \A d \in DefinesAt(f, p) : \A r \in LiveAfter(f)[p] \ DefinesAt(f, p) :
       location[r] # location[d]
  /\ \A p \in CallPoints(f) : \A r \in LiveAfter(f)[p] \ DefinesAt(f, p) : location[r] \notin CallerSaved

\* Only registers that occur are live or stored.
LEMMA LiveOccurs ==
  ASSUME NEW f, IsFunction(f)
  PROVE  LiveBefore(f) \in [Points(f) -> SUBSET Occurring(f)]
<1> DEFINE claim == [p \in Points(f) |-> Occurring(f)]
<1>1. ASSUME NEW p \in Points(f)
      PROVE  /\ ReadsAt(f, p) \subseteq claim[p]
             /\ \A q \in NextPoints(f, p) : (Reg \cap claim[q]) \ DefinesAt(f, p) \subseteq claim[p]
  <2>1. NextPoints(f, p) \subseteq Points(f)
    BY PointsFlow
  <2>2. ReadsAt(f, p) \subseteq Occurring(f)
    BY DEF Occurring
  <2> QED BY <2>1, <2>2
<1>2. \A p \in Points(f) : LiveBefore(f)[p] \subseteq claim[p]
  <2> HIDE DEF claim
  <2> QED BY <1>1, LiveLeast
<1>3. LiveBefore(f) = [p \in Points(f) |-> LiveBefore(f)[p]]
  BY DEF LiveBefore
<1> QED BY <1>2, <1>3

\* Only registers that occur are in the pairs of slots and registers.
LEMMA StoredOccurs ==
  ASSUME NEW f, IsFunction(f), \A p \in Points(f) : WellTyped(f, p)
  PROVE  StoredBefore(f) \in [Points(f) -> SUBSET (Slot \X Occurring(f))]
<1>1. ASSUME NEW b \in DOMAIN f.blocks
      PROVE  \A k \in 1 .. LastIndex(f, b) : StoredBefore(f)[<<b, k>>] \subseteq Slot \X Occurring(f)
  <2> DEFINE n == LastIndex(f, b)
             S == {m \in Nat : m + 1 \in 1 .. n =>
                     StoredBefore(f)[<<b, m + 1>>] \subseteq Slot \X Occurring(f)}
  <2>1. n \in Nat \ {0} /\ \A k \in 1 .. n : <<b, k>> \in Points(f)
    BY FunctionTypes, PointShape
  <2>2. 0 \in S
    <3>1. StoredBefore(f)[<<b, 0 + 1>>] = {}
      BY StoredEquations
    <3> QED BY <3>1
  <2>3. ASSUME NEW m \in Nat, m \in S PROVE m + 1 \in S
    <3> SUFFICES ASSUME (m + 1) + 1 \in 1 .. n
                 PROVE StoredBefore(f)[<<b, (m + 1) + 1>>] \subseteq Slot \X Occurring(f)
      OBVIOUS
    <3> DEFINE k == m + 1
    <3>1. k \in 1 .. n - 1 /\ k \in 1 .. n /\ k # n
      BY <2>1
    <3>2. StoredBefore(f)[<<b, k>>] \subseteq Slot \X Occurring(f)
      BY <2>3, <3>1
    <3>3. StoredBefore(f)[<<b, k + 1>>] = StoredAfter(f, <<b, k>>, StoredBefore(f)[<<b, k>>])
      BY <3>1, StoredEquations
    <3>4. <<b, k>> \in Points(f) /\ WellTyped(f, <<b, k>>)
      BY <2>1, <3>1
    <3>5. ~IsTerminator(f, <<b, k>>)
      BY <3>1 DEF IsTerminator
    <3>6. InstructionAt(f, <<b, k>>).reads \subseteq Occurring(f)
      BY <3>4, <3>5 DEF Occurring, ReadsAt
    <3>7. InstructionAt(f, <<b, k>>).op = "root_store" => InstructionAt(f, <<b, k>>).slot \in Slot
      BY <3>4, <3>5 DEF WellTyped
    <3> HIDE DEF k
    <3>8. StoredAfter(f, <<b, k>>, StoredBefore(f)[<<b, k>>]) \subseteq Slot \X Occurring(f)
      BY <3>2, <3>5, <3>6, <3>7 DEF StoredAfter
    <3> QED BY <3>3, <3>8 DEF k
  <2>4. Nat \subseteq S
    <3> HIDE DEF S
    <3> QED BY <2>2, <2>3, SetInduction
  <2> TAKE k \in 1 .. n
  <2>5. k - 1 \in Nat /\ (k - 1) + 1 = k
    BY <2>1
  <2> QED BY <2>4, <2>5
<1>2. StoredBefore(f) = [q \in Points(f) |-> StoredBefore(f)[q]]
  BY DEF StoredBefore
<1>3. \A q \in Points(f) : StoredBefore(f)[q] \subseteq Slot \X Occurring(f)
  <2> TAKE q \in Points(f)
  <2>1. q = <<q[1], q[2]>> /\ q[1] \in DOMAIN f.blocks /\ q[2] \in 1 .. LastIndex(f, q[1])
    BY PointShape
  <2> QED BY <1>1, <2>1
<1> QED BY <1>2, <1>3

\* Prepared code is fit to run in any places that fit it.
LEMMA ReadyJustified ==
  ASSUME NEW f, Ready(f), NEW location, Fits(f, location)
  PROVE  Justified(Annotated(f, location))
<1> DEFINE prog == Annotated(f, location)
<1>1. IsFunction(f) /\ \A p \in Points(f) : WellTyped(f, p)
  BY DEF Ready
<1>2. /\ prog.fn = f /\ prog.live = LiveBefore(f) /\ prog.stored = StoredBefore(f)
      /\ prog.location = location
  BY DEF Annotated
<1> HIDE DEF prog
<1>3. /\ LiveBefore(f) \in [Points(f) -> SUBSET DOMAIN location]
      /\ StoredBefore(f) \in [Points(f) -> SUBSET (Slot \X DOMAIN location)]
  <2>1. Occurring(f) \subseteq DOMAIN location
    BY DEF Fits
  <2>2. /\ LiveBefore(f) \in [Points(f) -> SUBSET Occurring(f)]
        /\ StoredBefore(f) \in [Points(f) -> SUBSET (Slot \X Occurring(f))]
    BY <1>1, LiveOccurs, StoredOccurs
  <2> QED BY <2>1, <2>2
<1>4. Params(f) \subseteq DOMAIN location /\ DOMAIN location \subseteq Reg
  BY DEF Fits, Occurring
<1>5. /\ LiveBefore(f)[<<f.entry, 1>>] \subseteq Params(f)
      /\ StoredBefore(f)[<<f.entry, 1>>] = {}
      /\ \A p \in Points(f) : \A q \in NextPoints(f, p) :
           StoredBefore(f)[q] \subseteq StoredAfter(f, p, StoredBefore(f)[p])
  BY <1>1, RootedStoredType DEF Ready, DefinitelyAssigned
<1>6. ASSUME NEW p \in Points(f)
      PROVE  /\ DefinesAt(f, p) \subseteq DOMAIN location
             /\ ReadsAt(f, p) \subseteq LiveBefore(f)[p]
             /\ LiveAfter(f)[p] = UNION {LiveBefore(f)[q] : q \in NextPoints(f, p)}
             /\ LiveAfter(f)[p] \ DefinesAt(f, p) \subseteq LiveBefore(f)[p]
  <2>1. DefinesAt(f, p) \subseteq DOMAIN location
    BY DEF Fits, Occurring
  <2> QED BY <1>1, <2>1, LiveEquations
<1>7. ASSUME NEW p \in Points(f), NEW q \in NextPoints(f, p) PROVE Undisturbed(prog, p, q)
  <2>1. LiveBefore(f)[q] \ DefinesAt(f, p) \subseteq LiveAfter(f)[p] \ DefinesAt(f, p)
    BY <1>6
  <2>2. LiveBefore(f)[q] \ DefinesAt(f, p) \subseteq LiveBefore(f)[p]
    BY <1>6, <2>1
  <2>3. \A d \in DefinesAt(f, p), r \in LiveBefore(f)[q] \ DefinesAt(f, p) : location[r] # location[d]
    BY <2>1 DEF Fits
  <2>4. p \in CallPoints(f) => \A r \in LiveBefore(f)[q] \ DefinesAt(f, p) :
          r \notin RefRegs /\ location[r] \notin CallerSaved
    BY <2>1 DEF Fits, Ready
  <2> QED BY <1>2, <2>2, <2>3, <2>4 DEF Undisturbed
<1>8. /\ \A r, s \in Params(f) : location[r] = location[s] => r = s
      /\ HasCalls(f) => \A r \in LiveBefore(f)[<<f.entry, 1>>] : location[r] \notin CallerSaved
      /\ location \in [DOMAIN location -> Location]
  BY DEF Fits
<1>9. ASSUME NEW p \in Points(f)
      PROVE  /\ WellTyped(f, p)
             /\ ~IsTerminator(f, p) /\ InstructionAt(f, p).op = "root_load" =>
                  <<InstructionAt(f, p).slot, InstructionAt(f, p).dst>> \in StoredBefore(f)[p]
  BY DEF Ready
<1>10. ASSUME NEW p \in Points(f)
      PROVE  /\ WellTyped(f, p)
             /\ DefinesAt(f, p) \subseteq DOMAIN location
             /\ ReadsAt(f, p) \subseteq LiveBefore(f)[p]
             /\ ~IsTerminator(f, p) /\ InstructionAt(f, p).op = "root_load" =>
                  <<InstructionAt(f, p).slot, InstructionAt(f, p).dst>> \in StoredBefore(f)[p]
             /\ \A q \in NextPoints(f, p) :
                  /\ Undisturbed(prog, p, q)
                  /\ StoredBefore(f)[q] \subseteq StoredAfter(f, p, StoredBefore(f)[p])
  BY <1>5, <1>6, <1>7, <1>9
<1>11. Justified(prog)
  BY <1>1, <1>2, <1>3, <1>4, <1>5, <1>8, <1>10 DEF Justified
<1> QED BY <1>11 DEF prog

\* What is stored depends on the instruction alone and only grows with what was.
LEMMA StoredGrows ==
  ASSUME NEW f, NEW p, NEW g, NEW q, ~IsTerminator(f, p), ~IsTerminator(g, q),
         InstructionAt(f, p) = InstructionAt(g, q), NEW less, NEW more, less \subseteq more
  PROVE  StoredAfter(f, p, less) \subseteq StoredAfter(g, q, more)
<1>1. DefinesAt(f, p) = DefinesAt(g, q)
  BY DEF DefinesAt
<1> DEFINE instr == InstructionAt(f, p)
<1>2. StoredAfter(f, p, less) =
        CASE instr.op = "root_store" ->
               {x \in less : x[1] # instr.slot} \cup ({instr.slot} \X instr.reads)
          [] instr.op = "root_load" -> less
          [] OTHER -> {x \in less : x[2] \notin DefinesAt(f, p)}
  BY DEF StoredAfter
<1>3. StoredAfter(g, q, more) =
        CASE instr.op = "root_store" ->
               {x \in more : x[1] # instr.slot} \cup ({instr.slot} \X instr.reads)
          [] instr.op = "root_load" -> more
          [] OTHER -> {x \in more : x[2] \notin DefinesAt(f, p)}
  BY <1>1 DEF StoredAfter
<1> HIDE DEF instr
<1>4. CASE instr.op = "root_store"
  BY <1>2, <1>3, <1>4
<1>5. CASE instr.op = "root_load"
  BY <1>2, <1>3, <1>5
<1>6. CASE instr.op \notin {"root_store", "root_load"}
  BY <1>2, <1>3, <1>6
<1> QED BY <1>4, <1>5, <1>6

\* A slot holds after the sweep what it held before it: only copies went, and they
\* store nothing.
LEMMA SweptStored ==
  ASSUME NEW f, IsFunction(f), NEW out, \A b \in DOMAIN f.blocks : out[b] \subseteq Reg,
         NEW g, g = Swept(f, out), \A p \in Points(f) : WellTyped(f, p),
         \A p \in Points(g) : WellTyped(g, p),
         NEW b \in DOMAIN f.blocks, NEW origin, origin = SweepOrigin(f, out, b),
         NEW i \in 1 .. LastIndex(g, b)
  PROVE  StoredBefore(f)[<<b, origin[i]>>] \subseteq StoredBefore(g)[<<b, i>>]
<1> DEFINE M == LastIndex(g, b)
           N == LastIndex(f, b)
           live == SweepLive(f, out, b)
           T(k) == \A j \in 1 .. M :
                     (k <= origin[j] /\ \A m \in 1 .. M : m < j => origin[m] < k)
                       => StoredBefore(f)[<<b, k>>] \subseteq StoredBefore(g)[<<b, j>>]
           S == {n \in Nat : n + 1 \in 1 .. N => T(n + 1)}
<1>1. Sweeps(f, out, b, g, live, origin)
  BY SweptBlock
<1>2. /\ IsFunction(g) /\ b \in DOMAIN g.blocks
      /\ M \in Nat \ {0} /\ DOMAIN g.blocks[b].code = 1 .. M - 1
      /\ N \in Nat \ {0} /\ DOMAIN f.blocks[b].code = 1 .. N - 1
  <2>1. IsFunction(g) /\ b \in DOMAIN g.blocks
    BY SweptIsFunction
  <2>2. /\ DOMAIN f.blocks[b].code = 1 .. Len(f.blocks[b].code) /\ Len(f.blocks[b].code) \in Nat
        /\ LastIndex(f, b) = Len(f.blocks[b].code) + 1
    BY FunctionTypes
  <2>3. /\ DOMAIN g.blocks[b].code = 1 .. Len(g.blocks[b].code) /\ Len(g.blocks[b].code) \in Nat
        /\ LastIndex(g, b) = Len(g.blocks[b].code) + 1
    BY <2>1, FunctionTypes
  <2> QED BY <2>1, <2>2, <2>3
<1> HIDE DEF live
<1>3. \A m, j \in 1 .. M : m < j => origin[m] < origin[j]
  BY OriginsAscend
<1>4. /\ \A m \in 1 .. M : origin[m] \in 1 .. N
      /\ \A m \in 1 .. M - 1 : /\ origin[m] \in 1 .. N - 1
                               /\ ~Dead(f.blocks[b], live, origin[m])
                               /\ g.blocks[b].code[m] = f.blocks[b].code[origin[m]]
      /\ \A k \in 1 .. N - 1 : Dead(f.blocks[b], live, k) \/ \E m \in 1 .. M - 1 : origin[m] = k
      /\ origin[M] = N
  BY <1>1, <1>2 DEF Sweeps
<1>5. /\ StoredBefore(f)[<<b, 1>>] = {}
      /\ \A k \in 1 .. N - 1 :
           StoredBefore(f)[<<b, k + 1>>] = StoredAfter(f, <<b, k>>, StoredBefore(f)[<<b, k>>])
  BY StoredEquations
<1>6. \A k \in 1 .. M - 1 :
        StoredBefore(g)[<<b, k + 1>>] = StoredAfter(g, <<b, k>>, StoredBefore(g)[<<b, k>>])
  <2>1. IsFunction(g) /\ b \in DOMAIN g.blocks
    BY <1>2
  <2> HIDE DEF T, S
  <2> QED BY ONLY <2>1, StoredEquations, \A p \in Points(g) : WellTyped(g, p)
<1>7. /\ \A k \in 1 .. N - 1 : ~IsTerminator(f, <<b, k>>) /\ InstructionAt(f, <<b, k>>) = f.blocks[b].code[k]
      /\ \A k \in 1 .. M - 1 : ~IsTerminator(g, <<b, k>>) /\ InstructionAt(g, <<b, k>>) = g.blocks[b].code[k]
  BY <1>2 DEF IsTerminator, InstructionAt
<1> HIDE DEF M, N, live
<1>8. 0 \in S
  <2>1. T(1)
    BY <1>5
  <2> QED BY <2>1
<1>9. ASSUME NEW n \in Nat, n \in S PROVE n + 1 \in S
  <2> SUFFICES ASSUME (n + 1) + 1 \in 1 .. N PROVE T((n + 1) + 1)
    OBVIOUS
  <2> DEFINE k == n + 1
  <2>1. k \in 1 .. N - 1 /\ k \in 1 .. N /\ T(k)
    BY <1>2, <1>9
  <2> HIDE DEF k
  <2>2. T(k + 1)
    <3> SUFFICES ASSUME NEW j \in 1 .. M, k + 1 <= origin[j],
                        \A m \in 1 .. M : m < j => origin[m] < k + 1
                 PROVE  StoredBefore(f)[<<b, k + 1>>] \subseteq StoredBefore(g)[<<b, j>>]
      OBVIOUS
    <3>1. \A m \in 1 .. M : origin[m] \in Nat
      BY <1>2, <1>4
    <3>2. CASE \E m \in 1 .. M - 1 : origin[m] = k
      <4>1. PICK m \in 1 .. M - 1 : origin[m] = k
        BY <3>2
      <4>2. m \in 1 .. M /\ m + 1 \in 1 .. M
        BY <1>2
      <4>3. m < j
        <5>1. j < m => origin[j] < origin[m]
          BY <1>3, <4>2
        <5>2. origin[j] \in Nat
          BY <3>1
        <5> QED BY <2>1, <3>1, <4>1, <4>2, <5>1, <5>2
      <4>4. j = m + 1
        <5>1. m + 1 < j => origin[m] < origin[m + 1] /\ origin[m + 1] < k + 1
          BY <1>2, <1>3, <4>2
        <5>2. origin[m + 1] \in Nat /\ k \in Nat
          BY <2>1, <3>1, <4>2
        <5> QED BY <1>2, <4>1, <4>3, <5>1, <5>2
      <4>5. StoredBefore(f)[<<b, k>>] \subseteq StoredBefore(g)[<<b, m>>]
        <5>1. \A l \in 1 .. M : l < m => origin[l] < k
          BY <1>3, <4>1, <4>2
        <5>2. k <= origin[m]
          BY <2>1, <4>1
        <5> QED BY <2>1, <4>2, <5>1, <5>2
      <4>6. g.blocks[b].code[m] = f.blocks[b].code[k]
        BY <1>4, <4>1
      <4>7. StoredAfter(f, <<b, k>>, StoredBefore(f)[<<b, k>>])
              \subseteq StoredAfter(g, <<b, m>>, StoredBefore(g)[<<b, m>>])
        <5>1. /\ ~IsTerminator(f, <<b, k>>) /\ ~IsTerminator(g, <<b, m>>)
              /\ InstructionAt(f, <<b, k>>) = InstructionAt(g, <<b, m>>)
          BY <1>7, <2>1, <4>6
        <5> QED BY <4>5, <5>1, StoredGrows
      <4> QED BY <1>5, <1>6, <2>1, <4>4, <4>7
    <3>3. CASE ~\E m \in 1 .. M - 1 : origin[m] = k
      <4>1. Dead(f.blocks[b], live, k)
        BY <1>4, <2>1, <3>3
      <4>2. InstructionAt(f, <<b, k>>).op = "copy" /\ ~IsTerminator(f, <<b, k>>)
        BY <1>7, <2>1, <4>1 DEF Dead
      <4>3. StoredBefore(f)[<<b, k + 1>>] \subseteq StoredBefore(f)[<<b, k>>]
        <5>1. StoredAfter(f, <<b, k>>, StoredBefore(f)[<<b, k>>]) \subseteq StoredBefore(f)[<<b, k>>]
          BY <4>2 DEF StoredAfter
        <5> QED BY <1>5, <2>1, <5>1
      <4>4. \A m \in 1 .. M : m < j => origin[m] < k
        <5> TAKE m \in 1 .. M
        <5> HAVE m < j
        <5>1. m \in 1 .. M - 1 /\ origin[m] \in Nat /\ k \in Nat
          BY <1>2, <2>1, <3>1
        <5>2. origin[m] # k /\ origin[m] < k + 1
          BY <3>3, <5>1
        <5> QED BY <5>1, <5>2
      <4>5. k <= origin[j]
        BY <2>1, <3>1
      <4> QED BY <2>1, <4>3, <4>4, <4>5
    <3> QED BY <3>2, <3>3
  <2> QED BY <2>2 DEF k
<1>10. Nat \subseteq S
  <2> HIDE DEF S
  <2> QED BY <1>8, <1>9, SetInduction
<1>11. origin[i] - 1 \in Nat /\ (origin[i] - 1) + 1 = origin[i] /\ origin[i] \in 1 .. N /\ i \in 1 .. M
  BY <1>2, <1>4 DEF M
<1>12. T(origin[i])
  BY <1>10, <1>11
<1> QED BY <1>3, <1>11, <1>12

\* A sweep leaves code fit to run.
LEMMA SweptReady ==
  ASSUME NEW f, Ready(f), NEW g, g = Swept(f, LiveOut(f))
  PROVE  Ready(g) /\ g.params = f.params /\ g.entry = f.entry
<1> DEFINE out == LiveOut(f)
           lives(b) == SweepLive(f, out, b)
           from(b) == SweepOrigin(f, out, b)
<1>1. IsFunction(f) /\ \A p \in Points(f) : WellTyped(f, p)
  BY DEF Ready
<1>2. \A b \in DOMAIN f.blocks : out[b] \subseteq Reg
  BY <1>1, LiveOutIsAfter
<1>3. IsFunction(g) /\ DOMAIN g.blocks = DOMAIN f.blocks
  BY <1>1, <1>2, SweptIsFunction
<1>4. g.params = f.params /\ g.entry = f.entry
  <2>1. f \in [blocks : Seq(Block), entry : Nat, params : Seq(Reg)]
    BY <1>1 DEF IsFunction
  <2> QED BY <2>1 DEF Swept
<1>5. \A b \in DOMAIN f.blocks : Sweeps(f, out, b, g, lives(b), from(b))
  BY <1>1, <1>2, SweptBlock
<1>6. ASSUME NEW b \in DOMAIN f.blocks
      PROVE  /\ \A k \in 1 .. LastIndex(f, b) : lives(b)[k] \subseteq LiveBefore(f)[<<b, k>>]
             /\ \A k \in DOMAIN f.blocks[b].code : lives(b)[k + 1] \subseteq LiveAfter(f)[<<b, k>>]
  BY <1>1, SweepLiveIsLive
<1>7. \A p \in Points(g) : LiveBefore(g)[p] \subseteq lives(p[1])[from(p[1])[p[2]]]
  BY <1>1, SweptLive
<1> HIDE DEF lives, from
<1>8. ASSUME NEW b \in DOMAIN f.blocks, NEW k \in DOMAIN f.blocks[b].code
       PROVE  /\ <<b, k>> \in Points(f) /\ ~IsTerminator(f, <<b, k>>)
              /\ InstructionAt(f, <<b, k>>) = f.blocks[b].code[k]
  <2>1. InstructionAt(f, <<b, k>>) = f.blocks[b].code[k]
    BY DEF InstructionAt
  <2>2. IsFunction(f)
    BY <1>1
  <2>3. <<b, k>> \in Points(f) /\ ~IsTerminator(f, <<b, k>>)
    BY <2>2, InnerPoint
  <2> QED BY <2>1, <2>3
\* An instruction of g is one of f.
<1>9. ASSUME NEW p \in Points(g), ~IsTerminator(g, p)
      PROVE  /\ p = <<p[1], p[2]>> /\ p[1] \in DOMAIN f.blocks /\ p[2] \in DOMAIN g.blocks[p[1]].code
             /\ from(p[1])[p[2]] \in DOMAIN f.blocks[p[1]].code
             /\ <<p[1], from(p[1])[p[2]]>> \in Points(f)
             /\ ~IsTerminator(f, <<p[1], from(p[1])[p[2]]>>)
             /\ InstructionAt(g, p) = InstructionAt(f, <<p[1], from(p[1])[p[2]]>>)
  <2> DEFINE b == p[1]  i == p[2]  o == from(b)
  <2>1. p = <<b, i>> /\ b \in DOMAIN f.blocks /\ i \in 1 .. LastIndex(g, b)
    BY <1>3, PointShape
  <2>2. i # LastIndex(g, b)
    BY <1>9 DEF IsTerminator
  <2>3. /\ DOMAIN g.blocks[b].code = 1 .. Len(g.blocks[b].code) /\ Len(g.blocks[b].code) \in Nat
        /\ LastIndex(g, b) = Len(g.blocks[b].code) + 1
    BY <1>3, <2>1, FunctionTypes
  <2>4. i \in DOMAIN g.blocks[b].code
    <3> HIDE DEF i, b
    <3> QED BY <2>1, <2>2, <2>3
  <2>5. o[i] \in DOMAIN f.blocks[b].code /\ g.blocks[b].code[i] = f.blocks[b].code[o[i]]
    BY <1>5, <2>1, <2>4 DEF Sweeps
  <2>6. /\ <<b, o[i]>> \in Points(f) /\ ~IsTerminator(f, <<b, o[i]>>)
        /\ InstructionAt(f, <<b, o[i]>>) = f.blocks[b].code[o[i]]
    BY <1>8, <2>1, <2>5
  <2>7. InstructionAt(g, p) = g.blocks[b].code[i]
    BY DEF InstructionAt
  <2> QED BY <2>1, <2>4, <2>5, <2>6, <2>7
<1>10. \A p \in Points(g) : WellTyped(g, p)
  <2> TAKE p \in Points(g)
  <2>1. CASE IsTerminator(g, p)
    BY <2>1 DEF WellTyped
  <2>2. CASE ~IsTerminator(g, p)
    <3> DEFINE q == <<p[1], from(p[1])[p[2]]>>
    <3>1. q \in Points(f) /\ ~IsTerminator(f, q) /\ InstructionAt(g, p) = InstructionAt(f, q)
      BY <1>9, <2>2
    <3>2. WellTyped(f, q)
      BY <1>1, <3>1
    <3> HIDE DEF q
    <3> QED BY <2>2, <3>1, <3>2 DEF WellTyped
  <2> QED BY <2>1, <2>2
<1>11. ASSUME NEW p \in Points(g), ~IsTerminator(g, p), InstructionAt(g, p).op = "root_load"
      PROVE  <<InstructionAt(g, p).slot, InstructionAt(g, p).dst>> \in StoredBefore(g)[p]
  <2> DEFINE b == p[1]  i == p[2]  q == <<b, from(b)[i]>>
  <2>1. /\ p = <<b, i>> /\ b \in DOMAIN f.blocks /\ i \in DOMAIN g.blocks[b].code
        /\ q \in Points(f) /\ ~IsTerminator(f, q) /\ InstructionAt(g, p) = InstructionAt(f, q)
    BY <1>9, <1>11
  <2>2. <<InstructionAt(f, q).slot, InstructionAt(f, q).dst>> \in StoredBefore(f)[q]
    BY <1>11, <2>1 DEF Ready
  <2>3. i \in 1 .. LastIndex(g, b)
    BY <1>3, PointShape
  <2>4. from(b) = SweepOrigin(f, out, b)
    BY DEF from
  <2>5. StoredBefore(f)[<<b, from(b)[i]>>] \subseteq StoredBefore(g)[<<b, i>>]
    <3> HIDE DEF b, i, out
    <3> QED BY <1>1, <1>2, <1>10, <2>1, <2>3, <2>4, SweptStored DEF out
  <2> QED BY <2>1, <2>2, <2>5
<1>12. ASSUME NEW p \in CallPoints(g)
       PROVE  (LiveAfter(g)[p] \ DefinesAt(g, p)) \cap RefRegs = {}
  <2> DEFINE b == p[1]  i == p[2]  o == from(b)  q == <<b, o[i]>>
  <2>1. p \in Points(g) /\ ~IsTerminator(g, p) /\ IsCall(InstructionAt(g, p))
    BY DEF CallPoints
  <2>2. /\ p = <<b, i>> /\ b \in DOMAIN f.blocks /\ i \in DOMAIN g.blocks[b].code
        /\ o[i] \in DOMAIN f.blocks[b].code
        /\ q \in Points(f) /\ ~IsTerminator(f, q) /\ InstructionAt(g, p) = InstructionAt(f, q)
    BY <1>9, <2>1
  <2>3. q \in CallPoints(f) /\ DefinesAt(g, p) = DefinesAt(f, q)
    BY <2>1, <2>2 DEF CallPoints, DefinesAt
  <2>4. LiveAfter(g)[p] = LiveBefore(g)[<<b, i + 1>>] /\ <<b, i + 1>> \in Points(g)
    <3>1. b \in DOMAIN g.blocks
      BY <1>3, <2>2
    <3>2. LiveAfter(g)[<<b, i>>] = LiveBefore(g)[<<b, i + 1>>] /\ i + 1 \in 1 .. LastIndex(g, b)
      BY <1>3, <2>2, <3>1, InnerPoint
    <3> QED BY <1>3, <2>2, <3>1, <3>2, PointShape
  <2>5. LiveBefore(g)[<<b, i + 1>>] \subseteq lives(b)[o[i + 1]]
    BY <1>7, <2>4
  <2>6. lives(b)[o[i + 1]] = lives(b)[o[i] + 1]
    BY <1>5, <2>2 DEF Sweeps
  <2>7. lives(b)[o[i] + 1] \subseteq LiveAfter(f)[q]
    BY <1>6, <2>2
  <2>8. (LiveAfter(f)[q] \ DefinesAt(f, q)) \cap RefRegs = {}
    BY <2>3 DEF Ready
  <2> HIDE DEF q, b, i, o
  <2> QED BY <2>3, <2>4, <2>5, <2>6, <2>7, <2>8
<1>13. DefinitelyAssigned(g)
  <2> DEFINE e == f.entry
  <2>1. e \in DOMAIN f.blocks /\ <<e, 1>> \in Points(g)
    BY <1>1, <1>3, <1>4, FunctionTypes, EntryIsPoint
  <2>2. LiveBefore(g)[<<e, 1>>] \subseteq lives(e)[from(e)[1]]
    BY <1>7, <2>1
  <2>3. lives(e)[from(e)[1]] = lives(e)[1]
    BY <1>5, <2>1 DEF Sweeps
  <2>4. lives(e)[1] \subseteq LiveBefore(f)[<<e, 1>>]
    <3>1. 1 \in 1 .. LastIndex(f, e)
      BY <1>1, <2>1, FunctionTypes
    <3> QED BY <1>6, <2>1, <3>1
  <2>5. LiveBefore(f)[<<e, 1>>] \subseteq Params(f) /\ Params(g) = Params(f)
    BY <1>4 DEF Ready, DefinitelyAssigned, Params
  <2> QED BY <1>4, <2>2, <2>3, <2>4, <2>5 DEF DefinitelyAssigned
<1> QED BY <1>3, <1>4, <1>10, <1>11, <1>12, <1>13 DEF Ready

\* Rooted code is fit to run.
LEMMA RootedReady ==
  ASSUME NEW f, Rootable(f), SlotsSuffice
  PROVE  Ready(Rooted(f))
<1> DEFINE g == Rooted(f)
<1>1. IsFunction(f) /\ IsFunction(g)
  BY RootedShape DEF Rootable
<1>2. \A q \in Points(g) : WellTyped(g, q)
  BY RootedTyped
<1>3. Params(g) = Params(f) /\ g.entry = f.entry
  BY <1>1, RootedShape DEF Params
<1>4. LiveBefore(g)[<<g.entry, 1>>] \subseteq Params(g)
  <2> DEFINE e == f.entry
  <2>1. /\ e \in DOMAIN f.blocks /\ 1 \in 1 .. LastIndex(f, e) /\ Offsets(f, e)[1] = 0
    <3>1. e \in DOMAIN f.blocks
      BY <1>1, FunctionTypes
    <3>2. LastIndex(f, e) \in Nat \ {0} /\ Offsets(f, e)[1] = 0
      BY <1>1, <3>1, OffsetFacts
    <3> QED BY <3>1, <3>2
  <2>2. Spot(f, e, 1, 1) = <<e, 1>>
    BY <2>1 DEF Spot
  <2>3. 1 \in 1 .. Width(f, e, 1)
    <3>1. 1 \in DOMAIN f.blocks[e].code => Width(f, e, 1) \in Nat \ {0}
      BY <1>1, <2>1, OffsetFacts
    <3>2. Width(f, e, 1) \in Nat \ {0}
      BY <1>1, <2>1, <3>1, InnerOrEnd
    <3> QED BY <3>2
  <2>4. Spot(f, e, 1, 1) \in Points(g)
    BY <1>1, <1>3, <2>2, EntryIsPoint
  <2>5. LiveBefore(g)[Spot(f, e, 1, 1)] \subseteq Needed(f, e, 1, 1)
    BY <1>1, <2>1, <2>3, <2>4, LiveIsNeeded
  <2>6. Needed(f, e, 1, 1) = LiveBefore(f)[<<e, 1>>]
    BY <1>1, NeededFirst
  <2>7. LiveBefore(f)[<<e, 1>>] \subseteq Params(f)
    BY DEF Rootable, DefinitelyAssigned
  <2> QED BY <1>3, <2>2, <2>5, <2>6, <2>7
<1>5. ASSUME NEW p \in CallPoints(g)
      PROVE  (LiveAfter(g)[p] \ DefinesAt(g, p)) \cap RefRegs = {}
  <2>1. PICK b \in DOMAIN f.blocks : \E k \in DOMAIN f.blocks[b].code :
          <<b, k>> \in CallPoints(f) /\ p = Spot(f, b, k, Centre(f, <<b, k>>))
    BY <1>1, CallSpot
  <2>2. PICK k \in DOMAIN f.blocks[b].code :
          <<b, k>> \in CallPoints(f) /\ p = Spot(f, b, k, Centre(f, <<b, k>>))
    BY <2>1
  <2>3. DefinesAt(g, p) = DefinesAt(f, <<b, k>>)
    BY <1>1, <2>2, SpotEffects
  <2>4. p \in Points(g)
    BY DEF CallPoints
  <2>5. LiveAfter(g)[p] = UNION {LiveBefore(g)[q] : q \in NextPoints(g, p)}
    BY <1>1, <2>4, LiveEquations
  <2> SUFFICES ASSUME NEW q \in NextPoints(g, p), NEW r \in LiveBefore(g)[q], r \notin DefinesAt(g, p)
               PROVE  r \notin RefRegs
    BY <2>5
  <2> QED BY <1>1, <2>2, <2>3, NoRefsAcross
<1>6. \A p \in Points(g) : ~IsTerminator(g, p) /\ InstructionAt(g, p).op = "root_load" =>
        <<InstructionAt(g, p).slot, InstructionAt(g, p).dst>> \in StoredBefore(g)[p]
  BY LoadStored
<1> HIDE DEF g
<1>7. Ready(g)
  BY <1>1, <1>2, <1>4, <1>5, <1>6 DEF Ready, DefinitelyAssigned
<1> QED BY <1>7 DEF g

\* Everything the execution relies on holds of rooted code, each register in a
\* place of its own: gc_roots.rs alone makes lowered code fit to run.
LEMMA RootedJustified ==
  ASSUME NEW f, Rootable(f), SlotsSuffice, Reg \subseteq Location, CallerSaved \cap Reg = {}
  PROVE  Justified(Annotated(Rooted(f), SpillEverything))
<1> DEFINE g == Rooted(f)
<1>1. Ready(g) /\ IsFunction(g)
  BY RootedReady DEF Ready
<1>2. /\ SpillEverything \in [Reg -> Location] /\ \A r \in Reg : SpillEverything[r] = r
      /\ DOMAIN SpillEverything = Reg
  BY DEF SpillEverything
<1> HIDE DEF g
<1>3. ASSUME NEW p \in Points(g)
      PROVE  /\ ReadsAt(g, p) \subseteq Reg /\ DefinesAt(g, p) \subseteq Reg
             /\ LiveAfter(g)[p] \subseteq Reg /\ LiveBefore(g)[p] \subseteq Reg
  BY <1>1, PointsFlow, LiveEquations
<1>4. Params(g) \subseteq Reg
  BY <1>1 DEF IsFunction, Params
<1>5. Occurring(g) \subseteq Reg
  BY <1>3, <1>4 DEF Occurring
<1>6. \A r \in LiveBefore(g)[<<g.entry, 1>>] : r \in Reg
  BY <1>1, <1>3, EntryIsPoint
<1>7. /\ \A r, s \in Params(g) : SpillEverything[r] = SpillEverything[s] => r = s
      /\ \A r \in LiveBefore(g)[<<g.entry, 1>>] : SpillEverything[r] \notin CallerSaved
  BY <1>2, <1>4, <1>6
<1>8. ASSUME NEW p \in Points(g), NEW d \in DefinesAt(g, p), NEW r \in LiveAfter(g)[p] \ DefinesAt(g, p)
      PROVE  SpillEverything[r] # SpillEverything[d]
  BY <1>2, <1>3
<1>9. ASSUME NEW p \in CallPoints(g), NEW r \in LiveAfter(g)[p] \ DefinesAt(g, p)
      PROVE  SpillEverything[r] \notin CallerSaved
  <2>1. p \in Points(g)
    BY DEF CallPoints
  <2> QED BY <1>2, <1>3, <2>1
<1>10. Fits(g, SpillEverything)
  BY <1>2, <1>5, <1>7, <1>8, <1>9 DEF Fits
<1> QED BY <1>1, <1>10, ReadyJustified DEF g

---------------------------------------------------------------------------
(***************************************************************************)
(* At a call the slots hold what is needed after it and nothing else.      *)
(***************************************************************************)
\* The first place of an instruction is not a reload.
LEMMA FirstIsNoReload ==
  ASSUME NEW f, Rootable(f), NEW b \in DOMAIN f.blocks, NEW k \in 1 .. LastIndex(f, b)
  PROVE  /\ Spot(f, b, k, 1) \in Points(Rooted(f))
         /\ \/ IsTerminator(Rooted(f), Spot(f, b, k, 1))
            \/ InstructionAt(Rooted(f), Spot(f, b, k, 1)).op # "root_load"
<1> DEFINE g == Rooted(f)  q == Spot(f, b, k, 1)  p == <<b, k>>
<1>0. IsFunction(f)
  BY DEF Rootable
<1>1. CASE k = LastIndex(f, b)
  BY <1>0, <1>1, EndFacts
<1>2. CASE k \in DOMAIN f.blocks[b].code
  <2>1. SaveCount(f, p) \in Nat /\ NullCount(f, p) \in Nat /\ Centre(f, p) \in Nat \ {0}
    BY <1>0, SavedInOrder
  <2>2. 1 \in 1 .. Width(f, b, k)
    <3>1. Width(f, b, k) \in Nat \ {0}
      BY <1>0, <1>2, OffsetFacts
    <3> QED BY <3>1
  <2>3. q \in Points(g)
    BY <1>0, <1>2, <2>2, SpotFacts
  <2>4. InstructionAt(g, q).op # "root_load"
    <3>1. CASE 1 \in 1 .. SaveCount(f, p)
      <4>1. InstructionAt(g, q) =
              RootStore(SlotsOf(f)[Saved(f, p, 1)], {Saved(f, p, 1)}, InstructionAt(f, p).line)
        BY <1>0, <1>2, <3>1, SaveSpot
      <4> HIDE DEF g, q, p
      <4> QED BY <4>1 DEF RootStore
    <3>2. CASE \E j \in 1 .. NullCount(f, p) : 1 = SaveCount(f, p) + j
      <4>1. PICK j \in 1 .. NullCount(f, p) : 1 = SaveCount(f, p) + j
        BY <3>2
      <4>2. InstructionAt(g, q) = RootStore(Nulled(f, p, j), {}, InstructionAt(f, p).line)
        BY <1>0, <1>2, <4>1, SpotKinds
      <4> HIDE DEF g, q, p
      <4> QED BY <4>2 DEF RootStore
    <3>3. CASE 1 = Centre(f, p)
      <4>1. InstructionAt(g, q) = InstructionAt(f, p)
        BY <1>0, <1>2, <3>3, SpotKinds
      <4>2. p \in Points(f) /\ ~IsTerminator(f, p)
        BY <1>0, <1>2, InnerPoint
      <4> QED BY <4>1, <4>2 DEF Rootable
    <3>4. ~ \E j \in 1 .. SaveCount(f, p) : 1 = Centre(f, p) + j
      BY <2>1
    <3> QED BY <1>0, <1>2, <2>2, <3>1, <3>2, <3>3, <3>4, SpotKinds
  <2> QED BY <2>3, <2>4
<1> QED BY <1>0, <1>1, <1>2, InnerOrEnd

LEMMA ReloadsEnd ==
  ASSUME NEW f, Rootable(f), NEW b \in DOMAIN f.blocks, NEW k \in DOMAIN f.blocks[b].code,
         fn = Rooted(f)
  PROVE  AfterReloads(Spot(f, b, k, Centre(f, <<b, k>>))) = Spot(f, b, k + 1, 1)
<1> DEFINE g == Rooted(f)
           p == <<b, k>>
           o == Offsets(f, b)[k]
           c == Centre(f, p)
           m == SaveCount(f, p)
           first == o + c
           target == o + c + m + 1
           t == <<b, target>>
           Ok(q) == /\ q \in Points(fn)
                    /\ q[1] = b /\ q[2] > first
                    /\ IsTerminator(fn, q) \/ InstructionAt(fn, q).op # "root_load"
                    /\ \A x \in first + 1 .. q[2] - 1 : InstructionAt(fn, <<b, x>>).op = "root_load"
<1>0. IsFunction(f) /\ IsFunction(g)
  BY RootedShape DEF Rootable
<1>1. k \in 1 .. LastIndex(f, b) /\ k + 1 \in 1 .. LastIndex(f, b)
  BY <1>0, OffsetFacts
<1>2. o \in Nat /\ c \in Nat \ {0} /\ m \in Nat
  BY <1>0, <1>1, OffsetFacts, SavedInOrder
<1>3. Offsets(f, b)[k + 1] = o + Width(f, b, k) /\ Width(f, b, k) = c + m
  <2>1. Width(f, b, k) = c + m
    BY <1>0, SpotKinds
  <2> QED BY <1>0, <2>1, NextOffset
<1>4. Spot(f, b, k, c) = <<b, first>> /\ Spot(f, b, k + 1, 1) = t
  <2>1. Offsets(f, b)[k + 1] + 1 = target
    BY <1>2, <1>3
  <2> QED BY <2>1 DEF Spot
<1>5. t \in Points(fn) /\ (IsTerminator(fn, t) \/ InstructionAt(fn, t).op # "root_load")
  BY <1>1, <1>4, FirstIsNoReload
<1>6. ASSUME NEW x \in first + 1 .. target - 1
      PROVE  InstructionAt(fn, <<b, x>>).op = "root_load" /\ ~IsTerminator(fn, <<b, x>>)
  <2> DEFINE j == x - first
  <2>1. j \in 1 .. m /\ o + (c + j) = x
    BY <1>2
  <2>2. Spot(f, b, k, c + j) = <<b, x>>
    BY <2>1 DEF Spot
  <2> HIDE DEF j
  <2>3. /\ c + j \in 1 .. Width(f, b, k)
        /\ InstructionAt(g, Spot(f, b, k, c + j)) =
             RootLoad(SlotsOf(f)[Saved(f, p, j)], Saved(f, p, j), InstructionAt(f, p).line)
    BY <1>0, <2>1, SpotKinds
  <2>4. ~IsTerminator(g, Spot(f, b, k, c + j))
    BY <1>0, <2>3, SpotFacts
  <2>5. InstructionAt(g, Spot(f, b, k, c + j)).op = "root_load"
    BY <2>3 DEF RootLoad
  <2> QED BY <2>2, <2>4, <2>5
<1>7. first \in Nat /\ target \in Nat /\ target > first
  BY <1>2
<1> HIDE DEF first, target
<1>8. Ok(t)
  BY <1>5, <1>6, <1>7
<1>9. ASSUME NEW q, Ok(q) PROVE q = t
  <2>1. /\ q = <<q[1], q[2]>> /\ q[2] \in 1 .. LastIndex(g, b) /\ q[1] = b
        /\ LastIndex(g, b) \in Nat
    <3>1. q \in Points(g) /\ q[1] = b
      BY <1>9
    <3>2. q = <<q[1], q[2]>> /\ q[1] \in DOMAIN g.blocks /\ q[2] \in 1 .. LastIndex(g, q[1])
      BY <1>0, <3>1, PointShape
    <3>3. \A d \in DOMAIN g.blocks : LastIndex(g, d) = Len(g.blocks[d].code) + 1
                                     /\ Len(g.blocks[d].code) \in Nat
      BY <1>0, FunctionTypes
    <3> QED BY <3>1, <3>2, <3>3
  <2> DEFINE y == q[2]
  <2>2. q = <<b, y>> /\ y \in Nat /\ y <= LastIndex(g, b) /\ y > first
    BY <1>9, <2>1
  <2>3. /\ IsTerminator(fn, q) \/ InstructionAt(fn, q).op # "root_load"
        /\ \A x \in first + 1 .. y - 1 : InstructionAt(fn, <<b, x>>).op = "root_load"
    BY <1>9
  <2> HIDE DEF y
  <2>4. ASSUME y < target PROVE FALSE
    <3>1. y \in first + 1 .. target - 1
      BY <1>7, <2>2, <2>4
    <3> QED BY <1>6, <2>2, <2>3, <3>1
  <2>5. ASSUME y > target PROVE FALSE
    <3>1. target \in first + 1 .. y - 1
      BY <1>7, <2>2, <2>5
    <3>2. InstructionAt(fn, t).op = "root_load"
      BY <2>3, <3>1
    <3>3. IsTerminator(fn, t)
      BY <1>5, <3>2
    <3>4. target = LastIndex(g, b)
      BY <3>3 DEF IsTerminator
    <3> QED BY <1>7, <2>1, <2>2, <2>5, <3>4
  <2> QED BY <1>7, <2>2, <2>4, <2>5
<1>10. AfterReloads(<<b, first>>) = CHOOSE q : Ok(q)
  <2>1. AfterReloads(<<b, first>>) =
          CHOOSE q \in Points(fn) :
            /\ q[1] = b /\ q[2] > first
            /\ IsTerminator(fn, q) \/ InstructionAt(fn, q).op # "root_load"
            /\ \A x \in first + 1 .. q[2] - 1 : InstructionAt(fn, <<b, x>>).op = "root_load"
    BY DEF AfterReloads
  <2> QED BY <2>1
<1> HIDE DEF Ok
<1>11. (CHOOSE q : Ok(q)) = t
  BY <1>8, <1>9
<1> QED BY <1>4, <1>10, <1>11

\* The slots some call keeps a reference in.
SlotsUsed(f) == {SlotsOf(f)[r] : r \in DOMAIN SlotsOf(f)}

\* No other slot is ever written, and on the way to a call the nulls passed are in
\* their slots.
CleanFor(f) ==
  /\ \A s \in Slot \ SlotsUsed(f) : slots[s] = Empty
  /\ \A b \in DOMAIN f.blocks : \A k \in DOMAIN f.blocks[b].code : \A i \in 1 .. Centre(f, <<b, k>>) :
       at = Spot(f, b, k, i) =>
         \A j \in 1 .. NullCount(f, <<b, k>>) :
           SaveCount(f, <<b, k>>) + j < i => slots[Nulled(f, <<b, k>>, j)] = Empty

IsRooted(prog, f) == Rootable(f) /\ prog = Annotated(Rooted(f), SpillEverything)

RootInv ==
  /\ RunInv
  /\ \E f : IsRooted(program, f)
  /\ \A f : IsRooted(program, f) => CleanFor(f)

\* A store of the rooted code is to a slot some call uses.
LEMMA StoreIsUsed ==
  ASSUME NEW f, Rootable(f), NEW q \in Points(Rooted(f)),
         ~IsTerminator(Rooted(f), q), InstructionAt(Rooted(f), q).op = "root_store"
  PROVE  InstructionAt(Rooted(f), q).slot \in SlotsUsed(f)
<1> DEFINE g == Rooted(f)
<1>0. IsFunction(f)
  BY DEF Rootable
<1>1. InstructionAt(g, q).op = "root_store"
  OBVIOUS
<1>2. PICK b \in DOMAIN f.blocks : \E k \in DOMAIN f.blocks[b].code :
        \E i \in 1 .. Width(f, b, k) : q = Spot(f, b, k, i)
  BY <1>0, InnerSpot
<1>3. PICK k \in DOMAIN f.blocks[b].code : \E i \in 1 .. Width(f, b, k) : q = Spot(f, b, k, i)
  BY <1>2
<1>4. PICK i \in 1 .. Width(f, b, k) : q = Spot(f, b, k, i)
  BY <1>3
<1> DEFINE p == <<b, k>>
<1>6. CASE i \in 1 .. SaveCount(f, p)
  <2>1. InstructionAt(g, q) =
          RootStore(SlotsOf(f)[Saved(f, p, i)], {Saved(f, p, i)}, InstructionAt(f, p).line)
    BY <1>0, <1>4, <1>6, SaveSpot
  <2>2. InstructionAt(g, q).slot = SlotsOf(f)[Saved(f, p, i)]
    <3> HIDE DEF g, p
    <3> QED BY <2>1 DEF RootStore
  <2>3. Saved(f, p, i) \in DOMAIN SlotsOf(f)
    BY <1>0, <1>6, SavedAreRefs
  <2> QED BY <2>2, <2>3 DEF SlotsUsed
<1>7. CASE \E j \in 1 .. NullCount(f, p) : i = SaveCount(f, p) + j
  <2>1. PICK j \in 1 .. NullCount(f, p) : i = SaveCount(f, p) + j
    BY <1>7
  <2>2. InstructionAt(g, q) = RootStore(Nulled(f, p, j), {}, InstructionAt(f, p).line)
    BY <1>0, <1>4, <2>1, SpotKinds
  <2>3. InstructionAt(g, q).slot = Nulled(f, p, j)
    <3> HIDE DEF g, p
    <3> QED BY <2>2 DEF RootStore
  <2>4. Nulled(f, p, j) \in Unused(f, p)
    BY <1>0, <2>1, SavedInOrder
  <2>5. Unused(f, p) \subseteq SlotsUsed(f)
    BY DEF Unused, SlotsUsed
  <2> QED BY <2>3, <2>4, <2>5
<1>8. i # Centre(f, p)
  <2> SUFFICES ASSUME i = Centre(f, p) PROVE FALSE
    OBVIOUS
  <2>1. InstructionAt(g, q) = InstructionAt(f, p)
    BY <1>0, <1>4, SpotKinds
  <2>2. p \in Points(f) /\ ~IsTerminator(f, p)
    BY <1>0, InnerPoint
  <2> QED BY <1>1, <2>1, <2>2 DEF Rootable
<1>9. ~ \E j \in 1 .. SaveCount(f, p) : i = Centre(f, p) + j
  <2> SUFFICES ASSUME NEW j \in 1 .. SaveCount(f, p), i = Centre(f, p) + j PROVE FALSE
    OBVIOUS
  <2>1. InstructionAt(g, q) =
          RootLoad(SlotsOf(f)[Saved(f, p, j)], Saved(f, p, j), InstructionAt(f, p).line)
    BY <1>0, <1>4, SpotKinds
  <2> HIDE DEF g, p
  <2> QED BY <1>1, <2>1 DEF RootLoad
<1> QED BY <1>0, <1>6, <1>7, <1>8, <1>9, SpotKinds

LEMMA RootInvInit ==
  ASSUME SlotsSuffice, Reg \subseteq Location, CallerSaved \cap Reg = {},
         \A prog \in Programs : \E f : IsRooted(prog, f), Init
  PROVE  RootInv
<1>1. \A prog \in Programs : Justified(prog)
  BY RootedJustified DEF IsRooted
<1>2. RunInv
  BY <1>1, RunInvInit
<1>3. \E f : IsRooted(program, f)
  BY DEF Init
<1>4. ASSUME NEW f, IsRooted(program, f) PROVE CleanFor(f)
  <2>1. IsFunction(f)
    BY <1>4 DEF IsRooted, Rootable
  <2>2. \A s \in Slot : slots[s] = Empty
    BY DEF Init
  <2>3. \A p : \A j \in 1 .. NullCount(f, p) : Nulled(f, p, j) \in Slot
    BY <2>1, SlotsOfAreSlots
  <2> QED BY <2>2, <2>3 DEF CleanFor
<1> QED BY <1>2, <1>3, <1>4 DEF RootInv

\* Only a store leads to a place between the stores and their call.
LEMMA BehindIsStore ==
  ASSUME NEW f, Rootable(f), NEW b \in DOMAIN f.blocks, NEW k \in DOMAIN f.blocks[b].code,
         NEW p, p = <<b, k>>, NEW i \in 1 .. Centre(f, p), i # 1,
         NEW q \in Points(Rooted(f)), Spot(f, b, k, i) \in NextPoints(Rooted(f), q)
  PROVE  /\ q = Spot(f, b, k, i - 1) /\ ~IsTerminator(Rooted(f), q)
         /\ InstructionAt(Rooted(f), q).op = "root_store"
         /\ \/ i - 1 \in 1 .. SaveCount(f, p)
            \/ \E j \in 1 .. NullCount(f, p) :
                 /\ i - 1 = SaveCount(f, p) + j
                 /\ InstructionAt(Rooted(f), q).slot = Nulled(f, p, j)
                 /\ InstructionAt(Rooted(f), q).reads = {}
<1> DEFINE g == Rooted(f)  o == Offsets(f, b)[k]
<1>0. IsFunction(f) /\ IsFunction(g)
  BY RootedShape DEF Rootable
<1>1. /\ o \in Nat /\ Centre(f, p) \in Nat \ {0} /\ SaveCount(f, p) \in Nat
      /\ NullCount(f, p) \in Nat
      /\ Centre(f, p) = SaveCount(f, p) + NullCount(f, p) + 1
  <2>1. k \in 1 .. LastIndex(f, b)
    BY <1>0, OffsetFacts
  <2> QED BY <1>0, <2>1, OffsetFacts, SavedInOrder DEF Centre
<1>2. q = <<q[1], q[2]>> /\ q[2] \in Nat
  <2>1. q = <<q[1], q[2]>> /\ q[2] \in 1 .. LastIndex(g, q[1]) /\ q[1] \in DOMAIN g.blocks
    BY <1>0, PointShape
  <2>2. LastIndex(g, q[1]) = Len(g.blocks[q[1]].code) + 1 /\ Len(g.blocks[q[1]].code) \in Nat
    BY <1>0, <2>1, FunctionTypes
  <2> QED BY <2>1, <2>2
<1>3. <<b, o + i>> \in NextPoints(g, q)
  BY DEF Spot
<1>4. o + i # 1 /\ o + (i - 1) = (o + i) - 1 /\ i - 1 \in 1 .. Centre(f, p) /\ i - 1 # Centre(f, p)
  BY <1>1
<1> HIDE DEF g, o
<1>5. <<b, o + i>> = <<q[1], q[2] + 1>>
  <2>1. IsTerminator(g, q) => \E d : <<b, o + i>> = <<d, 1>>
    BY <1>3 DEF NextPoints
  <2>2. ~IsTerminator(g, q)
    BY <1>4, <2>1
  <2> QED BY <1>3, <2>2 DEF NextPoints
<1>6. q = <<b, o + (i - 1)>>
  <2>1. b = q[1] /\ o + i = q[2] + 1
    BY <1>5
  <2>2. q[2] = o + (i - 1)
    BY <1>1, <1>2, <1>4, <2>1
  <2> QED BY <1>2, <2>1, <2>2
<1>7. q = Spot(f, b, k, i - 1)
  BY <1>6 DEF Spot, o
<1>8. i - 1 \in 1 .. Width(f, b, k)
  <2>1. Width(f, b, k) = Centre(f, p) + SaveCount(f, p)
    BY <1>0, SpotKinds
  <2> QED BY <1>1, <1>4, <2>1
<1>9. ~IsTerminator(g, q)
  BY <1>0, <1>7, <1>8, SpotFacts DEF g
<1>10. CASE i - 1 \in 1 .. SaveCount(f, p)
  <2>1. InstructionAt(g, q) =
          RootStore(SlotsOf(f)[Saved(f, p, i - 1)], {Saved(f, p, i - 1)}, InstructionAt(f, p).line)
    BY <1>0, <1>7, <1>10, SaveSpot DEF g
  <2>2. InstructionAt(g, q).op = "root_store"
    BY <2>1 DEF RootStore
  <2> QED BY <1>7, <1>9, <1>10, <2>2 DEF g
<1>11. CASE i - 1 \notin 1 .. SaveCount(f, p)
  <2> DEFINE j == (i - 1) - SaveCount(f, p)
  <2>1. j \in 1 .. NullCount(f, p) /\ i - 1 = SaveCount(f, p) + j
    BY <1>1, <1>4, <1>11
  <2> HIDE DEF j
  <2>2. InstructionAt(Rooted(f), Spot(f, b, k, SaveCount(f, p) + j)) =
          RootStore(Nulled(f, p, j), {}, InstructionAt(f, p).line)
    BY <1>0, <2>1, SpotKinds
  <2>3. InstructionAt(g, q) = RootStore(Nulled(f, p, j), {}, InstructionAt(f, p).line)
    BY <1>7, <2>1, <2>2 DEF g
  <2>4. /\ InstructionAt(g, q).op = "root_store" /\ InstructionAt(g, q).slot = Nulled(f, p, j)
        /\ InstructionAt(g, q).reads = {}
    BY <2>3 DEF RootStore
  <2> QED BY <1>7, <1>9, <2>1, <2>4 DEF g
<1> QED BY <1>10, <1>11

LEMMA OtherStepClean ==
  ASSUME RootInv, pc = "running", Advance, slots' = slots,
         ~IsTerminator(fn, at) => InstructionAt(fn, at).op # "root_store",
         NEW f, IsRooted(program, f)
  PROVE  CleanFor(f)'
<1>1. /\ RunInv /\ CleanFor(f) /\ Rootable(f) /\ IsFunction(f) /\ fn = Rooted(f)
  BY DEF RootInv, IsRooted, Rootable, Annotated, fn
<1>2. at \in Points(fn) /\ at' \in NextPoints(fn, at)
  BY <1>1 DEF RunInv, Advance
<1>3. \A s \in Slot \ SlotsUsed(f) : slots'[s] = Empty
  BY <1>1 DEF CleanFor
<1> DEFINE next == at'
<1>4. next \in NextPoints(fn, at)
  BY <1>2
<1> HIDE DEF next
<1>5. ASSUME NEW b \in DOMAIN f.blocks, NEW k \in DOMAIN f.blocks[b].code,
             NEW i \in 1 .. Centre(f, <<b, k>>), next = Spot(f, b, k, i),
             NEW j \in 1 .. NullCount(f, <<b, k>>), SaveCount(f, <<b, k>>) + j < i
      PROVE  FALSE
  <2>1. SaveCount(f, <<b, k>>) \in Nat /\ NullCount(f, <<b, k>>) \in Nat
    BY <1>1, SavedInOrder
  <2>2. i # 1
    BY <1>5, <2>1
  <2>3. ~IsTerminator(fn, at) /\ InstructionAt(fn, at).op = "root_store"
    BY <1>1, <1>2, <1>4, <1>5, <2>2, BehindIsStore
  <2> QED BY <2>3
<1>6. \A b \in DOMAIN f.blocks : \A k \in DOMAIN f.blocks[b].code : \A i \in 1 .. Centre(f, <<b, k>>) :
        at' = Spot(f, b, k, i) =>
          \A j \in 1 .. NullCount(f, <<b, k>>) :
            SaveCount(f, <<b, k>>) + j < i => slots'[Nulled(f, <<b, k>>, j)] = Empty
  BY <1>5 DEF next
<1> QED BY <1>3, <1>6 DEF CleanFor

LEMMA StoreStepClean ==
  ASSUME SlotsSuffice, RootInv, RootSave, NEW f, IsRooted(program, f)
  PROVE  CleanFor(f)'
<1> DEFINE n == InstructionNow.slot
<1>1. /\ RunInv /\ CleanFor(f) /\ Rootable(f) /\ IsFunction(f) /\ fn = Rooted(f)
  BY DEF RootInv, IsRooted, Rootable, Annotated, fn
<1>2. /\ at \in Points(fn) /\ at' \in NextPoints(fn, at) /\ pc = "running"
      /\ ~IsTerminator(fn, at) /\ InstructionAt(fn, at).op = "root_store"
      /\ InstructionNow = InstructionAt(fn, at) /\ slots = [s \in Slot |-> slots[s]]
  BY <1>1 DEF RunInv, RootSave, Running, Advance, InstructionNow
<1>3. \/ InstructionNow.reads = {} /\ slots' = [slots EXCEPT ![n] = Empty]
      \/ \E r \in InstructionNow.reads : slots' = [slots EXCEPT ![n] = held[Place(r)]]
  BY DEF RootSave
<1>4. \A s \in Slot : s # n => slots'[s] = slots[s]
  BY <1>2, <1>3
<1>5. n \in SlotsUsed(f)
  BY <1>1, <1>2, StoreIsUsed
<1>6. \A s \in Slot \ SlotsUsed(f) : slots'[s] = Empty
  BY <1>1, <1>4, <1>5 DEF CleanFor
<1> DEFINE next == at'
           after == slots'
<1>7. next \in NextPoints(fn, at)
  BY <1>2
<1>8. /\ \A s \in Slot : s # n => after[s] = slots[s]
      /\ n \in Slot /\ InstructionNow.reads = {} => after[n] = Empty
  BY <1>2, <1>3, <1>4
<1> HIDE DEF next, after, n
<1>9. ASSUME NEW b \in DOMAIN f.blocks, NEW k \in DOMAIN f.blocks[b].code,
             NEW i \in 1 .. Centre(f, <<b, k>>), next = Spot(f, b, k, i),
             NEW j \in 1 .. NullCount(f, <<b, k>>), SaveCount(f, <<b, k>>) + j < i
      PROVE  after[Nulled(f, <<b, k>>, j)] = Empty
  <2> DEFINE p == <<b, k>>  m == SaveCount(f, p)
  <2>1. m \in Nat /\ NullCount(f, p) \in Nat /\ Centre(f, p) \in Nat
    BY <1>1, SavedInOrder
  <2>2. i # 1 /\ i - 1 \in 1 .. Centre(f, p) /\ i - 1 \notin 1 .. m
    BY <1>9, <2>1
  <2>3. /\ at = Spot(f, b, k, i - 1)
        /\ \/ i - 1 \in 1 .. m
           \/ \E l \in 1 .. NullCount(f, p) :
                /\ i - 1 = m + l
                /\ InstructionAt(fn, at).slot = Nulled(f, p, l)
                /\ InstructionAt(fn, at).reads = {}
    BY <1>1, <1>2, <1>7, <1>9, <2>2, BehindIsStore
  <2>4. PICK l \in 1 .. NullCount(f, p) :
          /\ i - 1 = m + l
          /\ InstructionAt(fn, at).slot = Nulled(f, p, l)
          /\ InstructionAt(fn, at).reads = {}
    BY <2>2, <2>3
  <2>5. Nulled(f, p, l) = n /\ InstructionNow.reads = {}
    BY <1>2, <2>4 DEF n
  <2>6. Nulled(f, p, j) \in Slot
    BY <1>1, SlotsOfAreSlots
  <2>7. CASE j = l
    BY <1>8, <2>5, <2>6, <2>7
  <2>8. CASE j # l
    <3>1. m + j < i - 1
      BY <1>9, <2>1, <2>4, <2>8
    <3>2. slots[Nulled(f, p, j)] = Empty
      BY <1>1, <2>2, <2>3, <3>1 DEF CleanFor
    <3> QED BY <1>8, <2>5, <2>6, <3>2
  <2> QED BY <2>7, <2>8
<1>10. \A b \in DOMAIN f.blocks : \A k \in DOMAIN f.blocks[b].code : \A i \in 1 .. Centre(f, <<b, k>>) :
        at' = Spot(f, b, k, i) =>
          \A j \in 1 .. NullCount(f, <<b, k>>) :
            SaveCount(f, <<b, k>>) + j < i => slots'[Nulled(f, <<b, k>>, j)] = Empty
  BY <1>9 DEF next, after
<1> QED BY <1>6, <1>10 DEF CleanFor

LEMMA RootInvNext ==
  ASSUME SlotsSuffice, RootInv, [Next]_vars
  PROVE  RootInv'
<1>1. RunInv'
  BY NextInv DEF RootInv
<1>2. program' = program
  BY DEF Next, vars, Enter, Compute, Copy, Store, RootSave, RootReload, Call, Branch, Return,
         Returned, Advance
<1>3. ASSUME NEW f, IsRooted(program, f) PROVE CleanFor(f)'
  <2>1. CleanFor(f)
    BY <1>3 DEF RootInv
  <2>2. CASE UNCHANGED <<at, slots>>
    BY <2>1, <2>2 DEF CleanFor
  <2>3. CASE RootSave
    BY <1>3, <2>3, StoreStepClean
  <2>4. CASE Branch
    BY <1>3, <2>4, OtherStepClean DEF Branch
  <2>5. CASE Compute \/ Copy \/ Store \/ RootReload \/ Call
    <3>1. /\ pc = "running" /\ Advance /\ slots' = slots /\ InstructionAt(fn, at).op # "root_store"
      BY <2>5 DEF Compute, Copy, Store, RootReload, Call, Running, InstructionNow
    <3> QED BY <1>3, <3>1, OtherStepClean
  <2>6. CASE Enter \/ Return \/ Returned \/ UNCHANGED vars
    <3>1. UNCHANGED <<at, slots>>
      BY <2>6 DEF Enter, Return, Returned, vars
    <3> QED BY <2>2, <3>1
  <2> QED BY <2>3, <2>4, <2>5, <2>6 DEF Next
<1>4. \A f : IsRooted(program, f)' => CleanFor(f)'
  BY <1>2, <1>3 DEF IsRooted
<1>5. (\E f : IsRooted(program, f))'
  BY <1>2 DEF RootInv, IsRooted
<1> QED BY <1>1, <1>4, <1>5 DEF RootInv

LEMMA RootInvPrecise ==
  ASSUME SlotsSuffice, RootInv
  PROVE  RootsPrecise
<1> SUFFICES ASSUME Running, InstructionNow.op = "call", NEW s \in Slot, slots[s] # Empty
             PROVE  \E r \in (program.live[AfterReloads(at)] \ DefinesAt(fn, at)) \cap RefRegs :
                      slots[s] = ContentsOf(r, truth[r])
  BY DEF RootsPrecise
<1>1. PICK f : IsRooted(program, f)
  BY DEF RootInv
<1> DEFINE g == Rooted(f)
<1>2. /\ RunInv /\ CleanFor(f) /\ Rootable(f) /\ IsFunction(f) /\ fn = g
      /\ program.live = LiveBefore(g) /\ program.stored = StoredBefore(g)
  BY <1>1 DEF RootInv, IsRooted, Rootable, Annotated, fn
<1>3. at \in CallPoints(g) /\ Agrees
  BY <1>2 DEF RunInv, CallPoints, IsCall, Running, InstructionNow
<1>4. PICK b \in DOMAIN f.blocks : \E k \in DOMAIN f.blocks[b].code :
        <<b, k>> \in CallPoints(f) /\ at = Spot(f, b, k, Centre(f, <<b, k>>))
  BY <1>2, <1>3, CallSpot
<1>5. PICK k \in DOMAIN f.blocks[b].code :
        <<b, k>> \in CallPoints(f) /\ at = Spot(f, b, k, Centre(f, <<b, k>>))
  BY <1>4
<1> DEFINE p == <<b, k>>  m == SaveCount(f, p)  c == Centre(f, p)
<1>6. /\ m \in Nat /\ NullCount(f, p) \in Nat /\ c = m + NullCount(f, p) + 1
  BY <1>2, SavedInOrder DEF Centre
<1>7. c \in 1 .. c /\ c \in 1 .. Width(f, b, k)
  BY <1>2, <1>6, SpotKinds
<1>8. ASSUME NEW j \in 1 .. NullCount(f, p) PROVE slots[Nulled(f, p, j)] = Empty
  <2>1. m + j < c
    BY <1>6
  <2> QED BY <1>2, <1>5, <1>7, <2>1 DEF CleanFor
<1>9. s \in SlotsUsed(f)
  BY <1>2 DEF CleanFor
<1>10. PICK r \in DOMAIN SlotsOf(f) : s = SlotsOf(f)[r]
  BY <1>9 DEF SlotsUsed
<1>11. r \in Saves(f, p)
  <2> SUFFICES ASSUME r \notin Saves(f, p) PROVE FALSE
    OBVIOUS
  <2>1. s \in Unused(f, p)
    BY <1>5, <1>10 DEF Unused
  <2>2. PICK j \in 1 .. NullCount(f, p) : s = Nulled(f, p, j)
    BY <1>2, <2>1, SavedInOrder
  <2> QED BY <1>8, <2>2
<1>12. PICK j \in 1 .. m : r = Saved(f, p, j)
  BY <1>2, <1>11, SavedInOrder
<1>13. slots[s] = ContentsOf(r, truth[r])
  <2>1. j < c
    BY <1>6
  <2>2. <<SlotsOf(f)[r], r>> \in StoredBefore(g)[at]
    BY <1>2, <1>5, <1>7, <1>12, <2>1, SavedStored
  <2>3. <<s, r>> \in program.stored[at]
    BY <1>2, <1>10, <2>2
  <2> QED BY <1>3, <2>3 DEF Agrees
<1>14. r \in (LiveAfter(f)[p] \ DefinesAt(f, p)) \cap RefRegs
  BY <1>2, <1>5, <1>11, NeedsExact DEF Saves
<1>15. DefinesAt(fn, at) = DefinesAt(f, p)
  BY <1>2, <1>5, SpotEffects
<1>16. r \in program.live[AfterReloads(at)]
  <2>1. AfterReloads(at) = Spot(f, b, k + 1, 1)
    BY <1>2, <1>5, ReloadsEnd
  <2>2. LiveAfter(f)[p] = LiveBefore(f)[<<b, k + 1>>] /\ k + 1 \in 1 .. LastIndex(f, b)
    BY <1>2, InnerPoint
  <2>3. LiveBefore(f)[<<b, k + 1>>] \subseteq LiveBefore(g)[Spot(f, b, k + 1, 1)]
    BY <1>2, <2>2, LiveStays
  <2> QED BY <1>2, <1>14, <2>1, <2>2, <2>3
<1> QED BY <1>13, <1>14, <1>15, <1>16

\* Code the pass has rooted, each register in a place of its own, reads what was
\* written and no address from before a collection, whatever the function.
THEOREM RootedCodeReadsCurrent ==
  ASSUME SlotsSuffice, Reg \subseteq Location, CallerSaved \cap Reg = {},
         \A prog \in Programs : \E f : IsRooted(prog, f)
  PROVE  Spec => []ReadsCurrent
<1>1. \A prog \in Programs : Justified(prog)
  BY RootedJustified DEF IsRooted
<1> QED BY <1>1, JustifiedCodeReadsCurrent

\* And at each of its calls the collector finds in the root slots the references
\* some path still needs, at their present addresses, and nothing else.
THEOREM RootedSlotsPrecise ==
  ASSUME SlotsSuffice, Reg \subseteq Location, CallerSaved \cap Reg = {},
         \A prog \in Programs : \E f : IsRooted(prog, f)
  PROVE  Spec => []RootsPrecise
<1>1. Init => RootInv
  BY RootInvInit
<1>2. RootInv /\ [Next]_vars => RootInv'
  BY RootInvNext
<1>3. RootInv => RootsPrecise
  BY RootInvPrecise
<1> QED BY <1>1, <1>2, <1>3, PTL DEF Spec
===============================================================================
