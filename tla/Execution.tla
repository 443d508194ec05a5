------------------------------ MODULE Execution -------------------------------
(***************************************************************************)
(* One activation of a compiled function while any call may run the moving *)
(* collector.  The function is the rooted one; every virtual register has  *)
(* a location, which before allocation is the register itself.  `truth` is *)
(* what the registers would hold if nothing moved and every register had a *)
(* place of its own; a location is right when it holds the same value and, *)
(* for a reference, the object's present address.                          *)
(***************************************************************************)
EXTENDS Ir

CONSTANTS
  Location,      \* where a value can be: registers and spill slots
  CallerSaved,   \* the locations a callee may overwrite
  Slot,          \* root slots of the activation's shadow frame
  Value,         \* what a register can hold
  Null,
  Programs       \* [fn, location, live, stored]: what may be executed

ASSUME ExecutionAssumption ==
  /\ CallerSaved \subseteq Location
  /\ Null \notin Value

VARIABLES
  program,
  pc,            \* "entry", "running", "returned"
  at,            \* the point to execute next
  held,          \* what each location holds
  slots,         \* what each root slot holds
  truth

vars == <<program, pc, at, held, slots, truth>>

\* A reference is an address, present or from before the object moved.
Contents == [value : Value \cup {Null}, address : {"present", "past", "none"}]

ContentsOf(r, v) == [value |-> v, address |-> IF r \in RefRegs THEN "present" ELSE "none"]

Garbage == [value |-> Null, address |-> "past"]

Empty == [value |-> Null, address |-> "none"]

fn == program.fn

Place(r) == program.location[r]

InstructionNow == InstructionAt(fn, at)

Running == pc = "running" /\ ~IsTerminator(fn, at)

Init ==
  /\ program \in Programs
  /\ pc = "entry"
  /\ at = <<program.fn.entry, 1>>
  /\ held = [l \in Location |-> Garbage]
  /\ slots = [s \in Slot |-> Empty]
  /\ truth = [r \in Reg |-> Null]

\* The prologue: parameters reach their locations, then lo_push_frame is called
\* with every slot null.
Enter ==
  /\ pc = "entry"
  /\ pc' = "running"
  /\ \E arguments \in [Params(fn) -> Value] :
       /\ truth' = [r \in Reg |-> IF r \in Params(fn) THEN arguments[r] ELSE Null]
       /\ held' = [l \in Location |->
            IF HasCalls(fn) /\ l \in CallerSaved THEN Garbage
            ELSE IF \E r \in Params(fn) : Place(r) = l
              THEN LET r == CHOOSE r \in Params(fn) : Place(r) = l IN ContentsOf(r, arguments[r])
              ELSE Garbage]
  /\ UNCHANGED <<program, at, slots>>

\* dst receives a new value.
Write(dst, contents, v) ==
  /\ held' = [held EXCEPT ![Place(dst)] = contents]
  /\ truth' = [truth EXCEPT ![dst] = v]

Advance == at' \in NextPoints(fn, at) /\ UNCHANGED <<program, pc>>

Compute ==
  /\ Running /\ InstructionNow.op \in {"compute", "load", "copy"}
  /\ InstructionNow.op = "copy" => InstructionNow.reads = {}
  /\ \E v \in Value :
       Write(InstructionNow.dst, ContentsOf(InstructionNow.dst, v), v)
  /\ UNCHANGED slots
  /\ Advance

Copy ==
  /\ Running /\ InstructionNow.op = "copy"
  /\ \E src \in InstructionNow.reads :
       Write(InstructionNow.dst, held[Place(src)], truth[src])
  /\ UNCHANGED slots
  /\ Advance

Store ==
  /\ Running /\ InstructionNow.op = "store"
  /\ UNCHANGED <<held, slots, truth>>
  /\ Advance

RootSave ==
  /\ Running /\ InstructionNow.op = "root_store"
  /\ \/ /\ InstructionNow.reads = {}
        /\ slots' = [slots EXCEPT ![InstructionNow.slot] = Empty]
     \/ \E r \in InstructionNow.reads :
          slots' = [slots EXCEPT ![InstructionNow.slot] = held[Place(r)]]
  /\ UNCHANGED <<held, truth>>
  /\ Advance

RootReload ==
  /\ Running /\ InstructionNow.op = "root_load"
  /\ held' = [held EXCEPT ![Place(InstructionNow.dst)] = slots[InstructionNow.slot]]
  /\ UNCHANGED <<slots, truth>>
  /\ Advance

\* After a call that collected, an address outside the root slots is a past one.
Outdated(contents) ==
  IF contents.address = "present" THEN [contents EXCEPT !.address = "past"] ELSE contents

Call ==
  /\ Running /\ InstructionNow.op = "call"
  /\ \E collects \in BOOLEAN, v \in Value :
       LET kept(l) == IF l \in CallerSaved THEN Garbage
                      ELSE IF collects THEN Outdated(held[l]) ELSE held[l]
           dst == InstructionNow.dst IN
       IF dst = NoReg
         THEN held' = [l \in Location |-> kept(l)] /\ UNCHANGED truth
         ELSE /\ held' = [l \in Location |-> IF l = Place(dst) THEN ContentsOf(dst, v) ELSE kept(l)]
              /\ truth' = [truth EXCEPT ![dst] = v]
  /\ UNCHANGED slots
  /\ Advance

Branch ==
  /\ pc = "running" /\ IsTerminator(fn, at)
  /\ UNCHANGED <<held, slots, truth>>
  /\ Advance

Return ==
  /\ pc = "running" /\ IsTerminator(fn, at) /\ NextPoints(fn, at) = {}
  /\ pc' = "returned"
  /\ UNCHANGED <<program, at, held, slots, truth>>

Returned == pc = "returned" /\ UNCHANGED vars

Next ==
  \/ Enter \/ Compute \/ Copy \/ Store \/ RootSave \/ RootReload \/ Call
  \/ Branch \/ Return \/ Returned

Spec == Init /\ [][Next]_vars

---------------------------------------------------------------------------
(***************************************************************************)
(* Why a compiled function may be run, point by point: `live` is what is   *)
(* live before each point, `stored` the pairs <<slot, register>> such that *)
(* the slot holds what the register should.  These facts are the contract  *)
(* between gc_roots.rs, the allocator and the code they leave.             *)
(***************************************************************************)
StoredAfter(f, p, stored) ==
  IF IsTerminator(f, p) THEN stored
  ELSE LET instr == InstructionAt(f, p) IN
       CASE instr.op = "root_store" ->
              {x \in stored : x[1] # instr.slot} \cup ({instr.slot} \X instr.reads)
         [] instr.op = "root_load" -> stored
         [] OTHER -> {x \in stored : x[2] \notin DefinesAt(f, p)}

\* Registers do not share a place while both are live, and no place is asked to
\* keep across a call what the call destroys there.
Undisturbed(prog, p, q) ==
  LET f == prog.fn
      kept == prog.live[q] \ DefinesAt(f, p) IN
  /\ kept \subseteq prog.live[p]
  /\ \A d \in DefinesAt(f, p), r \in kept : prog.location[r] # prog.location[d]
  /\ p \in CallPoints(f) =>
       \A r \in kept : r \notin RefRegs /\ prog.location[r] \notin CallerSaved

WellTyped(f, p) ==
  IsTerminator(f, p) \/
  LET instr == InstructionAt(f, p) IN
  /\ instr.op \in {"copy", "compute", "load", "root_load"} => instr.dst \in Reg
  /\ instr.op \in {"store", "root_store"} => instr.dst = NoReg
  /\ instr.op = "copy" => \A r \in instr.reads : r \in RefRegs <=> instr.dst \in RefRegs
  /\ instr.op \in {"root_store", "root_load"} => instr.slot \in Slot
  /\ instr.op = "root_store" => \A r, s \in instr.reads : r = s

Justified(prog) ==
  LET f == prog.fn
      entry == <<f.entry, 1>> IN
  /\ IsFunction(f)
  /\ prog.live \in [Points(f) -> SUBSET DOMAIN prog.location]
  /\ prog.stored \in [Points(f) -> SUBSET (Slot \X DOMAIN prog.location)]
  /\ prog.location \in [DOMAIN prog.location -> Location]
  /\ Params(f) \subseteq DOMAIN prog.location /\ DOMAIN prog.location \subseteq Reg
  /\ prog.live[entry] \subseteq Params(f) /\ prog.stored[entry] = {}
  /\ \A r, s \in Params(f) : prog.location[r] = prog.location[s] => r = s
  /\ HasCalls(f) => \A r \in prog.live[entry] : prog.location[r] \notin CallerSaved
  /\ \A p \in Points(f) :
       /\ WellTyped(f, p)
       /\ DefinesAt(f, p) \subseteq DOMAIN prog.location
       /\ ReadsAt(f, p) \subseteq prog.live[p]
       /\ ~IsTerminator(f, p) /\ InstructionAt(f, p).op = "root_load" =>
            <<InstructionAt(f, p).slot, InstructionAt(f, p).dst>> \in prog.stored[p]
       /\ \A q \in NextPoints(f, p) :
            /\ Undisturbed(prog, p, q)
            /\ prog.stored[q] \subseteq StoredAfter(f, p, prog.stored[p])

\* `stored` for rooted code: what the stores since the last call's reloads left.
StoredBefore(f) ==
  LET before(b) ==
        LET at_k[k \in 1 .. LastIndex(f, b)] ==
              IF k = 1 THEN {}
              ELSE LET earlier == at_k[k - 1] IN StoredAfter(f, <<b, k - 1>>, earlier)
        IN at_k
      blocks == [b \in DOMAIN f.blocks |-> before(b)]
  IN [p \in Points(f) |-> blocks[p[1]][p[2]]]

\* The spill-everything allocator: a slot of its own for every register.
SpillEverything == [r \in Reg |-> r]

Annotated(f, location) ==
  [fn |-> f, location |-> location, live |-> LiveBefore(f), stored |-> StoredBefore(f)]

---------------------------------------------------------------------------
(***************************************************************************)
(* Properties                                                              *)
(***************************************************************************)
\* Whatever the callees do, however often the collector runs and whichever way
\* the branches go, an instruction that reads a register finds the value the
\* program put there, and a reference is the object's present address.
ReadsCurrent ==
  pc = "running" =>
    \A r \in ReadsAt(fn, at) : held[Place(r)] = ContentsOf(r, truth[r])

\* The first point after a call's reloads.
AfterReloads(p) ==
  CHOOSE q \in Points(fn) :
    /\ q[1] = p[1] /\ q[2] > p[2]
    /\ IsTerminator(fn, q) \/ InstructionAt(fn, q).op # "root_load"
    /\ \A k \in p[2] + 1 .. q[2] - 1 : InstructionAt(fn, <<p[1], k>>).op = "root_load"

\* At a call a root slot is null or holds the present address of an object that
\* some path still reads after the call: the collector is handed no dead pointer,
\* and keeps nothing the function is done with.
RootsPrecise ==
  (Running /\ InstructionNow.op = "call") =>
    \A s \in Slot : slots[s] # Empty =>
      \E r \in (program.live[AfterReloads(at)] \ DefinesAt(fn, at)) \cap RefRegs :
        slots[s] = ContentsOf(r, truth[r])
===============================================================================
