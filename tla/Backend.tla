------------------------------- MODULE Backend --------------------------------
(***************************************************************************)
(* The native back end from lowered IR to running code: a function is      *)
(* rooted (GcRoots), cleaned of dead copies, its registers are given       *)
(* places (LiveIntervals, LinearScan) and it runs (Execution).             *)
(***************************************************************************)
EXTENDS LinearScan, LiveIntervals, Execution

CONSTANT Sources   \* lowered functions

SpillSlots == 0 .. Cardinality(Reg) - 1

\* Values are kept in the registers of the pool and in spill slots, and a callee
\* may overwrite the former unless the convention has it preserve them.
ASSUME BackendAssumption ==
  /\ Location = PoolRegs \cup SpillSlots
  /\ CallerSaved = PoolRegs \ CalleeSaved

\* The allocator's map: a register that never occurs has no place.
Places == [r \in {r \in Reg : location[r] # Unplaced} |-> location[r]]

\* remove_dead_copies sweeps, with fresh liveness each time, until a sweep removes
\* nothing: at the latest when it has removed every copy.
Cleaned(f) ==
  LET copies == {p \in Points(f) : ~IsTerminator(f, p) /\ InstructionAt(f, p).op = "copy"}
      after[n \in 0 .. Cardinality(copies)] ==
        IF n = 0 THEN f
        ELSE LET earlier == after[n - 1]
                 swept == Swept(earlier, LiveOut(earlier)) IN
             IF swept = earlier THEN earlier ELSE swept
  IN after[Cardinality(copies)]

\* build_ir: roots first, then the sweep.
Prepared == {Cleaned(g) : g \in {Rooted(f) : f \in Sources}}

BackendInit ==
  /\ \E prepared \in Prepared :
       /\ StartsWith([intervals |-> IntervalsOf(prepared), surviving |-> SurvivingCalls(prepared)])
       /\ program = Annotated(prepared, Places)
  /\ pc = "entry"
  /\ at = <<fn.entry, 1>>
  /\ held = [l \in Location |-> Garbage]
  /\ slots = [s \in Slot |-> Empty]
  /\ truth = [r \in Reg |-> Null]

\* The code generator is given the map when every interval has been placed.
Allocate ==
  /\ TakeFree \/ SpillCurrent \/ Evict
  /\ program' = [program EXCEPT !.location = Places']
  /\ UNCHANGED <<pc, at, held, slots, truth>>

Execute ==
  /\ ~Placing
  /\ UNCHANGED scanVars
  /\ Next

BackendNext == Allocate \/ Execute

BackendSpec == BackendInit /\ [][BackendNext]_<<scanVars, vars>>

---------------------------------------------------------------------------
(***************************************************************************)
(* Properties                                                              *)
(***************************************************************************)
\* The allocator's map, with exact liveness, meets every condition under which
\* code is proved to read current values.
AllocationJustified ==
  (~Placing /\ pc = "entry") => Justified(program)

\* The scan is given what it assumes, and an interval covers every position its
\* register is live at, round loops and across blocks laid out in any order.
IntervalsCoverLife ==
  next = 1 =>
    LET before == LiveBefore(fn) IN
    /\ IsInput([intervals |-> intervals, surviving |-> surviving])
    /\ \A p \in Points(fn) : \A r \in before[p] :
         \E i \in DOMAIN intervals :
           /\ intervals[i].register = r
           /\ intervals[i].start <= Position(fn, p) /\ Position(fn, p) <= intervals[i].end

\* Why a rooted reference may sit in a register callees overwrite: once the roots
\* are in, the register of none is read after a call before it is reloaded.
RefsReloadedAfterCalls ==
  next = 1 =>
    LET across == LiveAcrossCalls(fn, LiveOut(fn)) IN
    \A p \in CallPoints(fn) : across[p] \cap RefRegs = {}

\* The comment on gc_roots.rs (lines 6-7), of the code that runs: a slot a call does
\* not need is null, "so an object the function no longer needs is not kept alive".
SlotsHoldOnlyNeeded ==
  (~Placing /\ Running /\ InstructionNow.op = "call") =>
    \A s \in Slot : slots[s] # Empty =>
      \E r \in (LiveBefore(fn)[AfterReloads(at)] \ DefinesAt(fn, at)) \cap RefRegs :
        slots[s] = ContentsOf(r, truth[r])
===============================================================================
