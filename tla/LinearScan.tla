------------------------------ MODULE LinearScan ------------------------------
(***************************************************************************)
(* compiler/src/ir/register_allocator/allocation.rs: one pass over the     *)
(* live intervals of a function, sorted by start, giving every register a  *)
(* physical register or a spill slot for its whole life.                   *)
(***************************************************************************)
EXTENDS Ir

CONSTANTS
  PhysicalReg,
  Pool,          \* the allocatable registers, in order of preference
  CalleeSaved,
  Unplaced,
  Inputs         \* [intervals, surviving]: what to allocate

ASSUME PoolAssumption ==
  /\ Pool \in Seq(PhysicalReg)
  /\ \A i, j \in DOMAIN Pool : Pool[i] = Pool[j] => i = j
  /\ PhysicalReg \cap Nat = {} /\ Unplaced \notin PhysicalReg \cup Nat

VARIABLES
  intervals,   \* Seq([register, start, end]), both ends inclusive
  surviving,   \* registers some call must preserve
  next,        \* the interval to place next
  active,      \* {[interval : index, register]} that hold a physical register
  free,
  location,    \* a physical register, the number of a spill slot, or Unplaced
  spillCount

scanVars == <<intervals, surviving, next, active, free, location, spillCount>>

PoolRegs == {Pool[i] : i \in DOMAIN Pool}

StartsWith(input) ==
  /\ intervals = input.intervals
  /\ surviving = input.surviving
  /\ next = 1
  /\ active = {}
  /\ free = PoolRegs
  /\ location = [r \in Reg |-> Unplaced]
  /\ spillCount = 0

ScanInit == \E input \in Inputs : StartsWith(input)

Current == intervals[next]

EndOf(a) == intervals[a.interval].end

\* A plausible slip: taking the inclusive ends for exclusive ones.
ExpiredAtEnd == {a \in active : EndOf(a) <= Current.start}

Expired == {a \in active : EndOf(a) < Current.start}

StillActive == active \ Expired

FreeNow == free \cup {a.register : a \in Expired}

\* A plausible slip: letting a surviving value into any register.
MayUseAny(p) == TRUE

MayUse(p) == Current.register \in surviving => p \in CalleeSaved

UsableFree == {i \in DOMAIN Pool : MayUse(Pool[i]) /\ Pool[i] \in FreeNow}

UsableActive == {a \in StillActive : MayUse(a.register)}

EndsLater(a, b) ==
  \/ EndOf(a) > EndOf(b)
  \/ EndOf(a) = EndOf(b) /\ intervals[a.interval].register > intervals[b.interval].register

\* Of the active intervals in a usable register, the one that ends last.
IsCandidate(a) == a \in UsableActive /\ \A b \in UsableActive \ {a} : EndsLater(a, b)

Placing == next <= Len(intervals)

PlaceNext(p) == location' = [location EXCEPT ![Current.register] = p]

TakeFree ==
  /\ Placing
  /\ \E i \in UsableFree :
       /\ \A j \in UsableFree : i <= j
       /\ PlaceNext(Pool[i])
       /\ active' = StillActive \cup {[interval |-> next, register |-> Pool[i]]}
       /\ free' = FreeNow \ {Pool[i]}
  /\ next' = next + 1
  /\ UNCHANGED <<intervals, surviving, spillCount>>

\* A plausible slip: numbering the slot without counting it.
SpillCurrentUncounted ==
  /\ Placing /\ UsableFree = {}
  /\ \A a \in UsableActive : IsCandidate(a) => EndOf(a) <= Current.end
  /\ PlaceNext(spillCount)
  /\ active' = StillActive
  /\ free' = FreeNow
  /\ next' = next + 1
  /\ UNCHANGED <<intervals, surviving, spillCount>>

\* Nothing usable to take, or everything that has it ends no later.
SpillCurrent ==
  /\ Placing /\ UsableFree = {}
  /\ \A a \in UsableActive : IsCandidate(a) => EndOf(a) <= Current.end
  /\ PlaceNext(spillCount)
  /\ spillCount' = spillCount + 1
  /\ active' = StillActive
  /\ free' = FreeNow
  /\ next' = next + 1
  /\ UNCHANGED <<intervals, surviving>>

\* A plausible slip: the evicted value keeps its register in the final map.
EvictWithoutSpilling ==
  /\ Placing /\ UsableFree = {}
  /\ \E a \in UsableActive :
       /\ IsCandidate(a) /\ EndOf(a) > Current.end
       /\ PlaceNext(a.register)
       /\ active' = (StillActive \ {a}) \cup {[interval |-> next, register |-> a.register]}
  /\ spillCount' = spillCount + 1
  /\ free' = FreeNow
  /\ next' = next + 1
  /\ UNCHANGED <<intervals, surviving>>

\* The evicted value is spilled for its whole life, the part behind included.
Evict ==
  /\ Placing /\ UsableFree = {}
  /\ \E a \in UsableActive :
       /\ IsCandidate(a) /\ EndOf(a) > Current.end
       /\ location' = [location EXCEPT ![intervals[a.interval].register] = spillCount,
                                       ![Current.register] = a.register]
       /\ active' = (StillActive \ {a}) \cup {[interval |-> next, register |-> a.register]}
  /\ spillCount' = spillCount + 1
  /\ free' = FreeNow
  /\ next' = next + 1
  /\ UNCHANGED <<intervals, surviving>>

PlaceCurrent == TakeFree \/ SpillCurrent \/ Evict

ScanSpec == ScanInit /\ [][PlaceCurrent]_scanVars

---------------------------------------------------------------------------
(***************************************************************************)
(* Properties                                                              *)
(***************************************************************************)
\* What build_function_live_intervals returns.
IsInput(input) ==
  /\ input.intervals \in Seq([register : Reg, start : Nat, end : Nat])
  /\ \A i \in DOMAIN input.intervals : input.intervals[i].start <= input.intervals[i].end
  /\ \A i, j \in DOMAIN input.intervals :
       i < j => /\ input.intervals[i].start <= input.intervals[j].start
                /\ input.intervals[i].register # input.intervals[j].register

LocationOf(i) == location[intervals[i].register]

\* Two registers whose intervals share a position never share a place, ones that
\* meet in a single instruction, evicted ones and the evictor included.
PlacesDisjoint ==
  \A i, j \in 1 .. next - 1 :
    (i < j /\ intervals[j].start <= intervals[i].end) => LocationOf(i) # LocationOf(j)

\* Two registers never share a spill slot, and the frame has room for each.
SpillsDistinct ==
  \A i, j \in 1 .. next - 1 :
    LocationOf(i) \in Nat =>
      LocationOf(i) < spillCount /\ (LocationOf(i) = LocationOf(j) => i = j)

\* A value some call must preserve is never left in a register callees overwrite,
\* also when it got there by evicting another.
SurvivorsKept ==
  \A i \in 1 .. next - 1 :
    (intervals[i].register \in surviving /\ LocationOf(i) \notin Nat)
      => LocationOf(i) \in CalleeSaved

===============================================================================
