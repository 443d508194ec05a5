----------------------------- MODULE BackendProofs -----------------------------
(***************************************************************************)
(* For every lowered function, the code the back end leaves reads current  *)
(* values whatever the callees and the collector do.  The scan never gives *)
(* one place to two intervals that meet; the intervals cover the life of   *)
(* the registers; the registers of rooted and swept code can therefore be  *)
(* replaced by their places; and Execution does the rest.                  *)
(***************************************************************************)
EXTENDS Backend, ExecutionProofs

\* The intervals that have a place.
Placed == 1 .. next - 1

\* The scan's state: every placed interval has a register or a slot, nothing else has.
ScanTypes ==
  /\ IsInput([intervals |-> intervals, surviving |-> surviving])
  /\ next \in Nat \ {0} /\ next <= Len(intervals) + 1
  /\ spillCount \in Nat /\ spillCount < next
  /\ location = [r \in Reg |-> location[r]]
  /\ \A i \in Placed : LocationOf(i) \in PoolRegs \cup Nat
  /\ \A r \in Reg : location[r] # Unplaced => \E i \in Placed : intervals[i].register = r
  /\ free \subseteq PoolRegs

\* What is in a register and may still be needed is active, and in no other place.
ScanInv ==
  /\ ScanTypes
  /\ \A a \in active : /\ a.interval \in Placed /\ a.register \in PoolRegs
                       /\ LocationOf(a.interval) = a.register
                       /\ a.register \notin free
  /\ \A a, b \in active : a.register = b.register => a = b
  /\ \A i \in Placed : LocationOf(i) \notin Nat =>
       \/ \E a \in active : a.interval = i
       \/ \E k \in Placed : intervals[i].end < intervals[k].start
  /\ SpillsDistinct
  /\ PlacesDisjoint

\* A physical register is not the number of a spill slot.
LEMMA PoolRegsPhysical == PoolRegs \subseteq PhysicalReg /\ PoolRegs \cap Nat = {}
BY PoolAssumption DEF PoolRegs

\* An element of a sequence.
LEMMA ElementType == ASSUME NEW T, NEW s \in Seq(T) PROVE \A i \in 1 .. Len(s) : s[i] \in T
OBVIOUS

\* What the scan assumes of its intervals, one by one.
LEMMA InputFacts ==
  ASSUME ScanTypes
  PROVE  /\ \A i \in 1 .. Len(intervals) :
              /\ intervals[i].register \in Reg
              /\ intervals[i].start \in Nat /\ intervals[i].end \in Nat
              /\ intervals[i].start <= intervals[i].end
         /\ \A i, j \in 1 .. Len(intervals) :
              i < j => /\ intervals[i].start <= intervals[j].start
                       /\ intervals[i].register # intervals[j].register
         /\ Len(intervals) \in Nat /\ DOMAIN intervals = 1 .. Len(intervals)
<1>1. intervals \in Seq([register : Reg, start : Nat, end : Nat])
  BY DEF ScanTypes, IsInput
<1>2. Len(intervals) \in Nat /\ DOMAIN intervals = 1 .. Len(intervals)
  BY <1>1
<1>3. \A i \in 1 .. Len(intervals) : intervals[i] \in [register : Reg, start : Nat, end : Nat]
  BY <1>1, ElementType
<1> QED BY <1>2, <1>3 DEF ScanTypes, IsInput

\* The scan starts right on any intervals it may be given.
LEMMA StartInv ==
  ASSUME NEW input, IsInput(input), StartsWith(input)
  PROVE  ScanInv /\ SurvivorsKept
<1>1. Placed = {} /\ next = 1 /\ spillCount = 0 /\ active = {} /\ free = PoolRegs
      /\ location = [r \in Reg |-> Unplaced]
  BY DEF StartsWith, Placed
<1>2. IsInput([intervals |-> intervals, surviving |-> surviving]) /\ Len(intervals) \in Nat
  BY DEF StartsWith, IsInput
<1>3. ScanTypes
  BY <1>1, <1>2 DEF ScanTypes
<1> QED BY <1>1, <1>3 DEF ScanInv, SpillsDistinct, PlacesDisjoint, SurvivorsKept, Placed

\* The scan alone starts right.
LEMMA ScanInvInit ==
  ASSUME \A input \in Inputs : IsInput(input), ScanInit
  PROVE  ScanInv /\ SurvivorsKept
BY StartInv DEF ScanInit

\* What every placing step shares.
LEMMA Placing1 ==
  ASSUME ScanInv, Placing
  PROVE  /\ next \in 1 .. Len(intervals) /\ Current.register \in Reg
         /\ \A i \in Placed : i \in 1 .. Len(intervals) /\ i < next
         /\ \A i \in Placed : intervals[i].register # Current.register
         /\ \A i \in Placed : intervals[i].start <= Current.start
         /\ StillActive \subseteq active
         /\ FreeNow \subseteq PoolRegs
         /\ \A a \in StillActive : a.register \notin FreeNow
         /\ \A i \in Placed : LocationOf(i) \notin Nat =>
              (\E a \in StillActive : a.interval = i) \/ intervals[i].end < Current.start
<1>1. next \in 1 .. Len(intervals) /\ Len(intervals) \in Nat
  BY InputFacts DEF ScanInv, ScanTypes, Placing
<1>2. \A i \in Placed : i \in 1 .. Len(intervals) /\ i < next
  BY <1>1 DEF Placed
<1>3. /\ Current.register \in Reg
      /\ \A i \in Placed : intervals[i].register # Current.register
      /\ \A i \in Placed : intervals[i].start <= Current.start
  BY <1>1, <1>2, InputFacts DEF ScanInv, Current
<1>4. StillActive \subseteq active /\ FreeNow \subseteq PoolRegs
  BY DEF ScanInv, ScanTypes, StillActive, FreeNow, Expired
<1>5. \A a \in StillActive : a.register \notin FreeNow
  BY DEF ScanInv, StillActive, FreeNow, Expired
<1>6. ASSUME NEW i \in Placed, LocationOf(i) \notin Nat
      PROVE  (\E a \in StillActive : a.interval = i) \/ intervals[i].end < Current.start
  <2>1. CASE \E a \in active : a.interval = i
    BY <2>1 DEF StillActive, Expired, EndOf
  <2>2. CASE \E k \in Placed : intervals[i].end < intervals[k].start
    <3>1. PICK k \in Placed : intervals[i].end < intervals[k].start
      BY <2>2
    <3>2. intervals[k].start <= Current.start
      BY <1>3
    <3>3. intervals[i].end \in Nat /\ intervals[k].start \in Nat /\ Current.start \in Nat
      BY <1>1, <1>2, InputFacts DEF ScanInv, Current
    <3> QED BY <3>1, <3>2, <3>3
  <2> QED BY <1>6, <2>1, <2>2 DEF ScanInv
<1> QED BY <1>1, <1>2, <1>3, <1>4, <1>5, <1>6

\* The types after a placing step, given the new map.
LEMMA TypesAfter ==
  ASSUME ScanInv, Placing, UNCHANGED <<intervals, surviving>>, next' = next + 1,
         spillCount' \in {spillCount, spillCount + 1}, free' \subseteq PoolRegs,
         location' = [r \in Reg |-> location'[r]],
         \A i \in Placed : location'[intervals[i].register] \in PoolRegs \cup Nat,
         location'[Current.register] \in PoolRegs \cup Nat,
         \A r \in Reg : location'[r] = location[r] \/ \E i \in Placed \cup {next} : intervals[i].register = r
  PROVE  ScanTypes' /\ Placed' = Placed \cup {next}
<1>1. Len(intervals) \in Nat /\ next \in 1 .. Len(intervals)
  BY Placing1, InputFacts DEF ScanInv
<1>2. Placed' = Placed \cup {next}
  BY <1>1 DEF Placed
<1>3. \A i \in Placed' : location'[intervals'[i].register] \in PoolRegs \cup Nat
  BY <1>2 DEF Current
<1>4. next' \in Nat \ {0} /\ next' <= Len(intervals') + 1
  BY <1>1
<1>5. IsInput([intervals |-> intervals, surviving |-> surviving])'
  BY DEF ScanInv, ScanTypes, IsInput
<1>6. spillCount' \in Nat /\ spillCount' < next'
  BY <1>1 DEF ScanInv, ScanTypes
<1>7. \A r \in Reg : location'[r] # Unplaced => \E i \in Placed' : intervals'[i].register = r
  BY <1>2 DEF ScanInv, ScanTypes
<1> QED BY <1>2, <1>3, <1>4, <1>5, <1>6, <1>7 DEF ScanTypes, LocationOf

\* Placing in a free register keeps the scan right.
LEMMA TakeFreeInv == ASSUME ScanInv, TakeFree PROVE ScanInv'
<1>1. /\ Placing /\ next' = next + 1 /\ intervals' = intervals /\ surviving' = surviving
      /\ spillCount' = spillCount
  BY DEF TakeFree
<1>2. PICK n \in UsableFree :
        /\ PlaceNext(Pool[n])
        /\ active' = StillActive \cup {[interval |-> next, register |-> Pool[n]]}
        /\ free' = FreeNow \ {Pool[n]}
  BY DEF TakeFree
<1> DEFINE p == Pool[n]
<1>3. p \in FreeNow /\ p \in PoolRegs /\ p \in PhysicalReg /\ p \notin Nat
  BY <1>2, PoolRegsPhysical DEF UsableFree, PoolRegs
<1>4. location' = [location EXCEPT ![Current.register] = p] /\ location = [r \in Reg |-> location[r]]
  BY <1>2 DEF PlaceNext, ScanInv, ScanTypes
<1>5. /\ \A i \in Placed : location'[intervals[i].register] = LocationOf(i)
      /\ location'[Current.register] = p
      /\ location' = [r \in Reg |-> location'[r]]
      /\ \A r \in Reg : location'[r] = location[r] \/ r = Current.register
  BY <1>1, <1>4, Placing1 DEF LocationOf
<1>6. ScanTypes' /\ Placed' = Placed \cup {next}
  <2>1. free' \subseteq PoolRegs
    BY <1>1, <1>2, Placing1
  <2>2. /\ spillCount' \in {spillCount, spillCount + 1}
        /\ \A i \in Placed : LocationOf(i) \in PoolRegs \cup Nat
    BY <1>1 DEF ScanInv, ScanTypes
  <2>3. \A r \in Reg : location'[r] = location[r] \/ \E i \in Placed \cup {next} : intervals[i].register = r
    BY <1>5 DEF Current
  <2> QED BY <1>1, <1>3, <1>5, <2>1, <2>2, <2>3, TypesAfter
<1>7. /\ \A i \in Placed : LocationOf(i)' = LocationOf(i)
      /\ location'[intervals'[next].register] = p
  BY <1>1, <1>5 DEF LocationOf, Current
<1>8. \A a \in active' : /\ a.interval \in Placed' /\ a.register \in PoolRegs
                         /\ location'[intervals'[a.interval].register] = a.register
                         /\ a.register \notin free'
  <2>1. ASSUME NEW a \in StillActive
        PROVE  /\ a.interval \in Placed /\ a.register \in PoolRegs
               /\ location'[intervals'[a.interval].register] = a.register
               /\ a.register \notin FreeNow
    BY <1>1, <1>5, Placing1 DEF ScanInv, LocationOf
  <2> QED BY <1>2, <1>3, <1>6, <1>7, <2>1
<1>9. \A a, b \in active' : a.register = b.register => a = b
  <2>1. \A a, b \in StillActive : a.register = b.register => a = b
    BY <1>1, Placing1 DEF ScanInv
  <2>2. \A a \in StillActive : a.register # p
    BY <1>1, <1>3, Placing1
  <2> QED BY <1>2, <2>1, <2>2
<1>10. ASSUME NEW i \in Placed', location'[intervals'[i].register] \notin Nat
       PROVE  \/ \E a \in active' : a.interval = i
              \/ \E k \in Placed' : intervals'[i].end < intervals'[k].start
  <2>1. CASE i = next
    <3>1. [interval |-> next, register |-> p] \in active'
      BY <1>2
    <3>2. [interval |-> next, register |-> p].interval = i
      BY <2>1
    <3> QED BY <3>1, <3>2
  <2>2. CASE i \in Placed
    <3>1. (\E a \in StillActive : a.interval = i) \/ intervals[i].end < Current.start
      BY <1>1, <1>5, <1>10, <2>2, Placing1
    <3>2. CASE \E a \in StillActive : a.interval = i
      BY <3>2, <1>2
    <3>3. CASE intervals[i].end < Current.start
      <4>1. next \in Placed' /\ intervals'[i].end < intervals'[next].start
        BY <3>3, <1>1, <1>6 DEF Current
      <4> QED BY <4>1
    <3> QED BY <3>1, <3>2, <3>3
  <2> QED BY <1>6, <2>1, <2>2
<1>11. SpillsDistinct'
  <2>1. \A i, j \in Placed :
          LocationOf(i) \in Nat =>
            LocationOf(i) < spillCount /\ (LocationOf(i) = LocationOf(j) => i = j)
    BY DEF ScanInv, SpillsDistinct, Placed
  <2>2. \A i, j \in Placed' :
          location'[intervals'[i].register] \in Nat =>
            /\ location'[intervals'[i].register] < spillCount'
            /\ location'[intervals'[i].register] = location'[intervals'[j].register] => i = j
    BY <2>1, <1>1, <1>3, <1>5, <1>6, <1>7
  <2> QED BY <2>2 DEF SpillsDistinct, LocationOf, Placed
<1>12. PlacesDisjoint'
  <2>1. ASSUME NEW i \in Placed, Current.start <= intervals[i].end
        PROVE  LocationOf(i) # p
    <3>1. CASE \E a \in StillActive : a.interval = i
      <4>1. PICK a \in StillActive : a.interval = i
        BY <3>1
      <4>2. LocationOf(i) = a.register /\ a.register \notin FreeNow
        BY <4>1, <1>1, Placing1 DEF ScanInv
      <4> QED BY <4>2, <1>3
    <3>2. CASE LocationOf(i) \in Nat
      BY <3>2, <1>3
    <3>3. CASE intervals[i].end < Current.start
      <4>1. intervals[i].end \in Nat /\ Current.start \in Nat
        BY <1>1, Placing1, InputFacts DEF ScanInv, Current
      <4> QED BY <2>1, <3>3, <4>1
    <3> QED BY <1>1, <3>1, <3>2, <3>3, Placing1
  <2>2. \A i, j \in Placed :
          (i < j /\ intervals[j].start <= intervals[i].end) => LocationOf(i) # LocationOf(j)
    BY DEF ScanInv, PlacesDisjoint, Placed
  <2>3. \A i \in Placed : ~(next < i)
    BY <1>1, Placing1 DEF Placed
  <2>4. \A i, j \in Placed' :
          (i < j /\ intervals'[j].start <= intervals'[i].end)
            => location'[intervals'[i].register] # location'[intervals'[j].register]
    <3> SUFFICES ASSUME NEW i \in Placed', NEW j \in Placed', i < j,
                        intervals[j].start <= intervals[i].end
                 PROVE  location'[intervals[i].register] # location'[intervals[j].register]
      BY <1>1
    <3>1. CASE i \in Placed /\ j \in Placed
      BY <3>1, <2>2, <1>5
    <3>2. CASE i \in Placed /\ j = next
      BY <3>2, <2>1, <1>5 DEF Current
    <3>3. CASE i = next
      <4>1. next \in Nat
        BY DEF ScanInv, ScanTypes
      <4> QED BY <3>3, <2>3, <1>6, <4>1
    <3> QED BY <3>1, <3>2, <3>3, <1>6
  <2> QED BY <2>4 DEF PlacesDisjoint, LocationOf, Placed
<1> QED BY <1>6, <1>8, <1>9, <1>10, <1>11, <1>12 DEF ScanInv, LocationOf

\* Spilling the interval at hand keeps the scan right.
LEMMA SpillCurrentInv == ASSUME ScanInv, SpillCurrent PROVE ScanInv'
<1>1. /\ Placing /\ next' = next + 1 /\ intervals' = intervals /\ surviving' = surviving
      /\ spillCount' = spillCount + 1 /\ active' = StillActive /\ free' = FreeNow
      /\ location' = [location EXCEPT ![Current.register] = spillCount]
  BY DEF SpillCurrent, PlaceNext
<1>2. location = [r \in Reg |-> location[r]] /\ spillCount \in Nat
  BY DEF ScanInv, ScanTypes
<1>3. /\ \A i \in Placed : location'[intervals[i].register] = LocationOf(i)
      /\ location'[Current.register] = spillCount
      /\ location' = [r \in Reg |-> location'[r]]
      /\ \A r \in Reg : location'[r] = location[r] \/ r = Current.register
  BY <1>1, <1>2, Placing1 DEF LocationOf
<1>4. ScanTypes' /\ Placed' = Placed \cup {next}
  <2>1. free' \subseteq PoolRegs
    BY <1>1, Placing1
  <2>2. /\ spillCount' \in {spillCount, spillCount + 1}
        /\ \A i \in Placed : LocationOf(i) \in PoolRegs \cup Nat
    BY <1>1 DEF ScanInv, ScanTypes
  <2>3. \A r \in Reg : location'[r] = location[r] \/ \E i \in Placed \cup {next} : intervals[i].register = r
    BY <1>3 DEF Current
  <2> QED BY <1>1, <1>2, <1>3, <2>1, <2>2, <2>3, TypesAfter
<1>5. /\ \A i \in Placed : location'[intervals'[i].register] = LocationOf(i)
      /\ location'[intervals'[next].register] = spillCount
  BY <1>1, <1>3 DEF Current
<1>6. \A a \in active' : /\ a.interval \in Placed' /\ a.register \in PoolRegs
                         /\ location'[intervals'[a.interval].register] = a.register
                         /\ a.register \notin free'
  BY <1>1, <1>4, <1>5, Placing1 DEF ScanInv
<1>7. \A a, b \in active' : a.register = b.register => a = b
  BY <1>1, Placing1 DEF ScanInv
<1>8. ASSUME NEW i \in Placed', location'[intervals'[i].register] \notin Nat
      PROVE  \/ \E a \in active' : a.interval = i
             \/ \E k \in Placed' : intervals'[i].end < intervals'[k].start
  <2>1. i \in Placed
    BY <1>2, <1>4, <1>5, <1>8
  <2>2. (\E a \in StillActive : a.interval = i) \/ intervals[i].end < Current.start
    BY <1>1, <1>5, <1>8, <2>1, Placing1
  <2>3. CASE \E a \in StillActive : a.interval = i
    BY <2>3, <1>1
  <2>4. CASE intervals[i].end < Current.start
    <3>1. next \in Placed' /\ intervals'[i].end < intervals'[next].start
      BY <2>4, <1>1, <1>4 DEF Current
    <3> QED BY <3>1
  <2> QED BY <2>2, <2>3, <2>4
<1>9. \A i, j \in Placed :
        LocationOf(i) \in Nat =>
          LocationOf(i) < spillCount /\ (LocationOf(i) = LocationOf(j) => i = j)
  BY DEF ScanInv, SpillsDistinct, Placed
<1>10. SpillsDistinct'
  <2>1. \A i \in Placed : LocationOf(i) # spillCount
    BY <1>2, <1>9
  <2>2. \A i, j \in Placed' :
          location'[intervals'[i].register] \in Nat =>
            /\ location'[intervals'[i].register] < spillCount'
            /\ location'[intervals'[i].register] = location'[intervals'[j].register] => i = j
    <3> SUFFICES ASSUME NEW i \in Placed', NEW j \in Placed',
                        location'[intervals'[i].register] \in Nat
                 PROVE  /\ location'[intervals'[i].register] < spillCount'
                        /\ location'[intervals'[i].register] = location'[intervals'[j].register] => i = j
      OBVIOUS
    <3>1. CASE i = next
      BY <3>1, <2>1, <1>1, <1>2, <1>4, <1>5
    <3>2. CASE i \in Placed
      <4>1. LocationOf(i) < spillCount /\ LocationOf(i) \in Nat
        BY <3>2, <1>5, <1>9
      <4>2. LocationOf(i) < spillCount'
        BY <4>1, <1>1, <1>2
      <4> QED BY <3>2, <4>1, <4>2, <2>1, <1>4, <1>5, <1>9
    <3> QED BY <3>1, <3>2, <1>4
  <2> QED BY <2>2 DEF SpillsDistinct, LocationOf, Placed
<1>11. PlacesDisjoint'
  <2>1. \A i \in Placed : LocationOf(i) # spillCount
    BY <1>2, <1>9
  <2>2. \A i, j \in Placed :
          (i < j /\ intervals[j].start <= intervals[i].end) => LocationOf(i) # LocationOf(j)
    BY DEF ScanInv, PlacesDisjoint, Placed
  <2>3. \A i, j \in Placed' :
          (i < j /\ intervals'[j].start <= intervals'[i].end)
            => location'[intervals'[i].register] # location'[intervals'[j].register]
    <3> SUFFICES ASSUME NEW i \in Placed', NEW j \in Placed', i < j,
                        intervals[j].start <= intervals[i].end
                 PROVE  location'[intervals'[i].register] # location'[intervals'[j].register]
      BY <1>1
    <3>1. CASE i \in Placed /\ j \in Placed
      BY <3>1, <2>2, <1>5
    <3>2. CASE (i \in Placed /\ j = next) \/ (i = next /\ j \in Placed)
      BY <3>2, <2>1, <1>5
    <3>3. i # j
      <4>1. next \in Nat
        BY DEF ScanInv, ScanTypes
      <4>2. i \in Nat
        BY <4>1, <1>4 DEF Placed
      <4> QED BY <4>2
    <3> QED BY <3>1, <3>2, <3>3, <1>4
  <2> QED BY <2>3 DEF PlacesDisjoint, LocationOf, Placed
<1> QED BY <1>4, <1>6, <1>7, <1>8, <1>10, <1>11 DEF ScanInv, LocationOf

\* Evicting an interval keeps the scan right.
LEMMA EvictInv == ASSUME ScanInv, Evict PROVE ScanInv'
<1>1. /\ Placing /\ next' = next + 1 /\ intervals' = intervals /\ surviving' = surviving
      /\ spillCount' = spillCount + 1 /\ free' = FreeNow
  BY DEF Evict
<1>2. PICK a \in UsableActive :
       /\ location' = [location EXCEPT ![intervals[a.interval].register] = spillCount,
                                       ![Current.register] = a.register]
       /\ active' = (StillActive \ {a}) \cup {[interval |-> next, register |-> a.register]}
  BY DEF Evict
<1> DEFINE e == a.interval
           p == a.register
<1>3. location = [r \in Reg |-> location[r]] /\ spillCount \in Nat
  BY DEF ScanInv, ScanTypes
<1>4. /\ a \in StillActive /\ e \in Placed /\ p \in PoolRegs /\ LocationOf(e) = p
      /\ p \notin FreeNow /\ p \in PhysicalReg /\ p \notin Nat
  BY <1>1, <1>2, Placing1, PoolRegsPhysical DEF UsableActive, ScanInv
<1>5. \A b \in StillActive : b # a => b.register # p /\ b.interval # e
  BY <1>1, <1>4, Placing1 DEF ScanInv
<1>6. \A i \in Placed : i # e => intervals[i].register # intervals[e].register
  BY <1>1, <1>4, Placing1, InputFacts DEF ScanInv
<1>7. /\ \A i \in Placed : i # e => location'[intervals[i].register] = LocationOf(i)
      /\ location'[intervals[e].register] = spillCount
      /\ location'[Current.register] = p
      /\ location' = [r \in Reg |-> location'[r]]
      /\ \A r \in Reg : location'[r] = location[r] \/ r \in {Current.register, intervals[e].register}
  <2>1. /\ intervals[e].register \in Reg /\ Current.register \in Reg
        /\ intervals[e].register # Current.register
        /\ \A i \in Placed : intervals[i].register \in Reg /\ intervals[i].register # Current.register
    BY <1>1, <1>4, Placing1, InputFacts DEF ScanInv
  <2> HIDE DEF e, p
  <2>2. location' = [location EXCEPT ![intervals[e].register] = spillCount, ![Current.register] = p]
    BY <1>2 DEF e, p
  <2>3. location' = [r \in Reg |-> IF r = Current.register THEN p
                                   ELSE IF r = intervals[e].register THEN spillCount
                                   ELSE location[r]]
    BY <2>1, <2>2, <1>3
  <2> QED BY <2>1, <2>3, <1>6 DEF LocationOf
<1>8. ScanTypes' /\ Placed' = Placed \cup {next}
  <2>1. free' \subseteq PoolRegs
    BY <1>1, Placing1
  <2>2. /\ spillCount' \in {spillCount, spillCount + 1}
        /\ \A i \in Placed : LocationOf(i) \in PoolRegs \cup Nat
    BY <1>1 DEF ScanInv, ScanTypes
  <2>3. \A i \in Placed : location'[intervals[i].register] \in PoolRegs \cup Nat
    BY <2>2, <1>3, <1>7
  <2>4. \A r \in Reg : location'[r] = location[r] \/ \E i \in Placed \cup {next} : intervals[i].register = r
    BY <1>4, <1>7 DEF Current
  <2> QED BY <1>1, <1>4, <1>7, <2>1, <2>2, <2>3, <2>4, TypesAfter
<1>9. /\ \A i \in Placed : i # e => location'[intervals'[i].register] = LocationOf(i)
      /\ location'[intervals'[e].register] = spillCount
      /\ location'[intervals'[next].register] = p
  BY <1>1, <1>7 DEF Current
<1> HIDE DEF e, p
<1>10. \A b \in active' : /\ b.interval \in Placed' /\ b.register \in PoolRegs
                          /\ location'[intervals'[b.interval].register] = b.register
                          /\ b.register \notin free'
  <2>1. \A b \in StillActive \ {a} :
           /\ b.interval \in Placed /\ b.interval # e /\ b.register \in PoolRegs
           /\ LocationOf(b.interval) = b.register /\ b.register \notin FreeNow
    BY <1>1, <1>5, Placing1 DEF ScanInv
  <2>2. \A b \in active' : b \in StillActive \ {a} \/ b = [interval |-> next, register |-> p]
    BY <1>2 DEF p
  <2> QED BY <2>1, <2>2, <1>1, <1>4, <1>8, <1>9
<1>11. \A b, c \in active' : b.register = c.register => b = c
  <2>1. \A b, c \in StillActive : b.register = c.register => b = c
    BY <1>1, Placing1 DEF ScanInv
  <2>2. \A b \in active' : b \in StillActive \ {a} \/ b = [interval |-> next, register |-> p]
    BY <1>2 DEF p
  <2> QED BY <2>1, <2>2, <1>5
<1>12. ASSUME NEW i \in Placed', location'[intervals'[i].register] \notin Nat
       PROVE  \/ \E b \in active' : b.interval = i
              \/ \E k \in Placed' : intervals'[i].end < intervals'[k].start
  <2>1. CASE i = next
    <3>1. [interval |-> next, register |-> p] \in active'
      BY <1>2 DEF p
    <3>2. [interval |-> next, register |-> p].interval = i
      BY <2>1
    <3> QED BY <3>1, <3>2
  <2>2. CASE i \in Placed
    <3>1. i # e
      BY <1>3, <1>9, <1>12
    <3>2. (\E b \in StillActive : b.interval = i) \/ intervals[i].end < Current.start
      BY <1>1, <1>9, <1>12, <2>2, <3>1, Placing1
    <3>3. CASE \E b \in StillActive : b.interval = i
      <4>1. PICK b \in StillActive : b.interval = i
        BY <3>3
      <4>2. b # a
        BY <4>1, <3>1 DEF e
      <4> QED BY <4>1, <4>2, <1>2
    <3>4. CASE intervals[i].end < Current.start
      <4>1. next \in Placed' /\ intervals'[i].end < intervals'[next].start
        BY <3>4, <1>1, <1>8 DEF Current
      <4> QED BY <4>1
    <3> QED BY <3>2, <3>3, <3>4
  <2> QED BY <1>8, <2>1, <2>2
<1>13. \A i, j \in Placed :
        LocationOf(i) \in Nat =>
          LocationOf(i) < spillCount /\ (LocationOf(i) = LocationOf(j) => i = j)
  BY DEF ScanInv, SpillsDistinct, Placed
<1>14. \A i \in Placed : LocationOf(i) # spillCount
  BY <1>3, <1>13
<1>15. SpillsDistinct'
  <2>1. \A i, j \in Placed' :
          location'[intervals'[i].register] \in Nat =>
            /\ location'[intervals'[i].register] < spillCount'
            /\ location'[intervals'[i].register] = location'[intervals'[j].register] => i = j
    <3> SUFFICES ASSUME NEW i \in Placed', NEW j \in Placed',
                        location'[intervals'[i].register] \in Nat
                 PROVE  /\ location'[intervals'[i].register] < spillCount'
                        /\ location'[intervals'[i].register] = location'[intervals'[j].register] => i = j
      OBVIOUS
    <3>1. i # next
      BY <1>4, <1>9
    <3>2. CASE i = e
      <4>1. spillCount < spillCount'
        BY <1>1, <1>3
      <4>2. \A k \in Placed' : k # e => location'[intervals'[k].register] # spillCount
        BY <1>3, <1>4, <1>8, <1>9, <1>14
      <4> QED BY <3>2, <4>1, <4>2, <1>9
    <3>3. CASE i \in Placed /\ i # e
      <4>1. LocationOf(i) < spillCount /\ LocationOf(i) \in Nat
        BY <3>3, <1>9, <1>13
      <4>2. LocationOf(i) < spillCount'
        BY <4>1, <1>1, <1>3
      <4>3. CASE j = next
        BY <4>1, <4>3, <3>3, <1>4, <1>9, <4>2
      <4>4. CASE j = e
        BY <4>2, <4>4, <3>3, <1>9, <1>14
      <4>5. CASE j \in Placed /\ j # e
        BY <4>2, <4>5, <3>3, <1>9, <1>13, <4>1
      <4> QED BY <4>3, <4>4, <4>5, <1>8
    <3> QED BY <3>1, <3>2, <3>3, <1>8
  <2> QED BY <2>1 DEF SpillsDistinct, LocationOf, Placed
<1>16. PlacesDisjoint'
  <2>1. ASSUME NEW i \in Placed, i # e, Current.start <= intervals[i].end
        PROVE  LocationOf(i) # p
    <3>1. CASE \E b \in StillActive : b.interval = i
      <4>1. PICK b \in StillActive : b.interval = i
        BY <3>1
      <4>2. LocationOf(i) = b.register /\ b # a
        BY <4>1, <1>1, <2>1, Placing1 DEF ScanInv, e
      <4> QED BY <4>2, <1>5
    <3>2. CASE LocationOf(i) \in Nat
      BY <3>2, <1>4
    <3>3. CASE intervals[i].end < Current.start
      <4>1. intervals[i].end \in Nat /\ Current.start \in Nat
        BY <1>1, Placing1, InputFacts DEF ScanInv, Current
      <4> QED BY <2>1, <3>3, <4>1
    <3> QED BY <1>1, <3>1, <3>2, <3>3, Placing1
  <2>2. \A i, j \in Placed :
          (i < j /\ intervals[j].start <= intervals[i].end) => LocationOf(i) # LocationOf(j)
    BY DEF ScanInv, PlacesDisjoint, Placed
  <2>3. \A i \in Placed : ~(next < i)
    BY <1>1, Placing1 DEF Placed
  <2>4. \A k \in Placed' : k # e => location'[intervals'[k].register] # spillCount
    BY <1>3, <1>4, <1>8, <1>9, <1>14
  <2>5. \A i, j \in Placed' :
          (i < j /\ intervals'[j].start <= intervals'[i].end)
            => location'[intervals'[i].register] # location'[intervals'[j].register]
    <3> SUFFICES ASSUME NEW i \in Placed', NEW j \in Placed', i < j,
                        intervals[j].start <= intervals[i].end
                 PROVE  location'[intervals'[i].register] # location'[intervals'[j].register]
      BY <1>1
    <3>1. i # j /\ i # next
      <4>1. next \in Nat
        BY DEF ScanInv, ScanTypes
      <4>2. i \in Nat
        BY <4>1, <1>8 DEF Placed
      <4>3. i # j
        BY <4>2
      <4>4. i # next
        BY <4>2, <4>1, <2>3, <1>8, <4>3
      <4> QED BY <4>3, <4>4
    <3>2. CASE i = e \/ j = e
      BY <3>1, <3>2, <2>4, <1>9
    <3>3. CASE i # e /\ j # e /\ j \in Placed
      BY <3>1, <3>3, <2>2, <1>8, <1>9
    <3>4. CASE i # e /\ j = next
      <4>1. LocationOf(i) # p
        BY <3>1, <3>4, <2>1, <1>8 DEF Current
      <4> QED BY <3>1, <3>4, <4>1, <1>8, <1>9
    <3> QED BY <3>2, <3>3, <3>4, <1>8
  <2> QED BY <2>5 DEF PlacesDisjoint, LocationOf, Placed
<1> QED BY <1>8, <1>10, <1>11, <1>12, <1>15, <1>16 DEF ScanInv, LocationOf

\* Every step of the scan keeps it right.
LEMMA ScanInvNext == ASSUME ScanInv, [PlaceCurrent]_scanVars PROVE ScanInv'
<1>1. CASE TakeFree BY <1>1, TakeFreeInv
<1>2. CASE SpillCurrent BY <1>2, SpillCurrentInv
<1>3. CASE Evict BY <1>3, EvictInv
<1>4. CASE UNCHANGED scanVars
  <2>1. /\ intervals' = intervals /\ surviving' = surviving /\ next' = next /\ active' = active
        /\ free' = free /\ location' = location /\ spillCount' = spillCount
    BY <1>4 DEF scanVars
  <2>2. ScanTypes' /\ Placed' = Placed
    <3>1. Placed' = Placed
      BY <2>1 DEF Placed
    <3>2. IsInput([intervals |-> intervals, surviving |-> surviving])'
      BY <2>1 DEF ScanInv, ScanTypes, IsInput
    <3>3. /\ next' \in Nat \ {0} /\ next' <= Len(intervals') + 1
          /\ spillCount' \in Nat /\ spillCount' < next'
          /\ location' = [r \in Reg |-> location'[r]] /\ free' \subseteq PoolRegs
      BY <2>1 DEF ScanInv, ScanTypes
    <3>4. \A i \in Placed' : location'[intervals'[i].register] \in PoolRegs \cup Nat
      BY <2>1, <3>1 DEF ScanInv, ScanTypes, LocationOf
    <3>5. \A r \in Reg : location'[r] # Unplaced => \E i \in Placed' : intervals'[i].register = r
      BY <2>1, <3>1 DEF ScanInv, ScanTypes
    <3> QED BY <3>1, <3>2, <3>3, <3>4, <3>5 DEF ScanTypes, LocationOf
  <2>3. SpillsDistinct' /\ PlacesDisjoint'
    BY <2>1 DEF ScanInv, SpillsDistinct, PlacesDisjoint, LocationOf
  <2> QED BY <2>1, <2>2, <2>3 DEF ScanInv, LocationOf
<1> QED BY <1>1, <1>2, <1>3, <1>4 DEF PlaceCurrent

\* No step leaves a value calls must preserve in a register callees overwrite.
LEMMA SurvivorsNext ==
  ASSUME ScanInv, SurvivorsKept, [PlaceCurrent]_scanVars
  PROVE  SurvivorsKept'
<1>1. \A i \in Placed : intervals[i].register \in surviving /\ LocationOf(i) \notin Nat
                          => LocationOf(i) \in CalleeSaved
  BY DEF SurvivorsKept, Placed
<1>2. ASSUME TakeFree \/ SpillCurrent \/ Evict
      PROVE  SurvivorsKept'
  <2>1. /\ Placing /\ next' = next + 1 /\ intervals' = intervals /\ surviving' = surviving
    BY <1>2 DEF TakeFree, SpillCurrent, Evict
  <2>2. \A i \in Placed : LocationOf(i)' = LocationOf(i) \/ LocationOf(i)' \in Nat
    <3> SUFFICES ASSUME NEW i \in Placed
                 PROVE  \/ location'[intervals[i].register] = LocationOf(i)
                        \/ location'[intervals[i].register] \in Nat
      BY <2>1 DEF LocationOf
    <3>1. /\ intervals[i].register \in Reg /\ intervals[i].register # Current.register
          /\ location = [r \in Reg |-> location[r]] /\ spillCount \in Nat
      BY <2>1, Placing1, InputFacts DEF ScanInv, ScanTypes
    <3>2. CASE TakeFree
      <4>1. PICK n \in UsableFree : PlaceNext(Pool[n])
        BY <3>2 DEF TakeFree
      <4> QED BY <4>1, <3>1 DEF PlaceNext, LocationOf
    <3>3. CASE SpillCurrent
      BY <3>1, <3>3 DEF SpillCurrent, PlaceNext, LocationOf
    <3>4. CASE Evict
      <4>1. PICK a \in UsableActive :
              location' = [location EXCEPT ![intervals[a.interval].register] = spillCount,
                                           ![Current.register] = a.register]
        BY <3>4 DEF Evict
      <4> QED BY <4>1, <3>1 DEF LocationOf
    <3> QED BY <1>2, <3>2, <3>3, <3>4
  <2>3. \/ location'[Current.register] \in Nat
        \/ Current.register \in surviving => location'[Current.register] \in CalleeSaved
    <3>1. Current.register \in Reg /\ location = [r \in Reg |-> location[r]] /\ spillCount \in Nat
      BY <2>1, Placing1 DEF ScanInv, ScanTypes
    <3>2. CASE TakeFree
      <4>1. PICK n \in UsableFree : PlaceNext(Pool[n])
        BY <3>2 DEF TakeFree
      <4>2. Current.register \in surviving => Pool[n] \in CalleeSaved
        BY DEF UsableFree, MayUse
      <4> QED BY <4>1, <4>2, <3>1 DEF PlaceNext
    <3>3. CASE SpillCurrent
      BY <3>1, <3>3 DEF SpillCurrent, PlaceNext
    <3>4. CASE Evict
      <4>1. PICK a \in UsableActive :
              location' = [location EXCEPT ![intervals[a.interval].register] = spillCount,
                                           ![Current.register] = a.register]
        BY <3>4 DEF Evict
      <4>2. Current.register \in surviving => a.register \in CalleeSaved
        BY DEF UsableActive, MayUse
      <4> QED BY <4>1, <4>2, <3>1
    <3> QED BY <1>2, <3>2, <3>3, <3>4
  <2>4. next \in Nat
    BY DEF ScanInv, ScanTypes
  <2>5. 1 .. next' - 1 = Placed \cup {next}
    BY <2>1, <2>4, Placing1 DEF Placed
  <2>6. \A i \in Placed \cup {next} :
          (intervals'[i].register \in surviving' /\ location'[intervals'[i].register] \notin Nat)
            => location'[intervals'[i].register] \in CalleeSaved
    BY <1>1, <2>1, <2>2, <2>3 DEF LocationOf, Current
  <2> QED BY <2>5, <2>6 DEF SurvivorsKept, LocationOf
<1>3. CASE UNCHANGED scanVars
  BY <1>3 DEF scanVars, SurvivorsKept, LocationOf
<1> QED BY <1>2, <1>3 DEF PlaceCurrent

\* For every pool and every list of intervals sorted by start, two registers whose
\* intervals overlap, if only in one instruction, never share a register or a
\* spill slot, at any point of the scan and in the final map.
THEOREM NoTwoInOnePlace ==
  ASSUME \A input \in Inputs : IsInput(input)
  PROVE  ScanSpec => [](PlacesDisjoint /\ SpillsDistinct)
<1>1. ScanInit => ScanInv
  BY ScanInvInit
<1>2. ScanInv /\ [PlaceCurrent]_scanVars => ScanInv'
  BY ScanInvNext
<1>3. ScanInv => PlacesDisjoint /\ SpillsDistinct
  BY DEF ScanInv
<1> QED BY <1>1, <1>2, <1>3, PTL DEF ScanSpec

\* No two registers spilled are given one slot, whether or not they overlap.
THEOREM SpillSlotsDistinct ==
  ASSUME \A input \in Inputs : IsInput(input)
  PROVE  ScanSpec => []SpillsDistinct
<1>1. ScanSpec => [](PlacesDisjoint /\ SpillsDistinct)
  BY NoTwoInOnePlace
<1> QED BY <1>1, PTL

\* And no value a call must preserve is placed in a register callees overwrite.
THEOREM SurvivorsInCalleeSaved ==
  ASSUME \A input \in Inputs : IsInput(input)
  PROVE  ScanSpec => []SurvivorsKept
<1>1. ScanInit => ScanInv /\ SurvivorsKept
  BY ScanInvInit
<1>2. ScanInv /\ SurvivorsKept /\ [PlaceCurrent]_scanVars => (ScanInv /\ SurvivorsKept)'
  BY ScanInvNext, SurvivorsNext
<1> QED BY <1>1, <1>2, PTL DEF ScanSpec

---------------------------------------------------------------------------
(***************************************************************************)
(* Live intervals: their order, and what they cover.                       *)
(***************************************************************************)
\* Positions number the points in the order of the code.
LEMMA PositionsAscend ==
  ASSUME NEW f, IsFunction(f)
  PROVE  /\ \A p \in Points(f) : Position(f, p) \in Nat
         /\ \A p, q \in Points(f) : Precedes(p, q) => Position(f, p) < Position(f, q)
<1> DEFINE Before(p) == {x \in Points(f) : Precedes(x, p)}
<1>1. ASSUME NEW p \in Points(f)
      PROVE  /\ IsFiniteSet(Before(p)) /\ Cardinality(Before(p)) \in Nat
             /\ Position(f, p) = Cardinality(Before(p))
  <2>1. IsFiniteSet(Points(f))
    BY PointsFinite
  <2>2. Before(p) \in SUBSET Points(f)
    OBVIOUS
  <2>3. IsFiniteSet(Before(p)) /\ Cardinality(Before(p)) \in Nat
    BY <2>1, <2>2, FS_Subset, FS_CardinalityType
  <2> QED BY <2>3 DEF Position
<1>2. \A p \in Points(f) : p[1] \in Nat /\ p[2] \in Nat
  <2> TAKE p \in Points(f)
  <2>1. p[1] \in DOMAIN f.blocks /\ p[2] \in 1 .. LastIndex(f, p[1])
    BY PointShape
  <2>2. DOMAIN f.blocks = 1 .. Len(f.blocks)
    BY FunctionTypes
  <2> QED BY <2>1, <2>2
<1>3. /\ \A p \in Points(f) : ~Precedes(p, p)
      /\ \A p, q, x \in Points(f) : Precedes(x, p) /\ Precedes(p, q) => Precedes(x, q)
  BY <1>2 DEF Precedes
<1>4. ASSUME NEW p \in Points(f), NEW q \in Points(f), Precedes(p, q)
      PROVE  Position(f, p) < Position(f, q)
  <2>1. p \notin Before(p)
    BY <1>3
  <2>2. Before(p) \cup {p} \in SUBSET Before(q)
    BY <1>4, <1>3
  <2> HIDE DEF Before
  <2>3. Cardinality(Before(p) \cup {p}) = Cardinality(Before(p)) + 1
    BY <1>1, <2>1, FS_AddElement
  <2>4. Cardinality(Before(p) \cup {p}) <= Cardinality(Before(q))
    BY <1>1, <2>2, FS_Subset
  <2>5. Cardinality(Before(p)) \in Nat /\ Cardinality(Before(q)) \in Nat
    BY <1>1
  <2> QED BY <1>1, <2>3, <2>4, <2>5
<1> QED BY <1>1, <1>4

\* Within a block positions follow the index.
LEMMA PositionsInBlock ==
  ASSUME NEW f, IsFunction(f), NEW b, NEW j \in Nat, NEW k \in Nat,
         <<b, j>> \in Points(f), <<b, k>> \in Points(f), j <= k
  PROVE  Position(f, <<b, j>>) <= Position(f, <<b, k>>)
<1>1. CASE j = k
  BY <1>1, PositionsAscend
<1>2. CASE j < k
  <2>1. Precedes(<<b, j>>, <<b, k>>)
    BY <1>2 DEF Precedes
  <2> QED BY <2>1, PositionsAscend
<1> QED BY <1>1, <1>2

\* The points, positions and the interval of one register.
TouchedBy(f, r) == Touched(f, LiveBefore(f), LiveAfter(f), r)

PositionsOf(f, r) == {Position(f, p) : p \in TouchedBy(f, r)}

Span(f, r) == [register |-> r, start |-> Min(PositionsOf(f, r)), end |-> Max(PositionsOf(f, r))]

Spans(f) == {Span(f, r) : r \in {r \in Reg : TouchedBy(f, r) # {}}}

\* The intervals are the registers' spans, sorted.
LEMMA SpansOf ==
  ASSUME NEW f
  PROVE  IntervalsOf(f) = InOrder(Spans(f))
<1> DEFINE before == LiveBefore(f)
           after == LiveAfter(f)
           T(r) == Touched(f, before, after, r)
           positions == UNION {{<<r, Position(f, p)>> : p \in T(r)} : r \in Reg}
           of(r) == {x[2] : x \in {y \in positions : y[1] = r}}
<1>1. ASSUME NEW r \in Reg PROVE of(r) = PositionsOf(f, r)
  <2> HIDE DEF T
  <2>1. \A y : y \in positions /\ y[1] = r <=> \E p \in T(r) : y = <<r, Position(f, p)>>
    OBVIOUS
  <2>2. of(r) = {Position(f, p) : p \in T(r)}
    <3> HIDE DEF positions
    <3>1. \A x : x \in of(r) => \E p \in T(r) : x = Position(f, p)
      BY <2>1
    <3>2. \A p \in T(r) : Position(f, p) \in of(r)
      <4> TAKE p \in T(r)
      <4> DEFINE y == <<r, Position(f, p)>>
      <4>1. y \in positions /\ y[1] = r /\ y[2] = Position(f, p)
        BY <2>1
      <4> QED BY <4>1
    <3> HIDE DEF of
    <3> QED BY <3>1, <3>2
  <2> QED BY <2>2 DEF T, PositionsOf, TouchedBy
<1>2. {x[1] : x \in positions} = {r \in Reg : TouchedBy(f, r) # {}}
  <2> HIDE DEF T
  <2>1. \A y : y \in positions <=> \E r \in Reg : \E p \in T(r) : y = <<r, Position(f, p)>>
    OBVIOUS
  <2> HIDE DEF positions
  <2>2. \A r : r \in {x[1] : x \in positions} => r \in Reg /\ T(r) # {}
    BY <2>1
  <2>3. ASSUME NEW r \in Reg, T(r) # {} PROVE r \in {x[1] : x \in positions}
    <3>1. PICK p \in T(r) : TRUE
      BY <2>3
    <3> DEFINE y == <<r, Position(f, p)>>
    <3>2. y \in positions /\ y[1] = r
      BY <2>1
    <3> QED BY <3>2
  <2> QED BY <2>2, <2>3 DEF T, TouchedBy
<1> DEFINE spans == {[register |-> r, start |-> Min(of(r)), end |-> Max(of(r))] :
                       r \in {x[1] : x \in positions}}
<1>3. spans = Spans(f)
  <2> HIDE DEF of, positions
  <2> QED BY <1>1, <1>2 DEF Spans, Span
<1>4. IntervalsOf(f) = InOrder(spans)
  BY DEF IntervalsOf
<1> HIDE DEF spans
<1> QED BY <1>3, <1>4

\* A register's first and last position.
LEMMA Ends ==
  ASSUME NEW S, S \subseteq Nat, IsFiniteSet(S), S # {}
  PROVE  /\ Min(S) \in S /\ Max(S) \in S /\ \A x \in S : Min(S) <= x /\ x <= Max(S)
<1>1. \E m \in S : \A x \in S : m <= x
  BY LeastNatural
<1>2. \E m \in S : \A x \in S : m >= x
  <2>1. PICK s : Ordered(S, s)
    BY OrderExists
  <2> DEFINE n == Cardinality(S)
  <2>2. n \in Nat /\ n # 0
    BY FS_CardinalityType, FS_EmptySet
  <2>3. /\ s \in [1 .. n -> S] /\ DOMAIN s = 1 .. n
        /\ \A i, j \in 1 .. n : i < j => s[i] < s[j]
        /\ \A x \in S : \E i \in 1 .. n : s[i] = x
    BY <2>1 DEF Ordered
  <2> HIDE DEF n
  <2>4. n \in 1 .. n /\ s[n] \in S
    BY <2>2, <2>3
  <2>5. ASSUME NEW x \in S PROVE s[n] >= x
    <3>1. PICK i \in 1 .. n : s[i] = x
      BY <2>3
    <3>2. i = n \/ s[i] < s[n]
      BY <2>2, <2>3, <2>4
    <3>3. s[n] \in Nat /\ x \in Nat
      BY <2>4
    <3> QED BY <3>1, <3>2, <3>3
  <2> QED BY <2>4, <2>5
<1> QED BY <1>1, <1>2 DEF Min, Max

\* A span goes from the first position its register is touched at to the last.
LEMMA SpanFacts ==
  ASSUME NEW f, IsFunction(f), NEW r \in Reg, TouchedBy(f, r) # {}
  PROVE  /\ Span(f, r).register = r
         /\ Span(f, r) \in [register : Reg, start : Nat, end : Nat]
         /\ Span(f, r).start <= Span(f, r).end
         /\ \A p \in TouchedBy(f, r) :
              Span(f, r).start <= Position(f, p) /\ Position(f, p) <= Span(f, r).end
<1> DEFINE S == PositionsOf(f, r)
<1>1. TouchedBy(f, r) \subseteq Points(f)
  BY DEF TouchedBy, Touched
<1>2. S \subseteq Nat /\ S # {}
  BY <1>1, PositionsAscend DEF PositionsOf
<1>3. IsFiniteSet(S)
  <2>1. IsFiniteSet(TouchedBy(f, r))
    BY <1>1, PointsFinite, FS_Subset
  <2> DEFINE h == [p \in TouchedBy(f, r) |-> Position(f, p)]
  <2>2. h \in Surjection(TouchedBy(f, r), S)
    BY DEF Surjection, PositionsOf
  <2> QED BY <2>1, <2>2, FS_Surjection
<1>4. /\ Min(S) \in S /\ Max(S) \in S /\ \A x \in S : Min(S) <= x /\ x <= Max(S)
  BY <1>2, <1>3, Ends
<1>5. \A p \in TouchedBy(f, r) : Position(f, p) \in S
  BY DEF PositionsOf
<1> HIDE DEF S
<1>6. Min(S) \in Nat /\ Max(S) \in Nat /\ Min(S) <= Max(S)
  BY <1>2, <1>4
<1> QED BY <1>4, <1>5, <1>6 DEF Span, S

\* Two intervals of one register are one.
LEMMA SpansByRegister ==
  ASSUME NEW f, IsFunction(f)
  PROVE  /\ \A x \in Spans(f) : x \in [register : Reg, start : Nat, end : Nat] /\ x.start <= x.end
         /\ \A x, y \in Spans(f) : x.register = y.register => x = y
         /\ IsFiniteSet(Spans(f)) /\ Cardinality(Spans(f)) \in Nat
         /\ Cardinality(Spans(f)) <= Cardinality(Reg)
<1> DEFINE R == {r \in Reg : TouchedBy(f, r) # {}}
           span == [r \in R |-> Span(f, r)]
<1>1. \A r \in R : /\ span[r].register = r /\ span[r] \in [register : Reg, start : Nat, end : Nat]
                   /\ span[r].start <= span[r].end
  BY SpanFacts
<1>2. Spans(f) = {span[r] : r \in R}
  BY DEF Spans
<1>3. span \in Surjection(R, Spans(f))
  BY <1>2 DEF Surjection
<1> HIDE DEF span
<1>4. IsFiniteSet(R) /\ Cardinality(R) <= Cardinality(Reg)
  <2>1. R \in SUBSET Reg
    OBVIOUS
  <2> HIDE DEF R
  <2> QED BY <2>1, FS_Subset, IrAssumption
<1>5. IsFiniteSet(Spans(f)) /\ Cardinality(Spans(f)) <= Cardinality(R)
  BY <1>3, <1>4, FS_Surjection
<1> HIDE DEF R
<1>6. Cardinality(R) \in Nat /\ Cardinality(Spans(f)) \in Nat /\ Cardinality(Reg) \in Nat
  BY <1>4, <1>5, FS_CardinalityType, IrAssumption
<1>7. \A x \in Spans(f) : \E r \in R : x = span[r]
  BY <1>2
<1> QED BY <1>1, <1>4, <1>5, <1>6, <1>7

\* The intervals in order are what the scan takes, one for each register touched.
LEMMA IntervalsAreInput ==
  ASSUME NEW f, IsFunction(f), NEW calls
  PROVE  /\ IsInput([intervals |-> IntervalsOf(f), surviving |-> calls])
         /\ Len(IntervalsOf(f)) \in Nat /\ Len(IntervalsOf(f)) <= Cardinality(Reg)
         /\ DOMAIN IntervalsOf(f) = 1 .. Len(IntervalsOf(f))
         /\ \A i \in DOMAIN IntervalsOf(f) : IntervalsOf(f)[i] \in Spans(f)
         /\ \A x \in Spans(f) : \E i \in DOMAIN IntervalsOf(f) : IntervalsOf(f)[i] = x
<1> DEFINE S == Spans(f)
           n == Cardinality(S)
           under == {e \in S \X S : Sooner(e[1], e[2])}
           Sorted(s) == /\ s \in [1 .. Cardinality(S) -> S]
                        /\ \A i, j \in DOMAIN s : i < j => Sooner(s[i], s[j])
                        /\ \A x \in S : \E i \in DOMAIN s : s[i] = x
<1>1. /\ \A x \in S : /\ x.register \in Reg /\ x.register \in Nat /\ x.start \in Nat /\ x.end \in Nat
                      /\ x \in [register : Reg, start : Nat, end : Nat] /\ x.start <= x.end
      /\ \A x, y \in S : x.register = y.register => x = y
      /\ IsFiniteSet(S) /\ n \in Nat /\ n <= Cardinality(Reg)
  BY SpansByRegister, IrAssumption
<1> HIDE DEF S
<1>2. ASSUME NEW T \in SUBSET S, T # {}
      PROVE  \E a \in T : \A b \in T : b = a \/ <<a, b>> \in under
  <2> DEFINE starts == {x.start : x \in T}
  <2>1. starts \subseteq Nat /\ starts # {}
    BY <1>1, <1>2
  <2>2. PICK m \in starts : \A k \in starts : m <= k
    BY <2>1, LeastNatural
  <2> DEFINE registers == {x.register : x \in {x \in T : x.start = m}}
  <2>3. registers \subseteq Nat /\ registers # {}
    BY <1>1, <2>2
  <2>4. PICK l \in registers : \A k \in registers : l <= k
    BY <2>3, LeastNatural
  <2>5. PICK a \in T : a.start = m /\ a.register = l
    BY <2>4
  <2>6. ASSUME NEW b \in T PROVE b = a \/ <<a, b>> \in under
    <3>1. a \in S /\ b \in S
      OBVIOUS
    <3>2. m <= b.start /\ (b.start = m => l <= b.register)
      <4>1. b.start \in starts
        OBVIOUS
      <4>2. b.start = m => b.register \in registers
        OBVIOUS
      <4> HIDE DEF starts, registers
      <4> QED BY <2>2, <2>4, <4>1, <4>2
    <3>3. b = a \/ Sooner(a, b)
      BY <1>1, <2>5, <3>1, <3>2 DEF Sooner
    <3> QED BY <3>1, <3>3
  <2> QED BY <2>6
<1>3. \A a, b : <<a, b>> \in under => Sooner(a, b)
  OBVIOUS
<1> HIDE DEF under
<1>4. PICK t : Sorts(S, under, t)
  BY <1>1, <1>2, SortExists
<1>5. Sorted(t)
  BY <1>3, <1>4 DEF Sorts
<1> DEFINE s == IntervalsOf(f)
<1>6. Sorted(s)
  <2>1. s = CHOOSE u \in [1 .. Cardinality(S) -> S] :
              /\ \A i, j \in DOMAIN u : i < j => Sooner(u[i], u[j])
              /\ \A x \in S : \E i \in DOMAIN u : u[i] = x
    BY SpansOf DEF InOrder, S
  <2>2. \E u \in [1 .. Cardinality(S) -> S] :
              /\ \A i, j \in DOMAIN u : i < j => Sooner(u[i], u[j])
              /\ \A x \in S : \E i \in DOMAIN u : u[i] = x
    BY <1>5
  <2> HIDE DEF s
  <2> QED BY <2>1, <2>2
<1> HIDE DEF s
<1>7. s \in [1 .. n -> S] /\ DOMAIN s = 1 .. n /\ \A i \in 1 .. n : s[i] \in S
  BY <1>6
<1>8. s \in Seq([register : Reg, start : Nat, end : Nat]) /\ Len(s) = n
  <2> DEFINE V == [register : Reg, start : Nat, end : Nat]
  <2>1. \A x \in S : x \in V
    BY <1>1
  <2>2. n \in Nat
    BY <1>1
  <2> HIDE DEF n, V
  <2>3. s \in [1 .. n -> V]
    BY <1>7, <2>1
  <2>4. s \in Seq(V)
    BY <2>2, <2>3
  <2>5. Len(s) \in Nat /\ DOMAIN s = 1 .. Len(s)
    BY <2>4
  <2> QED BY <1>7, <2>4, <2>5, <2>2 DEF V
<1>9. ASSUME NEW i \in 1 .. n, NEW j \in 1 .. n, i < j
      PROVE  s[i].start <= s[j].start /\ s[i].register # s[j].register
  <2>1. Sooner(s[i], s[j])
    BY <1>6, <1>7, <1>9
  <2>2. s[i] \in S /\ s[j] \in S
    BY <1>7
  <2>3. s[i].register = s[j].register => s[i] = s[j]
    BY <1>1, <2>2
  <2> QED BY <1>1, <2>1, <2>2, <2>3 DEF Sooner
<1> DEFINE input == [intervals |-> s, surviving |-> calls]
<1>10. IsInput(input)
  <2>1. input.intervals = s
    OBVIOUS
  <2> HIDE DEF input, n
  <2> QED BY <1>1, <1>7, <1>8, <1>9, <2>1 DEF IsInput
<1> QED BY <1>1, <1>6, <1>7, <1>8, <1>10 DEF s, S

\* Every position a register is live at is between two it is touched at.
LEMMA LifeTouched ==
  ASSUME NEW f, IsFunction(f), NEW p \in Points(f), NEW r \in LiveBefore(f)[p]
  PROVE  /\ r \in Reg
         /\ \E a \in TouchedBy(f, r) : Position(f, a) <= Position(f, p)
         /\ \E c \in TouchedBy(f, r) : Position(f, p) <= Position(f, c)
<1> DEFINE b == p[1]  k == p[2]  M == LastIndex(f, b)
<1>1. p = <<b, k>> /\ b \in DOMAIN f.blocks /\ k \in 1 .. M /\ M \in Nat \ {0}
  BY PointShape, FunctionTypes
<1>2. \A j \in 1 .. M : <<b, j>> \in Points(f)
  BY <1>1, PointShape
<1>3. r \in Reg
  BY LiveEquations
<1> HIDE DEF b, k, M
<1>4. \A j \in 1 .. k : Position(f, <<b, j>>) <= Position(f, p)
  <2> TAKE j \in 1 .. k
  <2>1. j \in Nat /\ k \in Nat /\ j <= k /\ <<b, j>> \in Points(f) /\ <<b, k>> \in Points(f)
    BY <1>1, <1>2
  <2> QED BY <1>1, <2>1, PositionsInBlock
<1>5. \A j \in k .. M : Position(f, p) <= Position(f, <<b, j>>) /\ j \in 1 .. M
  <2> TAKE j \in k .. M
  <2>1. j \in Nat /\ k \in Nat /\ k <= j /\ j \in 1 .. M /\ <<b, j>> \in Points(f) /\ <<b, k>> \in Points(f)
    BY <1>1, <1>2
  <2> QED BY <1>1, <2>1, PositionsInBlock
<1>6. \E j \in 1 .. k : <<b, j>> \in TouchedBy(f, r)
  <2>1. CASE \E j \in DOMAIN f.blocks[b].code : j < k /\ r \in Defines(f.blocks[b].code[j])
    <3>1. PICK j \in DOMAIN f.blocks[b].code : j < k /\ r \in Defines(f.blocks[b].code[j])
      BY <2>1
    <3>2. <<b, j>> \in Points(f) /\ ~IsTerminator(f, <<b, j>>) /\ j \in Nat \ {0}
      BY <1>1, InnerPoint
    <3>3. r \in DefinesAt(f, <<b, j>>)
      BY <3>1, <3>2 DEF DefinesAt, InstructionAt
    <3>4. j \in 1 .. k
      BY <1>1, <3>1, <3>2
    <3> QED BY <3>2, <3>3, <3>4 DEF TouchedBy, Touched
  <2>2. CASE \A j \in DOMAIN f.blocks[b].code : j < k => r \notin Defines(f.blocks[b].code[j])
    <3>1. k \in 1 .. LastIndex(f, b) /\ r \in LiveBefore(f)[<<b, k>>]
      BY <1>1 DEF M
    <3>2. r \in LiveBefore(f)[<<b, 1>>]
      BY <1>1, <2>2, <3>1, LiveThroughBlock
    <3>3. 1 \in 1 .. k /\ <<b, 1>> \in Points(f)
      BY <1>1, <1>2
    <3> QED BY <3>2, <3>3 DEF TouchedBy, Touched
  <2> QED BY <2>1, <2>2
<1>7. \E j \in k .. M : <<b, j>> \in TouchedBy(f, r)
  <2> DEFINE S == {l \in 1 .. M : r \in LiveBefore(f)[<<b, l>>] =>
                                    \E j \in l .. M : <<b, j>> \in TouchedBy(f, r)}
  <2>1. M \in S
    <3> SUFFICES ASSUME r \in LiveBefore(f)[<<b, M>>] PROVE <<b, M>> \in TouchedBy(f, r)
      BY <1>1
    <3>1. <<b, M>> \in Points(f) /\ IsTerminator(f, <<b, M>>)
      BY <1>1, <1>2 DEF IsTerminator, M
    <3>2. r \in ReadsAt(f, <<b, M>>) \/ r \in LiveAfter(f)[<<b, M>>]
      BY <3>1, LiveEquations
    <3> QED BY <3>1, <3>2 DEF TouchedBy, Touched
  <2>2. ASSUME NEW l \in 1 .. M - 1, l + 1 \in S PROVE l \in S
    <3> SUFFICES ASSUME r \in LiveBefore(f)[<<b, l>>]
                 PROVE \E j \in l .. M : <<b, j>> \in TouchedBy(f, r)
      BY <1>1
    <3>1. l \in DOMAIN f.blocks[b].code
      <4>1. DOMAIN f.blocks[b].code = 1 .. Len(f.blocks[b].code) /\ Len(f.blocks[b].code) \in Nat
            /\ M = Len(f.blocks[b].code) + 1
        BY <1>1, FunctionTypes DEF M
      <4> QED BY <4>1
    <3>2. /\ <<b, l>> \in Points(f)
          /\ LiveAfter(f)[<<b, l>>] = LiveBefore(f)[<<b, l + 1>>]
      BY <1>1, <3>1, InnerPoint
    <3>3. r \in ReadsAt(f, <<b, l>>) \/ r \in LiveAfter(f)[<<b, l>>]
      BY <3>2, LiveEquations
    <3>4. CASE r \in ReadsAt(f, <<b, l>>)
      <4>1. <<b, l>> \in TouchedBy(f, r) /\ l \in l .. M
        BY <1>1, <3>2, <3>4 DEF TouchedBy, Touched
      <4> QED BY <4>1
    <3>5. CASE r \in LiveAfter(f)[<<b, l>>]
      <4>1. PICK j \in l + 1 .. M : <<b, j>> \in TouchedBy(f, r)
        BY <2>2, <3>2, <3>5
      <4>2. j \in l .. M
        BY <1>1
      <4> QED BY <4>1, <4>2
    <3> QED BY <3>3, <3>4, <3>5
  <2>3. 1 .. M \subseteq S
    <3> HIDE DEF S
    <3> QED BY <1>1, <2>1, <2>2, DownInduction
  <2> QED BY <1>1, <2>3
<1> QED BY <1>3, <1>4, <1>5, <1>6, <1>7

---------------------------------------------------------------------------
(***************************************************************************)
(* From rooted code to the code the allocator is given.                    *)
(***************************************************************************)
\* One sweep after another leaves code fit to run.
LEMMA CleanedReady ==
  ASSUME NEW f, Ready(f)
  PROVE  Ready(Cleaned(f))
<1> DEFINE copies == {p \in Points(f) : ~IsTerminator(f, p) /\ InstructionAt(f, p).op = "copy"}
           N == Cardinality(copies)
           D == {g \in [blocks : Seq(Block), entry : Nat, params : Seq(Reg)] : Ready(g)}
           Sweep(d) == LET swept == Swept(d, LiveOut(d)) IN IF swept = d THEN d ELSE swept
           From(h) == [n \in 0 .. N |-> IF n = 0 THEN f ELSE Sweep(h[n - 1])]
           after == CHOOSE h : h = From(h)
           step == [e \in (1 .. N) \X D |-> Sweep(e[2])]
<1>1. Cleaned(f) = after[N]
  BY DEF Cleaned
<1>2. N \in Nat
  <2>1. IsFunction(f) /\ copies \in SUBSET Points(f)
    BY DEF Ready
  <2> QED BY <2>1, PointsFinite, FS_Subset, FS_CardinalityType
<1> HIDE DEF N
<1>3. \A g : g \in D <=> Ready(g)
  BY DEF Ready, IsFunction
<1>4. ASSUME NEW d \in D PROVE Sweep(d) \in D
  <2>1. Ready(d)
    BY <1>3
  <2>2. Ready(Swept(d, LiveOut(d)))
    BY <2>1, SweptReady
  <2> QED BY <1>3, <2>2
<1>5. \A n \in 1 .. N : \A d \in D : step[<<n, d>>] = Sweep(d)
  BY DEF Sweep
<1> HIDE DEF Sweep, step, D
<1>6. PICK it : Iterates(D, f, step, N, it)
  <2>1. f \in D
    BY <1>3
  <2> QED BY <1>2, <1>4, <1>5, <2>1, IterationExists
<1>7. /\ it \in [0 .. N -> D] /\ it[0] = f
      /\ \A n \in 1 .. N : n - 1 \in 0 .. N /\ it[n] = Sweep(it[n - 1])
  <2>1. /\ it \in [0 .. N -> D] /\ it[0] = f
        /\ \A n \in 1 .. N : it[n] = step[<<n, it[n - 1]>>]
    BY <1>6 DEF Iterates
  <2>2. \A n \in 1 .. N : n - 1 \in 0 .. N
    BY <1>2
  <2> QED BY <1>5, <2>1, <2>2
<1>8. it = From(it)
  <2>1. \A n \in 0 .. N : n = 0 \/ n \in 1 .. N
    BY <1>2
  <2> QED BY <1>7, <2>1
<1>9. after = From(after)
  <2> HIDE DEF From
  <2> QED BY <1>8, Zenon
<1> HIDE DEF after
<1>10. \A n \in 0 .. N : after[n] = IF n = 0 THEN f ELSE Sweep(after[n - 1])
  BY <1>9
<1> DEFINE S == {n \in Nat : n \in 0 .. N => after[n] \in D}
<1>11. 0 \in S
  BY <1>2, <1>3, <1>10
<1>12. ASSUME NEW n \in Nat, n \in S PROVE n + 1 \in S
  <2> SUFFICES ASSUME n + 1 \in 0 .. N PROVE after[n + 1] \in D
    OBVIOUS
  <2>1. n \in 0 .. N /\ n + 1 # 0 /\ (n + 1) - 1 = n
    BY <1>2
  <2>2. after[n + 1] = Sweep(after[n])
    BY <1>10, <2>1
  <2> QED BY <1>4, <1>12, <2>1, <2>2
<1>13. N \in S
  <2> HIDE DEF S
  <2>1. Nat \subseteq S
    BY <1>11, <1>12, SetInduction
  <2> QED BY <1>2, <2>1
<1> QED BY <1>1, <1>2, <1>3, <1>13

\* What the allocator is given is fit to run, given places that fit.
LEMMA PreparedReady ==
  ASSUME SlotsSuffice, \A f \in Sources : Rootable(f), NEW g \in Prepared
  PROVE  Ready(g)
<1>1. PICK f \in Sources : g = Cleaned(Rooted(f))
  BY DEF Prepared
<1> QED BY <1>1, RootedReady, CleanedReady

\* What live_across_calls finds, given exact liveness.
LEMMA AcrossExact ==
  ASSUME NEW f, IsFunction(f), NEW p \in CallPoints(f)
  PROVE  LiveAcrossCalls(f, LiveOut(f))[p] = LiveAfter(f)[p] \ DefinesAt(f, p)
<1> DEFINE b == p[1]  k == p[2]  out == LiveOut(f)
<1>1. p = <<b, k>> /\ b \in DOMAIN f.blocks /\ k \in DOMAIN f.blocks[b].code
  BY NeedIsInner
<1>2. out[b] = LiveAfter(f)[<<b, LastIndex(f, b)>>]
  BY <1>1 DEF LiveOut
<1>3. k + 1 \in 1 .. LastIndex(f, b) /\ LiveAfter(f)[<<b, k>>] = LiveBefore(f)[<<b, k + 1>>]
  BY <1>1, InnerPoint
<1>4. LiveAcrossCalls(f, out)[p] = WalkBack(f.blocks[b], out[b])[k + 1] \ DefinesAt(f, p)
  BY DEF LiveAcrossCalls
<1> HIDE DEF out, b, k
<1>5. WalkBack(f.blocks[b], out[b])[k + 1] = LiveBefore(f)[<<b, k + 1>>]
  BY <1>1, <1>2, <1>3, WalkBackExact
<1> QED BY <1>1, <1>3, <1>4, <1>5 DEF out

\* Everything live across a call is among what surviving_calls collects.
LEMMA Survivors ==
  ASSUME NEW f, IsFunction(f)
  PROVE  /\ \A p \in CallPoints(f) : LiveAfter(f)[p] \ DefinesAt(f, p) \subseteq SurvivingCalls(f)
         /\ HasCalls(f) => Params(f) \subseteq SurvivingCalls(f)
<1> DEFINE across == LiveAcrossCalls(f, LiveOut(f))
<1>1. DOMAIN across = CallPoints(f)
  BY DEF LiveAcrossCalls
<1>2. \A p \in CallPoints(f) : across[p] = LiveAfter(f)[p] \ DefinesAt(f, p)
  BY AcrossExact
<1>3. SurvivingCalls(f)
        = (UNION {across[p] : p \in DOMAIN across}) \cup (IF HasCalls(f) THEN Params(f) ELSE {})
  BY DEF SurvivingCalls
<1> HIDE DEF across
<1> QED BY <1>1, <1>2, <1>3

---------------------------------------------------------------------------
(***************************************************************************)
(* The map the scan leaves fits the code it was made for.                  *)
(***************************************************************************)
\* The scan works on g's intervals.
Scanned(g) ==
  /\ IsFunction(g)
  /\ intervals = IntervalsOf(g) /\ surviving = SurvivingCalls(g)
  /\ ScanInv /\ SurvivorsKept

\* A register that is touched has one interval, and at the end a place.
LEMMA TouchedPlaced ==
  ASSUME NEW g, Scanned(g), ~Placing, NEW r \in Reg, TouchedBy(g, r) # {}
  PROVE  \E i \in Placed : intervals[i] = Span(g, r) /\ location[r] = LocationOf(i)
<1>1. PICK i \in DOMAIN intervals : intervals[i] = Span(g, r)
  BY IntervalsAreInput DEF Scanned, Spans
<1>2. i \in Placed
  BY <1>1, InputFacts DEF Scanned, ScanInv, ScanTypes, Placing, Placed
<1>3. intervals[i].register = r
  BY <1>1, SpanFacts DEF Scanned
<1> QED BY <1>1, <1>2, <1>3 DEF LocationOf

\* At the end the map gives every register that occurs a place of the machine.
LEMMA PlaceTypes ==
  ASSUME NEW g, Scanned(g), ~Placing
  PROVE  /\ Places \in [DOMAIN Places -> Location] /\ DOMAIN Places \subseteq Reg
         /\ \A r \in DOMAIN Places : Places[r] = location[r]
         /\ \A r \in Reg : TouchedBy(g, r) # {} => r \in DOMAIN Places
<1>1. DOMAIN Places = {r \in Reg : location[r] # Unplaced} /\ \A r \in DOMAIN Places : Places[r] = location[r]
  BY DEF Places
<1>2. \A i \in Placed : LocationOf(i) \in Location
  <2> TAKE i \in Placed
  <2>1. LocationOf(i) \in PoolRegs \cup Nat /\ spillCount \in Nat /\ spillCount < next /\ next \in Nat
    BY DEF Scanned, ScanInv, ScanTypes
  <2>2. LocationOf(i) \in Nat => LocationOf(i) < spillCount
    BY DEF Scanned, ScanInv, SpillsDistinct, Placed
  <2>3. next <= Cardinality(Reg) + 1 /\ Cardinality(Reg) \in Nat
    <3>1. next <= Len(intervals) + 1
      BY DEF Scanned, ScanInv, ScanTypes
    <3>2. Len(intervals) \in Nat /\ Len(intervals) <= Cardinality(Reg)
      BY IntervalsAreInput DEF Scanned
    <3>3. Cardinality(Reg) \in Nat
      BY FS_CardinalityType, IrAssumption
    <3> QED BY <2>1, <3>1, <3>2, <3>3
  <2>4. LocationOf(i) \in Nat => LocationOf(i) \in SpillSlots
    BY <2>1, <2>2, <2>3 DEF SpillSlots
  <2> QED BY <2>1, <2>4, BackendAssumption
<1>3. ASSUME NEW r \in Reg, location[r] # Unplaced PROVE location[r] \in Location
  <2>1. PICK i \in Placed : intervals[i].register = r
    BY <1>3 DEF Scanned, ScanInv, ScanTypes
  <2> QED BY <1>2, <2>1 DEF LocationOf
<1>4. ASSUME NEW r \in Reg, TouchedBy(g, r) # {} PROVE location[r] # Unplaced
  <2>1. PICK i \in Placed : location[r] = LocationOf(i)
    BY <1>4, TouchedPlaced
  <2>2. LocationOf(i) \in PoolRegs \cup Nat
    BY DEF Scanned, ScanInv, ScanTypes
  <2> QED BY <2>1, <2>2, PoolRegsPhysical, PoolAssumption
<1>5. \A r \in DOMAIN Places : Places[r] \in Location
  BY <1>1, <1>3
<1>6. Places = [r \in DOMAIN Places |-> Places[r]]
  BY DEF Places
<1>7. Places \in [DOMAIN Places -> Location]
  BY <1>5, <1>6
<1> QED BY <1>1, <1>4, <1>7

\* Two registers both touched around one position have different places.
LEMMA PlacedApart ==
  ASSUME NEW g, Scanned(g), ~Placing, NEW r \in Reg, NEW s \in Reg, r # s,
         TouchedBy(g, r) # {}, TouchedBy(g, s) # {}, NEW x \in Nat,
         Span(g, r).start <= x, x <= Span(g, r).end, Span(g, s).start <= x, x <= Span(g, s).end
  PROVE  location[r] # location[s]
<1>1. PICK i \in Placed : intervals[i] = Span(g, r) /\ location[r] = LocationOf(i)
  BY TouchedPlaced
<1>2. PICK j \in Placed : intervals[j] = Span(g, s) /\ location[s] = LocationOf(j)
  BY TouchedPlaced
<1>3. i # j /\ i \in Nat /\ j \in Nat
  <2>1. intervals[i].register = r /\ intervals[j].register = s
    BY <1>1, <1>2, SpanFacts DEF Scanned
  <2>2. next \in Nat
    BY DEF Scanned, ScanInv, ScanTypes
  <2> QED BY <2>1, <2>2 DEF Placed
<1>4. /\ intervals[i].start \in Nat /\ intervals[i].end \in Nat
      /\ intervals[j].start \in Nat /\ intervals[j].end \in Nat
  BY <1>1, <1>2, SpanFacts DEF Scanned
<1>5. intervals[j].start <= intervals[i].end /\ intervals[i].start <= intervals[j].end
  BY <1>1, <1>2, <1>4
<1>6. \A k, l \in Placed :
        (k < l /\ intervals[l].start <= intervals[k].end) => LocationOf(k) # LocationOf(l)
  BY DEF Scanned, ScanInv, PlacesDisjoint, Placed
<1> QED BY <1>1, <1>2, <1>3, <1>5, <1>6

\* A value a call must preserve is where callees leave it.
LEMMA SurvivorPlaced ==
  ASSUME NEW g, Scanned(g), ~Placing, NEW r \in Reg, TouchedBy(g, r) # {}, r \in SurvivingCalls(g)
  PROVE  location[r] \notin CallerSaved
<1>1. PICK i \in Placed : intervals[i] = Span(g, r) /\ location[r] = LocationOf(i)
  BY TouchedPlaced
<1>2. intervals[i].register \in surviving
  BY <1>1, SpanFacts DEF Scanned
<1>3. LocationOf(i) \in Nat \/ LocationOf(i) \in CalleeSaved
  BY <1>2 DEF Scanned, SurvivorsKept, Placed
<1> QED BY <1>1, <1>3, PoolRegsPhysical, BackendAssumption

\* Where a register is live it is within its span.
LEMMA LiveSpan ==
  ASSUME NEW g, IsFunction(g), NEW p \in Points(g), NEW r \in LiveBefore(g)[p]
  PROVE  /\ r \in Reg /\ TouchedBy(g, r) # {}
         /\ Span(g, r).start <= Position(g, p) /\ Position(g, p) <= Span(g, r).end
<1>1. /\ r \in Reg
      /\ \E a \in TouchedBy(g, r) : Position(g, a) <= Position(g, p)
      /\ \E c \in TouchedBy(g, r) : Position(g, p) <= Position(g, c)
  BY LifeTouched
<1>2. PICK a \in TouchedBy(g, r) : Position(g, a) <= Position(g, p)
  BY <1>1
<1>3. PICK c \in TouchedBy(g, r) : Position(g, p) <= Position(g, c)
  BY <1>1
<1>4. a \in Points(g) /\ c \in Points(g)
  BY DEF TouchedBy, Touched
<1>5. Position(g, a) \in Nat /\ Position(g, c) \in Nat /\ Position(g, p) \in Nat
  BY <1>4, PositionsAscend
<1>6. /\ Span(g, r).start <= Position(g, a) /\ Position(g, c) <= Span(g, r).end
      /\ Span(g, r).start \in Nat /\ Span(g, r).end \in Nat
  BY <1>1, SpanFacts
<1> QED BY <1>1, <1>2, <1>3, <1>5, <1>6

\* The map of the finished scan fits: no two registers share a place where one is
\* written and the other still needed, and none is kept across a call where callees
\* overwrite it.
LEMMA PlacesFit ==
  ASSUME NEW g, Ready(g), Scanned(g), ~Placing
  PROVE  Fits(g, Places)
<1>1. IsFunction(g)
  BY DEF Ready
<1> DEFINE entry == <<g.entry, 1>>
<1>2. /\ Places \in [DOMAIN Places -> Location] /\ DOMAIN Places \subseteq Reg
      /\ \A r \in DOMAIN Places : Places[r] = location[r]
      /\ \A r \in Reg : TouchedBy(g, r) # {} => r \in DOMAIN Places
  BY PlaceTypes
<1>3. entry \in Points(g) /\ Params(g) \subseteq Reg
  BY <1>1, EntryIsPoint DEF IsFunction, Params
<1>4. ASSUME NEW r \in Params(g) PROVE r \in Reg /\ entry \in TouchedBy(g, r) /\ r \in DOMAIN Places
  <2>1. r \in Reg /\ entry \in TouchedBy(g, r)
    BY <1>3 DEF TouchedBy, Touched
  <2> QED BY <1>2, <2>1
<1>5. ASSUME NEW p \in Points(g), NEW r \in ReadsAt(g, p) \cup DefinesAt(g, p)
      PROVE  r \in Reg /\ p \in TouchedBy(g, r) /\ r \in DOMAIN Places
  <2>1. r \in Reg /\ p \in TouchedBy(g, r)
    BY <1>1, PointsFlow DEF TouchedBy, Touched
  <2> QED BY <1>2, <2>1
<1>6. Occurring(g) \subseteq DOMAIN Places
  BY <1>4, <1>5 DEF Occurring
<1>7. ASSUME NEW r \in Params(g), NEW s \in Params(g), r # s PROVE Places[r] # Places[s]
  <2>1. /\ r \in Reg /\ s \in Reg /\ r \in DOMAIN Places /\ s \in DOMAIN Places
        /\ entry \in TouchedBy(g, r) /\ entry \in TouchedBy(g, s)
    BY <1>4
  <2> DEFINE x == Position(g, entry)
  <2>2. x \in Nat
    BY <1>1, <1>3, PositionsAscend
  <2>3. Span(g, r).start <= x /\ x <= Span(g, r).end /\ Span(g, s).start <= x /\ x <= Span(g, s).end
    BY <1>1, <2>1, SpanFacts
  <2> HIDE DEF x
  <2>4. location[r] # location[s]
    BY <1>7, <2>1, <2>2, <2>3, PlacedApart
  <2> QED BY <1>2, <2>1, <2>4
<1>8. ASSUME HasCalls(g), NEW r \in LiveBefore(g)[entry] PROVE Places[r] \notin CallerSaved
  <2>1. r \in Params(g)
    BY DEF Ready, DefinitelyAssigned
  <2>2. r \in Reg /\ TouchedBy(g, r) # {} /\ r \in DOMAIN Places /\ r \in SurvivingCalls(g)
    BY <1>1, <1>4, <1>8, <2>1, Survivors
  <2> QED BY <1>2, <2>2, SurvivorPlaced
<1>9. ASSUME NEW p \in Points(g), NEW r \in LiveAfter(g)[p] \ DefinesAt(g, p)
      PROVE  /\ r \in Reg /\ TouchedBy(g, r) # {} /\ r \in DOMAIN Places
             /\ Span(g, r).start <= Position(g, p) /\ Position(g, p) <= Span(g, r).end
  <2>1. r \in LiveBefore(g)[p]
    BY <1>1, LiveEquations
  <2>2. /\ r \in Reg /\ TouchedBy(g, r) # {}
        /\ Span(g, r).start <= Position(g, p) /\ Position(g, p) <= Span(g, r).end
    BY <1>1, <2>1, LiveSpan
  <2> QED BY <1>2, <2>2
<1>10. ASSUME NEW p \in Points(g), NEW d \in DefinesAt(g, p), NEW r \in LiveAfter(g)[p] \ DefinesAt(g, p)
      PROVE  Places[r] # Places[d]
  <2>1. d \in Reg /\ p \in TouchedBy(g, d) /\ d \in DOMAIN Places
    BY <1>5
  <2> DEFINE x == Position(g, p)
  <2>2. x \in Nat
    BY <1>1, PositionsAscend
  <2>3. Span(g, d).start <= x /\ x <= Span(g, d).end
    BY <1>1, <2>1, SpanFacts
  <2>4. /\ r \in Reg /\ TouchedBy(g, r) # {} /\ r \in DOMAIN Places
        /\ Span(g, r).start <= x /\ x <= Span(g, r).end
    BY <1>9
  <2> HIDE DEF x
  <2>5. r # d
    OBVIOUS
  <2>6. location[r] # location[d]
    BY <2>1, <2>2, <2>3, <2>4, <2>5, PlacedApart
  <2> QED BY <1>2, <2>1, <2>4, <2>6
<1>11. ASSUME NEW p \in CallPoints(g), NEW r \in LiveAfter(g)[p] \ DefinesAt(g, p)
       PROVE  Places[r] \notin CallerSaved
  <2>1. p \in Points(g)
    BY DEF CallPoints
  <2>2. r \in Reg /\ TouchedBy(g, r) # {} /\ r \in DOMAIN Places
    BY <1>9, <2>1
  <2>3. r \in SurvivingCalls(g)
    BY <1>1, Survivors
  <2> QED BY <1>2, <2>2, <2>3, SurvivorPlaced
<1> QED BY <1>2, <1>6, <1>7, <1>8, <1>10, <1>11 DEF Fits

---------------------------------------------------------------------------
(***************************************************************************)
(* The back end as a whole.                                                *)
(***************************************************************************)
\* What lowering gives the back end: code the collector's roots can be put in.
Admitted == SlotsSuffice /\ \A f \in Sources : Rootable(f)

\* The scan and the code generator are at work on g.
Compiles(g) ==
  /\ program = Annotated(g, Places)
  /\ intervals = IntervalsOf(g) /\ surviving = SurvivingCalls(g)

\* Nothing has run yet.
AtStart ==
  /\ at = <<fn.entry, 1>>
  /\ held = [l \in Location |-> held[l]]
  /\ slots = [s \in Slot |-> slots[s]]
  /\ truth = [r \in Reg |-> truth[r]]

\* The scan has kept its promises so far, on one prepared function.
ScanGood ==
  /\ ScanInv /\ SurvivorsKept
  /\ \E g \in Prepared : Compiles(g)

\* Running starts when the scan has finished, and then on code fit to run: what is
\* needed beside the two components' own invariants to pass from one to the other.
BackendInv ==
  /\ ScanGood
  /\ Placing => pc = "entry"
  /\ pc = "entry" => AtStart
  /\ ~Placing => RunInv

\* The finished scan leaves code fit to run.
LEMMA PlacedJustified == (Admitted /\ ScanGood /\ ~Placing) => Justified(program)
<1> SUFFICES ASSUME Admitted, ScanGood, ~Placing PROVE Justified(program)
  OBVIOUS
<1>1. PICK g \in Prepared : Compiles(g)
  BY DEF ScanGood
<1>2. Ready(g)
  BY PreparedReady DEF Admitted
<1>3. Scanned(g)
  BY <1>1, <1>2 DEF Scanned, ScanGood, Compiles, Ready
<1>4. Fits(g, Places)
  BY <1>2, <1>3, PlacesFit
<1>5. Justified(Annotated(g, Places))
  BY <1>2, <1>4, ReadyJustified
<1> QED BY <1>1, <1>5 DEF Compiles

\* Code fit to run starts right.
LEMMA EntryRuns == (Justified(program) /\ pc = "entry" /\ AtStart) => RunInv
<1> SUFFICES ASSUME Justified(program), pc = "entry", AtStart PROVE RunInv
  OBVIOUS
<1>1. IsFunction(fn)
  BY DEF Justified, fn
<1>2. at \in Points(fn)
  BY <1>1, EntryIsPoint DEF AtStart
<1> QED BY <1>2 DEF RunInv, AtStart

\* The back end starts right, also on a function without registers.
LEMMA BackendInvInit ==
  ASSUME Admitted, BackendInit
  PROVE  BackendInv
<1>1. PICK g \in Prepared :
        /\ StartsWith([intervals |-> IntervalsOf(g), surviving |-> SurvivingCalls(g)])
        /\ program = Annotated(g, Places)
  BY DEF BackendInit
<1>2. Ready(g)
  BY PreparedReady DEF Admitted
<1>3. IsInput([intervals |-> IntervalsOf(g), surviving |-> SurvivingCalls(g)])
  BY <1>2, IntervalsAreInput DEF Ready
<1>4. ScanInv /\ SurvivorsKept
  BY <1>1, <1>3, StartInv
<1>5. Compiles(g)
  BY <1>1 DEF Compiles, StartsWith
<1>6. ScanGood
  BY <1>4, <1>5 DEF ScanGood
<1>7. pc = "entry" /\ AtStart
  BY DEF BackendInit, AtStart
<1>8. ~Placing => RunInv
  BY <1>6, <1>7, PlacedJustified, EntryRuns
<1> QED BY <1>6, <1>7, <1>8 DEF BackendInv

\* A placing step keeps the scan right, and the last one hands over code fit to run.
LEMMA AllocateInv ==
  ASSUME Admitted, BackendInv, Allocate
  PROVE  BackendInv'
<1>1. PlaceCurrent
  BY DEF Allocate, PlaceCurrent
<1>2. ScanInv' /\ SurvivorsKept'
  BY <1>1, ScanInvNext, SurvivorsNext DEF BackendInv, ScanGood
<1>3. PICK g \in Prepared : Compiles(g)
  BY DEF BackendInv, ScanGood
<1>4. program' = Annotated(g, Places') /\ fn' = fn
  BY <1>3 DEF Allocate, Compiles, Annotated, fn
<1>5. intervals' = intervals /\ surviving' = surviving
  BY <1>1 DEF PlaceCurrent, TakeFree, SpillCurrent, Evict
<1>6. Compiles(g)'
  BY <1>3, <1>4, <1>5 DEF Compiles
<1>7. ScanGood'
  BY <1>2, <1>6 DEF ScanGood
<1>8. pc = "entry" /\ AtStart
  BY <1>1 DEF BackendInv, PlaceCurrent, TakeFree, SpillCurrent, Evict
<1>9. pc' = "entry" /\ AtStart'
  BY <1>4, <1>8 DEF AtStart, Allocate
<1>10. ~Placing' => Justified(program)'
  <2>1. (Admitted /\ ScanGood /\ ~Placing)' => Justified(program)'
    BY PlacedJustified, PTL
  <2>2. Admitted'
    BY DEF Admitted, SlotsSuffice
  <2> QED BY <1>7, <2>1, <2>2
<1>11. (Justified(program) /\ pc = "entry" /\ AtStart)' => RunInv'
  BY EntryRuns, PTL
<1>12. ~Placing' => RunInv'
  BY <1>9, <1>10, <1>11
<1> QED BY <1>7, <1>9, <1>12 DEF BackendInv

\* Running code is not changed, and enters once.
LEMMA NextKeepsProgram ==
  ASSUME Next
  PROVE  program' = program /\ pc' # "entry"
BY DEF Next, Enter, Compute, Copy, Store, RootSave, RootReload, Call, Branch, Return, Returned,
       Running, Advance, vars

\* What the scan left stays as it is.
LEMMA ScanStillGood ==
  ASSUME ScanGood, UNCHANGED scanVars, program' = program
  PROVE  ScanGood'
<1>1. ScanInv' /\ SurvivorsKept'
  BY ScanInvNext, SurvivorsNext DEF ScanGood
<1>2. PICK g \in Prepared : Compiles(g)
  BY DEF ScanGood
<1>3. Places' = Places
  BY DEF scanVars, Places
<1>4. Compiles(g)'
  BY <1>2, <1>3 DEF Compiles, scanVars
<1> QED BY <1>1, <1>4 DEF ScanGood

\* Running keeps values current.
LEMMA ExecuteInv ==
  ASSUME BackendInv, Execute
  PROVE  BackendInv'
<1>1. ~Placing /\ UNCHANGED scanVars /\ Next
  BY DEF Execute
<1>2. program' = program /\ pc' # "entry"
  BY <1>1, NextKeepsProgram
<1>3. ScanGood'
  BY <1>1, <1>2, ScanStillGood DEF BackendInv
<1>4. RunInv'
  BY <1>1, NextInv DEF BackendInv
<1>5. ~Placing'
  BY <1>1 DEF Placing, scanVars
<1> QED BY <1>2, <1>3, <1>4, <1>5 DEF BackendInv

\* A step that changes nothing.
LEMMA BackendStutter ==
  ASSUME BackendInv, UNCHANGED <<scanVars, vars>>
  PROVE  BackendInv'
<1>1. UNCHANGED scanVars /\ UNCHANGED vars
  OBVIOUS
<1>2. ScanGood'
  BY <1>1, ScanStillGood DEF BackendInv, vars
<1>3. ~Placing => RunInv'
  BY <1>1, NextInv DEF BackendInv
<1>4. (Placing' <=> Placing) /\ pc' = pc
  BY <1>1 DEF Placing, scanVars, vars
<1>5. AtStart => AtStart'
  BY <1>1 DEF AtStart, vars, fn
<1> QED BY <1>2, <1>3, <1>4, <1>5 DEF BackendInv

\* Every step of the back end keeps BackendInv.
LEMMA BackendInvNext ==
  ASSUME Admitted, BackendInv, [BackendNext]_<<scanVars, vars>>
  PROVE  BackendInv'
BY AllocateInv, ExecuteInv, BackendStutter DEF BackendNext

\* BackendInv holds always.
LEMMA BackendInvHolds ==
  ASSUME Admitted
  PROVE  BackendSpec => []BackendInv
<1>1. BackendInit => BackendInv
  BY BackendInvInit
<1>2. BackendInv /\ [BackendNext]_<<scanVars, vars>> => BackendInv'
  BY BackendInvNext
<1> QED BY <1>1, <1>2, PTL DEF BackendSpec

\* The intervals of prepared code cover it.
LEMMA LivesCovered ==
  ASSUME Admitted, BackendInv
  PROVE  IntervalsCoverLife
<1>1. PICK g \in Prepared : Compiles(g)
  BY DEF BackendInv, ScanGood
<1>2. IsFunction(g)
  BY PreparedReady DEF Admitted, Ready
<1>3. fn = g /\ intervals = IntervalsOf(g)
  BY <1>1 DEF Compiles, Annotated, fn
<1>4. IsInput([intervals |-> intervals, surviving |-> surviving])
  BY DEF BackendInv, ScanGood, ScanInv, ScanTypes
<1>5. ASSUME NEW p \in Points(g), NEW r \in LiveBefore(g)[p]
      PROVE  \E i \in DOMAIN intervals :
               /\ intervals[i].register = r
               /\ intervals[i].start <= Position(g, p) /\ Position(g, p) <= intervals[i].end
  <2>1. /\ r \in Reg /\ TouchedBy(g, r) # {}
        /\ Span(g, r).start <= Position(g, p) /\ Position(g, p) <= Span(g, r).end
    BY <1>2, LiveSpan
  <2>2. Span(g, r) \in Spans(g) /\ Span(g, r).register = r
    BY <1>2, <2>1, SpanFacts DEF Spans
  <2>3. PICK i \in DOMAIN IntervalsOf(g) : IntervalsOf(g)[i] = Span(g, r)
    BY <1>2, <2>2, IntervalsAreInput
  <2> QED BY <1>3, <2>1, <2>2, <2>3
<1> QED BY <1>3, <1>4, <1>5 DEF IntervalsCoverLife

\* No reference's register is live across a call of prepared code.
LEMMA ReloadsPrecedeReads ==
  ASSUME Admitted, BackendInv
  PROVE  RefsReloadedAfterCalls
<1>1. PICK g \in Prepared : Compiles(g)
  BY DEF BackendInv, ScanGood
<1>2. Ready(g) /\ IsFunction(g)
  BY PreparedReady DEF Admitted, Ready
<1>3. fn = g
  BY <1>1 DEF Compiles, Annotated, fn
<1>4. ASSUME NEW p \in CallPoints(g)
      PROVE  LiveAcrossCalls(g, LiveOut(g))[p] \cap RefRegs = {}
  BY <1>2, AcrossExact DEF Ready
<1> QED BY <1>3, <1>4 DEF RefsReloadedAfterCalls

\* gc_roots.rs, the sweep of dead copies, liveness and linear scan together: whatever
\* the lowered function, the finished allocation meets every condition under which
\* code reads current values.
THEOREM AllocationIsJustified ==
  ASSUME SlotsSuffice, \A f \in Sources : Rootable(f)
  PROVE  BackendSpec => []AllocationJustified
<1>1. BackendSpec => []BackendInv
  BY BackendInvHolds DEF Admitted
<1>2. BackendInv => AllocationJustified
  BY DEF BackendInv, RunInv, AllocationJustified
<1> QED BY <1>1, <1>2, PTL

\* Whatever the lowered function, the callees and the collector do: an instruction of
\* the allocated code that reads a register finds in its place the value the program
\* put there, and a reference is the object's present address.
THEOREM CompiledCodeReadsCurrent ==
  ASSUME SlotsSuffice, \A f \in Sources : Rootable(f)
  PROVE  BackendSpec => []ReadsCurrent
<1>1. BackendSpec => []BackendInv
  BY BackendInvHolds DEF Admitted
<1>2. BackendInv => ReadsCurrent
  <2> SUFFICES ASSUME BackendInv PROVE ReadsCurrent
    OBVIOUS
  <2>1. Placing => ReadsCurrent
    BY DEF BackendInv, ReadsCurrent
  <2>2. ~Placing => ReadsCurrent
    BY RunInvReads DEF BackendInv
  <2> QED BY <2>1, <2>2
<1> QED BY <1>1, <1>2, PTL

\* live_intervals.rs gives the scan what it assumes, and the interval of a register
\* covers every position it is live at, round loops and over any layout of blocks.
THEOREM IntervalsCoverEveryLife ==
  ASSUME SlotsSuffice, \A f \in Sources : Rootable(f)
  PROVE  BackendSpec => []IntervalsCoverLife
<1>1. BackendSpec => []BackendInv
  BY BackendInvHolds DEF Admitted
<1>2. BackendInv => IntervalsCoverLife
  BY LivesCovered DEF Admitted
<1> QED BY <1>1, <1>2, PTL

\* Once the roots are in and the dead copies out, no reference is read after a call
\* from the register it was in before it.
THEOREM NoRefIsReadAcrossACall ==
  ASSUME SlotsSuffice, \A f \in Sources : Rootable(f)
  PROVE  BackendSpec => []RefsReloadedAfterCalls
<1>1. BackendSpec => []BackendInv
  BY BackendInvHolds DEF Admitted
<1>2. BackendInv => RefsReloadedAfterCalls
  BY ReloadsPrecedeReads DEF Admitted
<1> QED BY <1>1, <1>2, PTL

\* allocation.rs on the intervals of every prepared function: registers that are live
\* together have different places, spill slots are not shared, and what calls must
\* preserve is not left where callees overwrite it.
THEOREM CompiledCodePlacedApart ==
  ASSUME SlotsSuffice, \A f \in Sources : Rootable(f)
  PROVE  BackendSpec => [](PlacesDisjoint /\ SpillsDistinct /\ SurvivorsKept)
<1>1. BackendSpec => []BackendInv
  BY BackendInvHolds DEF Admitted
<1>2. BackendInv => PlacesDisjoint /\ SpillsDistinct /\ SurvivorsKept
  BY DEF BackendInv, ScanGood, ScanInv
<1> QED BY <1>1, <1>2, PTL
===============================================================================
