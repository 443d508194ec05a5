------------------------------- MODULE IrProofs -------------------------------
(***************************************************************************)
(* What liveness by paths means: of all the sets that hold the points      *)
(* reading a register and are closed backwards over points that do not     *)
(* write it, LiveWithin is the least.                                      *)
(***************************************************************************)
EXTENDS GcRoots, Induction

LEMMA FunctionTypes ==
  ASSUME NEW f, IsFunction(f)
  PROVE  /\ DOMAIN f.blocks = 1 .. Len(f.blocks) /\ Len(f.blocks) \in Nat
         /\ f.entry \in DOMAIN f.blocks
         /\ \A b \in DOMAIN f.blocks :
              /\ f.blocks[b].next \subseteq DOMAIN f.blocks
              /\ f.blocks[b].reads \subseteq Reg
              /\ f.blocks[b].code \in Seq(Instruction)
              /\ DOMAIN f.blocks[b].code = 1 .. Len(f.blocks[b].code)
              /\ Len(f.blocks[b].code) \in Nat
              /\ LastIndex(f, b) = Len(f.blocks[b].code) + 1
              /\ \A k \in DOMAIN f.blocks[b].code :
                   /\ f.blocks[b].code[k].reads \subseteq Reg
                   /\ f.blocks[b].code[k].dst \in Reg \cup {NoReg}
<1>1. f.blocks \in Seq(Block)
  BY DEF IsFunction
<1>2. \A b \in DOMAIN f.blocks : f.blocks[b] \in Block
  BY <1>1
<1>3. \A b \in DOMAIN f.blocks :
        f.blocks[b].code \in Seq(Instruction) /\ f.blocks[b].reads \subseteq Reg
  BY <1>2 DEF Block
<1>4. \A b \in DOMAIN f.blocks :
        /\ DOMAIN f.blocks[b].code = 1 .. Len(f.blocks[b].code)
        /\ Len(f.blocks[b].code) \in Nat
        /\ \A k \in DOMAIN f.blocks[b].code : f.blocks[b].code[k] \in Instruction
  BY <1>3
<1>5. \A i \in Instruction : i.reads \subseteq Reg /\ i.dst \in Reg \cup {NoReg}
  BY DEF Instruction
<1>6. DOMAIN f.blocks = 1 .. Len(f.blocks) /\ Len(f.blocks) \in Nat
  BY <1>1
<1> QED BY <1>3, <1>4, <1>5, <1>6 DEF IsFunction, LastIndex

\* Points are pairs of a block and a place in it, the terminator's last.
LEMMA PointShape ==
  ASSUME NEW f, IsFunction(f)
  PROVE  /\ \A b, k : <<b, k>> \in Points(f) <=> b \in DOMAIN f.blocks /\ k \in 1 .. LastIndex(f, b)
         /\ \A p \in Points(f) :
              p = <<p[1], p[2]>> /\ p[1] \in DOMAIN f.blocks /\ p[2] \in 1 .. LastIndex(f, p[1])
BY DEF Points

\* Control stays among the points, and registers among the registers.
LEMMA PointsFlow ==
  ASSUME NEW f, IsFunction(f), NEW p \in Points(f)
  PROVE  /\ NextPoints(f, p) \subseteq Points(f)
         /\ ReadsAt(f, p) \subseteq Reg /\ DefinesAt(f, p) \subseteq Reg
<1> DEFINE b == p[1]
           k == p[2]
<1>1. b \in DOMAIN f.blocks /\ k \in 1 .. LastIndex(f, b)
  BY PointShape
<1>2. Len(f.blocks[b].code) \in Nat /\ LastIndex(f, b) = Len(f.blocks[b].code) + 1
  BY <1>1, FunctionTypes
<1>3. CASE k = LastIndex(f, b)
  <2>1. NextPoints(f, p) = {<<s, 1>> : s \in f.blocks[b].next}
    BY <1>3 DEF NextPoints, IsTerminator
  <2>2. \A s \in f.blocks[b].next : <<s, 1>> \in Points(f)
    <3> TAKE s \in f.blocks[b].next
    <3>1. s \in DOMAIN f.blocks
      BY <1>1, FunctionTypes
    <3>2. 1 \in 1 .. LastIndex(f, s)
      BY <3>1, FunctionTypes
    <3> QED BY <3>1, <3>2, PointShape
  <2>3. ReadsAt(f, p) \subseteq Reg /\ DefinesAt(f, p) \subseteq Reg
    BY <1>1, <1>3, FunctionTypes DEF ReadsAt, DefinesAt, IsTerminator
  <2> QED BY <2>1, <2>2, <2>3
<1>4. CASE k # LastIndex(f, b)
  <2>1. NextPoints(f, p) = {<<b, k + 1>>}
    BY <1>4 DEF NextPoints, IsTerminator
  <2>2. k \in 1 .. Len(f.blocks[b].code) /\ k + 1 \in 1 .. LastIndex(f, b)
    BY <1>1, <1>2, <1>4
  <2>3. <<b, k + 1>> \in Points(f)
    BY <1>1, <2>2, PointShape
  <2>4. k \in DOMAIN f.blocks[b].code
    BY <1>1, <2>2, FunctionTypes
  <2>5. InstructionAt(f, p).reads \subseteq Reg /\ InstructionAt(f, p).dst \in Reg \cup {NoReg}
    BY <1>1, <2>4, FunctionTypes DEF InstructionAt
  <2> QED BY <1>4, <2>1, <2>3, <2>5 DEF ReadsAt, DefinesAt, IsTerminator, Defines
<1> QED BY <1>3, <1>4

\* There are finitely many points.
LEMMA PointsFinite ==
  ASSUME NEW f, IsFunction(f)
  PROVE  IsFiniteSet(Points(f)) /\ Cardinality(Points(f)) \in Nat
<1> DEFINE row == [b \in DOMAIN f.blocks |-> {<<b, k>> : k \in 1 .. LastIndex(f, b)}]
           Rows == {row[b] : b \in DOMAIN f.blocks}
<1>1. ASSUME NEW b \in DOMAIN f.blocks PROVE IsFiniteSet(row[b])
  <2>1. LastIndex(f, b) \in Int /\ 1 \in Int
    BY FunctionTypes
  <2>2. IsFiniteSet(1 .. LastIndex(f, b))
    BY <2>1, FS_Interval
  <2>3. IsFiniteSet({b})
    BY FS_Singleton
  <2>4. IsFiniteSet({b} \X (1 .. LastIndex(f, b)))
    BY <2>2, <2>3, FS_Product
  <2>5. row[b] \in SUBSET ({b} \X (1 .. LastIndex(f, b)))
    OBVIOUS
  <2> QED BY <2>4, <2>5, FS_Subset
<1>2. IsFiniteSet(Rows)
  <2>1. row \in Surjection(DOMAIN f.blocks, Rows)
    BY DEF Surjection
  <2>2. Len(f.blocks) \in Int /\ 1 \in Int /\ DOMAIN f.blocks = 1 .. Len(f.blocks)
    BY FunctionTypes
  <2>3. IsFiniteSet(DOMAIN f.blocks)
    BY <2>2, FS_Interval
  <2> HIDE DEF row, Rows
  <2> QED BY <2>1, <2>3, FS_Surjection
<1>3. \A T \in Rows : IsFiniteSet(T)
  BY <1>1
<1>4. Points(f) = UNION Rows
  BY DEF Points
<1> HIDE DEF Rows
<1>5. IsFiniteSet(Points(f))
  BY <1>2, <1>3, <1>4, FS_UNION
<1> QED BY <1>5, FS_CardinalityType

---------------------------------------------------------------------------
ReadingPoints(f, r) == {p \in Points(f) : r \in ReadsAt(f, p)}

\* The points that r is live before when it is live before those of S.
Back(f, r, S) ==
  {p \in Points(f) : r \notin DefinesAt(f, p) /\ NextPoints(f, p) \cap S # {}}

\* LiveWithin is the least set that holds the reading points and is closed
\* backwards: the iteration goes on for long enough.
LEMMA LiveWithinLeast ==
  ASSUME NEW f, IsFunction(f), NEW r
  PROVE  /\ LiveWithin(f, r) \subseteq Points(f)
         /\ ReadingPoints(f, r) \subseteq LiveWithin(f, r)
         /\ Back(f, r, LiveWithin(f, r)) \subseteq LiveWithin(f, r)
         /\ \A X : ReadingPoints(f, r) \subseteq X /\ Back(f, r, X) \subseteq X
                     => LiveWithin(f, r) \subseteq X
<1> DEFINE P == Points(f)
           N == Cardinality(P)
           keeping == UNION {{p} \X NextPoints(f, p) : p \in {p \in P : r \notin DefinesAt(f, p)}}
           E == {<<e[2], e[1]>> : e \in keeping}
           start == ReadingPoints(f, r)
           L == LiveWithin(f, r)
           Iteration(g) == [n \in 0 .. N |-> IF n = 0 THEN start
                                             ELSE g[n - 1] \cup {e[1] : e \in {e \in keeping : e[2] \in g[n - 1]}}]
           live == CHOOSE g : g = Iteration(g)
<1>1. L = live[N]
  BY DEF LiveWithin, ReadingPoints
<1>2. IsFiniteSet(P) /\ N \in Nat /\ N = Cardinality(P) /\ start \in SUBSET P
  BY PointsFinite DEF ReadingPoints
<1>3. /\ \A e \in keeping : /\ e = <<e[1], e[2]>> /\ e[1] \in P /\ e[2] \in P
                            /\ r \notin DefinesAt(f, e[1]) /\ e[2] \in NextPoints(f, e[1])
      /\ \A p \in P : r \notin DefinesAt(f, p) => \A q \in NextPoints(f, p) : <<p, q>> \in keeping
  BY PointsFlow
<1>4. E \in SUBSET (P \X P)
  <2> HIDE DEF keeping, P
  <2> QED BY <1>3
<1>5. \A S : {e[1] : e \in {e \in keeping : e[2] \in S}} = {e[2] : e \in {e \in E : e[1] \in S}}
  <2> HIDE DEF keeping
  <2> TAKE S
  <2>1. ASSUME NEW e \in keeping, e[2] \in S PROVE \E d \in E : d[1] \in S /\ d[2] = e[1]
    <3>1. <<e[2], e[1]>> \in E
      OBVIOUS
    <3> HIDE DEF E
    <3> QED BY <2>1, <3>1
  <2>2. ASSUME NEW d \in E, d[1] \in S PROVE \E e \in keeping : e[2] \in S /\ e[1] = d[2]
    BY <2>2
  <2> HIDE DEF E
  <2> QED BY <2>1, <2>2
<1> HIDE DEF P, N, start, L
<1>6. \A g : Spreads(start, E, N, g) <=> g = Iteration(g)
  <2> HIDE DEF keeping, E
  <2> QED BY <1>5 DEF Spreads
<1>7. Spreads(start, E, N, live)
  <2>1. \E g : Spreads(start, E, N, g)
    BY <1>2, <1>4, SpreadExists
  <2>2. \E g : g = Iteration(g)
    BY <1>6, <2>1
  <2> HIDE DEF Iteration
  <2>3. live = Iteration(live)
    BY <2>2, Zenon
  <2> QED BY <1>6, <2>3
<1> HIDE DEF live, keeping, E
<1>8. /\ live[N] \subseteq P /\ start \subseteq live[N]
      /\ \A e \in E : e[1] \in live[N] => e[2] \in live[N]
      /\ \A X : (start \subseteq X /\ \A e \in E : e[1] \in X => e[2] \in X) => live[N] \subseteq X
  <2>1. LeastClosed(P, start, E, live[N])
    BY <1>2, <1>4, <1>7, SpreadLeast
  <2> QED BY <2>1 DEF LeastClosed
<1>9. ASSUME NEW X PROVE Back(f, r, X) \subseteq X <=> \A e \in E : e[1] \in X => e[2] \in X
  <2>1. \A e \in E : <<e[2], e[1]>> \in keeping /\ e = <<e[1], e[2]>>
    BY <1>3 DEF E
  <2>2. \A e \in keeping : <<e[2], e[1]>> \in E
    BY DEF E
  <2>3. ASSUME Back(f, r, X) \subseteq X, NEW e \in E, e[1] \in X PROVE e[2] \in X
    <3>1. e[2] \in P /\ r \notin DefinesAt(f, e[2]) /\ e[1] \in NextPoints(f, e[2])
      BY <1>3, <2>1
    <3>2. e[2] \in Back(f, r, X)
      BY <2>3, <3>1 DEF Back, P
    <3> QED BY <2>3, <3>2
  <2>4. ASSUME \A e \in E : e[1] \in X => e[2] \in X, NEW p \in Back(f, r, X) PROVE p \in X
    <3>1. PICK q \in NextPoints(f, p) : q \in X /\ p \in P /\ r \notin DefinesAt(f, p)
      BY DEF Back, P
    <3>2. <<q, p>> \in E
      BY <1>3, <2>2, <3>1
    <3> QED BY <2>4, <3>1, <3>2
  <2> QED BY <2>3, <2>4
<1> QED BY <1>1, <1>8, <1>9 DEF P, L, start

---------------------------------------------------------------------------
LEMMA LiveBeforeWithin ==
  ASSUME NEW f, NEW p \in Points(f)
  PROVE  LiveBefore(f)[p] = {r \in Reg : p \in LiveWithin(f, r)}
BY DEF LiveBefore

\* Liveness before a point and after it satisfy the dataflow equations.
LEMMA LiveEquations ==
  ASSUME NEW f, IsFunction(f), NEW p \in Points(f)
  PROVE  /\ LiveBefore(f)[p] \subseteq Reg /\ LiveAfter(f)[p] \subseteq Reg
         /\ LiveAfter(f)[p] = UNION {LiveBefore(f)[q] : q \in NextPoints(f, p)}
         /\ LiveBefore(f)[p] = ReadsAt(f, p) \cup (LiveAfter(f)[p] \ DefinesAt(f, p))
<1>1. LiveAfter(f)[p] = UNION {LiveBefore(f)[q] : q \in NextPoints(f, p)}
  BY DEF LiveAfter
<1>2. \A q \in NextPoints(f, p) : LiveBefore(f)[q] = {r \in Reg : q \in LiveWithin(f, r)}
  BY LiveBeforeWithin, PointsFlow
<1>3. LiveBefore(f)[p] \subseteq Reg /\ LiveAfter(f)[p] \subseteq Reg
  BY <1>1, <1>2, LiveBeforeWithin
<1>4. ASSUME NEW r \in ReadsAt(f, p) PROVE r \in LiveBefore(f)[p]
  <2>1. r \in Reg
    BY PointsFlow
  <2>2. p \in ReadingPoints(f, r)
    BY DEF ReadingPoints
  <2>3. p \in LiveWithin(f, r)
    BY <2>2, LiveWithinLeast
  <2> QED BY <2>1, <2>3, LiveBeforeWithin
<1>5. ASSUME NEW r \in LiveAfter(f)[p], r \notin DefinesAt(f, p) PROVE r \in LiveBefore(f)[p]
  <2>1. PICK q \in NextPoints(f, p) : r \in Reg /\ q \in LiveWithin(f, r)
    BY <1>1, <1>2
  <2>2. p \in Back(f, r, LiveWithin(f, r))
    BY <1>5, <2>1 DEF Back
  <2>3. p \in LiveWithin(f, r)
    BY <2>2, LiveWithinLeast
  <2> QED BY <2>1, <2>3, LiveBeforeWithin
<1>6. ASSUME NEW r \in LiveBefore(f)[p], r \notin ReadsAt(f, p)
      PROVE  r \in LiveAfter(f)[p] /\ r \notin DefinesAt(f, p)
  <2> DEFINE L == LiveWithin(f, r)
             X == ReadingPoints(f, r) \cup Back(f, r, L)
  <2>1. r \in Reg /\ p \in L
    BY LiveBeforeWithin
  <2>2. X \subseteq L
    BY LiveWithinLeast
  <2>3. Back(f, r, X) \subseteq X
    <3>1. Back(f, r, X) \subseteq Back(f, r, L)
      BY <2>2 DEF Back
    <3> QED BY <3>1
  <2>4. L \subseteq X
    <3> HIDE DEF L
    <3>1. ReadingPoints(f, r) \subseteq X
      OBVIOUS
    <3> HIDE DEF X
    <3> USE DEF L
    <3> QED BY <2>3, <3>1, LiveWithinLeast
  <2>5. p \in Back(f, r, L)
    BY <1>6, <2>1, <2>4 DEF ReadingPoints
  <2>6. PICK q \in NextPoints(f, p) : q \in L /\ r \notin DefinesAt(f, p)
    BY <2>5 DEF Back
  <2> QED BY <1>1, <1>2, <2>1, <2>6
<1> QED BY <1>1, <1>3, <1>4, <1>5, <1>6

\* Any claim of liveness that accounts for every read is at least the truth.
LEMMA LiveLeast ==
  ASSUME NEW f, IsFunction(f), NEW claim,
         \A p \in Points(f) :
           /\ ReadsAt(f, p) \subseteq claim[p]
           /\ \A q \in NextPoints(f, p) : (Reg \cap claim[q]) \ DefinesAt(f, p) \subseteq claim[p]
  PROVE  \A p \in Points(f) : LiveBefore(f)[p] \subseteq claim[p]
<1> SUFFICES ASSUME NEW p \in Points(f), NEW r \in LiveBefore(f)[p] PROVE r \in claim[p]
  OBVIOUS
<1> DEFINE X == {q \in Points(f) : r \in claim[q]}
<1>0. r \in Reg
  BY LiveBeforeWithin
<1>1. ReadingPoints(f, r) \subseteq X
  BY DEF ReadingPoints
<1>2. Back(f, r, X) \subseteq X
  <2> SUFFICES ASSUME NEW q \in Back(f, r, X) PROVE q \in X
    OBVIOUS
  <2>1. PICK s \in NextPoints(f, q) : q \in Points(f) /\ s \in X /\ r \notin DefinesAt(f, q)
    BY DEF Back
  <2> QED BY <1>0, <2>1
<1>3. LiveWithin(f, r) \subseteq X
  <2> HIDE DEF X
  <2> QED BY <1>1, <1>2, LiveWithinLeast
<1> QED BY <1>3, LiveBeforeWithin

\* A register live somewhere in a block is live at any earlier point after which
\* the block does not write it.
LEMMA LiveBackTo ==
  ASSUME NEW f, IsFunction(f), NEW b \in DOMAIN f.blocks,
         NEW low \in 1 .. LastIndex(f, b), NEW high \in 1 .. LastIndex(f, b), low <= high,
         NEW r \in LiveBefore(f)[<<b, high>>],
         \A j \in low .. high - 1 : r \notin DefinesAt(f, <<b, j>>)
  PROVE  r \in LiveBefore(f)[<<b, low>>]
<1>1. LastIndex(f, b) \in Nat /\ low \in Nat \ {0} /\ high \in Nat \ {0}
  BY FunctionTypes
<1> DEFINE S == {n \in Nat : n <= high - low => r \in LiveBefore(f)[<<b, high - n>>]}
<1>2. 0 \in S
  <2>1. high - 0 = high
    BY <1>1
  <2> QED BY <2>1
<1>3. ASSUME NEW n \in Nat, n \in S PROVE n + 1 \in S
  <2> SUFFICES ASSUME n + 1 <= high - low PROVE r \in LiveBefore(f)[<<b, high - (n + 1)>>]
    OBVIOUS
  <2> DEFINE i == high - (n + 1)
             p == <<b, i>>
  <2>1. /\ i \in 1 .. LastIndex(f, b) /\ i # LastIndex(f, b) /\ i + 1 = high - n
        /\ i \in low .. high - 1 /\ n <= high - low
    BY <1>1
  <2>2. p \in Points(f)
    BY <2>1, PointShape
  <2>3. NextPoints(f, p) = {<<b, high - n>>}
    BY <2>1 DEF NextPoints, IsTerminator
  <2>4. r \in LiveBefore(f)[<<b, high - n>>]
    BY <1>3, <2>1
  <2>5. r \notin DefinesAt(f, p)
    BY <2>1
  <2> QED BY <2>2, <2>3, <2>4, <2>5, LiveEquations
<1>4. Nat \subseteq S
  <2> HIDE DEF S
  <2> QED BY <1>2, <1>3, SetInduction
<1>5. high - low \in S /\ high - (high - low) = low /\ high - low <= high - low
  <2>1. high - low \in Nat /\ high - (high - low) = low /\ high - low <= high - low
    BY <1>1
  <2> HIDE DEF S
  <2> QED BY <1>4, <2>1
<1> QED BY <1>5

\* A register live somewhere in a block and not written before it there is live
\* at the start of the block.
LEMMA LiveThroughBlock ==
  ASSUME NEW f, IsFunction(f), NEW b \in DOMAIN f.blocks, NEW k \in 1 .. LastIndex(f, b),
         NEW r \in LiveBefore(f)[<<b, k>>],
         \A j \in DOMAIN f.blocks[b].code : j < k => r \notin Defines(f.blocks[b].code[j])
  PROVE  r \in LiveBefore(f)[<<b, 1>>]
<1>1. /\ LastIndex(f, b) \in Nat \ {0} /\ LastIndex(f, b) = Len(f.blocks[b].code) + 1
      /\ DOMAIN f.blocks[b].code = 1 .. Len(f.blocks[b].code) /\ Len(f.blocks[b].code) \in Nat
  BY FunctionTypes
<1>2. 1 \in 1 .. LastIndex(f, b) /\ 1 <= k
  BY <1>1
<1>3. ASSUME NEW j \in 1 .. k - 1 PROVE r \notin DefinesAt(f, <<b, j>>)
  <2>1. j \in DOMAIN f.blocks[b].code /\ j < k
    BY <1>1
  <2> QED BY <2>1 DEF DefinesAt, InstructionAt
<1> QED BY <1>2, <1>3, LiveBackTo

---------------------------------------------------------------------------
(***************************************************************************)
(* The walk back through a block.                                          *)
(***************************************************************************)
WalksBack(f, b, out, live) ==
  /\ live[LastIndex(f, b)] = out \cup f.blocks[b].reads
  /\ \A k \in DOMAIN f.blocks[b].code :
       live[k] = (live[k + 1] \ Defines(f.blocks[b].code[k])) \cup f.blocks[b].code[k].reads

LEMMA WalkBackEquations ==
  ASSUME NEW f, IsFunction(f), NEW b \in DOMAIN f.blocks, NEW out, out \subseteq Reg
  PROVE  WalksBack(f, b, out, WalkBack(f.blocks[b], out))
<1> DEFINE blk == f.blocks[b]
           M == Len(blk.code) + 1
           step == [e \in (1 .. M - 1) \X SUBSET Reg |->
                      (e[2] \ Defines(blk.code[e[1]])) \cup blk.code[e[1]].reads]
           last == LiveAtEnd(blk, out)
           From(g) == [k \in 1 .. M |-> IF k = M THEN last
                                        ELSE (g[k + 1] \ Defines(blk.code[k])) \cup blk.code[k].reads]
           live == CHOOSE g : g = From(g)
<1>1. /\ M \in Nat \ {0} /\ LastIndex(f, b) = M /\ DOMAIN blk.code = 1 .. M - 1
      /\ blk.reads \subseteq Reg
      /\ \A k \in 1 .. M - 1 : blk.code[k].reads \subseteq Reg
  BY FunctionTypes
<1>2. WalkBack(blk, out) = live
  BY DEF WalkBack
<1> HIDE DEF M, blk
<1>3. \A k \in 1 .. M - 1 : \A d \in SUBSET Reg :
        /\ step[<<k, d>>] = (d \ Defines(blk.code[k])) \cup blk.code[k].reads
        /\ step[<<k, d>>] \in SUBSET Reg
  BY <1>1
<1>4. last \in SUBSET Reg
  BY <1>1 DEF LiveAtEnd
<1> HIDE DEF step, last
<1>5. PICK g : CountsDown(SUBSET Reg, last, step, M, g)
  BY <1>1, <1>3, <1>4, CountdownExists
<1>6. \A k \in 1 .. M - 1 : k + 1 \in 1 .. M
  BY <1>1
<1>7. \A k \in 1 .. M - 1 : g[k] = (g[k + 1] \ Defines(blk.code[k])) \cup blk.code[k].reads
  <2> TAKE k \in 1 .. M - 1
  <2>1. g[k + 1] \in SUBSET Reg /\ g[k] = step[<<k, g[k + 1]>>]
    BY <1>5, <1>6 DEF CountsDown
  <2> QED BY <1>3, <2>1
<1>8. g = From(g)
  <2>1. \A k \in 1 .. M : k # M => k \in 1 .. M - 1
    BY <1>1
  <2> QED BY <1>5, <1>7, <2>1 DEF CountsDown
<1>9. live = From(live)
  <2> HIDE DEF From
  <2> QED BY <1>8, Zenon
<1> HIDE DEF live
<1>10. live[M] = last
  BY <1>1, <1>9
<1>11. \A k \in 1 .. M - 1 : live[k] = (live[k + 1] \ Defines(blk.code[k])) \cup blk.code[k].reads
  <2>1. \A k \in 1 .. M - 1 : k # M /\ k \in 1 .. M
    BY <1>1
  <2> QED BY <1>9, <2>1
<1> QED BY <1>1, <1>2, <1>10, <1>11 DEF blk, last, LiveAtEnd, WalksBack

\* Walked from what is live at the end of the block, it finds what is live everywhere.
LEMMA WalkBackExact ==
  ASSUME NEW f, IsFunction(f), NEW b \in DOMAIN f.blocks, NEW out,
         out = LiveAfter(f)[<<b, LastIndex(f, b)>>]
  PROVE  \A k \in 1 .. LastIndex(f, b) :
           WalkBack(f.blocks[b], out)[k] = LiveBefore(f)[<<b, k>>]
<1> DEFINE M == LastIndex(f, b)
           blk == f.blocks[b]
           S == {k \in 1 .. M : WalkBack(blk, out)[k] = LiveBefore(f)[<<b, k>>]}
<1>1. /\ M \in Nat \ {0} /\ DOMAIN blk.code = 1 .. M - 1
      /\ \A k \in 1 .. M : <<b, k>> \in Points(f)
  BY FunctionTypes, PointShape
<1>0. out \subseteq Reg /\ M \in 1 .. M
  BY <1>1, LiveEquations
<1> DEFINE live == WalkBack(blk, out)
<1>01. /\ live[M] = out \cup blk.reads
      /\ \A k \in DOMAIN blk.code :
           live[k] = (live[k + 1] \ Defines(blk.code[k])) \cup blk.code[k].reads
  <2>1. WalksBack(f, b, out, live)
    BY <1>0, WalkBackEquations
  <2> HIDE DEF live
  <2> QED BY <2>1 DEF WalksBack
<1> HIDE DEF live
<1>2. M \in S
  <2> DEFINE p == <<b, M>>
  <2>1. p \in Points(f)
    BY <1>1
  <2>2. out \in SUBSET Reg
    BY <2>1, LiveEquations
  <2>3. ReadsAt(f, p) = blk.reads /\ DefinesAt(f, p) = {}
    BY DEF ReadsAt, DefinesAt, IsTerminator
  <2>4. LiveBefore(f)[p] = blk.reads \cup out
    BY <2>1, <2>3, LiveEquations
  <2>5. live[M] = LiveBefore(f)[p]
    BY <1>01, <2>4
  <2> QED BY <1>0, <2>5 DEF live
<1>3. ASSUME NEW k \in 1 .. M - 1, k + 1 \in S PROVE k \in S
  <2> DEFINE p == <<b, k>>
  <2>1. p \in Points(f) /\ k \in DOMAIN blk.code /\ k # M
    BY <1>1
  <2>2. out \in SUBSET Reg
    BY <1>1, LiveEquations
  <2>3. /\ ReadsAt(f, p) = blk.code[k].reads /\ DefinesAt(f, p) = Defines(blk.code[k])
        /\ NextPoints(f, p) = {<<b, k + 1>>}
    BY <2>1 DEF ReadsAt, DefinesAt, NextPoints, IsTerminator, InstructionAt
  <2>4. LiveAfter(f)[p] = LiveBefore(f)[<<b, k + 1>>]
    <3>1. LiveAfter(f)[p] = UNION {LiveBefore(f)[q] : q \in NextPoints(f, p)}
      BY <2>1, LiveEquations
    <3>2. \A q \in NextPoints(f, p) : q = <<b, k + 1>>
      BY <2>3
    <3>3. <<b, k + 1>> \in NextPoints(f, p)
      BY <2>3
    <3> DEFINE before == LiveBefore(f)
               after == LiveAfter(f)[p]
               next == NextPoints(f, p)
               q0 == <<b, k + 1>>
    <3>4. after = UNION {before[q] : q \in next} /\ q0 \in next /\ \A q \in next : q = q0
      BY <3>1, <3>2, <3>3
    <3> HIDE DEF before, after, next, q0
    <3>5. after = before[q0]
      BY <3>4
    <3> QED BY <3>5 DEF before, after, q0
  <2>5. LiveBefore(f)[p] = blk.code[k].reads \cup (LiveBefore(f)[<<b, k + 1>>] \ Defines(blk.code[k]))
    BY <2>1, <2>3, <2>4, LiveEquations
  <2>6. WalkBack(blk, out)[k] =
          (WalkBack(blk, out)[k + 1] \ Defines(blk.code[k])) \cup blk.code[k].reads
    BY <1>01, <2>1 DEF live
  <2>7. WalkBack(blk, out)[k + 1] = LiveBefore(f)[<<b, k + 1>>]
    BY <1>3
  <2>8. WalkBack(blk, out)[k] = LiveBefore(f)[<<b, k>>]
    BY <2>5, <2>6, <2>7
  <2> QED BY <1>1, <2>8
<1>4. 1 .. M \subseteq S
  <2> HIDE DEF S
  <2> QED BY <1>1, <1>2, <1>3, DownInduction
<1> QED BY <1>4

---------------------------------------------------------------------------
(***************************************************************************)
(* Where the pieces of a flattened sequence go.                            *)
(***************************************************************************)
LaidOut(P, flat, start) ==
  /\ start \in [1 .. Len(P) + 1 -> Nat] /\ start[1] = 0
  /\ Len(flat) = start[Len(P) + 1]
  /\ \A k \in 1 .. Len(P) :
       /\ start[k + 1] = start[k] + Len(P[k]) /\ start[k + 1] <= Len(flat)
       /\ \A i \in 1 .. Len(P[k]) : flat[start[k] + i] = P[k][i]

\* What FlattenSeq computes, as an iteration.
Flattens(P, flat) ==
  /\ DOMAIN flat = 1 .. Len(P)
  /\ \A k \in 1 .. Len(P) : flat[k] = IF k = 1 THEN P[1] ELSE flat[k - 1] \o P[k]

LEMMA FlattenIterates ==
  ASSUME NEW T, NEW P \in Seq(Seq(T)), Len(P) # 0
  PROVE  \E flat \in [1 .. Len(P) -> Seq(T)] :
           Flattens(P, flat) /\ FlattenSeq(P) = flat[Len(P)]
<1> DEFINE n == Len(P)
           From(g) == [i \in 1 .. n |-> IF i = 1 THEN P[i] ELSE g[i - 1] \o P[i]]
           flat == CHOOSE g : g = From(g)
           step == [e \in (1 .. n - 1) \X Seq(T) |-> e[2] \o P[e[1] + 1]]
<1>1. n \in Nat \ {0} /\ DOMAIN P = 1 .. n /\ \A k \in 1 .. n : P[k] \in Seq(T)
  OBVIOUS
<1>2. FlattenSeq(P) = flat[n]
  BY DEF FlattenSeq
<1> HIDE DEF n
<1>3. ASSUME NEW k \in 1 .. n - 1, NEW d \in Seq(T)
      PROVE  step[<<k, d>>] = d \o P[k + 1] /\ step[<<k, d>>] \in Seq(T)
  <2>1. P[k + 1] \in Seq(T)
    <3>1. k + 1 \in 1 .. n
      BY <1>1
    <3> QED BY <1>1, <3>1
  <2>2. step[<<k, d>>] = d \o P[k + 1]
    OBVIOUS
  <2>3. d \o P[k + 1] \in Seq(T)
    BY <2>1
  <2> QED BY <2>2, <2>3
<1> HIDE DEF step
<1>4. PICK g : Iterates(Seq(T), P[1], step, n - 1, g)
  <2>1. P[1] \in Seq(T) /\ n - 1 \in Nat
    BY <1>1
  <2> QED BY <1>3, <2>1, IterationExists
<1>5. /\ g \in [0 .. n - 1 -> Seq(T)] /\ g[0] = P[1]
      /\ \A k \in 1 .. n - 1 : g[k] = step[<<k, g[k - 1]>>]
  BY <1>4 DEF Iterates
<1> DEFINE h == [i \in 1 .. n |-> g[i - 1]]
<1>6. h = From(h)
  <2>1. ASSUME NEW i \in 1 .. n PROVE h[i] = IF i = 1 THEN P[i] ELSE h[i - 1] \o P[i]
    <3>1. CASE i = 1
      BY <1>1, <1>5, <3>1
    <3>2. CASE i # 1
      <4>1. i - 1 \in 1 .. n - 1 /\ i - 1 \in 1 .. n /\ (i - 1) + 1 = i /\ (i - 1) - 1 \in 0 .. n - 1
        BY <1>1, <3>2
      <4>2. g[i - 1] = step[<<i - 1, g[(i - 1) - 1]>>] /\ g[(i - 1) - 1] \in Seq(T)
        BY <1>5, <4>1
      <4>3. g[i - 1] = g[(i - 1) - 1] \o P[i]
        BY <1>3, <4>1, <4>2
      <4> QED BY <3>2, <4>1, <4>3
    <3> QED BY <3>1, <3>2
  <2> QED BY <2>1
<1>7. flat = From(flat)
  <2> HIDE DEF From, h
  <2> QED BY <1>6, Zenon
<1> HIDE DEF flat
<1>8. DOMAIN flat = 1 .. n /\ \A k \in 1 .. n : flat[k] = IF k = 1 THEN P[1] ELSE flat[k - 1] \o P[k]
  BY <1>7
<1> HIDE DEF h, From
<1> DEFINE S == {m \in Nat : m + 1 <= n => flat[m + 1] \in Seq(T)}
<1>9. 0 \in S
  BY <1>1, <1>8
<1>10. ASSUME NEW m \in Nat, m \in S PROVE m + 1 \in S
  <2> SUFFICES ASSUME (m + 1) + 1 <= n PROVE flat[(m + 1) + 1] \in Seq(T)
    OBVIOUS
  <2>1. m + 1 <= n /\ (m + 1) + 1 \in 1 .. n /\ (m + 1) + 1 # 1 /\ ((m + 1) + 1) - 1 = m + 1
    BY <1>1
  <2>2. flat[m + 1] \in Seq(T) /\ P[(m + 1) + 1] \in Seq(T)
    BY <1>1, <1>10, <2>1
  <2>3. flat[(m + 1) + 1] = flat[m + 1] \o P[(m + 1) + 1]
    BY <1>8, <2>1
  <2> QED BY <2>2, <2>3
<1>11. Nat \subseteq S
  <2> HIDE DEF S
  <2> QED BY <1>9, <1>10, SetInduction
<1>12. \A k \in 1 .. n : flat[k] \in Seq(T)
  <2> TAKE k \in 1 .. n
  <2>1. k - 1 \in Nat /\ (k - 1) + 1 = k /\ k <= n
    BY <1>1
  <2>2. k - 1 \in S
    <3> HIDE DEF S
    <3> QED BY <1>11, <2>1
  <2> QED BY <2>1, <2>2
<1>13. flat \in [1 .. n -> Seq(T)]
  <2>1. flat = [k \in 1 .. n |-> flat[k]]
    BY <1>7 DEF From
  <2> QED BY <1>12, <2>1
<1> QED BY <1>2, <1>8, <1>13 DEF Flattens, n

LEMMA FlattenPlaces ==
  ASSUME NEW T, NEW P \in Seq(Seq(T))
  PROVE  FlattenSeq(P) \in Seq(T) /\ \E start : LaidOut(P, FlattenSeq(P), start)
<1>0. Len(P) \in Nat /\ \A k \in 1 .. Len(P) : P[k] \in Seq(T)
  OBVIOUS
<1>1. CASE Len(P) = 0
  <2>1. FlattenSeq(P) = <<>> /\ P = <<>>
    BY <1>1 DEF FlattenSeq
  <2> DEFINE start == [k \in 1 .. 1 |-> 0]
  <2>2. LaidOut(P, <<>>, start)
    BY <2>1 DEF LaidOut
  <2> QED BY <2>1, <2>2
<1>2. CASE Len(P) # 0
  <2>1. PICK flat \in [1 .. Len(P) -> Seq(T)] : Flattens(P, flat) /\ FlattenSeq(P) = flat[Len(P)]
    BY <1>2, FlattenIterates
  <2> DEFINE n == Len(P)
             start == [k \in 1 .. n + 1 |-> IF k = 1 THEN 0 ELSE Len(flat[k - 1])]
  <2>2. n \in Nat \ {0} /\ \A k \in 1 .. n : flat[k] \in Seq(T) /\ P[k] \in Seq(T)
    BY <1>0, <1>2
  <2>3. \A k \in 1 .. n : flat[k] = IF k = 1 THEN P[1] ELSE flat[k - 1] \o P[k]
    BY <2>1 DEF Flattens
  <2>4. FlattenSeq(P) = flat[n]
    BY <2>1
  <2> HIDE DEF n
  <2>5. /\ start \in [1 .. n + 1 -> Nat] /\ start[1] = 0
        /\ \A k \in 1 .. n : start[k + 1] = Len(flat[k])
    <3>1. ASSUME NEW k \in 1 .. n + 1, k # 1 PROVE k - 1 \in 1 .. n /\ Len(flat[k - 1]) \in Nat
      BY <2>2, <3>1
    <3>2. \A k \in 1 .. n : k + 1 \in 1 .. n + 1 /\ k + 1 # 1 /\ (k + 1) - 1 = k
      BY <2>2
    <3>3. 1 \in 1 .. n + 1
      BY <2>2
    <3> QED BY <3>1, <3>2, <3>3
  <2> HIDE DEF start
  <2>6. \A k \in 1 .. n : start[k + 1] = start[k] + Len(P[k])
    <3> TAKE k \in 1 .. n
    <3>1. CASE k = 1
      BY <2>2, <2>3, <2>5, <3>1
    <3>2. CASE k # 1
      <4>1. k - 1 \in 1 .. n /\ (k - 1) + 1 = k
        BY <2>2, <3>2
      <4>2. flat[k] = flat[k - 1] \o P[k] /\ start[k] = Len(flat[k - 1])
        BY <2>3, <2>5, <3>2, <4>1
      <4>3. Len(flat[k]) = Len(flat[k - 1]) + Len(P[k])
        BY <2>2, <4>1, <4>2
      <4> QED BY <2>5, <4>2, <4>3
    <3> QED BY <3>1, <3>2
  <2> DEFINE Held(m) == \A k \in 1 .. n : k <= m =>
                          /\ start[k + 1] <= Len(flat[m])
                          /\ \A i \in 1 .. Len(P[k]) : flat[m][start[k] + i] = P[k][i]
             S == {l \in Nat : l + 1 <= n => Held(l + 1)}
  <2>7. 0 \in S
    <3>1. flat[1] = P[1] /\ 1 \in 1 .. n
      BY <2>2, <2>3
    <3>2. \A k \in 1 .. n : k <= 1 => k = 1
      OBVIOUS
    <3>3. start[1 + 1] = Len(flat[1]) /\ Len(flat[1]) \in Nat
      BY <2>2, <2>5, <3>1
    <3>4. \A i \in 1 .. Len(P[1]) : flat[1][start[1] + i] = P[1][i]
      BY <2>5, <3>1
    <3>5. Held(1)
      BY <3>2, <3>3, <3>4
    <3> QED BY <3>5
  <2>8. ASSUME NEW l \in Nat, l \in S PROVE l + 1 \in S
    <3> DEFINE m == l + 1
    <3>0. m \in Nat \ {0}
      OBVIOUS
    <3> SUFFICES ASSUME m + 1 <= n PROVE Held(m + 1)
      OBVIOUS
    <3>1. Held(m)
      <4> HIDE DEF Held
      <4>1. l + 1 <= n
        BY <2>2
      <4> QED BY <2>8, <4>1
    <3> HIDE DEF m
    <3>2. m \in 1 .. n /\ m + 1 \in 1 .. n /\ m + 1 # 1 /\ (m + 1) - 1 = m
      BY <2>2, <3>0
    <3>3. /\ flat[m + 1] = flat[m] \o P[m + 1] /\ flat[m] \in Seq(T) /\ P[m + 1] \in Seq(T)
          /\ Len(flat[m]) \in Nat /\ Len(P[m + 1]) \in Nat
      <4>1. flat[m] \in Seq(T) /\ P[m + 1] \in Seq(T)
        BY <2>2, <3>2
      <4>2. flat[m + 1] = flat[m] \o P[m + 1]
        BY <2>3, <3>2
      <4> QED BY <4>1, <4>2
    <3>4. /\ Len(flat[m + 1]) = Len(flat[m]) + Len(P[m + 1])
          /\ \A j \in 1 .. Len(flat[m]) : flat[m + 1][j] = flat[m][j]
          /\ \A j \in 1 .. Len(P[m + 1]) : flat[m + 1][Len(flat[m]) + j] = P[m + 1][j]
      <4> DEFINE a == flat[m]  c == P[m + 1]
      <4>1. a \in Seq(T) /\ c \in Seq(T) /\ flat[m + 1] = a \o c
        BY <3>3
      <4> HIDE DEF a, c
      <4>2. /\ Len(a \o c) = Len(a) + Len(c)
            /\ \A j \in 1 .. Len(a) : (a \o c)[j] = a[j]
            /\ \A j \in 1 .. Len(c) : (a \o c)[Len(a) + j] = c[j]
        BY <4>1
      <4> QED BY <4>1, <4>2 DEF a, c
    <3>5. ASSUME NEW k \in 1 .. n, k <= m + 1
          PROVE  /\ start[k + 1] <= Len(flat[m + 1])
                 /\ \A i \in 1 .. Len(P[k]) : flat[m + 1][start[k] + i] = P[k][i]
      <4>1. CASE k <= m
        <5>1. /\ start[k + 1] <= Len(flat[m])
              /\ \A i \in 1 .. Len(P[k]) : flat[m][start[k] + i] = P[k][i]
          BY <3>1, <4>1
        <5>2. /\ start[k + 1] = start[k] + Len(P[k]) /\ start[k] \in Nat /\ Len(P[k]) \in Nat
              /\ start[k + 1] \in Nat
          BY <2>2, <2>5, <2>6
        <5>3. ASSUME NEW i \in 1 .. Len(P[k]) PROVE flat[m + 1][start[k] + i] = P[k][i]
          <6>1. start[k] + i \in 1 .. Len(flat[m])
            <7> DEFINE x == start[k]  y == Len(P[k])  z == Len(flat[m])
            <7>1. x \in Nat /\ y \in Nat /\ z \in Nat /\ x + y <= z /\ i \in 1 .. y
              BY <5>1, <5>2, <3>3
            <7> HIDE DEF x, y, z
            <7>2. x + i \in 1 .. z
              BY <7>1
            <7> QED BY <7>2 DEF x, z
          <6>2. flat[m + 1][start[k] + i] = flat[m][start[k] + i]
            BY <3>4, <6>1
          <6> QED BY <5>1, <6>2
        <5>4. start[k + 1] <= Len(flat[m + 1])
          <6> DEFINE x == start[k + 1]  y == Len(P[m + 1])  z == Len(flat[m])
          <6>1. x \in Nat /\ y \in Nat /\ z \in Nat /\ x <= z /\ Len(flat[m + 1]) = z + y
            BY <5>1, <5>2, <3>3, <3>4
          <6> HIDE DEF x, y, z
          <6>2. x <= z + y
            BY <6>1
          <6> QED BY <6>1, <6>2 DEF x
        <5> QED BY <5>3, <5>4
      <4>2. CASE k = m + 1
        <5>1. start[k] = Len(flat[m]) /\ start[k + 1] = Len(flat[m + 1])
          BY <2>5, <3>2, <4>2
        <5>2. start[k + 1] <= Len(flat[m + 1])
          <6>1. Len(flat[m + 1]) \in Nat
            BY <2>2, <3>2
          <6> QED BY <5>1, <6>1
        <5>3. \A i \in 1 .. Len(P[k]) : flat[m + 1][start[k] + i] = P[k][i]
          BY <3>4, <4>2, <5>1
        <5> QED BY <5>2, <5>3
      <4> QED BY <3>0, <3>5, <4>1, <4>2
    <3> QED BY <3>5
  <2>9. Nat \subseteq S
    <3> HIDE DEF S
    <3> QED BY <2>7, <2>8, SetInduction
  <2>10. Held(n)
    <3> HIDE DEF Held
    <3>1. n - 1 \in Nat /\ (n - 1) + 1 = n /\ n <= n
      BY <2>2
    <3>2. n - 1 \in S
      BY <2>9, <3>1
    <3> QED BY <3>1, <3>2
  <2>11. Len(flat[n]) = start[n + 1]
    BY <2>2, <2>5
  <2>12. LaidOut(P, flat[n], start)
    <3> HIDE DEF start
    <3> QED BY <2>2, <2>5, <2>6, <2>10, <2>11 DEF LaidOut, n
  <2> QED BY <2>2, <2>4, <2>12
<1> QED BY <1>1, <1>2

IsPlaced(P, start, j) ==
  \E k \in 1 .. Len(P) : \E i \in 1 .. Len(P[k]) : j = start[k] + i

\* Nothing is left between the pieces.
LEMMA EveryPlaceInPiece ==
  ASSUME NEW T, NEW P \in Seq(Seq(T)), NEW flat, NEW start, LaidOut(P, flat, start),
         NEW j \in 1 .. Len(flat)
  PROVE  IsPlaced(P, start, j)
<1> DEFINE n == Len(P)
           S == {m \in Nat : m <= n => (j > start[m + 1] \/
                   \E k \in 1 .. n : \E i \in 1 .. Len(P[k]) : j = start[k] + i)}
<1>1. n \in Nat /\ \A k \in 1 .. n : P[k] \in Seq(T) /\ Len(P[k]) \in Nat
  OBVIOUS
<1>2. /\ start[1] = 0 /\ Len(flat) = start[n + 1]
      /\ \A k \in 1 .. n + 1 : start[k] \in Nat
      /\ \A k \in 1 .. n : start[k + 1] = start[k] + Len(P[k])
  BY DEF LaidOut
<1> HIDE DEF n
<1>3. 0 \in S
  BY <1>1, <1>2
<1>4. ASSUME NEW m \in Nat, m \in S PROVE m + 1 \in S
  <2> SUFFICES ASSUME m + 1 <= n, ~(j > start[(m + 1) + 1])
               PROVE  \E k \in 1 .. n : \E i \in 1 .. Len(P[k]) : j = start[k] + i
    OBVIOUS
  <2> SUFFICES ASSUME j > start[m + 1]
               PROVE  \E k \in 1 .. n : \E i \in 1 .. Len(P[k]) : j = start[k] + i
    BY <1>1, <1>4
  <2>1. m + 1 \in 1 .. n /\ m + 1 \in 1 .. n + 1 /\ (m + 1) + 1 \in 1 .. n + 1
    BY <1>1
  <2>2. /\ start[m + 1] \in Nat /\ start[(m + 1) + 1] \in Nat /\ Len(P[m + 1]) \in Nat
        /\ start[(m + 1) + 1] = start[m + 1] + Len(P[m + 1])
    BY <1>1, <1>2, <2>1
  <2> DEFINE i == j - start[m + 1]
  <2>3. i \in 1 .. Len(P[m + 1]) /\ j = start[m + 1] + i
    <3> DEFINE x == start[m + 1]  y == Len(P[m + 1])
    <3>1. x \in Nat /\ y \in Nat /\ ~(j > x + y) /\ j > x /\ j \in Nat
      <4>1. Len(flat) \in Nat
        BY <1>1, <1>2
      <4> QED BY <2>2, <4>1
    <3> HIDE DEF x, y
    <3>2. j - x \in 1 .. y /\ j = x + (j - x)
      BY <3>1
    <3> QED BY <3>2 DEF x, y
  <2> QED BY <2>1, <2>3
<1>5. Nat \subseteq S
  <2> HIDE DEF S
  <2> QED BY <1>3, <1>4, SetInduction
<1>6. n \in S
  BY <1>1, <1>5
<1>7. start[n + 1] \in Nat
  BY <1>1, <1>2
<1>8. \E k \in 1 .. n : \E i \in 1 .. Len(P[k]) : j = start[k] + i
  BY <1>1, <1>2, <1>6, <1>7
<1> QED BY <1>8 DEF IsPlaced, n

---------------------------------------------------------------------------
(***************************************************************************)
(* Root slots: no two registers share one.                                 *)
(***************************************************************************)
FirstNeed(saved, r) ==
  CHOOSE p \in DOMAIN saved :
    r \in saved[p] /\ \A q \in DOMAIN saved : r \in saved[q] => ~Precedes(q, p)

Earlier(saved, r, s) ==
  \/ Precedes(FirstNeed(saved, r), FirstNeed(saved, s))
  \/ (FirstNeed(saved, r) = FirstNeed(saved, s) /\ r < s)

LEMMA FirstExists ==
  ASSUME NEW S, S \subseteq Nat \X Nat, S # {}
  PROVE  \E p \in S : \A q \in S : ~Precedes(q, p)
<1>1. PICK b \in {p[1] : p \in S} : \A c \in {p[1] : p \in S} : b <= c
  <2>1. {p[1] : p \in S} \subseteq Nat /\ {p[1] : p \in S} # {}
    OBVIOUS
  <2> QED BY <2>1, LeastNatural
<1> DEFINE R == {p \in S : p[1] = b}
<1>2. {p[2] : p \in R} \subseteq Nat /\ {p[2] : p \in R} # {}
  OBVIOUS
<1>3. PICK k \in {p[2] : p \in R} : \A l \in {p[2] : p \in R} : k <= l
  BY <1>2, LeastNatural
<1>4. PICK p \in R : p[2] = k
  OBVIOUS
<1>5. ASSUME NEW q \in S PROVE ~Precedes(q, p)
  <2>1. q[1] \in Nat /\ q[2] \in Nat /\ p[1] \in Nat /\ p[2] \in Nat /\ p[1] = b /\ b <= q[1]
    BY <1>1
  <2>2. q[1] = p[1] => p[2] <= q[2]
    BY <1>3, <1>4
  <2> QED BY <2>1, <2>2 DEF Precedes
<1> QED BY <1>5

LEMMA SlotsDistinct ==
  ASSUME NEW saved, DOMAIN saved \subseteq Nat \X Nat,
         NEW rooted, rooted = UNION {saved[p] : p \in DOMAIN saved}, rooted \subseteq Reg
  PROVE  /\ DOMAIN SlotOf(saved) = rooted
         /\ Cardinality(rooted) \in Nat
         /\ \A r \in rooted : SlotOf(saved)[r] \in 0 .. Cardinality(rooted) - 1
         /\ \A r, s \in rooted : SlotOf(saved)[r] = SlotOf(saved)[s] => r = s
<1> DEFINE before(r) == {s \in rooted : Earlier(saved, s, r)}
<1>1. SlotOf(saved) = [r \in rooted |-> Cardinality(before(r))]
  <2> DEFINE first == [r \in rooted |-> FirstNeed(saved, r)]
             sooner(r) == {s \in rooted : Precedes(first[s], first[r]) \/ (first[s] = first[r] /\ s < r)}
  <2>1. SlotOf(saved) = [r \in rooted |-> Cardinality(sooner(r))]
    BY DEF SlotOf, FirstNeed
  <2>2. \A r \in rooted : sooner(r) = before(r)
    BY DEF Earlier
  <2> HIDE DEF sooner, before
  <2> QED BY <2>1, <2>2
<1>2. IsFiniteSet(rooted) /\ Cardinality(rooted) \in Nat /\ rooted \subseteq Nat
  BY IrAssumption, FS_Subset, FS_CardinalityType
<1>3. \A r \in rooted : FirstNeed(saved, r) \in Nat \X Nat
  <2> SUFFICES ASSUME NEW r \in rooted PROVE FirstNeed(saved, r) \in Nat \X Nat
    OBVIOUS
  <2> DEFINE S == {p \in DOMAIN saved : r \in saved[p]}
  <2>1. PICK p \in S : \A q \in S : ~Precedes(q, p)
    <3>1. S \subseteq Nat \X Nat /\ S # {}
      OBVIOUS
    <3> HIDE DEF S
    <3> QED BY <3>1, FirstExists
  <2>2. FirstNeed(saved, r) \in DOMAIN saved
    BY <2>1 DEF FirstNeed
  <2> QED BY <2>2
<1>4. ASSUME NEW r \in rooted, NEW s \in rooted, r # s
      PROVE  Earlier(saved, r, s) \/ Earlier(saved, s, r)
  <2> DEFINE x == FirstNeed(saved, r)  y == FirstNeed(saved, s)
  <2>1. x \in Nat \X Nat /\ y \in Nat \X Nat /\ r \in Nat /\ s \in Nat
    BY <1>2, <1>3
  <2> SUFFICES Precedes(x, y) \/ Precedes(y, x) \/ (x = y /\ r < s) \/ (y = x /\ s < r)
    BY DEF Earlier
  <2> HIDE DEF x, y
  <2> QED BY <1>4, <2>1 DEF Precedes
<1>5. ASSUME NEW r \in rooted, NEW s \in rooted, NEW t \in rooted,
             Earlier(saved, r, s), Earlier(saved, s, t)
      PROVE  Earlier(saved, r, t)
  <2> DEFINE x == FirstNeed(saved, r)  y == FirstNeed(saved, s)  z == FirstNeed(saved, t)
  <2>1. x \in Nat \X Nat /\ y \in Nat \X Nat /\ z \in Nat \X Nat /\ r \in Nat /\ s \in Nat /\ t \in Nat
    BY <1>2, <1>3
  <2>2. (Precedes(x, y) \/ (x = y /\ r < s)) /\ (Precedes(y, z) \/ (y = z /\ s < t))
    BY <1>5 DEF Earlier
  <2>3. Precedes(x, z) \/ (x = z /\ r < t)
    <3> HIDE DEF x, y, z
    <3>1. Precedes(x, y) /\ Precedes(y, z) => Precedes(x, z)
      BY <2>1 DEF Precedes
    <3> QED BY <2>1, <2>2, <3>1
  <2> QED BY <2>3 DEF Earlier
<1>6. \A r \in rooted : ~Earlier(saved, r, r)
  <2> TAKE r \in rooted
  <2>1. FirstNeed(saved, r) \in Nat \X Nat /\ r \in Nat
    BY <1>2, <1>3
  <2> QED BY <2>1 DEF Earlier, Precedes
<1>7. ASSUME NEW r \in rooted, NEW s \in rooted, Earlier(saved, r, s)
      PROVE  Cardinality(before(r)) < Cardinality(before(s))
  <2> DEFINE B == before(r)  C == before(s)
  <2>1. B \subseteq C /\ r \in C /\ r \notin B
    BY <1>5, <1>6, <1>7
  <2>2. C \in SUBSET rooted /\ B \in SUBSET rooted
    OBVIOUS
  <2> SUFFICES Cardinality(B) < Cardinality(C)
    OBVIOUS
  <2> HIDE DEF B, C
  <2>3. IsFiniteSet(C) /\ Cardinality(C) \in Nat /\ IsFiniteSet(B) /\ Cardinality(B) \in Nat
    BY <1>2, <2>2, FS_Subset, FS_CardinalityType
  <2>4. Cardinality(B) <= Cardinality(C) /\ (Cardinality(C) = Cardinality(B) => C = B)
    BY <2>1, <2>3, FS_Subset
  <2> QED BY <2>1, <2>3, <2>4
<1>8. ASSUME NEW r \in rooted PROVE Cardinality(before(r)) \in 0 .. Cardinality(rooted) - 1
  <2> DEFINE B == before(r)
  <2>1. B \in SUBSET rooted /\ r \notin B
    BY <1>6
  <2> SUFFICES Cardinality(B) \in 0 .. Cardinality(rooted) - 1
    OBVIOUS
  <2> HIDE DEF B
  <2>2. IsFiniteSet(B) /\ Cardinality(B) \in Nat
    BY <1>2, <2>1, FS_Subset, FS_CardinalityType
  <2>3. Cardinality(B) <= Cardinality(rooted) /\ (Cardinality(rooted) = Cardinality(B) => rooted = B)
    BY <1>2, <2>1, FS_Subset
  <2> QED BY <1>2, <2>1, <2>2, <2>3
<1>9. DOMAIN SlotOf(saved) = rooted /\ \A r \in rooted : SlotOf(saved)[r] = Cardinality(before(r))
  <2> HIDE DEF before
  <2> QED BY <1>1
<1>10. ASSUME NEW r \in rooted, NEW s \in rooted, SlotOf(saved)[r] = SlotOf(saved)[s] PROVE r = s
  <2> DEFINE m == Cardinality(before(r))  n == Cardinality(before(s))
  <2>0. m \in 0 .. Cardinality(rooted) - 1 /\ n \in 0 .. Cardinality(rooted) - 1
    BY <1>8
  <2>1. m \in Nat /\ n \in Nat /\ m = n
    <3>1. m = n
      BY <1>9, <1>10
    <3> HIDE DEF m, n
    <3> QED BY <1>2, <2>0, <3>1
  <2>2. Earlier(saved, r, s) => m < n
    BY <1>7
  <2>3. Earlier(saved, s, r) => n < m
    BY <1>7
  <2> HIDE DEF m, n
  <2> QED BY <1>4, <2>1, <2>2, <2>3
<1>11. \A r \in rooted : SlotOf(saved)[r] \in 0 .. Cardinality(rooted) - 1
  BY <1>8, <1>9
<1> HIDE DEF before
<1> QED BY <1>2, <1>9, <1>10, <1>11

---------------------------------------------------------------------------
(***************************************************************************)
(* What takes the place of one instruction: around a call, the stores of   *)
(* the references it must keep, the nulls and the reloads.                 *)
(***************************************************************************)
SlotsOf(f) == SlotOf(RefsLiveAcrossCalls(f))

Saves(f, p) == IF p \in CallPoints(f) THEN RefsLiveAcrossCalls(f)[p] ELSE {}

Unused(f, p) ==
  IF p \in CallPoints(f) THEN {SlotsOf(f)[r] : r \in DOMAIN SlotsOf(f) \ Saves(f, p)} ELSE {}

Saved(f, p, i) == Ascending(Saves(f, p))[i]

Nulled(f, p, i) == Ascending(Unused(f, p))[i]

SaveCount(f, p) == Cardinality(Saves(f, p))

NullCount(f, p) == Cardinality(Unused(f, p))

\* Where the instruction itself is.
Centre(f, p) == SaveCount(f, p) + NullCount(f, p) + 1

Piece(f, p) ==
  IF IsCall(InstructionAt(f, p))
    THEN AroundCall(InstructionAt(f, p), RefsLiveAcrossCalls(f)[p], SlotsOf(f))
    ELSE <<InstructionAt(f, p)>>

\* Points before the terminator.
LEMMA InnerPoint ==
  ASSUME NEW f, IsFunction(f), NEW b \in DOMAIN f.blocks, NEW k \in DOMAIN f.blocks[b].code
  PROVE  /\ <<b, k>> \in Points(f) /\ ~IsTerminator(f, <<b, k>>)
         /\ k \in Nat \ {0} /\ b \in Nat \ {0} /\ k + 1 \in 1 .. LastIndex(f, b)
         /\ InstructionAt(f, <<b, k>>) = f.blocks[b].code[k]
         /\ InstructionAt(f, <<b, k>>) \in Instruction
         /\ NextPoints(f, <<b, k>>) = {<<b, k + 1>>}
         /\ LiveAfter(f)[<<b, k>>] = LiveBefore(f)[<<b, k + 1>>]
         /\ (<<b, k>> \in CallPoints(f) <=> IsCall(InstructionAt(f, <<b, k>>)))
<1> DEFINE p == <<b, k>>
           q == <<b, k + 1>>
<1>1. /\ DOMAIN f.blocks = 1 .. Len(f.blocks) /\ Len(f.blocks) \in Nat
      /\ DOMAIN f.blocks[b].code = 1 .. Len(f.blocks[b].code)
      /\ Len(f.blocks[b].code) \in Nat /\ f.blocks[b].code \in Seq(Instruction)
      /\ LastIndex(f, b) = Len(f.blocks[b].code) + 1
  BY FunctionTypes
<1>2. k \in 1 .. LastIndex(f, b) /\ k # LastIndex(f, b) /\ k + 1 \in 1 .. LastIndex(f, b)
  BY <1>1
<1>3. k \in Nat \ {0} /\ b \in Nat \ {0}
  BY <1>1
<1>4. p \in Points(f) /\ ~IsTerminator(f, p)
  BY <1>2, PointShape DEF IsTerminator
<1>5. InstructionAt(f, p) = f.blocks[b].code[k]
  BY DEF InstructionAt
<1>6. f.blocks[b].code[k] \in Instruction
  BY <1>1
<1>7. NextPoints(f, p) = {q}
  BY <1>4 DEF NextPoints
<1>8. LiveAfter(f)[p] = UNION {LiveBefore(f)[x] : x \in NextPoints(f, p)}
  BY <1>4, LiveEquations
<1>9. LiveAfter(f)[p] = LiveBefore(f)[q]
  <2> DEFINE before == LiveBefore(f)
             after == LiveAfter(f)[p]
             next == NextPoints(f, p)
  <2>1. after = UNION {before[x] : x \in next} /\ next = {q}
    BY <1>7, <1>8
  <2> HIDE DEF before, after, next, q
  <2>2. after = before[q]
    BY <2>1
  <2> QED BY <2>2 DEF before, after
<1>10. p \in CallPoints(f) <=> IsCall(InstructionAt(f, p))
  BY <1>4 DEF CallPoints
<1> QED BY <1>2, <1>3, <1>4, <1>5, <1>6, <1>7, <1>9, <1>10

LEMMA NeedIsInner ==
  ASSUME NEW f, IsFunction(f), NEW p \in CallPoints(f)
  PROVE  /\ p = <<p[1], p[2]>> /\ p[1] \in DOMAIN f.blocks /\ p[2] \in DOMAIN f.blocks[p[1]].code
         /\ p \in Nat \X Nat
<1>1. p \in Points(f) /\ ~IsTerminator(f, p)
  BY DEF CallPoints
<1>2. p = <<p[1], p[2]>> /\ p[1] \in DOMAIN f.blocks /\ p[2] \in 1 .. LastIndex(f, p[1])
  BY <1>1, PointShape
<1>3. p[2] # LastIndex(f, p[1])
  BY <1>1 DEF IsTerminator
<1>4. p[2] \in DOMAIN f.blocks[p[1]].code
  BY <1>2, <1>3, FunctionTypes
<1>5. p[1] \in Nat /\ p[2] \in Nat
  BY <1>2, <1>4, InnerPoint
<1>6. <<p[1], p[2]>> \in Nat \X Nat
  BY <1>5
<1> QED BY <1>2, <1>4, <1>6

\* The pass finds exactly the references some path needs after the call.
LEMMA NeedsExact ==
  ASSUME NEW f, IsFunction(f)
  PROVE  /\ DOMAIN RefsLiveAcrossCalls(f) = CallPoints(f)
         /\ \A p \in CallPoints(f) :
              RefsLiveAcrossCalls(f)[p] = (LiveAfter(f)[p] \ DefinesAt(f, p)) \cap RefRegs
<1> DEFINE out == LiveOut(f)
           across == LiveAcrossCalls(f, out)
<1>1. DOMAIN across = CallPoints(f)
  BY DEF LiveAcrossCalls
<1>2. RefsLiveAcrossCalls(f) = [p \in DOMAIN across |-> across[p] \cap RefRegs]
  BY DEF RefsLiveAcrossCalls
<1>3. ASSUME NEW p \in CallPoints(f) PROVE across[p] = LiveAfter(f)[p] \ DefinesAt(f, p)
  <2> DEFINE b == p[1]  k == p[2]
  <2>1. p = <<b, k>> /\ b \in DOMAIN f.blocks /\ k \in DOMAIN f.blocks[b].code
    BY NeedIsInner
  <2>2. out[b] = LiveAfter(f)[<<b, LastIndex(f, b)>>]
    BY <2>1 DEF LiveOut
  <2>3. k + 1 \in 1 .. LastIndex(f, b) /\ LiveAfter(f)[<<b, k>>] = LiveBefore(f)[<<b, k + 1>>]
    BY <2>1, InnerPoint
  <2>4. across[p] = WalkBack(f.blocks[b], out[b])[k + 1] \ DefinesAt(f, p)
    BY DEF LiveAcrossCalls
  <2> HIDE DEF across, out, b, k
  <2>5. WalkBack(f.blocks[b], out[b])[k + 1] = LiveBefore(f)[<<b, k + 1>>]
    BY <2>1, <2>2, <2>3, WalkBackExact
  <2> QED BY <2>1, <2>3, <2>4, <2>5
<1> HIDE DEF across
<1> QED BY <1>1, <1>2, <1>3

LEMMA SlotFacts ==
  ASSUME NEW f, IsFunction(f)
  PROVE  /\ DOMAIN SlotsOf(f) \subseteq RefRegs
         /\ \A r \in DOMAIN SlotsOf(f) :
              SlotsOf(f)[r] \in 0 .. Cardinality(RefRegs) - 1 /\ SlotsOf(f)[r] \in Nat
         /\ \A r, s \in DOMAIN SlotsOf(f) : SlotsOf(f)[r] = SlotsOf(f)[s] => r = s
         /\ \A p : Saves(f, p) \subseteq DOMAIN SlotsOf(f)
<1> DEFINE saved == RefsLiveAcrossCalls(f)
           rooted == UNION {saved[p] : p \in DOMAIN saved}
<1>1. /\ DOMAIN saved = CallPoints(f)
      /\ \A p \in CallPoints(f) : saved[p] \subseteq RefRegs
  BY NeedsExact
<1>2. DOMAIN saved \subseteq Nat \X Nat
  BY <1>1, NeedIsInner
<1>3. \A p : Saves(f, p) \subseteq rooted
  BY <1>1 DEF Saves
<1> HIDE DEF saved
<1>4. rooted \subseteq RefRegs /\ rooted \subseteq Reg
  BY <1>1, IrAssumption
<1> HIDE DEF rooted
<1>5. /\ DOMAIN SlotOf(saved) = rooted
      /\ Cardinality(rooted) \in Nat
      /\ \A r \in rooted : SlotOf(saved)[r] \in 0 .. Cardinality(rooted) - 1
      /\ \A r, s \in rooted : SlotOf(saved)[r] = SlotOf(saved)[s] => r = s
  BY <1>2, <1>4, SlotsDistinct DEF rooted
<1>6. IsFiniteSet(RefRegs)
  BY IrAssumption, FS_Subset
<1>7. Cardinality(rooted) <= Cardinality(RefRegs) /\ Cardinality(RefRegs) \in Nat
  BY <1>4, <1>6, FS_Subset, FS_CardinalityType
<1>8. 0 .. Cardinality(rooted) - 1 \subseteq 0 .. Cardinality(RefRegs) - 1
  BY <1>5, <1>7
<1>9. \A r \in rooted :
        SlotOf(saved)[r] \in 0 .. Cardinality(RefRegs) - 1 /\ SlotOf(saved)[r] \in Nat
  <2>1. 0 .. Cardinality(rooted) - 1 \subseteq Nat
    BY <1>5
  <2> QED BY <1>5, <1>8, <2>1
<1> QED BY <1>3, <1>4, <1>5, <1>9 DEF SlotsOf, saved

LEMMA AscendingOrders ==
  ASSUME NEW S, IsFiniteSet(S), S \subseteq Nat
  PROVE  Ordered(S, Ascending(S))
<1>1. Ascending(S) = CHOOSE s \in [1 .. Cardinality(S) -> S] : Ordered(S, s)
  BY DEF Ascending, Ordered
<1>2. \E s : Ordered(S, s)
  BY OrderExists
<1>3. \E s \in [1 .. Cardinality(S) -> S] : Ordered(S, s)
  BY <1>2, ZenonT(30) DEF Ordered
<1> QED BY <1>1, <1>3

\* What a call keeps and what it nulls, in order.
LEMMA SavedInOrder ==
  ASSUME NEW f, IsFunction(f), NEW p
  PROVE  /\ SaveCount(f, p) \in Nat /\ NullCount(f, p) \in Nat /\ Centre(f, p) \in Nat \ {0}
         /\ DOMAIN Ascending(Saves(f, p)) = 1 .. SaveCount(f, p)
         /\ DOMAIN Ascending(Unused(f, p)) = 1 .. NullCount(f, p)
         /\ Saves(f, p) = {Saved(f, p, i) : i \in 1 .. SaveCount(f, p)}
         /\ Unused(f, p) = {Nulled(f, p, i) : i \in 1 .. NullCount(f, p)}
         /\ \A i, j \in 1 .. SaveCount(f, p) : Saved(f, p, i) = Saved(f, p, j) => i = j
<1> DEFINE S == Saves(f, p)  U == Unused(f, p)
<1>1. IsFiniteSet(S) /\ S \subseteq Nat
  <2>1. S \subseteq Reg
    BY SlotFacts, IrAssumption
  <2> HIDE DEF S
  <2> QED BY <2>1, IrAssumption, FS_Subset
<1>2. IsFiniteSet(U) /\ U \subseteq Nat
  <2> DEFINE N == Cardinality(RefRegs)
  <2>1. IsFiniteSet(RefRegs)
    BY IrAssumption, FS_Subset
  <2>2. N \in Nat
    BY <2>1, FS_CardinalityType
  <2>3. U \subseteq 0 .. N - 1 /\ U \subseteq Nat
    BY SlotFacts DEF Unused
  <2> HIDE DEF U, N
  <2>4. IsFiniteSet(0 .. N - 1)
    <3>1. 0 \in Int /\ N - 1 \in Int
      BY <2>2
    <3> QED BY <3>1, FS_Interval
  <2>5. IsFiniteSet(U)
    BY <2>3, <2>4, FS_Subset
  <2> QED BY <2>3, <2>5
<1> HIDE DEF S, U
<1>3. Ordered(S, Ascending(S)) /\ Ordered(U, Ascending(U))
  BY <1>1, <1>2, AscendingOrders
<1>4. /\ Cardinality(S) \in Nat /\ DOMAIN Ascending(S) = 1 .. Cardinality(S)
      /\ \A i \in DOMAIN Ascending(S) : Ascending(S)[i] \in S
      /\ \A i, j \in DOMAIN Ascending(S) : Ascending(S)[i] = Ascending(S)[j] => i = j
  BY <1>1, <1>3, OrderRepeatsNothing
<1>5. /\ Cardinality(U) \in Nat /\ DOMAIN Ascending(U) = 1 .. Cardinality(U)
      /\ \A i \in DOMAIN Ascending(U) : Ascending(U)[i] \in U
  BY <1>2, <1>3, OrderRepeatsNothing
<1>6. /\ \A x \in S : \E i \in DOMAIN Ascending(S) : Ascending(S)[i] = x
      /\ \A x \in U : \E i \in DOMAIN Ascending(U) : Ascending(U)[i] = x
  BY <1>3 DEF Ordered
<1>7. S = {Ascending(S)[i] : i \in 1 .. Cardinality(S)}
  BY <1>4, <1>6
<1>8. U = {Ascending(U)[i] : i \in 1 .. Cardinality(U)}
  BY <1>5, <1>6
<1>9. Cardinality(S) + Cardinality(U) + 1 \in Nat \ {0}
  BY <1>4, <1>5
<1> QED BY <1>4, <1>5, <1>7, <1>8, <1>9
    DEF SaveCount, NullCount, Centre, Saved, Nulled, S, U

LEMMA TwoParts ==
  ASSUME NEW T, NEW a \in Seq(T), NEW b \in Seq(T)
  PROVE  /\ a \o b \in Seq(T) /\ Len(a \o b) = Len(a) + Len(b)
         /\ \A i \in 1 .. Len(a) : (a \o b)[i] = a[i] /\ i \in 1 .. Len(a \o b)
         /\ \A i \in 1 .. Len(b) : (a \o b)[Len(a) + i] = b[i] /\ Len(a) + i \in 1 .. Len(a \o b)
<1>1. /\ a \o b \in Seq(T) /\ Len(a \o b) = Len(a) + Len(b)
      /\ \A i \in 1 .. Len(a) : (a \o b)[i] = a[i]
      /\ \A i \in 1 .. Len(b) : (a \o b)[Len(a) + i] = b[i]
  OBVIOUS
<1>2. Len(a) \in Nat /\ Len(b) \in Nat
  OBVIOUS
<1> DEFINE m == Len(a)  n == Len(b)
<1> HIDE DEF m, n
<1>3. /\ \A i \in 1 .. m : i \in 1 .. m + n
      /\ \A i \in 1 .. n : m + i \in 1 .. m + n
  BY <1>2 DEF m, n
<1> QED BY <1>1, <1>3 DEF m, n

InFour(T, w, m, a, b, x, d) ==
  /\ w \in Seq(T) /\ Len(w) = m + Len(d)
  /\ \A i \in 1 .. Len(a) : w[i] = a[i]
  /\ \A i \in 1 .. Len(b) : w[Len(a) + i] = b[i]
  /\ w[m] = x
  /\ \A i \in 1 .. Len(d) : w[m + i] = d[i]

LEMMA FourParts ==
  ASSUME NEW T, NEW a \in Seq(T), NEW b \in Seq(T), NEW x \in T, NEW d \in Seq(T)
  PROVE  InFour(T, a \o b \o <<x>> \o d, Len(a) + Len(b) + 1, a, b, x, d)
<1> DEFINE w == a \o b \o <<x>> \o d
           m == Len(a) + Len(b) + 1
<1> DEFINE ab == a \o b
           only == <<x>>
           abx == ab \o only
<1>1. /\ ab \in Seq(T) /\ Len(ab) = Len(a) + Len(b)
      /\ \A i \in 1 .. Len(a) : ab[i] = a[i] /\ i \in 1 .. Len(ab)
      /\ \A i \in 1 .. Len(b) : ab[Len(a) + i] = b[i] /\ Len(a) + i \in 1 .. Len(ab)
  BY TwoParts
<1>2. only \in Seq(T) /\ Len(only) = 1 /\ only[1] = x /\ 1 \in 1 .. Len(only)
  OBVIOUS
<1> HIDE DEF ab, only
<1>3. /\ abx \in Seq(T) /\ Len(abx) = Len(ab) + Len(only)
      /\ \A i \in 1 .. Len(ab) : abx[i] = ab[i] /\ i \in 1 .. Len(abx)
      /\ \A i \in 1 .. Len(only) : abx[Len(ab) + i] = only[i] /\ Len(ab) + i \in 1 .. Len(abx)
  BY <1>1, <1>2, TwoParts
<1>4. w = abx \o d /\ m = Len(ab) + 1
  BY <1>1 DEF ab, only
<1>5. Len(abx) = m /\ abx[m] = x /\ m \in 1 .. Len(abx)
  BY <1>2, <1>3, <1>4
<1> HIDE DEF abx
<1> DEFINE ad == abx \o d
<1>60. /\ ad \in Seq(T) /\ Len(ad) = Len(abx) + Len(d)
       /\ \A i \in 1 .. Len(abx) : ad[i] = abx[i] /\ i \in 1 .. Len(ad)
       /\ \A i \in 1 .. Len(d) : ad[Len(abx) + i] = d[i] /\ Len(abx) + i \in 1 .. Len(ad)
  BY <1>3, TwoParts
<1>61. w = ad
  BY <1>4
<1> HIDE DEF ad
<1>6. /\ w \in Seq(T) /\ Len(w) = Len(abx) + Len(d)
      /\ \A i \in 1 .. Len(abx) : w[i] = abx[i]
      /\ \A i \in 1 .. Len(d) : w[Len(abx) + i] = d[i]
  BY <1>60, <1>61
<1>7. \A i \in 1 .. Len(a) : w[i] = a[i]
  BY <1>1, <1>3, <1>6
<1>8. \A i \in 1 .. Len(b) : w[Len(a) + i] = b[i]
  BY <1>1, <1>3, <1>6
<1> HIDE DEF w, m
<1>9. InFour(T, w, m, a, b, x, d)
  BY <1>5, <1>6, <1>7, <1>8 DEF InFour
<1> QED BY <1>9 DEF w, m

IsPiece(f, p, w) ==
  /\ w \in Seq(Instruction)
  /\ Len(w) = Centre(f, p) + SaveCount(f, p)
  /\ \A i \in 1 .. SaveCount(f, p) :
       w[i] = RootStore(SlotsOf(f)[Saved(f, p, i)], {Saved(f, p, i)}, InstructionAt(f, p).line)
  /\ \A i \in 1 .. NullCount(f, p) :
       w[SaveCount(f, p) + i] = RootStore(Nulled(f, p, i), {}, InstructionAt(f, p).line)
  /\ w[Centre(f, p)] = InstructionAt(f, p)
  /\ \A i \in 1 .. SaveCount(f, p) :
       w[Centre(f, p) + i] =
         RootLoad(SlotsOf(f)[Saved(f, p, i)], Saved(f, p, i), InstructionAt(f, p).line)

LEMMA PieceShape ==
  ASSUME NEW f, IsFunction(f), NEW b \in DOMAIN f.blocks, NEW k \in DOMAIN f.blocks[b].code,
         NEW p, p = <<b, k>>
  PROVE  IsPiece(f, p, Piece(f, p))
<1> DEFINE instr == InstructionAt(f, p)
<1>0. instr = InstructionAt(f, p)
  OBVIOUS
<1> HIDE DEF instr
<1> USE <1>0 DEF IsPiece
<1> DEFINE S == Saves(f, p)  U == Unused(f, p)
           s == Ascending(S)  u == Ascending(U)
           m == SaveCount(f, p)  n == NullCount(f, p)
           stores == [i \in DOMAIN s |-> RootStore(SlotsOf(f)[s[i]], {s[i]}, instr.line)]
           nulls == [i \in DOMAIN u |-> RootStore(u[i], {}, instr.line)]
           loads == [i \in DOMAIN s |-> RootLoad(SlotsOf(f)[s[i]], s[i], instr.line)]
<1>1. instr \in Instruction /\ (p \in CallPoints(f) <=> IsCall(instr))
  BY InnerPoint
<1>2. CASE ~IsCall(instr)
  <2>1. S = {} /\ U = {}
    BY <1>1, <1>2 DEF Saves, Unused
  <2>2. m = 0 /\ n = 0 /\ Centre(f, p) = 1
    BY <2>1, FS_EmptySet DEF SaveCount, NullCount, Centre
  <2>3. Piece(f, p) = <<instr>>
    BY <1>2 DEF Piece
  <2>4. Len(Piece(f, p)) = 1 /\ Piece(f, p)[1] = instr /\ Piece(f, p) \in Seq(Instruction)
    BY <1>1, <2>3
  <2>5. 1 .. SaveCount(f, p) = {} /\ 1 .. NullCount(f, p) = {}
        /\ Centre(f, p) = 1 /\ Centre(f, p) + SaveCount(f, p) = 1
    BY <2>2
  <2> HIDE DEF S, U, m, n
  <2> QED BY <2>4, <2>5
<1>3. CASE IsCall(instr)
  <2>1. p \in CallPoints(f) /\ S = RefsLiveAcrossCalls(f)[p]
    BY <1>1, <1>3 DEF Saves
  <2>2. U = {SlotsOf(f)[r] : r \in DOMAIN SlotsOf(f) \ S}
    BY <2>1 DEF Unused
  <2>3. Piece(f, p) = AroundCall(instr, S, SlotsOf(f))
    BY <1>3, <2>1 DEF Piece
  <2>4. Piece(f, p) = stores \o nulls \o <<instr>> \o loads
    <3> HIDE DEF S
    <3> QED BY <2>2, <2>3 DEF AroundCall
  <2>5. /\ m \in Nat /\ n \in Nat /\ Centre(f, p) = m + n + 1
        /\ DOMAIN s = 1 .. m /\ DOMAIN u = 1 .. n
        /\ \A i \in 1 .. m : s[i] = Saved(f, p, i) /\ s[i] \in S
        /\ \A i \in 1 .. n : u[i] = Nulled(f, p, i) /\ u[i] \in U
    BY SavedInOrder DEF Centre, Saved, Nulled
  <2>6. /\ S \subseteq DOMAIN SlotsOf(f) /\ S \subseteq Reg
        /\ \A r \in S : SlotsOf(f)[r] \in Nat
        /\ U \subseteq Nat
    <3>1. DOMAIN SlotsOf(f) \subseteq Reg /\ \A r \in DOMAIN SlotsOf(f) : SlotsOf(f)[r] \in Nat
      BY SlotFacts, IrAssumption
    <3>2. S \subseteq DOMAIN SlotsOf(f)
      BY SlotFacts
    <3> HIDE DEF S, U
    <3> QED BY <2>2, <3>1, <3>2
  <2>7. instr.line \in Nat
    BY <1>1 DEF Instruction
  <2> HIDE DEF S, U, s, u, m, n
  <2>8. ASSUME NEW slot \in Nat, NEW r \in Reg
        PROVE  /\ RootStore(slot, {r}, instr.line) \in Instruction
               /\ RootStore(slot, {}, instr.line) \in Instruction
               /\ RootLoad(slot, r, instr.line) \in Instruction
    BY <2>7 DEF RootStore, RootLoad, Instruction, Ops
  <2>9. stores \in Seq(Instruction) /\ Len(stores) = m
    <3>1. \A i \in 1 .. m : s[i] \in Reg /\ SlotsOf(f)[s[i]] \in Nat
      BY <2>5, <2>6
    <3>2. stores \in [1 .. m -> Instruction]
      BY <2>5, <2>8, <3>1
    <3> HIDE DEF stores
    <3> QED BY <2>5, <3>2
  <2>10. nulls \in Seq(Instruction) /\ Len(nulls) = n
    <3>1. \A i \in 1 .. n : RootStore(u[i], {}, instr.line) \in Instruction
      <4>1. \A slot \in Nat : RootStore(slot, {}, instr.line) \in Instruction
        BY <2>7 DEF RootStore, Instruction, Ops
      <4> QED BY <2>5, <2>6, <4>1
    <3>2. nulls \in [1 .. n -> Instruction]
      BY <2>5, <3>1
    <3> HIDE DEF nulls
    <3> QED BY <2>5, <3>2
  <2>11. loads \in Seq(Instruction) /\ Len(loads) = m
    <3>1. \A i \in 1 .. m : s[i] \in Reg /\ SlotsOf(f)[s[i]] \in Nat
      BY <2>5, <2>6
    <3>2. loads \in [1 .. m -> Instruction]
      BY <2>5, <2>8, <3>1
    <3> HIDE DEF loads
    <3> QED BY <2>5, <3>2
  <2>12. /\ \A i \in 1 .. m : stores[i] = RootStore(SlotsOf(f)[Saved(f, p, i)], {Saved(f, p, i)}, instr.line)
         /\ \A i \in 1 .. n : nulls[i] = RootStore(Nulled(f, p, i), {}, instr.line)
         /\ \A i \in 1 .. m : loads[i] = RootLoad(SlotsOf(f)[Saved(f, p, i)], Saved(f, p, i), instr.line)
    BY <2>5
  <2> HIDE DEF stores, nulls, loads
  <2>13. /\ Piece(f, p) \in Seq(Instruction) /\ Len(Piece(f, p)) = Centre(f, p) + Len(loads)
         /\ \A i \in 1 .. Len(stores) : Piece(f, p)[i] = stores[i]
         /\ \A i \in 1 .. Len(nulls) : Piece(f, p)[Len(stores) + i] = nulls[i]
         /\ Piece(f, p)[Centre(f, p)] = instr
         /\ \A i \in 1 .. Len(loads) : Piece(f, p)[Centre(f, p) + i] = loads[i]
    <3>1. Centre(f, p) = Len(stores) + Len(nulls) + 1
      BY <2>5, <2>9, <2>10
    <3>2. InFour(Instruction, stores \o nulls \o <<instr>> \o loads, Len(stores) + Len(nulls) + 1,
                 stores, nulls, instr, loads)
      BY <1>1, <2>9, <2>10, <2>11, FourParts
    <3>3. InFour(Instruction, Piece(f, p), Centre(f, p), stores, nulls, instr, loads)
      BY <2>4, <3>1, <3>2
    <3> QED BY <3>3 DEF InFour
  <2> QED BY <2>9, <2>10, <2>11, <2>12, <2>13 DEF m, n
<1> QED BY <1>2, <1>3

---------------------------------------------------------------------------
(***************************************************************************)
(* Where the pieces are in the rooted function.                            *)
(***************************************************************************)
Pieces(f, b) == [k \in DOMAIN f.blocks[b].code |-> Piece(f, <<b, k>>)]

Offsets(f, b) == CHOOSE start : LaidOut(Pieces(f, b), FlattenSeq(Pieces(f, b)), start)

\* Place i of what stands for point <<b, k>>, the terminator included.
Spot(f, b, k, i) == <<b, Offsets(f, b)[k] + i>>

Width(f, b, k) == IF k = LastIndex(f, b) THEN 1 ELSE Len(Piece(f, <<b, k>>))

LEMMA RootedShape ==
  ASSUME NEW f, IsFunction(f)
  PROVE  /\ IsFunction(Rooted(f))
         /\ Rooted(f).entry = f.entry /\ Rooted(f).params = f.params
         /\ DOMAIN Rooted(f).blocks = DOMAIN f.blocks
         /\ \A b \in DOMAIN f.blocks :
              /\ Pieces(f, b) \in Seq(Seq(Instruction))
              /\ Len(Pieces(f, b)) = Len(f.blocks[b].code)
              /\ Rooted(f).blocks[b].code = FlattenSeq(Pieces(f, b))
              /\ FlattenSeq(Pieces(f, b)) \in Seq(Instruction)
              /\ LaidOut(Pieces(f, b), FlattenSeq(Pieces(f, b)), Offsets(f, b))
              /\ Rooted(f).blocks[b].reads = f.blocks[b].reads
              /\ Rooted(f).blocks[b].next = f.blocks[b].next
<1> DEFINE g == Rooted(f)
           code(b) == FlattenSeq(Pieces(f, b))
           block(b) == [f.blocks[b] EXCEPT !.code = code(b)]
<1>1. ASSUME NEW b \in DOMAIN f.blocks
      PROVE  Pieces(f, b) \in Seq(Seq(Instruction)) /\ Len(Pieces(f, b)) = Len(f.blocks[b].code)
  <2> DEFINE n == Len(f.blocks[b].code)
  <2>1. DOMAIN f.blocks[b].code = 1 .. n /\ n \in Nat
    BY FunctionTypes
  <2>2. \A k \in 1 .. n : Piece(f, <<b, k>>) \in Seq(Instruction)
    BY <2>1, PieceShape DEF IsPiece
  <2>3. Pieces(f, b) \in [1 .. n -> Seq(Instruction)]
    BY <2>1, <2>2 DEF Pieces
  <2> HIDE DEF n
  <2>4. Pieces(f, b) \in Seq(Seq(Instruction)) /\ Len(Pieces(f, b)) = n
    BY <2>1, <2>3
  <2> QED BY <2>4 DEF n
<1>2. \A b \in DOMAIN f.blocks :
        code(b) \in Seq(Instruction) /\ LaidOut(Pieces(f, b), code(b), Offsets(f, b))
  <2> SUFFICES ASSUME NEW b \in DOMAIN f.blocks
               PROVE  code(b) \in Seq(Instruction) /\ LaidOut(Pieces(f, b), code(b), Offsets(f, b))
    OBVIOUS
  <2>1. code(b) \in Seq(Instruction) /\ \E start : LaidOut(Pieces(f, b), code(b), start)
    BY <1>1, FlattenPlaces
  <2> QED BY <2>1 DEF Offsets
<1>3. /\ f \in [blocks : Seq(Block), entry : Nat, params : Seq(Reg)]
      /\ \A b \in DOMAIN f.blocks : f.blocks[b] \in Block
      /\ DOMAIN f.blocks = 1 .. Len(f.blocks) /\ Len(f.blocks) \in Nat
  BY DEF IsFunction
<1>4. ASSUME NEW b \in DOMAIN f.blocks
      PROVE  /\ block(b) \in Block /\ block(b).code = code(b)
             /\ block(b).reads = f.blocks[b].reads /\ block(b).next = f.blocks[b].next
  <2> HIDE DEF code
  <2> QED BY <1>2, <1>3 DEF Block
<1>5. g = [f EXCEPT !.blocks = [b \in DOMAIN f.blocks |-> block(b)]]
  <2> DEFINE saved == RefsLiveAcrossCalls(f)
             slotOf == SlotOf(saved)
             flat(b) == FlattenSeq([k \in DOMAIN f.blocks[b].code |->
                           IF IsCall(f.blocks[b].code[k])
                             THEN AroundCall(f.blocks[b].code[k], saved[<<b, k>>], slotOf)
                             ELSE <<f.blocks[b].code[k]>>])
  <2>1. g = [f EXCEPT !.blocks = [b \in DOMAIN f.blocks |-> [f.blocks[b] EXCEPT !.code = flat(b)]]]
    BY DEF Rooted
  <2>2. \A b \in DOMAIN f.blocks : flat(b) = code(b)
    BY DEF Pieces, Piece, InstructionAt, SlotsOf
  <2> HIDE DEF flat, code
  <2> QED BY <2>1, <2>2
<1>6. /\ g.blocks = [b \in DOMAIN f.blocks |-> block(b)] /\ g.entry = f.entry /\ g.params = f.params
      /\ g = [blocks |-> g.blocks, entry |-> f.entry, params |-> f.params]
  <2> HIDE DEF block, g
  <2> QED BY <1>3, <1>5
<1> HIDE DEF g, block
<1>7. DOMAIN g.blocks = DOMAIN f.blocks /\ \A b \in DOMAIN f.blocks : g.blocks[b] = block(b)
  BY <1>6
<1>8. g.blocks \in Seq(Block)
  <2> DEFINE m == Len(f.blocks)
             bs == g.blocks
  <2>1. bs \in [1 .. m -> Block] /\ m \in Nat
    BY <1>3, <1>4, <1>6
  <2> HIDE DEF m, bs
  <2>2. bs \in Seq(Block)
    BY <2>1
  <2> QED BY <2>2 DEF bs
<1>9. IsFunction(g)
  <2>1. g \in [blocks : Seq(Block), entry : Nat, params : Seq(Reg)]
    BY <1>3, <1>6, <1>8
  <2>2. \A b \in DOMAIN g.blocks : g.blocks[b].next = f.blocks[b].next
    BY <1>4, <1>7
  <2>3. /\ f.entry \in DOMAIN f.blocks
        /\ \A b \in DOMAIN f.blocks : f.blocks[b].next \subseteq DOMAIN f.blocks
        /\ \A i, j \in DOMAIN f.params : f.params[i] = f.params[j] => i = j
    BY DEF IsFunction
  <2> QED BY <2>1, <2>2, <2>3, <1>6, <1>7 DEF IsFunction
<1> QED BY <1>1, <1>2, <1>4, <1>6, <1>7, <1>9 DEF g, code

LEMMA NextOffset ==
  ASSUME NEW f, IsFunction(f), NEW b \in DOMAIN f.blocks, NEW k \in DOMAIN f.blocks[b].code
  PROVE  Offsets(f, b)[k + 1] = Offsets(f, b)[k] + Width(f, b, k)
<1> DEFINE P == Pieces(f, b)
           start == Offsets(f, b)
           n == Len(f.blocks[b].code)
<1>1. LaidOut(P, FlattenSeq(P), start) /\ Len(P) = n
  BY RootedShape
<1>2. k \in 1 .. n /\ n \in Nat /\ LastIndex(f, b) = n + 1
  BY FunctionTypes
<1>3. P[k] = Piece(f, <<b, k>>)
  BY DEF Pieces
<1>4. Width(f, b, k) = Len(P[k])
  <2>1. k # n + 1
    BY <1>2
  <2> QED BY <1>2, <1>3, <2>1 DEF Width
<1> HIDE DEF P, start, n
<1>5. start[k + 1] = start[k] + Len(P[k])
  BY <1>1, <1>2 DEF LaidOut
<1> QED BY <1>4, <1>5 DEF start

LEMMA OffsetFacts ==
  ASSUME NEW f, IsFunction(f), NEW b \in DOMAIN f.blocks
  PROVE  /\ Offsets(f, b)[1] = 0
         /\ LastIndex(f, b) \in Nat \ {0}
         /\ LastIndex(Rooted(f), b) = Offsets(f, b)[LastIndex(f, b)] + 1
         /\ \A k \in 1 .. LastIndex(f, b) : Offsets(f, b)[k] \in Nat
         /\ \A k \in DOMAIN f.blocks[b].code :
              /\ k \in 1 .. LastIndex(f, b) /\ k # LastIndex(f, b) /\ k + 1 \in 1 .. LastIndex(f, b)
              /\ Width(f, b, k) = Len(Piece(f, <<b, k>>)) /\ Width(f, b, k) \in Nat \ {0}
              /\ Offsets(f, b)[k + 1] = Offsets(f, b)[k] + Width(f, b, k)
              /\ \A i \in 1 .. Width(f, b, k) :
                   /\ Offsets(f, b)[k] + i \in 1 .. LastIndex(Rooted(f), b) - 1
                   /\ Rooted(f).blocks[b].code[Offsets(f, b)[k] + i] = Piece(f, <<b, k>>)[i]
         /\ \A j \in 1 .. LastIndex(Rooted(f), b) : \E k \in 1 .. LastIndex(f, b) :
              \E i \in 1 .. Width(f, b, k) : j = Offsets(f, b)[k] + i
<1> DEFINE P == Pieces(f, b)
           flat == FlattenSeq(P)
           start == Offsets(f, b)
           n == Len(f.blocks[b].code)
<1>1. /\ P \in Seq(Seq(Instruction)) /\ Len(P) = n /\ flat \in Seq(Instruction)
      /\ LaidOut(P, flat, start) /\ Rooted(f).blocks[b].code = flat
  BY RootedShape
<1>2. DOMAIN f.blocks[b].code = 1 .. n /\ n \in Nat /\ LastIndex(f, b) = n + 1
  BY FunctionTypes
<1>3. \A k \in 1 .. n : P[k] = Piece(f, <<b, k>>)
  BY <1>2 DEF Pieces
<1>4. LastIndex(Rooted(f), b) = Len(flat) + 1 /\ Len(flat) \in Nat
  BY <1>1 DEF LastIndex
<1> HIDE DEF P, flat, start
<1>5. /\ start \in [1 .. n + 1 -> Nat] /\ start[1] = 0 /\ Len(flat) = start[n + 1]
      /\ \A k \in 1 .. n :
           /\ start[k + 1] = start[k] + Len(P[k]) /\ start[k + 1] <= Len(flat)
           /\ \A i \in 1 .. Len(P[k]) : flat[start[k] + i] = P[k][i]
  BY <1>1 DEF LaidOut
<1> HIDE DEF n
<1>6. ASSUME NEW k \in 1 .. n
      PROVE  /\ k \in 1 .. n + 1 /\ k # n + 1 /\ k + 1 \in 1 .. n + 1
             /\ Width(f, b, k) = Len(P[k]) /\ Width(f, b, k) \in Nat \ {0}
  <2>1. k \in 1 .. n + 1 /\ k # n + 1 /\ k + 1 \in 1 .. n + 1
    BY <1>2
  <2>2. Width(f, b, k) = Len(P[k])
    BY <2>1, <1>2, <1>3 DEF Width
  <2>3. Len(P[k]) = Centre(f, <<b, k>>) + SaveCount(f, <<b, k>>)
    <3>1. k \in DOMAIN f.blocks[b].code
      BY <1>2
    <3>2. Len(Piece(f, <<b, k>>)) = Centre(f, <<b, k>>) + SaveCount(f, <<b, k>>)
      BY <3>1, PieceShape DEF IsPiece
    <3> QED BY <1>3, <3>2
  <2>4. Centre(f, <<b, k>>) \in Nat \ {0} /\ SaveCount(f, <<b, k>>) \in Nat
    BY SavedInOrder
  <2> QED BY <2>1, <2>2, <2>3, <2>4
<1>7. ASSUME NEW k \in 1 .. n, NEW i \in 1 .. Len(P[k]) PROVE start[k] + i \in 1 .. Len(flat)
  <2> DEFINE x == start[k]  y == Len(P[k])  z == Len(flat)
  <2>1. x \in Nat /\ y \in Nat /\ z \in Nat /\ x + y <= z /\ i \in 1 .. y
    BY <1>4, <1>5, <1>6
  <2> HIDE DEF x, y, z
  <2>2. x + i \in 1 .. z
    BY <2>1
  <2> QED BY <2>2 DEF x, z
<1>8. ASSUME NEW j \in 1 .. Len(flat) + 1
      PROVE  \E k \in 1 .. n + 1 : \E i \in 1 .. Width(f, b, k) : j = start[k] + i
  <2>1. CASE j = Len(flat) + 1
    <3>1. Width(f, b, n + 1) = 1 /\ n + 1 \in 1 .. n + 1 /\ 1 \in 1 .. 1
      BY <1>2 DEF Width
    <3>2. j = start[n + 1] + 1
      BY <1>5, <2>1
    <3> QED BY <3>1, <3>2
  <2>2. CASE j # Len(flat) + 1
    <3>1. j \in 1 .. Len(flat)
      BY <1>4, <2>2
    <3>2. PICK k \in 1 .. n : \E i \in 1 .. Len(P[k]) : j = start[k] + i
      <4>1. IsPlaced(P, start, j)
        BY <1>1, <3>1, EveryPlaceInPiece
      <4> QED BY <1>1, <4>1 DEF IsPlaced
    <3> QED BY <1>6, <3>2
  <2> QED BY <2>1, <2>2
<1>9. Len(flat) + 1 - 1 = Len(flat)
  BY <1>4
<1>10. LastIndex(Rooted(f), b) = start[n + 1] + 1
  BY <1>4, <1>5
<1>11. \A k \in 1 .. n :
         /\ Width(f, b, k) = Len(Piece(f, <<b, k>>))
         /\ start[k + 1] = start[k] + Width(f, b, k)
         /\ \A i \in 1 .. Width(f, b, k) :
              /\ start[k] + i \in 1 .. LastIndex(Rooted(f), b) - 1
              /\ Rooted(f).blocks[b].code[start[k] + i] = Piece(f, <<b, k>>)[i]
  BY <1>1, <1>3, <1>4, <1>5, <1>6, <1>7, <1>9
<1>12. n + 1 \in Nat \ {0} /\ \A k \in 1 .. n + 1 : start[k] \in Nat
  BY <1>2, <1>5
<1>13. \A k \in DOMAIN f.blocks[b].code :
         /\ k \in 1 .. LastIndex(f, b) /\ k # LastIndex(f, b) /\ k + 1 \in 1 .. LastIndex(f, b)
         /\ Width(f, b, k) = Len(Piece(f, <<b, k>>)) /\ Width(f, b, k) \in Nat \ {0}
         /\ start[k + 1] = start[k] + Width(f, b, k)
         /\ \A i \in 1 .. Width(f, b, k) :
              /\ start[k] + i \in 1 .. LastIndex(Rooted(f), b) - 1
              /\ Rooted(f).blocks[b].code[start[k] + i] = Piece(f, <<b, k>>)[i]
  BY <1>2, <1>6, <1>11
<1>14. \A j \in 1 .. LastIndex(Rooted(f), b) : \E k \in 1 .. LastIndex(f, b) :
         \E i \in 1 .. Width(f, b, k) : j = start[k] + i
  BY <1>2, <1>4, <1>8
<1>15. LastIndex(Rooted(f), b) = start[LastIndex(f, b)] + 1
  BY <1>2, <1>10
<1>16. \A k \in 1 .. LastIndex(f, b) : start[k] \in Nat
  BY <1>2, <1>12
<1>17. LastIndex(f, b) \in Nat \ {0}
  BY <1>2, <1>12
<1> QED BY <1>5, <1>13, <1>14, <1>15, <1>16, <1>17 DEF start

\* The places of an instruction before the terminator follow one another.
LEMMA SpotFacts ==
  ASSUME NEW f, IsFunction(f), NEW b \in DOMAIN f.blocks, NEW k \in DOMAIN f.blocks[b].code,
         NEW i \in 1 .. Width(f, b, k)
  PROVE  /\ Spot(f, b, k, i) \in Points(Rooted(f)) /\ ~IsTerminator(Rooted(f), Spot(f, b, k, i))
         /\ InstructionAt(Rooted(f), Spot(f, b, k, i)) = Piece(f, <<b, k>>)[i]
         /\ NextPoints(Rooted(f), Spot(f, b, k, i)) =
              {IF i = Width(f, b, k) THEN Spot(f, b, k + 1, 1) ELSE Spot(f, b, k, i + 1)}
<1> DEFINE g == Rooted(f)
           j == Offsets(f, b)[k] + i
<1>1. IsFunction(g) /\ b \in DOMAIN g.blocks
  BY RootedShape
<1>2. /\ j \in 1 .. LastIndex(g, b) - 1 /\ g.blocks[b].code[j] = Piece(f, <<b, k>>)[i]
      /\ Offsets(f, b)[k] \in Nat /\ Width(f, b, k) \in Nat
      /\ Offsets(f, b)[k + 1] = Offsets(f, b)[k] + Width(f, b, k)
      /\ LastIndex(g, b) = Offsets(f, b)[LastIndex(f, b)] + 1
      /\ Offsets(f, b)[LastIndex(f, b)] \in Nat
  <2>1. LastIndex(f, b) \in 1 .. LastIndex(f, b)
    BY OffsetFacts
  <2> QED BY <2>1, OffsetFacts
<1>3. LastIndex(g, b) \in Nat
  BY <1>2
<1>4. j \in 1 .. LastIndex(g, b) /\ j # LastIndex(g, b)
  BY <1>2, <1>3
<1>5. Spot(f, b, k, i) = <<b, j>>
  BY DEF Spot
<1>6. j + 1 = IF i = Width(f, b, k) THEN Offsets(f, b)[k + 1] + 1 ELSE Offsets(f, b)[k] + (i + 1)
  BY <1>2
<1> HIDE DEF g, j
<1>7. <<b, j>> \in Points(g) /\ ~IsTerminator(g, <<b, j>>)
  BY <1>1, <1>4, PointShape DEF IsTerminator
<1>8. NextPoints(g, <<b, j>>) = {<<b, j + 1>>}
  BY <1>7 DEF NextPoints
<1> QED BY <1>2, <1>5, <1>6, <1>7, <1>8 DEF Spot, InstructionAt, g

LEMMA EndFacts ==
  ASSUME NEW f, IsFunction(f), NEW b \in DOMAIN f.blocks, NEW q, q = Spot(f, b, LastIndex(f, b), 1)
  PROVE  /\ q \in Points(Rooted(f)) /\ IsTerminator(Rooted(f), q)
         /\ IsTerminator(f, <<b, LastIndex(f, b)>>) /\ <<b, LastIndex(f, b)>> \in Points(f)
         /\ ReadsAt(Rooted(f), q) = f.blocks[b].reads /\ DefinesAt(Rooted(f), q) = {}
         /\ ReadsAt(f, <<b, LastIndex(f, b)>>) = f.blocks[b].reads
         /\ DefinesAt(f, <<b, LastIndex(f, b)>>) = {}
         /\ NextPoints(Rooted(f), q) = {Spot(f, c, 1, 1) : c \in f.blocks[b].next}
         /\ NextPoints(f, <<b, LastIndex(f, b)>>) = {<<c, 1>> : c \in f.blocks[b].next}
         /\ f.blocks[b].next \subseteq DOMAIN f.blocks
<1> DEFINE g == Rooted(f)
           n == LastIndex(f, b)
<1>1. /\ IsFunction(g) /\ b \in DOMAIN g.blocks
      /\ g.blocks[b].reads = f.blocks[b].reads /\ g.blocks[b].next = f.blocks[b].next
  BY RootedShape
<1>2. n \in Nat \ {0} /\ n \in 1 .. n /\ LastIndex(g, b) = Offsets(f, b)[n] + 1
  BY OffsetFacts
<1>3. Offsets(f, b)[n] + 1 \in 1 .. LastIndex(g, b)
  <2>1. Offsets(f, b)[n] \in Nat
    BY <1>2, OffsetFacts
  <2> QED BY <1>2, <2>1
<1>4. q = <<b, LastIndex(g, b)>>
  BY <1>2 DEF Spot
<1>5. q \in Points(g) /\ IsTerminator(g, q)
  BY <1>1, <1>2, <1>3, <1>4, PointShape DEF IsTerminator
<1>6. <<b, n>> \in Points(f) /\ IsTerminator(f, <<b, n>>)
  BY <1>2, PointShape DEF IsTerminator
<1>7. ReadsAt(g, q) = f.blocks[b].reads /\ DefinesAt(g, q) = {}
  BY <1>1, <1>4, <1>5 DEF ReadsAt, DefinesAt
<1>8. ReadsAt(f, <<b, n>>) = f.blocks[b].reads /\ DefinesAt(f, <<b, n>>) = {}
  BY <1>6 DEF ReadsAt, DefinesAt
<1>9. f.blocks[b].next \subseteq DOMAIN f.blocks
  BY FunctionTypes
<1>10. \A c \in f.blocks[b].next : Spot(f, c, 1, 1) = <<c, 1>>
  <2> SUFFICES ASSUME NEW c \in f.blocks[b].next PROVE Spot(f, c, 1, 1) = <<c, 1>>
    OBVIOUS
  <2>1. Offsets(f, c)[1] = 0
    BY <1>9, OffsetFacts
  <2> QED BY <2>1 DEF Spot
<1>11. NextPoints(g, q) = {<<c, 1>> : c \in f.blocks[b].next}
  BY <1>1, <1>4, <1>5 DEF NextPoints
<1>12. NextPoints(g, q) = {Spot(f, c, 1, 1) : c \in f.blocks[b].next}
  BY <1>10, <1>11
<1>13. NextPoints(f, <<b, n>>) = {<<c, 1>> : c \in f.blocks[b].next}
  BY <1>6 DEF NextPoints
<1> QED BY <1>5, <1>6, <1>7, <1>8, <1>9, <1>12, <1>13

LEMMA EverySpot ==
  ASSUME NEW f, IsFunction(f), NEW q \in Points(Rooted(f))
  PROVE  \E b \in DOMAIN f.blocks : \E k \in 1 .. LastIndex(f, b) : \E i \in 1 .. Width(f, b, k) :
           q = Spot(f, b, k, i)
<1>1. IsFunction(Rooted(f)) /\ DOMAIN Rooted(f).blocks = DOMAIN f.blocks
  BY RootedShape
<1>2. q = <<q[1], q[2]>> /\ q[1] \in DOMAIN f.blocks /\ q[2] \in 1 .. LastIndex(Rooted(f), q[1])
  BY <1>1, PointShape
<1>3. PICK k \in 1 .. LastIndex(f, q[1]) : \E i \in 1 .. Width(f, q[1], k) :
        q[2] = Offsets(f, q[1])[k] + i
  BY <1>2, OffsetFacts
<1> QED BY <1>2, <1>3 DEF Spot

\* A place is the terminator's or an instruction's.
LEMMA InnerOrEnd ==
  ASSUME NEW f, IsFunction(f), NEW b \in DOMAIN f.blocks, NEW k \in 1 .. LastIndex(f, b)
  PROVE  k \in DOMAIN f.blocks[b].code \/ (k = LastIndex(f, b) /\ Width(f, b, k) = 1)
<1>1. /\ DOMAIN f.blocks[b].code = 1 .. Len(f.blocks[b].code) /\ Len(f.blocks[b].code) \in Nat
      /\ LastIndex(f, b) = Len(f.blocks[b].code) + 1
  BY FunctionTypes
<1>2. k = LastIndex(f, b) => Width(f, b, k) = 1
  BY DEF Width
<1>3. k # LastIndex(f, b) => k \in 1 .. Len(f.blocks[b].code)
  BY <1>1
<1> QED BY <1>1, <1>2, <1>3

\* What the places around an instruction do.
LEMMA SpotKinds ==
  ASSUME NEW f, IsFunction(f), NEW b \in DOMAIN f.blocks, NEW k \in DOMAIN f.blocks[b].code,
         NEW p, p = <<b, k>>, NEW g, g = Rooted(f)
  PROVE  /\ Width(f, b, k) = Centre(f, p) + SaveCount(f, p)
         /\ \A i \in 1 .. Width(f, b, k) :
              \/ i \in 1 .. SaveCount(f, p)
              \/ \E j \in 1 .. NullCount(f, p) : i = SaveCount(f, p) + j
              \/ i = Centre(f, p)
              \/ \E j \in 1 .. SaveCount(f, p) : i = Centre(f, p) + j
         /\ \A i \in 1 .. SaveCount(f, p) :
              /\ i \in 1 .. Width(f, b, k) /\ i < Centre(f, p)
              /\ InstructionAt(g, Spot(f, b, k, i)) =
                   RootStore(SlotsOf(f)[Saved(f, p, i)], {Saved(f, p, i)}, InstructionAt(f, p).line)
         /\ \A i \in 1 .. NullCount(f, p) :
              /\ SaveCount(f, p) + i \in 1 .. Width(f, b, k) /\ SaveCount(f, p) + i < Centre(f, p)
              /\ InstructionAt(g, Spot(f, b, k, SaveCount(f, p) + i)) =
                   RootStore(Nulled(f, p, i), {}, InstructionAt(f, p).line)
         /\ Centre(f, p) \in 1 .. Width(f, b, k)
         /\ InstructionAt(g, Spot(f, b, k, Centre(f, p))) = InstructionAt(f, p)
         /\ \A i \in 1 .. SaveCount(f, p) :
              /\ Centre(f, p) + i \in 1 .. Width(f, b, k)
              /\ InstructionAt(g, Spot(f, b, k, Centre(f, p) + i)) =
                   RootLoad(SlotsOf(f)[Saved(f, p, i)], Saved(f, p, i), InstructionAt(f, p).line)
<1> DEFINE m == SaveCount(f, p)  n == NullCount(f, p)  c == Centre(f, p)  w == Width(f, b, k)
<1>1. m \in Nat /\ n \in Nat /\ c = m + n + 1
  BY SavedInOrder DEF Centre
<1>2. w = c + m
  <2>1. w = Len(Piece(f, p))
    BY OffsetFacts
  <2> QED BY <2>1, PieceShape DEF IsPiece
<1>3. \A i \in 1 .. w : InstructionAt(g, Spot(f, b, k, i)) = Piece(f, p)[i]
  BY SpotFacts
<1>4. /\ \A i \in 1 .. m :
           Piece(f, p)[i] = RootStore(SlotsOf(f)[Saved(f, p, i)], {Saved(f, p, i)}, InstructionAt(f, p).line)
      /\ \A i \in 1 .. n :
           Piece(f, p)[m + i] = RootStore(Nulled(f, p, i), {}, InstructionAt(f, p).line)
      /\ Piece(f, p)[c] = InstructionAt(f, p)
      /\ \A i \in 1 .. m :
           Piece(f, p)[c + i] = RootLoad(SlotsOf(f)[Saved(f, p, i)], Saved(f, p, i), InstructionAt(f, p).line)
  <2>1. IsPiece(f, p, Piece(f, p))
    BY PieceShape
  <2> QED BY <2>1 DEF IsPiece
<1> HIDE DEF m, n, c, w
<1>5. /\ \A i \in 1 .. m : i \in 1 .. w /\ i < c /\ c + i \in 1 .. w
      /\ \A i \in 1 .. n : m + i \in 1 .. w /\ m + i < c
      /\ c \in 1 .. w
  BY <1>1, <1>2
<1>6. ASSUME NEW i \in 1 .. w
      PROVE  \/ i \in 1 .. m \/ (\E j \in 1 .. n : i = m + j) \/ i = c \/ (\E j \in 1 .. m : i = c + j)
  <2>1. CASE i > m /\ i < c
    <3>1. i - m \in 1 .. n /\ i = m + (i - m)
      BY <1>1, <2>1
    <3> QED BY <3>1
  <2>2. CASE i > c
    <3>1. i - c \in 1 .. m /\ i = c + (i - c)
      BY <1>1, <1>2, <2>2
    <3> QED BY <3>1
  <2>3. CASE i <= m
    <3>1. i \in 1 .. m
      BY <1>1, <2>3
    <3> QED BY <3>1
  <2> QED BY <1>1, <2>1, <2>2, <2>3
<1>7. /\ \A i \in 1 .. m : InstructionAt(g, Spot(f, b, k, i)) =
           RootStore(SlotsOf(f)[Saved(f, p, i)], {Saved(f, p, i)}, InstructionAt(f, p).line)
      /\ \A i \in 1 .. n : InstructionAt(g, Spot(f, b, k, m + i)) =
           RootStore(Nulled(f, p, i), {}, InstructionAt(f, p).line)
      /\ InstructionAt(g, Spot(f, b, k, c)) = InstructionAt(f, p)
      /\ \A i \in 1 .. m : InstructionAt(g, Spot(f, b, k, c + i)) =
           RootLoad(SlotsOf(f)[Saved(f, p, i)], Saved(f, p, i), InstructionAt(f, p).line)
  BY <1>3, <1>4, <1>5
<1> QED BY <1>2, <1>5, <1>6, <1>7 DEF m, n, c, w

LEMMA SavedAreRefs ==
  ASSUME NEW f, IsFunction(f), NEW p, NEW i \in 1 .. SaveCount(f, p)
  PROVE  /\ Saved(f, p, i) \in Saves(f, p) /\ Saved(f, p, i) \in RefRegs /\ Saved(f, p, i) \in Reg
         /\ Saved(f, p, i) # NoReg
         /\ Saved(f, p, i) \in DOMAIN SlotsOf(f)
         /\ SlotsOf(f)[Saved(f, p, i)] \in 0 .. Cardinality(RefRegs) - 1
<1>1. Saved(f, p, i) \in Saves(f, p)
  BY SavedInOrder
<1>2. Saves(f, p) \subseteq DOMAIN SlotsOf(f)
  BY SlotFacts
<1> QED BY <1>1, <1>2, SlotFacts, IrAssumption

\* What they read and write, and where they lead.
LEMMA SpotEffects ==
  ASSUME NEW f, IsFunction(f), NEW b \in DOMAIN f.blocks, NEW k \in DOMAIN f.blocks[b].code,
         NEW p, p = <<b, k>>, NEW g, g = Rooted(f)
  PROVE  /\ \A i \in 1 .. SaveCount(f, p) :
              /\ ReadsAt(g, Spot(f, b, k, i)) = {Saved(f, p, i)}
              /\ DefinesAt(g, Spot(f, b, k, i)) = {}
         /\ \A i \in 1 .. NullCount(f, p) :
              /\ ReadsAt(g, Spot(f, b, k, SaveCount(f, p) + i)) = {}
              /\ DefinesAt(g, Spot(f, b, k, SaveCount(f, p) + i)) = {}
         /\ ReadsAt(g, Spot(f, b, k, Centre(f, p))) = ReadsAt(f, p)
         /\ DefinesAt(g, Spot(f, b, k, Centre(f, p))) = DefinesAt(f, p)
         /\ \A i \in 1 .. SaveCount(f, p) :
              /\ ReadsAt(g, Spot(f, b, k, Centre(f, p) + i)) = {}
              /\ DefinesAt(g, Spot(f, b, k, Centre(f, p) + i)) = {Saved(f, p, i)}
<1> DEFINE m == SaveCount(f, p)  n == NullCount(f, p)  c == Centre(f, p)
<1>1. \A i \in 1 .. Width(f, b, k) : ~IsTerminator(g, Spot(f, b, k, i))
  BY SpotFacts
<1>2. ~IsTerminator(f, p)
  BY InnerPoint
<1>3. \A i \in 1 .. m : Saved(f, p, i) # NoReg
  BY SavedAreRefs
<1> USE DEF ReadsAt, DefinesAt, Defines, RootStore, RootLoad
<1>4. ASSUME NEW i \in 1 .. m
      PROVE  /\ ReadsAt(g, Spot(f, b, k, i)) = {Saved(f, p, i)}
             /\ DefinesAt(g, Spot(f, b, k, i)) = {}
  <2>1. /\ ~IsTerminator(g, Spot(f, b, k, i))
        /\ InstructionAt(g, Spot(f, b, k, i)) =
             RootStore(SlotsOf(f)[Saved(f, p, i)], {Saved(f, p, i)}, InstructionAt(f, p).line)
    BY <1>1, SpotKinds
  <2> QED BY <2>1
<1>5. ASSUME NEW i \in 1 .. n
      PROVE  /\ ReadsAt(g, Spot(f, b, k, m + i)) = {}
             /\ DefinesAt(g, Spot(f, b, k, m + i)) = {}
  <2>1. /\ ~IsTerminator(g, Spot(f, b, k, m + i))
        /\ InstructionAt(g, Spot(f, b, k, m + i)) =
             RootStore(Nulled(f, p, i), {}, InstructionAt(f, p).line)
    BY <1>1, SpotKinds
  <2> QED BY <2>1
<1>6. /\ ReadsAt(g, Spot(f, b, k, c)) = ReadsAt(f, p)
      /\ DefinesAt(g, Spot(f, b, k, c)) = DefinesAt(f, p)
  <2>1. /\ ~IsTerminator(g, Spot(f, b, k, c))
        /\ InstructionAt(g, Spot(f, b, k, c)) = InstructionAt(f, p)
    BY <1>1, SpotKinds
  <2> QED BY <1>2, <2>1
<1>7. ASSUME NEW i \in 1 .. m
      PROVE  /\ ReadsAt(g, Spot(f, b, k, c + i)) = {}
             /\ DefinesAt(g, Spot(f, b, k, c + i)) = {Saved(f, p, i)}
  <2>1. /\ ~IsTerminator(g, Spot(f, b, k, c + i))
        /\ InstructionAt(g, Spot(f, b, k, c + i)) =
             RootLoad(SlotsOf(f)[Saved(f, p, i)], Saved(f, p, i), InstructionAt(f, p).line)
    BY <1>1, SpotKinds
  <2> QED BY <1>3, <2>1
<1> QED BY <1>4, <1>5, <1>6, <1>7

LEMMA SaveSpot ==
  ASSUME NEW f, IsFunction(f), NEW b \in DOMAIN f.blocks, NEW k \in DOMAIN f.blocks[b].code,
         NEW p, p = <<b, k>>, NEW i \in 1 .. SaveCount(f, p)
  PROVE  InstructionAt(Rooted(f), Spot(f, b, k, i)) =
           RootStore(SlotsOf(f)[Saved(f, p, i)], {Saved(f, p, i)}, InstructionAt(f, p).line)
<1>1. i \in 1 .. Width(f, b, k)
  BY SpotKinds
<1>2. InstructionAt(Rooted(f), Spot(f, b, k, i)) = Piece(f, p)[i]
  BY <1>1, SpotFacts
<1>3. IsPiece(f, p, Piece(f, p))
  BY PieceShape
<1>4. Piece(f, p)[i] =
        RootStore(SlotsOf(f)[Saved(f, p, i)], {Saved(f, p, i)}, InstructionAt(f, p).line)
  BY <1>3, Zenon DEF IsPiece
<1> QED BY <1>2, <1>4, Zenon

LEMMA InnerSpot ==
  ASSUME NEW f, IsFunction(f), NEW q \in Points(Rooted(f)), ~IsTerminator(Rooted(f), q)
  PROVE  \E b \in DOMAIN f.blocks : \E k \in DOMAIN f.blocks[b].code : \E i \in 1 .. Width(f, b, k) :
           q = Spot(f, b, k, i)
<1>1. PICK b \in DOMAIN f.blocks :
        \E k \in 1 .. LastIndex(f, b) : \E i \in 1 .. Width(f, b, k) : q = Spot(f, b, k, i)
  BY EverySpot
<1>2. PICK k \in 1 .. LastIndex(f, b) : \E i \in 1 .. Width(f, b, k) : q = Spot(f, b, k, i)
  BY <1>1
<1>3. PICK i \in 1 .. Width(f, b, k) : q = Spot(f, b, k, i)
  BY <1>2
<1>4. ASSUME k = LastIndex(f, b), Width(f, b, k) = 1 PROVE FALSE
  <2>1. q = Spot(f, b, LastIndex(f, b), 1)
    BY <1>3, <1>4
  <2> QED BY <2>1, EndFacts
<1>5. k \in DOMAIN f.blocks[b].code
  BY <1>4, InnerOrEnd
<1> QED BY <1>3, <1>5

---------------------------------------------------------------------------
(***************************************************************************)
(* What the rooted function needs, place by place: before the call what    *)
(* the source needs there, among the reloads what is needed afterwards and *)
(* not about to be reloaded.                                               *)
(***************************************************************************)
StillToLoad(f, p, i) == {Saved(f, p, j) : j \in i - Centre(f, p) .. SaveCount(f, p)}

Needed(f, b, k, i) ==
  IF k = LastIndex(f, b) \/ i <= Centre(f, <<b, k>>)
    THEN LiveBefore(f)[<<b, k>>]
    ELSE LiveAfter(f)[<<b, k>>] \ StillToLoad(f, <<b, k>>, i)

LEMMA NeededFirst ==
  ASSUME NEW f, IsFunction(f), NEW b, NEW k
  PROVE  Needed(f, b, k, 1) = LiveBefore(f)[<<b, k>>]
<1>1. Centre(f, <<b, k>>) \in Nat \ {0}
  BY SavedInOrder
<1> QED BY <1>1 DEF Needed

LEMMA ReadsNeeded ==
  ASSUME NEW f, IsFunction(f), NEW b \in DOMAIN f.blocks, NEW k \in 1 .. LastIndex(f, b),
         NEW i \in 1 .. Width(f, b, k)
  PROVE  ReadsAt(Rooted(f), Spot(f, b, k, i)) \subseteq Needed(f, b, k, i)
<1> DEFINE p == <<b, k>>  g == Rooted(f)
<1>1. CASE k \in DOMAIN f.blocks[b].code
  <2>1. p \in Points(f)
    BY <1>1, InnerPoint
  <2>2. ReadsAt(f, p) \subseteq LiveBefore(f)[p]
    BY <2>1, LiveEquations
  <2>3. LiveAfter(f)[p] \ DefinesAt(f, p) \subseteq LiveBefore(f)[p]
    BY <2>1, LiveEquations
  <2>4. Saves(f, p) \subseteq LiveBefore(f)[p]
    BY <2>3, NeedsExact DEF Saves
  <2>5. SaveCount(f, p) \in Nat /\ NullCount(f, p) \in Nat /\ Centre(f, p) \in Nat \ {0}
    BY SavedInOrder
  <2>6. i <= Centre(f, p) => Needed(f, b, k, i) = LiveBefore(f)[p]
    BY DEF Needed
  <2>7. CASE i \in 1 .. SaveCount(f, p)
    <3>1. ReadsAt(g, Spot(f, b, k, i)) = {Saved(f, p, i)}
      BY <1>1, <2>7, SpotEffects
    <3>2. i < Centre(f, p)
      BY <1>1, <2>7, SpotKinds
    <3>3. i <= Centre(f, p)
      BY <2>5, <2>7, <3>2
    <3>4. Saved(f, p, i) \in Saves(f, p)
      BY <2>7, SavedAreRefs
    <3> QED BY <2>4, <2>6, <3>1, <3>3, <3>4
  <2>8. CASE i = Centre(f, p)
    <3>1. ReadsAt(g, Spot(f, b, k, i)) = ReadsAt(f, p)
      BY <1>1, <2>8, SpotEffects
    <3>2. i <= Centre(f, p)
      BY <2>5, <2>8
    <3> QED BY <2>2, <2>6, <3>1, <3>2
  <2>9. CASE \/ \E j \in 1 .. NullCount(f, p) : i = SaveCount(f, p) + j
             \/ \E j \in 1 .. SaveCount(f, p) : i = Centre(f, p) + j
    <3>1. ReadsAt(g, Spot(f, b, k, i)) = {}
      BY <1>1, <2>9, SpotEffects
    <3> QED BY <3>1
  <2> QED BY <1>1, <2>7, <2>8, <2>9, SpotKinds
<1>2. CASE k = LastIndex(f, b) /\ Width(f, b, k) = 1
  <2>1. i = 1
    BY <1>2
  <2>2. ReadsAt(g, Spot(f, b, k, 1)) = ReadsAt(f, p) /\ p \in Points(f)
    BY <1>2, EndFacts
  <2>3. Needed(f, b, k, i) = LiveBefore(f)[p]
    BY <1>2 DEF Needed
  <2> QED BY <2>1, <2>2, <2>3, LiveEquations
<1> QED BY <1>1, <1>2, InnerOrEnd

\* What is needed at the next place and not written here is needed here.
Leads(f, b, k, i, x) ==
  \E c \in DOMAIN f.blocks : \E l \in 1 .. LastIndex(f, c) : \E j \in 1 .. Width(f, c, l) :
    /\ x = Spot(f, c, l, j)
    /\ Needed(f, c, l, j) \ DefinesAt(Rooted(f), Spot(f, b, k, i)) \subseteq Needed(f, b, k, i)

LEMMA NeedFlows ==
  ASSUME NEW f, IsFunction(f), NEW b \in DOMAIN f.blocks, NEW k \in 1 .. LastIndex(f, b),
         NEW i \in 1 .. Width(f, b, k), NEW x \in NextPoints(Rooted(f), Spot(f, b, k, i))
  PROVE  Leads(f, b, k, i, x)
<1> DEFINE p == <<b, k>>  g == Rooted(f)  q == Spot(f, b, k, i)
<1>1. \A c \in DOMAIN f.blocks : \A l \in 1 .. LastIndex(f, c) : 1 \in 1 .. Width(f, c, l)
  <2> SUFFICES ASSUME NEW c \in DOMAIN f.blocks, NEW l \in 1 .. LastIndex(f, c)
               PROVE  1 \in 1 .. Width(f, c, l)
    OBVIOUS
  <2>1. CASE l \in DOMAIN f.blocks[c].code
    <3>1. Width(f, c, l) \in Nat \ {0}
      BY <2>1, OffsetFacts
    <3> QED BY <3>1
  <2> QED BY <2>1, InnerOrEnd
<1>2. CASE k = LastIndex(f, b) /\ Width(f, b, k) = 1
  <2>1. i = 1 /\ q = Spot(f, b, LastIndex(f, b), 1)
    BY <1>2
  <2>2. /\ p \in Points(f) /\ DefinesAt(f, p) = {} /\ DefinesAt(g, q) = {}
        /\ NextPoints(g, q) = {Spot(f, c, 1, 1) : c \in f.blocks[b].next}
        /\ NextPoints(f, p) = {<<c, 1>> : c \in f.blocks[b].next}
        /\ f.blocks[b].next \subseteq DOMAIN f.blocks
    BY <1>2, <2>1, EndFacts
  <2>3. PICK c \in f.blocks[b].next : x = Spot(f, c, 1, 1)
    BY <2>2
  <2>4. LiveBefore(f)[<<c, 1>>] \subseteq LiveBefore(f)[p]
    <3>1. LiveBefore(f)[<<c, 1>>] \subseteq LiveAfter(f)[p]
      <4>1. LiveAfter(f)[p] = UNION {LiveBefore(f)[y] : y \in NextPoints(f, p)}
        BY <2>2, LiveEquations
      <4>2. <<c, 1>> \in NextPoints(f, p)
        BY <2>2
      <4> QED BY <4>1, <4>2
    <3>2. LiveAfter(f)[p] \subseteq LiveBefore(f)[p]
      BY <2>2, LiveEquations
    <3> QED BY <3>1, <3>2
  <2>5. Needed(f, c, 1, 1) = LiveBefore(f)[<<c, 1>>] /\ Needed(f, b, k, i) = LiveBefore(f)[p]
    BY <2>1, NeededFirst
  <2>6. c \in DOMAIN f.blocks /\ 1 \in 1 .. LastIndex(f, c)
    <3>1. c \in DOMAIN f.blocks
      BY <2>2
    <3>2. LastIndex(f, c) \in Nat \ {0}
      BY <3>1, OffsetFacts
    <3> QED BY <3>1, <3>2
  <2>7. 1 \in 1 .. Width(f, c, 1)
    BY <1>1, <2>6
  <2> HIDE DEF p, g, q
  <2> QED BY <2>3, <2>4, <2>5, <2>6, <2>7 DEF Leads
<1>3. CASE k \in DOMAIN f.blocks[b].code
  <2> DEFINE m == SaveCount(f, p)  n == NullCount(f, p)  c == Centre(f, p)  w == Width(f, b, k)
  <2>1. /\ p \in Points(f) /\ k # LastIndex(f, b) /\ k + 1 \in 1 .. LastIndex(f, b)
        /\ LiveAfter(f)[p] = LiveBefore(f)[<<b, k + 1>>]
    BY <1>3, InnerPoint, OffsetFacts
  <2>2. x = IF i = w THEN Spot(f, b, k + 1, 1) ELSE Spot(f, b, k, i + 1)
    <3>1. NextPoints(g, q) = {IF i = w THEN Spot(f, b, k + 1, 1) ELSE Spot(f, b, k, i + 1)}
      BY <1>3, SpotFacts
    <3>2. x \in NextPoints(g, q)
      OBVIOUS
    <3> HIDE DEF g, q, w
    <3> QED BY <3>1, <3>2
  <2>3. m \in Nat /\ n \in Nat /\ c \in Nat \ {0} /\ w = c + m /\ i \in 1 .. w
    BY <1>3, SavedInOrder, SpotKinds
  <2>4. LiveAfter(f)[p] \ DefinesAt(f, p) \subseteq LiveBefore(f)[p]
    BY <2>1, LiveEquations
  <2>5. i <= c => Needed(f, b, k, i) = LiveBefore(f)[p]
    BY DEF Needed
  <2>6. \A j \in Int : j > c => Needed(f, b, k, j) = LiveAfter(f)[p] \ StillToLoad(f, p, j)
    BY <2>1, <2>3 DEF Needed
  <2>7. Needed(f, b, k + 1, 1) = LiveAfter(f)[p]
    BY <2>1, NeededFirst
  <2>8. i < c => DefinesAt(g, q) = {}
    <3> SUFFICES ASSUME i < c PROVE DefinesAt(g, q) = {}
      OBVIOUS
    <3>1. i \in 1 .. m \/ \E j \in 1 .. n : i = m + j
      <4>1. i # c /\ ~(\E j \in 1 .. m : i = c + j)
        BY <2>3
      <4>2. i \in 1 .. m \/ (\E j \in 1 .. n : i = m + j) \/ i = c \/ \E j \in 1 .. m : i = c + j
        BY <1>3, SpotKinds
      <4> QED BY <4>1, <4>2
    <3> QED BY <1>3, <3>1, SpotEffects
  <2>9. i = c => DefinesAt(g, q) = DefinesAt(f, p)
    BY <1>3, SpotEffects
  <2>10. \A j \in 1 .. m : i = c + j => DefinesAt(g, q) = {Saved(f, p, j)}
    BY <1>3, SpotEffects
  <2>11. i > c => \E j \in 1 .. m : i = c + j
    <3> SUFFICES ASSUME i > c PROVE \E j \in 1 .. m : i = c + j
      OBVIOUS
    <3>1. i - c \in 1 .. m /\ i = c + (i - c)
      BY <2>3
    <3> QED BY <3>1
  <2>12. 1 \in 1 .. Width(f, b, k + 1)
    BY <1>1, <2>1
  <2> HIDE DEF p, g, q, m, n, c, w
  <2>13. CASE i = w
    <3>1. x = Spot(f, b, k + 1, 1)
      BY <2>2, <2>13
    <3>2. LiveAfter(f)[p] \ DefinesAt(g, q) \subseteq Needed(f, b, k, i)
      <4>1. CASE i = c
        <5>1. i <= c
          BY <2>3, <4>1
        <5> QED BY <2>4, <2>5, <2>9, <4>1, <5>1
      <4>2. CASE i > c
        <5>1. PICK j \in 1 .. m : i = c + j
          BY <2>11, <4>2
        <5>2. j = m /\ i - c .. m = {m}
          BY <2>3, <2>13, <5>1
        <5>3. StillToLoad(f, p, i) = {Saved(f, p, m)}
          BY <5>2 DEF StillToLoad, c, m
        <5>4. DefinesAt(g, q) = {Saved(f, p, m)}
          BY <2>10, <5>1, <5>2
        <5>5. Needed(f, b, k, i) = LiveAfter(f)[p] \ StillToLoad(f, p, i)
          BY <2>6, <4>2
        <5> QED BY <5>3, <5>4, <5>5
      <4>3. i = c \/ i > c
        BY <2>3, <2>13
      <4> QED BY <4>1, <4>2, <4>3
    <3> QED BY <2>1, <2>7, <2>12, <3>1, <3>2 DEF Leads, g, q
  <2>14. CASE i # w
    <3>0. x = Spot(f, b, k, i + 1)
      BY <2>2, <2>14
    <3>1. x = Spot(f, b, k, i + 1) /\ i + 1 \in 1 .. w
      BY <2>3, <2>14, <3>0
    <3>2. Needed(f, b, k, i + 1) \ DefinesAt(g, q) \subseteq Needed(f, b, k, i)
      <4>1. CASE i < c
        <5>1. i <= c /\ i + 1 <= c
          BY <2>3, <4>1
        <5>2. Needed(f, b, k, i + 1) = LiveBefore(f)[p]
          BY <5>1 DEF Needed, c, p
        <5> QED BY <2>5, <5>1, <5>2
      <4>2. CASE i = c
        <5>1. i <= c /\ i + 1 > c /\ i + 1 \in Int
          BY <2>3, <4>2
        <5>2. Needed(f, b, k, i + 1) \subseteq LiveAfter(f)[p]
          BY <2>6, <5>1
        <5> QED BY <2>4, <2>5, <2>9, <4>2, <5>1, <5>2
      <4>3. CASE i > c
        <5>1. PICK j \in 1 .. m : i = c + j
          BY <2>11, <4>3
        <5>2. /\ i + 1 > c /\ i + 1 \in Int /\ i \in Int
              /\ i - c .. m = {j} \cup ((i + 1) - c .. m)
          BY <2>3, <5>1
        <5>3. StillToLoad(f, p, i) = {Saved(f, p, j)} \cup StillToLoad(f, p, i + 1)
          BY <5>2 DEF StillToLoad, c, m
        <5>4. DefinesAt(g, q) = {Saved(f, p, j)}
          BY <2>10, <5>1
        <5>5. /\ Needed(f, b, k, i) = LiveAfter(f)[p] \ StillToLoad(f, p, i)
              /\ Needed(f, b, k, i + 1) = LiveAfter(f)[p] \ StillToLoad(f, p, i + 1)
          BY <2>6, <4>3, <5>2
        <5> QED BY <5>3, <5>4, <5>5
      <4> QED BY <2>3, <4>1, <4>2, <4>3
    <3>3. k \in 1 .. LastIndex(f, b)
      OBVIOUS
    <3> QED BY <3>1, <3>2, <3>3 DEF Leads, g, q, w
  <2> QED BY <2>13, <2>14
<1> QED BY <1>2, <1>3, InnerOrEnd

\* Rooting makes nothing else live.
LEMMA LiveIsNeeded ==
  ASSUME NEW f, IsFunction(f), NEW b \in DOMAIN f.blocks, NEW k \in 1 .. LastIndex(f, b),
         NEW i \in 1 .. Width(f, b, k), Spot(f, b, k, i) \in Points(Rooted(f))
  PROVE  LiveBefore(Rooted(f))[Spot(f, b, k, i)] \subseteq Needed(f, b, k, i)
<1> DEFINE g == Rooted(f)
           Ok(q, r) == \A c \in DOMAIN f.blocks : \A l \in 1 .. LastIndex(f, c) :
                         \A j \in 1 .. Width(f, c, l) : q = Spot(f, c, l, j) => r \in Needed(f, c, l, j)
           claim == [q \in Points(g) |-> {r \in Reg : Ok(q, r)}]
<1>1. IsFunction(g)
  BY RootedShape
<1>2. ASSUME NEW q \in Points(g) PROVE ReadsAt(g, q) \subseteq claim[q]
  <2>1. ReadsAt(g, q) \subseteq Reg
    BY <1>1, PointsFlow
  <2>2. \A r \in ReadsAt(g, q) : Ok(q, r)
    BY ReadsNeeded
  <2> QED BY <2>1, <2>2
<1>3. ASSUME NEW q \in Points(g), NEW x \in NextPoints(g, q)
      PROVE  (Reg \cap claim[x]) \ DefinesAt(g, q) \subseteq claim[q]
  <2> SUFFICES ASSUME NEW r \in Reg, r \in claim[x], r \notin DefinesAt(g, q),
                      NEW c \in DOMAIN f.blocks, NEW l \in 1 .. LastIndex(f, c),
                      NEW j \in 1 .. Width(f, c, l), q = Spot(f, c, l, j)
               PROVE  r \in Needed(f, c, l, j)
    OBVIOUS
  <2>1. x \in Points(g)
    BY <1>1, PointsFlow
  <2>2. Leads(f, c, l, j, x)
    BY NeedFlows
  <2>3. Ok(x, r)
    BY <2>1
  <2> HIDE DEF claim
  <2> QED BY <2>2, <2>3 DEF Leads
<1> HIDE DEF claim
<1>4. \A q \in Points(g) : LiveBefore(g)[q] \subseteq claim[q]
  <2> HIDE DEF g
  <2> QED BY <1>1, <1>2, <1>3, LiveLeast
<1>5. \A q \in Points(g) : \A r \in claim[q] : Ok(q, r)
  BY DEF claim
<1> QED BY <1>4, <1>5

---------------------------------------------------------------------------
(***************************************************************************)
(* Across a call of the rooted function nothing live is a reference, the   *)
(* call's own result excepted.                                             *)
(***************************************************************************)
\* The calls of the rooted function are the calls of the function.
LEMMA CallSpot ==
  ASSUME NEW f, IsFunction(f), NEW q \in CallPoints(Rooted(f))
  PROVE  \E b \in DOMAIN f.blocks : \E k \in DOMAIN f.blocks[b].code :
           <<b, k>> \in CallPoints(f) /\ q = Spot(f, b, k, Centre(f, <<b, k>>))
<1> DEFINE g == Rooted(f)
<1>1. q \in Points(g) /\ ~IsTerminator(g, q) /\ InstructionAt(g, q).op = "call"
  BY DEF CallPoints, IsCall
<1>2. PICK b \in DOMAIN f.blocks : \E k \in DOMAIN f.blocks[b].code :
        \E i \in 1 .. Width(f, b, k) : q = Spot(f, b, k, i)
  BY <1>1, InnerSpot
<1>3. PICK k \in DOMAIN f.blocks[b].code : \E i \in 1 .. Width(f, b, k) : q = Spot(f, b, k, i)
  BY <1>2
<1>4. PICK i \in 1 .. Width(f, b, k) : q = Spot(f, b, k, i)
  BY <1>3
<1> DEFINE p == <<b, k>>
<1>6. i = Centre(f, p)
  <2>1. ASSUME NEW j \in 1 .. SaveCount(f, p), i = j PROVE FALSE
    <3>1. InstructionAt(g, q) =
            RootStore(SlotsOf(f)[Saved(f, p, j)], {Saved(f, p, j)}, InstructionAt(f, p).line)
      BY <1>4, <2>1, SaveSpot
    <3> HIDE DEF g, p
    <3> QED BY <1>1, <3>1 DEF RootStore
  <2>2. ASSUME NEW j \in 1 .. NullCount(f, p), i = SaveCount(f, p) + j PROVE FALSE
    <3>1. InstructionAt(g, q) = RootStore(Nulled(f, p, j), {}, InstructionAt(f, p).line)
      BY <1>4, <2>2, SpotKinds
    <3> HIDE DEF g, p
    <3> QED BY <1>1, <3>1 DEF RootStore
  <2>3. ASSUME NEW j \in 1 .. SaveCount(f, p), i = Centre(f, p) + j PROVE FALSE
    <3>1. InstructionAt(g, q) =
            RootLoad(SlotsOf(f)[Saved(f, p, j)], Saved(f, p, j), InstructionAt(f, p).line)
      BY <1>4, <2>3, SpotKinds
    <3> HIDE DEF g, p
    <3> QED BY <1>1, <3>1 DEF RootLoad
  <2>4. \/ i \in 1 .. SaveCount(f, p)
        \/ \E j \in 1 .. NullCount(f, p) : i = SaveCount(f, p) + j
        \/ i = Centre(f, p)
        \/ \E j \in 1 .. SaveCount(f, p) : i = Centre(f, p) + j
    BY SpotKinds
  <2> QED BY <2>1, <2>2, <2>3, <2>4
<1>7. InstructionAt(g, q) = InstructionAt(f, p)
  BY <1>4, <1>6, SpotKinds
<1>8. p \in Points(f) /\ ~IsTerminator(f, p)
  BY InnerPoint
<1>9. p \in CallPoints(f)
  BY <1>1, <1>7, <1>8 DEF CallPoints, IsCall
<1> QED BY <1>4, <1>6, <1>9

\* Nothing live after a call is a reference the call must keep.
LEMMA NoRefsAcross ==
  ASSUME NEW f, IsFunction(f), NEW b \in DOMAIN f.blocks, NEW k \in DOMAIN f.blocks[b].code,
         NEW p, p = <<b, k>>, p \in CallPoints(f),
         NEW x \in NextPoints(Rooted(f), Spot(f, b, k, Centre(f, p))),
         NEW r \in LiveBefore(Rooted(f))[x], r \notin DefinesAt(f, p)
  PROVE  r \notin RefRegs
<1> DEFINE g == Rooted(f)  c == Centre(f, p)  m == SaveCount(f, p)
<1>1. /\ c \in 1 .. Width(f, b, k) /\ Width(f, b, k) = c + m
      /\ m \in Nat /\ c \in Nat \ {0}
      /\ Saves(f, p) = {Saved(f, p, j) : j \in 1 .. m}
  <2>1. m \in Nat /\ c \in Nat \ {0}
    BY SavedInOrder
  <2>2. c \in 1 .. Width(f, b, k) /\ Width(f, b, k) = c + m
    BY SpotKinds
  <2>3. Saves(f, p) = {Saved(f, p, j) : j \in 1 .. m}
    <3>1. \A y \in Saves(f, p) : \E j \in 1 .. m : y = Saved(f, p, j)
      BY SavedInOrder
    <3>2. \A j \in 1 .. m : Saved(f, p, j) \in Saves(f, p)
      BY SavedAreRefs
    <3> HIDE DEF m
    <3> QED BY <3>1, <3>2
  <2> QED BY <2>1, <2>2, <2>3
<1>2. x = IF c = Width(f, b, k) THEN Spot(f, b, k + 1, 1) ELSE Spot(f, b, k, c + 1)
  BY <1>1, SpotFacts
<1>3. /\ k + 1 \in 1 .. LastIndex(f, b) /\ LiveAfter(f)[p] = LiveBefore(f)[<<b, k + 1>>]
      /\ k \in 1 .. LastIndex(f, b) /\ k # LastIndex(f, b)
  BY InnerPoint, OffsetFacts
<1>4. x \in Points(g)
  <2>1. Spot(f, b, k, c) \in Points(g) /\ IsFunction(g)
    BY <1>1, SpotFacts, RootedShape
  <2> QED BY <2>1, PointsFlow
<1>5. r \in LiveAfter(f)[p] /\ r \notin Saves(f, p)
  <2>1. CASE m = 0
    <3>1. x = Spot(f, b, k + 1, 1) /\ Saves(f, p) = {}
      BY <1>1, <1>2, <2>1
    <3>2. 1 \in 1 .. Width(f, b, k + 1)
      <4>1. \A l \in 1 .. LastIndex(f, b) : 1 \in 1 .. Width(f, b, l)
        <5> SUFFICES ASSUME NEW l \in 1 .. LastIndex(f, b) PROVE 1 \in 1 .. Width(f, b, l)
          OBVIOUS
        <5>1. l \in DOMAIN f.blocks[b].code => Width(f, b, l) \in Nat \ {0}
          BY OffsetFacts
        <5>2. Width(f, b, l) \in Nat \ {0}
          BY <5>1, InnerOrEnd
        <5> QED BY <5>2
      <4> QED BY <1>3, <4>1
    <3>3. r \in Needed(f, b, k + 1, 1)
      BY <1>3, <1>4, <3>1, <3>2, LiveIsNeeded
    <3> QED BY <1>3, <3>1, <3>3, NeededFirst
  <2>2. CASE m # 0
    <3>1. /\ c # Width(f, b, k) /\ c + 1 \in 1 .. Width(f, b, k) /\ ~(c + 1 <= c)
          /\ (c + 1) - c = 1
      BY <1>1, <2>2
    <3>2. r \in Needed(f, b, k, c + 1)
      BY <1>2, <1>3, <1>4, <3>1, LiveIsNeeded
    <3>3. Needed(f, b, k, c + 1) = LiveAfter(f)[p] \ StillToLoad(f, p, c + 1)
      BY <1>3, <3>1 DEF Needed
    <3>4. StillToLoad(f, p, c + 1) = Saves(f, p)
      BY <1>1, <3>1 DEF StillToLoad
    <3> QED BY <3>2, <3>3, <3>4
  <2> QED BY <2>1, <2>2
<1>6. Saves(f, p) = (LiveAfter(f)[p] \ DefinesAt(f, p)) \cap RefRegs
  BY NeedsExact DEF Saves
<1> QED BY <1>5, <1>6

---------------------------------------------------------------------------
(***************************************************************************)
(* Rooting leaves live what was: what the function needs at a point is     *)
(* live at the first place that stands for it.                             *)
(***************************************************************************)
LEMMA BackToFirst ==
  ASSUME NEW f, IsFunction(f), NEW b \in DOMAIN f.blocks, NEW k \in DOMAIN f.blocks[b].code,
         NEW i \in 1 .. Width(f, b, k) + 1,
         NEW r \in LiveBefore(Rooted(f))[<<b, Offsets(f, b)[k] + i>>],
         \A x \in 1 .. i - 1 : r \notin DefinesAt(Rooted(f), Spot(f, b, k, x))
  PROVE  r \in LiveBefore(Rooted(f))[Spot(f, b, k, 1)]
<1> DEFINE g == Rooted(f)
           o == Offsets(f, b)[k]
           w == Width(f, b, k)
<1>1. IsFunction(g) /\ b \in DOMAIN g.blocks /\ LastIndex(g, b) \in Nat \ {0}
  <2>1. IsFunction(g) /\ b \in DOMAIN g.blocks
    BY RootedShape
  <2> HIDE DEF g
  <2>2. LastIndex(g, b) = Len(g.blocks[b].code) + 1 /\ Len(g.blocks[b].code) \in Nat
    BY <2>1, FunctionTypes
  <2> QED BY <2>1, <2>2
<1>2. o \in Nat /\ w \in Nat \ {0} /\ o + w \in 1 .. LastIndex(g, b) - 1
  <2>1. k \in 1 .. LastIndex(f, b) /\ w \in Nat \ {0}
    BY OffsetFacts
  <2>2. w \in 1 .. w
    BY <2>1
  <2> QED BY <2>1, <2>2, OffsetFacts
<1>3. i \in 1 .. w + 1
  OBVIOUS
<1>4. \A x \in 1 .. i - 1 : r \notin DefinesAt(g, <<b, o + x>>)
  BY DEF Spot
<1> HIDE DEF g, o, w
<1>5. /\ o + 1 \in 1 .. LastIndex(g, b) /\ o + i \in 1 .. LastIndex(g, b) /\ o + 1 <= o + i
  BY <1>1, <1>2, <1>3
<1>6. ASSUME NEW j \in o + 1 .. (o + i) - 1 PROVE r \notin DefinesAt(g, <<b, j>>)
  <2>1. j - o \in 1 .. i - 1 /\ o + (j - o) = j
    BY <1>2, <1>3
  <2> QED BY <1>4, <2>1
<1>7. r \in LiveBefore(g)[<<b, o + i>>]
  BY DEF g, o
<1> DEFINE low == o + 1  high == o + i
<1>8. /\ low \in 1 .. LastIndex(g, b) /\ high \in 1 .. LastIndex(g, b) /\ low <= high
      /\ r \in LiveBefore(g)[<<b, high>>]
      /\ \A j \in low .. high - 1 : r \notin DefinesAt(g, <<b, j>>)
  BY <1>5, <1>6, <1>7
<1> HIDE DEF low, high
<1>9. r \in LiveBefore(g)[<<b, low>>]
  BY <1>1, <1>8, LiveBackTo
<1> QED BY <1>9 DEF low, g, o, Spot

LEMMA LiveStays ==
  ASSUME NEW f, IsFunction(f), NEW b \in DOMAIN f.blocks, NEW k \in 1 .. LastIndex(f, b)
  PROVE  LiveBefore(f)[<<b, k>>] \subseteq LiveBefore(Rooted(f))[Spot(f, b, k, 1)]
<1> DEFINE g == Rooted(f)
           claim == [p \in Points(f) |-> LiveBefore(g)[Spot(f, p[1], p[2], 1)]]
<1>1. IsFunction(g)
  BY RootedShape
<1>2. ASSUME NEW p \in Points(f)
      PROVE  /\ ReadsAt(f, p) \subseteq claim[p]
             /\ \A q \in NextPoints(f, p) : (Reg \cap claim[q]) \ DefinesAt(f, p) \subseteq claim[p]
  <2>1. PICK c, l : p = <<c, l>>
    BY PointShape
  <2>2. c \in DOMAIN f.blocks /\ l \in 1 .. LastIndex(f, c)
    BY <2>1, PointShape
  <2>3. claim[p] = LiveBefore(g)[Spot(f, c, l, 1)]
    BY <2>1
  <2>4. \A q \in NextPoints(f, p) : claim[q] = LiveBefore(g)[Spot(f, q[1], q[2], 1)]
    BY PointsFlow
  <2> HIDE DEF claim
  <2>5. CASE l = LastIndex(f, c)
    <3> DEFINE q == Spot(f, c, l, 1)
    <3>1. /\ q \in Points(g) /\ ReadsAt(g, q) = ReadsAt(f, p) /\ DefinesAt(g, q) = {}
          /\ NextPoints(g, q) = {Spot(f, d, 1, 1) : d \in f.blocks[c].next}
          /\ NextPoints(f, p) = {<<d, 1>> : d \in f.blocks[c].next}
      BY <2>1, <2>2, <2>5, EndFacts
    <3>2. /\ LiveAfter(g)[q] = UNION {LiveBefore(g)[x] : x \in NextPoints(g, q)}
          /\ LiveBefore(g)[q] = ReadsAt(g, q) \cup (LiveAfter(g)[q] \ DefinesAt(g, q))
      BY <1>1, <3>1, LiveEquations
    <3> HIDE DEF q, g
    <3>3. ASSUME NEW x \in NextPoints(f, p) PROVE claim[x] \subseteq LiveAfter(g)[q]
      <4>1. PICK d \in f.blocks[c].next : x = <<d, 1>>
        BY <3>1
      <4>2. claim[x] = LiveBefore(g)[Spot(f, d, 1, 1)] /\ Spot(f, d, 1, 1) \in NextPoints(g, q)
        BY <2>4, <3>1, <4>1
      <4> QED BY <3>2, <4>2
    <3>4. claim[p] = LiveBefore(g)[q]
      BY <2>3 DEF q
    <3> QED BY <3>1, <3>2, <3>3, <3>4
  <2>6. CASE l \in DOMAIN f.blocks[c].code
    <3> DEFINE m == SaveCount(f, p)  e == Centre(f, p)  w == Width(f, c, l)  o == Offsets(f, c)[l]
    <3>1. /\ w = e + m /\ e \in 1 .. w /\ e + 0 \in 1 .. w
          /\ \A x \in 1 .. w : \/ x \in 1 .. m
                               \/ \E j \in 1 .. NullCount(f, p) : x = m + j
                               \/ x = e
                               \/ \E j \in 1 .. m : x = e + j
      BY <2>1, <2>2, <2>6, SpotKinds
    <3>2. m \in Nat /\ e \in Nat \ {0} /\ NullCount(f, p) \in Nat /\ e = m + NullCount(f, p) + 1
      BY SavedInOrder DEF Centre
    <3>3. /\ \A x \in 1 .. m : ReadsAt(g, Spot(f, c, l, x)) = {Saved(f, p, x)}
                            /\ DefinesAt(g, Spot(f, c, l, x)) = {}
          /\ \A x \in 1 .. NullCount(f, p) : DefinesAt(g, Spot(f, c, l, m + x)) = {}
          /\ ReadsAt(g, Spot(f, c, l, e)) = ReadsAt(f, p)
          /\ DefinesAt(g, Spot(f, c, l, e)) = DefinesAt(f, p)
          /\ \A x \in 1 .. m : DefinesAt(g, Spot(f, c, l, e + x)) = {Saved(f, p, x)}
      BY <2>1, <2>2, <2>6, SpotEffects
    <3>4. \A x \in 1 .. w : Spot(f, c, l, x) \in Points(g) /\ Spot(f, c, l, x) = <<c, o + x>>
      BY <2>2, <2>6, SpotFacts DEF Spot
    <3>5. ASSUME NEW x \in 1 .. w, x <= e, NEW r \in ReadsAt(g, Spot(f, c, l, x))
          PROVE  r \in claim[p]
      <4>1. r \in LiveBefore(g)[Spot(f, c, l, x)]
        BY <1>1, <3>4, LiveEquations
      <4>2. r \in LiveBefore(g)[<<c, o + x>>]
        BY <3>4, <4>1
      <4>3. ASSUME NEW y \in 1 .. x - 1 PROVE DefinesAt(g, Spot(f, c, l, y)) = {}
        <5>1. y \in 1 .. m \/ y - m \in 1 .. NullCount(f, p)
          BY <3>1, <3>2, <3>5
        <5>2. CASE y \in 1 .. m
          BY <3>3, <5>2
        <5>3. CASE y - m \in 1 .. NullCount(f, p)
          <6>1. y = m + (y - m)
            BY <3>2
          <6> QED BY <3>3, <5>3, <6>1
        <5> QED BY <5>1, <5>2, <5>3
      <4>4. x \in 1 .. w + 1
        BY <3>1, <3>2, <3>5
      <4>5. r \in LiveBefore(g)[Spot(f, c, l, 1)]
        BY <2>2, <2>6, <4>2, <4>3, <4>4, BackToFirst
      <4> QED BY <2>3, <4>5
    <3>6. ReadsAt(f, p) \subseteq claim[p]
      <4>1. e \in 1 .. w /\ e <= e
        BY <3>1, <3>2
      <4> QED BY <3>3, <3>5, <4>1
    <3>7. ASSUME NEW q \in NextPoints(f, p), NEW r \in claim[q], r \notin DefinesAt(f, p)
          PROVE  r \in claim[p]
      <4>1. q = <<c, l + 1>> /\ l + 1 \in 1 .. LastIndex(f, c)
        <5>1. NextPoints(f, <<c, l>>) = {<<c, l + 1>>} /\ l + 1 \in 1 .. LastIndex(f, c)
          BY <2>2, <2>6, InnerPoint
        <5>2. q \in NextPoints(f, <<c, l>>)
          BY <2>1
        <5> QED BY <5>1, <5>2
      <4>2. Spot(f, c, l + 1, 1) = <<c, o + (w + 1)>>
        <5>0. w \in Nat
          BY <3>1, <3>2
        <5>1. o \in Nat /\ Offsets(f, c)[l + 1] = o + w
          <6>1. o \in Nat
            BY <2>2, OffsetFacts
          <6>2. Offsets(f, c)[l + 1] = o + w
            BY <2>2, <2>6, NextOffset
          <6> QED BY <6>1, <6>2
        <5>2. (o + w) + 1 = o + (w + 1)
          BY <5>0, <5>1
        <5>3. Offsets(f, c)[l + 1] + 1 = o + (w + 1)
          BY <5>1, <5>2
        <5> QED BY <5>3 DEF Spot
      <4>3. r \in LiveBefore(g)[<<c, o + (w + 1)>>]
        BY <2>4, <4>1, <4>2
      <4>4. CASE \E j \in 1 .. m : r = Saved(f, p, j)
        <5>1. PICK j \in 1 .. m : r = Saved(f, p, j)
          BY <4>4
        <5>2. j \in 1 .. w /\ j <= e
          BY <3>1, <3>2
        <5> QED BY <3>3, <3>5, <5>1, <5>2
      <4>5. CASE \A j \in 1 .. m : r # Saved(f, p, j)
        <5>1. \A x \in 1 .. w : r \notin DefinesAt(g, Spot(f, c, l, x))
          BY <3>1, <3>3, <3>7, <4>5
        <5>2. w + 1 \in 1 .. w + 1 /\ (w + 1) - 1 = w
          BY <3>1, <3>2
        <5>3. \A x \in 1 .. (w + 1) - 1 : r \notin DefinesAt(g, Spot(f, c, l, x))
          BY <5>1, <5>2
        <5>4. r \in LiveBefore(g)[Spot(f, c, l, 1)]
          BY <2>2, <2>6, <4>3, <5>2, <5>3, BackToFirst
        <5> QED BY <2>3, <5>4
      <4> QED BY <4>4, <4>5
    <3> QED BY <3>6, <3>7
  <2> QED BY <2>2, <2>5, <2>6, InnerOrEnd
<1> HIDE DEF claim
<1>3. \A p \in Points(f) : LiveBefore(f)[p] \subseteq claim[p]
  BY <1>2, LiveLeast
<1>4. <<b, k>> \in Points(f)
  BY PointShape
<1>5. claim[<<b, k>>] = LiveBefore(g)[Spot(f, b, k, 1)]
  BY <1>4 DEF claim
<1> QED BY <1>3, <1>4, <1>5

---------------------------------------------------------------------------
(***************************************************************************)
(* Removing dead copies: what a sweep leaves, and what is live in it.      *)
(***************************************************************************)
\* One instruction of the sweep, given what the rest of the block left.
KeptStep(b, out, instr, rest) ==
  IF instr.op = "copy" /\ instr.dst \notin rest.live
    THEN rest
    ELSE [live |-> (rest.live \ Defines(instr)) \cup instr.reads,
          code |-> <<instr>> \o rest.code]

\* The steps Kept takes, from the end of the block.
Keeps(b, out, step) ==
  /\ step \in [1 .. Len(b.code) + 1 -> [live : SUBSET Reg, code : Seq(Instruction)]]
  /\ step[Len(b.code) + 1] = [live |-> LiveAtEnd(b, out), code |-> <<>>]
  /\ \A k \in 1 .. Len(b.code) : step[k] = KeptStep(b, out, b.code[k], step[k + 1])
  /\ Kept(b, out) = step[1].code

\* A block's code and what its instructions read.
LEMMA BlockCode ==
  ASSUME NEW b \in Block
  PROVE  /\ b.code \in Seq(Instruction) /\ b.reads \subseteq Reg /\ Len(b.code) \in Nat
         /\ DOMAIN b.code = 1 .. Len(b.code)
         /\ \A k \in 1 .. Len(b.code) : b.code[k] \in Instruction /\ b.code[k].reads \subseteq Reg
<1>1. b.code \in Seq(Instruction) /\ b.reads \subseteq Reg
  BY DEF Block
<1>2. \A i \in Instruction : i.reads \subseteq Reg
  BY DEF Instruction
<1> QED BY <1>1, <1>2

\* Kept goes through the block from its end.
LEMMA KeptSteps ==
  ASSUME NEW b \in Block, NEW out, out \subseteq Reg
  PROVE  \E step : Keeps(b, out, step)
<1> DEFINE M == Len(b.code) + 1
           D == [live : SUBSET Reg, code : Seq(Instruction)]
           last == [live |-> LiveAtEnd(b, out), code |-> <<>>]
           one == [e \in (1 .. M - 1) \X D |-> KeptStep(b, out, b.code[e[1]], e[2])]
           From(g) == [k \in 1 .. M |-> IF k = M THEN last
                                        ELSE KeptStep(b, out, b.code[k], g[k + 1])]
           step == CHOOSE g : g = From(g)
<1>1. Kept(b, out) = step[1].code
  BY DEF Kept, KeptStep
<1>2. /\ Len(b.code) \in Nat /\ M \in Nat \ {0} /\ M - 1 = Len(b.code) /\ b.reads \subseteq Reg
      /\ \A k \in 1 .. M - 1 : b.code[k] \in Instruction /\ b.code[k].reads \subseteq Reg
      /\ \A k \in 1 .. M - 1 : k + 1 \in 1 .. M
  BY BlockCode
<1>3. ASSUME NEW k \in 1 .. M - 1, NEW d \in D
      PROVE  one[<<k, d>>] = KeptStep(b, out, b.code[k], d) /\ one[<<k, d>>] \in D
  <2>1. one[<<k, d>>] = KeptStep(b, out, b.code[k], d)
    OBVIOUS
  <2>2. d.live \subseteq Reg /\ d.code \in Seq(Instruction)
    OBVIOUS
  <2>3. b.code[k] \in Instruction /\ b.code[k].reads \subseteq Reg
    BY <1>2
  <2>4. <<b.code[k]>> \o d.code \in Seq(Instruction)
    BY <2>2, <2>3
  <2>5. KeptStep(b, out, b.code[k], d) \in D
    BY <2>2, <2>3, <2>4 DEF KeptStep
  <2> QED BY <2>1, <2>5
<1>4. last \in D
  BY <1>2 DEF LiveAtEnd
<1> HIDE DEF one, last, M
<1> DEFINE DD == D
<1> HIDE DEF DD
<1>5. PICK g : CountsDown(DD, last, one, M, g)
  <2>1. last \in DD /\ \A k \in 1 .. M - 1 : \A d \in DD : one[<<k, d>>] \in DD
    BY <1>3, <1>4 DEF DD
  <2> QED BY <1>2, <2>1, CountdownExists
<1>6. \A k \in 1 .. M - 1 : g[k] = KeptStep(b, out, b.code[k], g[k + 1])
  <2> TAKE k \in 1 .. M - 1
  <2>1. g[k + 1] \in DD /\ g[k] = one[<<k, g[k + 1]>>]
    BY <1>2, <1>5 DEF CountsDown
  <2>2. g[k + 1] \in D
    BY <2>1 DEF DD
  <2> QED BY <1>3, <2>1, <2>2
<1>7. \A k \in 1 .. M : k # M => k \in 1 .. M - 1
  BY <1>2
<1>8. g = From(g)
  BY <1>5, <1>6, <1>7 DEF CountsDown
<1>9. step = From(step)
  <2> HIDE DEF From
  <2> QED BY <1>8, Zenon
<1> HIDE DEF step
<1>10. step[M] = last
  BY <1>2, <1>9
<1>11. \A k \in 1 .. M - 1 : step[k] = KeptStep(b, out, b.code[k], step[k + 1])
  <2>1. \A k \in 1 .. M - 1 : k # M /\ k \in 1 .. M
    BY <1>2
  <2> QED BY <1>9, <2>1
<1>12. \A k \in 1 .. M : step[k] \in D
  <2> DEFINE S == {k \in 1 .. M : step[k] \in D}
  <2>1. M \in S
    BY <1>2, <1>4, <1>10
  <2>2. ASSUME NEW k \in 1 .. M - 1, k + 1 \in S PROVE k \in S
    <3>1. one[<<k, step[k + 1]>>] = step[k]
      BY <1>3, <1>11, <2>2
    <3>2. k \in 1 .. M
      BY <1>2
    <3> QED BY <1>3, <2>2, <3>1, <3>2
  <2>3. 1 .. M \subseteq S
    <3> HIDE DEF S
    <3> QED BY <1>2, <2>1, <2>2, DownInduction
  <2> QED BY <2>3
<1>13. step \in [1 .. M -> D]
  BY <1>9, <1>12
<1>14. Keeps(b, out, step)
  BY <1>1, <1>2, <1>10, <1>11, <1>13 DEF Keeps, M, last
<1> QED BY <1>14

\* What a sweep leaves of a block is code.
LEMMA KeptIsCode ==
  ASSUME NEW b \in Block, NEW out, out \subseteq Reg
  PROVE  Kept(b, out) \in Seq(Instruction)
<1>1. PICK step : Keeps(b, out, step)
  BY KeptSteps
<1>2. 1 \in 1 .. Len(b.code) + 1
  BY BlockCode
<1> QED BY <1>1, <1>2 DEF Keeps

\* A sweep leaves a function.
LEMMA SweptIsFunction ==
  ASSUME NEW f, IsFunction(f), NEW out, \A b \in DOMAIN f.blocks : out[b] \subseteq Reg
  PROVE  /\ IsFunction(Swept(f, out))
         /\ DOMAIN Swept(f, out).blocks = DOMAIN f.blocks
         /\ \A b \in DOMAIN f.blocks : Swept(f, out).blocks[b].code = Kept(f.blocks[b], out[b])
<1> DEFINE swept == [b \in DOMAIN f.blocks |-> [f.blocks[b] EXCEPT !.code = Kept(f.blocks[b], out[b])]]
<1>1. Swept(f, out) = [f EXCEPT !.blocks = swept]
  BY DEF Swept
<1>2. f.blocks \in Seq(Block) /\ DOMAIN f.blocks = 1 .. Len(f.blocks) /\ Len(f.blocks) \in Nat
  BY FunctionTypes DEF IsFunction
<1>3. ASSUME NEW b \in DOMAIN f.blocks
      PROVE  /\ swept[b] \in Block /\ swept[b].next = f.blocks[b].next
             /\ swept[b].code = Kept(f.blocks[b], out[b])
  <2>1. f.blocks[b] \in Block
    BY <1>2
  <2>2. Kept(f.blocks[b], out[b]) \in Seq(Instruction)
    BY <2>1, KeptIsCode
  <2> QED BY <2>1, <2>2 DEF Block
<1> HIDE DEF swept
<1>4. swept \in Seq(Block) /\ DOMAIN swept = DOMAIN f.blocks
  <2>1. DOMAIN swept = 1 .. Len(f.blocks) /\ swept = [b \in 1 .. Len(f.blocks) |-> swept[b]]
    BY <1>2 DEF swept
  <2>2. Len(f.blocks) \in Nat /\ DOMAIN f.blocks = 1 .. Len(f.blocks)
    BY <1>2
  <2>3. \A b \in 1 .. Len(f.blocks) : swept[b] \in Block
    BY <1>3, <2>2
  <2>4. swept \in [1 .. Len(f.blocks) -> Block]
    BY <2>1, <2>3
  <2> QED BY <2>1, <2>2, <2>4
<1>5. /\ Swept(f, out).blocks = swept /\ Swept(f, out).params = f.params
      /\ Swept(f, out).entry = f.entry
      /\ Swept(f, out) \in [blocks : Seq(Block), entry : Nat, params : Seq(Reg)]
  BY <1>1, <1>4 DEF IsFunction
<1> QED BY <1>3, <1>4, <1>5 DEF IsFunction

\* A block's first and last points.
LEMMA EndPoints ==
  ASSUME NEW f, IsFunction(f), NEW b \in DOMAIN f.blocks
  PROVE  /\ <<b, 1>> \in Points(f) /\ <<b, LastIndex(f, b)>> \in Points(f)
         /\ LastIndex(f, b) \in 1 .. LastIndex(f, b)
         /\ NextPoints(f, <<b, LastIndex(f, b)>>) = {<<s, 1>> : s \in f.blocks[b].next}
         /\ LiveBefore(f)[<<b, 1>>] \subseteq Reg
         /\ LiveAfter(f)[<<b, LastIndex(f, b)>>] \subseteq Reg
<1>1. 1 \in 1 .. LastIndex(f, b) /\ LastIndex(f, b) \in 1 .. LastIndex(f, b)
  BY FunctionTypes
<1>2. <<b, 1>> \in Points(f) /\ <<b, LastIndex(f, b)>> \in Points(f)
  BY <1>1, PointShape
<1>3. NextPoints(f, <<b, LastIndex(f, b)>>) = {<<s, 1>> : s \in f.blocks[b].next}
  BY DEF NextPoints, IsTerminator
<1> QED BY <1>1, <1>2, <1>3, LiveEquations

\* What is live at a block's end is live at the start of a successor.
LEMMA LiveAcrossEdges ==
  ASSUME NEW f, IsFunction(f), NEW b \in DOMAIN f.blocks
  PROVE  LiveAfter(f)[<<b, LastIndex(f, b)>>] = UNION {LiveBefore(f)[<<s, 1>>] : s \in f.blocks[b].next}
<1> DEFINE before == LiveBefore(f)
           last == <<b, LastIndex(f, b)>>
           next == f.blocks[b].next
<1>1. LiveAfter(f)[last] = UNION {before[q] : q \in NextPoints(f, last)}
  BY EndPoints, LiveEquations
<1>2. NextPoints(f, last) = {<<s, 1>> : s \in next}
  BY EndPoints
<1> HIDE DEF before, last, next
<1>3. UNION {before[q] : q \in {<<s, 1>> : s \in next}} = UNION {before[<<s, 1>>] : s \in next}
  OBVIOUS
<1> QED BY <1>1, <1>2, <1>3 DEF before, last, next

\* A copy whose target is not live after it.
Dead(b, live, k) == b.code[k].op = "copy" /\ b.code[k].dst \notin live[k + 1]

\* What a sweep does to a block: live[k] is what it takes to be live before k, and
\* instruction i of what is left was instruction origin[i].
Origins(b, code, live, origin, k) ==
  LET n == Len(b.code)
      m == Len(code) IN
  /\ origin \in [1 .. m + 1 -> k .. n + 1]
  /\ origin[m + 1] = n + 1 /\ live[k] = live[origin[1]]
  /\ \A i \in 1 .. m :
       /\ origin[i] \in k .. n /\ origin[i] < origin[i + 1]
       /\ ~Dead(b, live, origin[i]) /\ code[i] = b.code[origin[i]]
       /\ live[origin[i] + 1] = live[origin[i + 1]]
  /\ \A j \in k .. n : Dead(b, live, j) \/ \E i \in 1 .. m : origin[i] = j

\* What a sweep takes to be live, from the end of the block.
SweepsBack(b, out, live) ==
  /\ live \in [1 .. Len(b.code) + 1 -> SUBSET Reg]
  /\ live[Len(b.code) + 1] = out \cup b.reads
  /\ \A k \in 1 .. Len(b.code) :
       live[k] = IF Dead(b, live, k) THEN live[k + 1]
                 ELSE (live[k + 1] \ Defines(b.code[k])) \cup b.code[k].reads

\* Every instruction a sweep leaves was there before, in the same order, and every
\* other one is a dead copy.
LEMMA KeptOrigins ==
  ASSUME NEW b \in Block, NEW out, out \subseteq Reg
  PROVE  \E live, origin : /\ SweepsBack(b, out, live)
                           /\ Origins(b, Kept(b, out), live, origin, 1)
<1>1. /\ b.code \in Seq(Instruction) /\ b.reads \subseteq Reg /\ Len(b.code) \in Nat
      /\ DOMAIN b.code = 1 .. Len(b.code)
      /\ \A k \in 1 .. Len(b.code) : b.code[k] \in Instruction /\ b.code[k].reads \subseteq Reg
  BY BlockCode
<1>2. PICK step : Keeps(b, out, step)
  BY KeptSteps
<1> DEFINE n == Len(b.code)
           live == [k \in 1 .. n + 1 |-> step[k].live]
<1>3. /\ \A k \in 1 .. n + 1 : step[k].code \in Seq(Instruction) /\ step[k].live \subseteq Reg
      /\ step[n + 1].live = out \cup b.reads /\ step[n + 1].code = <<>>
      /\ \A k \in 1 .. n : step[k] = KeptStep(b, out, b.code[k], step[k + 1])
      /\ Kept(b, out) = step[1].code
  BY <1>2 DEF Keeps, LiveAtEnd
<1>4. n \in Nat /\ \A k \in 1 .. n : k \in 1 .. n + 1 /\ k + 1 \in 1 .. n + 1
  BY <1>1
<1>5. /\ live \in [1 .. n + 1 -> SUBSET Reg] /\ live[n + 1] = out \cup b.reads
      /\ \A k \in 1 .. n + 1 : live[k] = step[k].live
  BY <1>3, <1>4
<1> HIDE DEF live, n
<1>6. ASSUME NEW k \in 1 .. n
      PROVE  IF Dead(b, live, k)
               THEN live[k] = live[k + 1] /\ step[k].code = step[k + 1].code
               ELSE /\ live[k] = (live[k + 1] \ Defines(b.code[k])) \cup b.code[k].reads
                    /\ step[k].code = <<b.code[k]>> \o step[k + 1].code
  <2>1. step[k] = KeptStep(b, out, b.code[k], step[k + 1])
    BY <1>3
  <2>2. live[k] = step[k].live /\ live[k + 1] = step[k + 1].live
    BY <1>4, <1>5
  <2> QED BY <2>1, <2>2 DEF KeptStep, Dead
<1>7. SweepsBack(b, out, live)
  BY <1>5, <1>6 DEF SweepsBack, n
<1> DEFINE S == {k \in 1 .. n + 1 : \E origin : Origins(b, step[k].code, live, origin, k)}
<1>8. n + 1 \in S
  <2> DEFINE o == [i \in 1 .. 1 |-> n + 1]
  <2>1. Len(step[n + 1].code) = 0 /\ n + 1 \in 1 .. n + 1 /\ n + 1 \in n + 1 .. n + 1
    BY <1>3, <1>4
  <2>2. Origins(b, step[n + 1].code, live, o, n + 1)
    BY <2>1, <1>4 DEF Origins, n
  <2> QED BY <2>1, <2>2
<1>9. ASSUME NEW k \in 1 .. n, k + 1 \in S PROVE k \in S
  <2> DEFINE c == step[k + 1].code
             m == Len(c)
  <2>1. k \in 1 .. n + 1 /\ c \in Seq(Instruction) /\ m \in Nat
    BY <1>3, <1>4
  <2>2. PICK o : Origins(b, c, live, o, k + 1)
    BY <1>9
  <2>3. /\ o \in [1 .. m + 1 -> k + 1 .. n + 1]
        /\ o[m + 1] = n + 1 /\ live[k + 1] = live[o[1]]
        /\ \A i \in 1 .. m :
             /\ o[i] \in k + 1 .. n /\ o[i] < o[i + 1]
             /\ ~Dead(b, live, o[i]) /\ c[i] = b.code[o[i]]
             /\ live[o[i] + 1] = live[o[i + 1]]
        /\ \A j \in k + 1 .. n : Dead(b, live, j) \/ \E i \in 1 .. m : o[i] = j
    BY <2>2 DEF Origins, n
  <2>4. CASE Dead(b, live, k)
    <3>1. live[k] = live[k + 1] /\ step[k].code = c
      BY <1>6, <2>4
    <3>2. Origins(b, c, live, o, k)
      <4>1. o \in [1 .. m + 1 -> k .. n + 1] /\ \A i \in 1 .. m : o[i] \in k .. n
        BY <1>4, <2>3
      <4>2. \A j \in k .. n : j = k \/ j \in k + 1 .. n
        BY <1>4
      <4> QED BY <2>3, <2>4, <3>1, <4>1, <4>2 DEF Origins, n
    <3> QED BY <2>1, <3>1, <3>2
  <2>5. CASE ~Dead(b, live, k)
    <3> DEFINE u == [i \in 1 .. m + 2 |-> IF i = 1 THEN k ELSE o[i - 1]]
               d == step[k].code
    <3>1. d = <<b.code[k]>> \o c
      BY <1>6, <2>5
    <3>2. /\ Len(d) = m + 1 /\ d[1] = b.code[k]
          /\ \A i \in 2 .. m + 1 : d[i] = c[i - 1]
      <4>1. b.code[k] \in Instruction
        BY <1>1 DEF n
      <4> QED BY <2>1, <3>1, <4>1
    <3> HIDE DEF d, c, m
    <3>3. /\ u[1] = k /\ u[(m + 1) + 1] = o[m + 1]
          /\ \A i \in 2 .. m + 2 : u[i] = o[i - 1]
          /\ u \in [1 .. (m + 1) + 1 -> k .. n + 1]
      <4>1. \A i \in 2 .. m + 2 : i - 1 \in 1 .. m + 1
        BY <2>1
      <4>2. \A i \in 1 .. m + 2 : i = 1 \/ i \in 2 .. m + 2
        BY <2>1
      <4>3. \A i \in 1 .. m + 1 : o[i] \in k .. n + 1
        BY <1>4, <2>1, <2>3
      <4>4. (m + 1) + 1 = m + 2 /\ 1 \in 1 .. m + 2 /\ m + 2 \in 2 .. m + 2 /\ (m + 2) - 1 = m + 1
        BY <2>1
      <4>5. k \in k .. n + 1
        BY <1>4
      <4> QED BY <4>1, <4>2, <4>3, <4>4, <4>5
    <3> HIDE DEF u
    <3>4. ASSUME NEW i \in 1 .. m + 1
          PROVE  /\ u[i] \in k .. n /\ u[i] < u[i + 1]
                 /\ ~Dead(b, live, u[i]) /\ d[i] = b.code[u[i]]
                 /\ live[u[i] + 1] = live[u[i + 1]]
      <4>1. CASE i = 1
        <5>1. u[2] = o[1] /\ i + 1 = 2 /\ k \in k .. n /\ 1 \in 1 .. m + 1
          BY <1>4, <2>1, <3>3, <4>1
        <5>2. o[1] \in k + 1 .. n + 1
          BY <2>3, <5>1
        <5>3. k < o[1]
          BY <1>4, <5>2
        <5> QED BY <2>3, <2>5, <3>2, <3>3, <4>1, <5>1, <5>3
      <4>2. CASE i # 1
        <5>1. i \in 2 .. m + 1 /\ i - 1 \in 1 .. m /\ i \in 2 .. m + 2 /\ i + 1 \in 2 .. m + 2
              /\ (i + 1) - 1 = (i - 1) + 1
          BY <2>1, <4>2
        <5>2. u[i] = o[i - 1] /\ u[i + 1] = o[(i - 1) + 1] /\ d[i] = c[i - 1]
          BY <3>2, <3>3, <5>1
        <5>3. o[i - 1] \in k + 1 .. n
          BY <2>3, <5>1
        <5>4. o[i - 1] \in k .. n
          BY <1>4, <5>3
        <5> QED BY <2>3, <5>1, <5>2, <5>4
      <4> QED BY <4>1, <4>2
    <3>5. ASSUME NEW j \in k .. n PROVE Dead(b, live, j) \/ \E i \in 1 .. m + 1 : u[i] = j
      <4>1. CASE j = k
        <5>1. 1 \in 1 .. m + 1
          BY <2>1
        <5> QED BY <3>3, <4>1, <5>1
      <4>2. CASE j # k
        <5>1. j \in k + 1 .. n
          BY <1>4, <4>2
        <5>2. \A i \in 1 .. m : i + 1 \in 1 .. m + 1 /\ i + 1 \in 2 .. m + 2 /\ (i + 1) - 1 = i
          BY <2>1
        <5>3. \A i \in 1 .. m : u[i + 1] = o[i]
          BY <3>3, <5>2
        <5> QED BY <2>3, <5>1, <5>2, <5>3
      <4> QED BY <4>1, <4>2
    <3>6. Origins(b, d, live, u, k)
      <4>1. live[k] = live[u[1]]
        BY <3>3
      <4> QED BY <2>3, <3>2, <3>3, <3>4, <3>5, <4>1 DEF Origins, n
    <3> QED BY <2>1, <3>6 DEF d
  <2> QED BY <2>4, <2>5
<1>10. 1 .. n + 1 \subseteq S
  <2>1. n + 1 \in Nat \ {0} /\ (n + 1) - 1 = n
    BY <1>4
  <2> HIDE DEF S
  <2> QED BY <1>8, <1>9, <2>1, DownInduction
<1>11. PICK origin : Origins(b, step[1].code, live, origin, 1)
  <2>1. 1 \in 1 .. n + 1
    BY <1>4
  <2> QED BY <1>10, <2>1
<1> QED BY <1>3, <1>7, <1>11

\* Block by block: what the sweep takes to be live, and where its code was.
SweepLive(f, out, b) ==
  CHOOSE live : SweepsBack(f.blocks[b], out[b], live)
                /\ \E origin : Origins(f.blocks[b], Kept(f.blocks[b], out[b]), live, origin, 1)

SweepOrigin(f, out, b) ==
  CHOOSE origin : Origins(f.blocks[b], Kept(f.blocks[b], out[b]), SweepLive(f, out, b), origin, 1)

\* The same facts of a whole function.
Sweeps(f, out, b, g, live, origin) ==
    /\ live[LastIndex(f, b)] = out[b] \cup f.blocks[b].reads
    /\ \A k \in 1 .. LastIndex(f, b) : live[k] \subseteq Reg
    /\ \A k \in DOMAIN f.blocks[b].code :
         live[k] = IF Dead(f.blocks[b], live, k) THEN live[k + 1]
                   ELSE (live[k + 1] \ Defines(f.blocks[b].code[k])) \cup f.blocks[b].code[k].reads
    /\ \A i \in 1 .. LastIndex(g, b) : origin[i] \in 1 .. LastIndex(f, b)
    /\ origin[LastIndex(g, b)] = LastIndex(f, b)
    /\ live[1] = live[origin[1]]
    /\ \A i \in DOMAIN g.blocks[b].code :
         /\ origin[i] \in DOMAIN f.blocks[b].code /\ origin[i] < origin[i + 1]
         /\ ~Dead(f.blocks[b], live, origin[i])
         /\ g.blocks[b].code[i] = f.blocks[b].code[origin[i]]
         /\ live[origin[i] + 1] = live[origin[i + 1]]
    /\ \A k \in DOMAIN f.blocks[b].code :
         Dead(f.blocks[b], live, k) \/ \E i \in DOMAIN g.blocks[b].code : origin[i] = k

\* A sweep does to each block what Sweeps says.
LEMMA SweptBlock ==
  ASSUME NEW f, IsFunction(f), NEW out, \A b \in DOMAIN f.blocks : out[b] \subseteq Reg,
         NEW g, g = Swept(f, out), NEW b \in DOMAIN f.blocks,
         NEW live, live = SweepLive(f, out, b), NEW origin, origin = SweepOrigin(f, out, b)
  PROVE  Sweeps(f, out, b, g, live, origin)
<1> DEFINE blk == f.blocks[b]
           code == Kept(blk, out[b])
<1>1. /\ IsFunction(g) /\ DOMAIN g.blocks = DOMAIN f.blocks /\ g.blocks[b].code = code
  BY SweptIsFunction
<1>2. blk \in Block
  BY DEF IsFunction
<1>3. out[b] \subseteq Reg
  OBVIOUS
<1>4. \E l, o : SweepsBack(blk, out[b], l) /\ Origins(blk, code, l, o, 1)
  BY <1>2, <1>3, KeptOrigins
<1>5. SweepsBack(blk, out[b], live) /\ \E o : Origins(blk, code, live, o, 1)
  <2> DEFINE P(l) == SweepsBack(blk, out[b], l) /\ \E o : Origins(blk, code, l, o, 1)
  <2>1. \E l : P(l)
    BY <1>4
  <2>2. live = CHOOSE l : P(l)
    BY DEF SweepLive
  <2> HIDE DEF P
  <2>3. P(live)
    BY <2>1, <2>2, Zenon
  <2> QED BY <2>3 DEF P
<1>6. Origins(blk, code, live, origin, 1)
  <2> DEFINE P(o) == Origins(blk, code, live, o, 1)
  <2>1. \E o : P(o)
    BY <1>5
  <2>2. origin = CHOOSE o : P(o)
    BY DEF SweepOrigin
  <2> HIDE DEF P
  <2>3. P(origin)
    BY <2>1, <2>2, Zenon
  <2> QED BY <2>3 DEF P
<1>7. /\ DOMAIN blk.code = 1 .. Len(blk.code) /\ Len(blk.code) \in Nat
      /\ LastIndex(f, b) = Len(blk.code) + 1
      /\ LastIndex(g, b) = Len(code) + 1 /\ Len(code) \in Nat /\ DOMAIN code = 1 .. Len(code)
  BY <1>1, FunctionTypes
<1> HIDE DEF blk, code
<1>8. /\ \A i \in 1 .. LastIndex(g, b) : origin[i] \in 1 .. LastIndex(f, b)
      /\ origin[LastIndex(g, b)] = LastIndex(f, b)
      /\ live[1] = live[origin[1]]
  BY <1>6, <1>7 DEF Origins
<1>9. /\ \A i \in DOMAIN code :
           /\ origin[i] \in DOMAIN blk.code /\ origin[i] < origin[i + 1]
           /\ ~Dead(blk, live, origin[i])
           /\ code[i] = blk.code[origin[i]]
           /\ live[origin[i] + 1] = live[origin[i + 1]]
      /\ \A k \in DOMAIN blk.code : Dead(blk, live, k) \/ \E i \in DOMAIN code : origin[i] = k
  BY <1>6, <1>7 DEF Origins
<1>10. /\ live[LastIndex(f, b)] = out[b] \cup blk.reads
       /\ \A k \in 1 .. LastIndex(f, b) : live[k] \subseteq Reg
       /\ \A k \in DOMAIN blk.code :
            live[k] = IF Dead(blk, live, k) THEN live[k + 1]
                      ELSE (live[k + 1] \ Defines(blk.code[k])) \cup blk.code[k].reads
  BY <1>5, <1>7 DEF SweepsBack
<1> QED BY <1>1, <1>8, <1>9, <1>10 DEF blk, Sweeps

\* A sweep's idea of what is live obeys the equations of liveness but for the dead
\* copies, which it leaves out.
LEMMA SweepLiveEquations ==
  ASSUME NEW f, IsFunction(f), NEW out, \A b \in DOMAIN f.blocks : out[b] \subseteq Reg,
         NEW b \in DOMAIN f.blocks, NEW live, live = SweepLive(f, out, b)
  PROVE  /\ live[LastIndex(f, b)] = out[b] \cup f.blocks[b].reads
         /\ \A k \in 1 .. LastIndex(f, b) : live[k] \subseteq Reg
         /\ \A k \in DOMAIN f.blocks[b].code : Dead(f.blocks[b], live, k) => live[k] = live[k + 1]
         /\ \A k \in DOMAIN f.blocks[b].code :
              ~Dead(f.blocks[b], live, k) =>
                live[k] = (live[k + 1] \ Defines(f.blocks[b].code[k])) \cup f.blocks[b].code[k].reads
<1> DEFINE g == Swept(f, out)
           origin == SweepOrigin(f, out, b)
<1> HIDE DEF g, origin
<1>1. g = Swept(f, out) /\ origin = SweepOrigin(f, out, b)
  BY DEF g, origin
<1>2. /\ live[LastIndex(f, b)] = out[b] \cup f.blocks[b].reads
      /\ \A k \in 1 .. LastIndex(f, b) : live[k] \subseteq Reg
      /\ \A k \in DOMAIN f.blocks[b].code :
           live[k] = IF Dead(f.blocks[b], live, k) THEN live[k + 1]
                     ELSE (live[k + 1] \ Defines(f.blocks[b].code[k])) \cup f.blocks[b].code[k].reads
  <2>1. Sweeps(f, out, b, g, live, origin)
    BY <1>1, SweptBlock
  <2> QED BY <2>1 DEF Sweeps
<1> QED BY <1>2

\* liveness() answers for the end of a block what the paths say.
LEMMA LiveOutIsAfter ==
  ASSUME NEW f, IsFunction(f), NEW b \in DOMAIN f.blocks
  PROVE  /\ LiveOut(f)[b] = LiveAfter(f)[<<b, LastIndex(f, b)>>]
         /\ LiveOut(f)[b] \subseteq Reg
<1>1. LiveOut(f)[b] = LiveAfter(f)[<<b, LastIndex(f, b)>>]
  BY DEF LiveOut
<1> QED BY <1>1, EndPoints

\* The sweep never takes more to be live than is: a dead copy's reads do not count.
LEMMA SweepLiveIsLive ==
  ASSUME NEW f, IsFunction(f), NEW b \in DOMAIN f.blocks,
         NEW live, live = SweepLive(f, LiveOut(f), b)
  PROVE  /\ \A k \in 1 .. LastIndex(f, b) : live[k] \subseteq LiveBefore(f)[<<b, k>>]
         /\ \A k \in DOMAIN f.blocks[b].code : live[k + 1] \subseteq LiveAfter(f)[<<b, k>>]
<1> DEFINE M == LastIndex(f, b)
           S == {k \in 1 .. M : live[k] \subseteq LiveBefore(f)[<<b, k>>]}
<1>1. /\ M \in Nat \ {0} /\ DOMAIN f.blocks[b].code = 1 .. M - 1
      /\ \A k \in 1 .. M : <<b, k>> \in Points(f)
  BY FunctionTypes, PointShape
<1>2. \A a \in DOMAIN f.blocks : LiveOut(f)[a] \subseteq Reg
  BY LiveOutIsAfter
<1>3. /\ live[M] = LiveOut(f)[b] \cup f.blocks[b].reads
      /\ \A k \in DOMAIN f.blocks[b].code : Dead(f.blocks[b], live, k) => live[k] = live[k + 1]
      /\ \A k \in DOMAIN f.blocks[b].code :
           ~Dead(f.blocks[b], live, k) =>
             live[k] = (live[k + 1] \ Defines(f.blocks[b].code[k])) \cup f.blocks[b].code[k].reads
  BY <1>2, SweepLiveEquations
<1>4. M \in S
  <2> DEFINE p == <<b, M>>
  <2>1. p \in Points(f) /\ M \in 1 .. M
    BY <1>1
  <2>2. ReadsAt(f, p) = f.blocks[b].reads /\ DefinesAt(f, p) = {}
    BY DEF ReadsAt, DefinesAt, IsTerminator
  <2>3. LiveBefore(f)[p] = f.blocks[b].reads \cup LiveOut(f)[b]
    BY <2>1, <2>2, LiveEquations, LiveOutIsAfter
  <2> QED BY <1>3, <2>1, <2>3
<1>5. ASSUME NEW k \in 1 .. M - 1
      PROVE  /\ LiveAfter(f)[<<b, k>>] = LiveBefore(f)[<<b, k + 1>>]
             /\ LiveBefore(f)[<<b, k>>] =
                  f.blocks[b].code[k].reads
                    \cup (LiveBefore(f)[<<b, k + 1>>] \ Defines(f.blocks[b].code[k]))
  <2> DEFINE p == <<b, k>>
  <2>1. p \in Points(f) /\ k # M
    BY <1>1
  <2>2. /\ ReadsAt(f, p) = f.blocks[b].code[k].reads /\ DefinesAt(f, p) = Defines(f.blocks[b].code[k])
    BY <2>1 DEF ReadsAt, DefinesAt, IsTerminator, InstructionAt
  <2>3. LiveAfter(f)[p] = LiveBefore(f)[<<b, k + 1>>]
    BY <1>1, InnerPoint
  <2> QED BY <2>1, <2>2, <2>3, LiveEquations
<1>6. ASSUME NEW k \in 1 .. M - 1, k + 1 \in S PROVE k \in S
  <2>1. k \in DOMAIN f.blocks[b].code /\ k \in 1 .. M
    BY <1>1
  <2>2. live[k + 1] \subseteq LiveBefore(f)[<<b, k + 1>>]
    BY <1>6
  <2>3. CASE ~Dead(f.blocks[b], live, k)
    BY <1>3, <1>5, <2>1, <2>2, <2>3
  <2>4. CASE Dead(f.blocks[b], live, k)
    <3>1. live[k] = live[k + 1] /\ f.blocks[b].code[k].dst \notin live[k + 1]
      BY <1>3, <2>1, <2>4 DEF Dead
    <3>2. live[k] \subseteq live[k + 1] \ Defines(f.blocks[b].code[k])
      BY <3>1 DEF Defines
    <3> QED BY <1>5, <2>1, <2>2, <3>2
  <2> QED BY <2>3, <2>4
<1>7. 1 .. M \subseteq S
  <2> HIDE DEF S
  <2> QED BY <1>1, <1>4, <1>6, DownInduction
<1>8. \A k \in DOMAIN f.blocks[b].code : k \in 1 .. M - 1 /\ k + 1 \in 1 .. M
  BY <1>1
<1> QED BY <1>5, <1>7, <1>8

\* What is live after a sweep was live before it, and to the sweep already.
LEMMA SweptLive ==
  ASSUME NEW f, IsFunction(f), NEW g, g = Swept(f, LiveOut(f)),
         NEW p \in Points(g), NEW live, live = SweepLive(f, LiveOut(f), p[1]),
         NEW origin, origin = SweepOrigin(f, LiveOut(f), p[1])
  PROVE  LiveBefore(g)[p] \subseteq live[origin[p[2]]]
<1> DEFINE out == LiveOut(f)
           lives(b) == SweepLive(f, out, b)
           from(b) == SweepOrigin(f, out, b)
           claim == [q \in Points(g) |-> lives(q[1])[from(q[1])[q[2]]]]
<1>1. \A b \in DOMAIN f.blocks : out[b] \subseteq Reg
  BY LiveOutIsAfter
<1>2. /\ IsFunction(g) /\ DOMAIN g.blocks = DOMAIN f.blocks
      /\ \A b \in DOMAIN f.blocks : g.blocks[b].reads = f.blocks[b].reads
                                    /\ g.blocks[b].next = f.blocks[b].next
  BY <1>1, SweptIsFunction DEF Swept
<1>3. \A c \in DOMAIN f.blocks : Sweeps(f, out, c, g, lives(c), from(c))
  BY <1>1, SweptBlock
<1>4. ASSUME NEW q \in Points(g)
      PROVE  /\ ReadsAt(g, q) \subseteq claim[q]
             /\ \A s \in NextPoints(g, q) : (Reg \cap claim[s]) \ DefinesAt(g, q) \subseteq claim[q]
  <2> DEFINE b == q[1]  i == q[2]
             l == lives(b)  o == from(b)
  <2>1. q = <<b, i>> /\ b \in DOMAIN f.blocks /\ i \in 1 .. LastIndex(g, b)
    BY <1>2, PointShape
  <2>2. claim[q] = l[o[i]] /\ \A s \in NextPoints(g, q) : claim[s] = lives(s[1])[from(s[1])[s[2]]]
    BY <1>2, PointsFlow
  <2>3. CASE i = LastIndex(g, b)
    <3>1. o[i] = LastIndex(f, b) /\ l[LastIndex(f, b)] = out[b] \cup f.blocks[b].reads
      BY <1>3, <2>1, <2>3 DEF Sweeps
    <3>2. ReadsAt(g, q) = f.blocks[b].reads /\ NextPoints(g, q) = {<<s, 1>> : s \in f.blocks[b].next}
      BY <1>2, <2>1, <2>3 DEF ReadsAt, NextPoints, IsTerminator
    <3>3. ASSUME NEW s \in f.blocks[b].next PROVE claim[<<s, 1>>] \subseteq out[b]
      <4>1. s \in DOMAIN f.blocks
        BY <2>1, FunctionTypes
      <4>2. claim[<<s, 1>>] = lives(s)[from(s)[1]]
        BY <2>2, <3>2
      <4>3. lives(s)[from(s)[1]] = lives(s)[1]
        BY <1>3, <4>1 DEF Sweeps
      <4>4. 1 \in 1 .. LastIndex(f, s)
        BY <4>1, FunctionTypes
      <4>5. lives(s)[1] \subseteq LiveBefore(f)[<<s, 1>>]
        BY <4>1, <4>4, SweepLiveIsLive
      <4>6. LiveBefore(f)[<<s, 1>>] \subseteq LiveAfter(f)[<<b, LastIndex(f, b)>>]
        BY <2>1, LiveAcrossEdges
      <4> QED BY <2>1, <4>2, <4>3, <4>5, <4>6, LiveOutIsAfter
    <3> HIDE DEF claim, out
    <3> QED BY <2>2, <3>1, <3>2, <3>3
  <2>4. CASE i # LastIndex(g, b)
    <3>1. i \in DOMAIN g.blocks[b].code
      <4>1. b \in DOMAIN g.blocks
        BY <1>2, <2>1
      <4>2. /\ DOMAIN g.blocks[b].code = 1 .. Len(g.blocks[b].code)
            /\ LastIndex(g, b) = Len(g.blocks[b].code) + 1 /\ Len(g.blocks[b].code) \in Nat
        BY <1>2, <4>1, FunctionTypes
      <4> HIDE DEF i, b
      <4> QED BY <2>1, <2>4, <4>2
    <3>2. /\ o[i] \in DOMAIN f.blocks[b].code /\ ~Dead(f.blocks[b], l, o[i])
          /\ g.blocks[b].code[i] = f.blocks[b].code[o[i]]
          /\ l[o[i] + 1] = l[o[i + 1]]
      BY <1>3, <2>1, <3>1 DEF Sweeps
    <3>3. l[o[i]] = (l[o[i] + 1] \ Defines(f.blocks[b].code[o[i]])) \cup f.blocks[b].code[o[i]].reads
      <4>1. \A k \in DOMAIN f.blocks[b].code :
              ~Dead(f.blocks[b], l, k) =>
                l[k] = (l[k + 1] \ Defines(f.blocks[b].code[k])) \cup f.blocks[b].code[k].reads
        BY <1>1, <2>1, SweepLiveEquations
      <4> HIDE DEF l, o, lives, from, b
      <4> QED BY <3>2, <4>1
    <3>4. /\ NextPoints(g, q) = {<<b, i + 1>>} /\ ReadsAt(g, q) = g.blocks[b].code[i].reads
          /\ DefinesAt(g, q) = Defines(g.blocks[b].code[i])
      BY <2>1, <2>4 DEF NextPoints, ReadsAt, DefinesAt, IsTerminator, InstructionAt
    <3>5. claim[<<b, i + 1>>] = l[o[i + 1]]
      BY <2>2, <3>4
    <3>6. claim[q] = l[o[i]]
      BY <2>2
    <3> HIDE DEF claim, l, o, lives, from, b, i
    <3>7. ReadsAt(g, q) \subseteq claim[q]
      BY <3>2, <3>3, <3>4, <3>6
    <3>8. claim[<<b, i + 1>>] \ DefinesAt(g, q) \subseteq claim[q]
      BY <3>2, <3>3, <3>4, <3>5, <3>6
    <3> QED BY <3>4, <3>7, <3>8
  <2> QED BY <2>3, <2>4
<1>5. LiveBefore(g)[p] \subseteq claim[p]
  <2> HIDE DEF claim
  <2> QED BY <1>2, <1>4, LiveLeast
<1> QED BY <1>5

\* A sweep takes the code it keeps in order.
LEMMA OriginsAscend ==
  ASSUME NEW f, IsFunction(f), NEW out, \A b \in DOMAIN f.blocks : out[b] \subseteq Reg,
         NEW g, g = Swept(f, out), NEW b \in DOMAIN f.blocks, NEW origin, origin = SweepOrigin(f, out, b)
  PROVE  \A i, j \in 1 .. LastIndex(g, b) : i < j => origin[i] < origin[j]
<1> DEFINE M == LastIndex(g, b)
           live == SweepLive(f, out, b)
<1>1. Sweeps(f, out, b, g, live, origin)
  BY SweptBlock
<1>2. /\ M \in Nat \ {0} /\ DOMAIN g.blocks[b].code = 1 .. M - 1
      /\ LastIndex(f, b) \in Nat
  <2>1. IsFunction(g) /\ b \in DOMAIN g.blocks
    BY SweptIsFunction
  <2>2. LastIndex(f, b) \in Nat
    BY FunctionTypes
  <2>3. /\ DOMAIN g.blocks[b].code = 1 .. Len(g.blocks[b].code) /\ Len(g.blocks[b].code) \in Nat
        /\ LastIndex(g, b) = Len(g.blocks[b].code) + 1
    BY <2>1, FunctionTypes
  <2> QED BY <2>2, <2>3
<1> HIDE DEF live
<1>3. /\ \A i \in 1 .. M : origin[i] \in Nat
      /\ \A i \in 1 .. M - 1 : origin[i] < origin[i + 1]
  <2>1. /\ \A i \in 1 .. LastIndex(g, b) : origin[i] \in 1 .. LastIndex(f, b)
        /\ \A i \in DOMAIN g.blocks[b].code : origin[i] < origin[i + 1]
    BY <1>1 DEF Sweeps
  <2> HIDE DEF M
  <2>2. \A i \in 1 .. M - 1 : origin[i] < origin[i + 1]
    BY <1>2, <2>1
  <2>3. \A i \in 1 .. M : origin[i] \in 1 .. LastIndex(f, b)
    BY <2>1 DEF M
  <2> QED BY <1>2, <2>2, <2>3
<1> HIDE DEF M
<1> SUFFICES ASSUME NEW j \in 1 .. M PROVE \A i \in 1 .. j : i = j \/ origin[i] < origin[j]
  BY <1>2 DEF M
<1> DEFINE S == {i \in 1 .. j : i = j \/ origin[i] < origin[j]}
<1>4. j \in S
  BY <1>2
<1>5. ASSUME NEW i \in 1 .. j - 1, i + 1 \in S PROVE i \in S
  <2>1. i \in 1 .. M - 1 /\ i \in 1 .. M /\ i + 1 \in 1 .. M /\ i \in 1 .. j
    BY <1>2
  <2>2. origin[i] < origin[i + 1] /\ (i + 1 = j \/ origin[i + 1] < origin[j])
    BY <1>3, <1>5, <2>1
  <2>3. origin[i] \in Nat /\ origin[i + 1] \in Nat /\ origin[j] \in Nat
    BY <1>3, <2>1
  <2> QED BY <2>1, <2>2, <2>3
<1>6. 1 .. j \subseteq S
  <2> HIDE DEF S
  <2>1. j \in Nat \ {0}
    BY <1>2
  <2> QED BY <1>4, <1>5, <2>1, DownInduction
<1> QED BY <1>6
===============================================================================
