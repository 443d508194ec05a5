------------------------------- MODULE Induction ------------------------------
(***************************************************************************)
(* Induction over numbers and finite sets, for the proofs that need it.    *)
(* The library's induction theorems take a predicate as a parameter; here  *)
(* the predicate is a set, and the principle rests on strict inclusion     *)
(* being well founded on finite sets.                                      *)
(***************************************************************************)
EXTENDS Integers, FiniteSetTheorems, WellFoundedInduction, TLAPS

\* A set of finite sets has a minimal element.
LEMMA FiniteMinimal ==
  ASSUME NEW T, T # {}, \A x \in T : IsFiniteSet(x)
  PROVE  \E x \in T : \A y \in T : y \subseteq x => y = x
<1> DEFINE S == UNION T
<1>1. IsWellFoundedOn(StrictSubsetOrdering(S), FiniteSubsetsOf(S))
  BY FS_StrictSubsetOrderingWellFounded
<1>2. T \subseteq FiniteSubsetsOf(S)
  BY DEF FiniteSubsetsOf
<1>3. \E x \in T : \A y \in T : ~ (<<y, x>> \in StrictSubsetOrdering(S))
  BY <1>1, <1>2, WFMin
<1> QED
  BY <1>3 DEF StrictSubsetOrdering

LEMMA LeastNatural ==
  ASSUME NEW T, T \subseteq Nat, T # {}
  PROVE  \E m \in T : \A k \in T : m <= k
<1> DEFINE below(n) == 0 .. n
           B == {below(n) : n \in T}
<1>1. ASSUME NEW x \in B PROVE x \subseteq Nat /\ IsFiniteSet(x)
  <2>1. PICK n \in T : x = below(n)
    OBVIOUS
  <2>2. n \in Int /\ 0 \in Int
    OBVIOUS
  <2> QED BY <2>1, <2>2, FS_Interval
<1>2. B # {}
  OBVIOUS
<1>3. \E x \in B : \A y \in B : y \subseteq x => y = x
  <2> HIDE DEF B
  <2>1. \A x \in B : x \subseteq Nat /\ IsFiniteSet(x)
    BY <1>1
  <2> QED BY <2>1, <1>2, FiniteMinimal
<1>4. PICK m \in T : \A y \in B : y \subseteq below(m) => y = below(m)
  BY <1>3
<1>5. ASSUME NEW k \in T PROVE m <= k
  <2>1. m \in Nat /\ k \in Nat
    OBVIOUS
  <2>2. k < m => below(k) \subseteq below(m) /\ m \in below(m) /\ m \notin below(k)
    BY <2>1
  <2>3. below(k) \in B
    OBVIOUS
  <2>4. below(k) \subseteq below(m) => below(k) = below(m)
    BY <1>4, <2>3
  <2>5. ~(k < m)
    <3> HIDE DEF below
    <3> QED BY <2>2, <2>4
  <2> QED BY <2>1, <2>5
<1> QED BY <1>4, <1>5

\* Induction: a set that holds 0 and successors holds every number.
LEMMA SetInduction ==
  ASSUME NEW S, 0 \in S, \A n \in Nat : n \in S => n + 1 \in S
  PROVE  Nat \subseteq S
<1> DEFINE T == Nat \ S
<1>1. ASSUME T # {} PROVE FALSE
  <2>1. PICK m \in T : \A k \in T : m <= k
    BY <1>1, LeastNatural
  <2>2. m - 1 \in Nat /\ m - 1 \notin T
    BY <2>1
  <2> QED BY <2>1, <2>2
<1> QED BY <1>1

\* g iterates a step N times from a base; the step may depend on the round.
Iterates(D, base, step, N, g) ==
  /\ g \in [0 .. N -> D]
  /\ g[0] = base
  /\ \A n \in 1 .. N : g[n] = step[<<n, g[n - 1]>>]

\* Iterating a step from a base gives a function.
LEMMA IterationExists ==
  ASSUME NEW D, NEW base \in D, NEW N \in Nat, NEW step,
         \A n \in 1 .. N : \A d \in D : step[<<n, d>>] \in D
  PROVE  \E g : Iterates(D, base, step, N, g)
<1> DEFINE Runs(m) == {g \in [0 .. m -> D] :
                         g[0] = base /\ \A n \in 1 .. m : g[n] = step[<<n, g[n - 1]>>]}
           S == {m \in Nat : m <= N => Runs(m) # {}}
<1>1. 0 \in S
  <2> DEFINE g == [n \in 0 .. 0 |-> base]
  <2>1. g \in Runs(0)
    OBVIOUS
  <2> QED BY <2>1
<1>2. ASSUME NEW m \in Nat, m \in S PROVE m + 1 \in S
  <2> SUFFICES ASSUME m + 1 <= N PROVE Runs(m + 1) # {}
    OBVIOUS
  <2>1. PICK g \in [0 .. m -> D] : g[0] = base /\ \A n \in 1 .. m : g[n] = step[<<n, g[n - 1]>>]
    BY <1>2
  <2> DEFINE h == [n \in 0 .. m + 1 |-> IF n <= m THEN g[n] ELSE step[<<n, g[m]>>]]
  <2>2. step[<<m + 1, g[m]>>] \in D
    BY <2>1
  <2>3. h \in [0 .. m + 1 -> D] /\ h[0] = base
    BY <2>1, <2>2
  <2>4. ASSUME NEW n \in 1 .. m + 1 PROVE h[n] = step[<<n, h[n - 1]>>]
    <3>1. CASE n <= m
      <4>1. /\ g[n] = step[<<n, g[n - 1]>>]
            /\ n \in 0 .. m + 1 /\ n - 1 \in 0 .. m + 1 /\ n - 1 <= m
        BY <2>1, <3>1
      <4> QED BY <4>1, <3>1
    <3>2. CASE n = m + 1
      BY <3>2
    <3> QED BY <3>1, <3>2
  <2>5. h \in Runs(m + 1)
    <3> HIDE DEF h
    <3> QED BY <2>3, <2>4
  <2> QED BY <2>5
<1>3. Nat \subseteq S
  <2> HIDE DEF S
  <2> QED BY <1>1, <1>2, SetInduction
<1>4. Runs(N) # {}
  BY <1>3
<1> QED BY <1>4 DEF Iterates

\* g counts down from M, each value made of the next.
CountsDown(D, last, step, M, g) ==
  /\ g \in [1 .. M -> D]
  /\ g[M] = last
  /\ \A k \in 1 .. M - 1 : g[k] = step[<<k, g[k + 1]>>]

LEMMA CountdownExists ==
  ASSUME NEW D, NEW last \in D, NEW M \in Nat \ {0}, NEW step,
         \A k \in 1 .. M - 1 : \A d \in D : step[<<k, d>>] \in D
  PROVE  \E g : CountsDown(D, last, step, M, g)
<1> DEFINE N == M - 1
           up == [e \in (1 .. N) \X D |-> step[<<M - e[1], e[2]>>]]
<1>1. N \in Nat /\ \A n \in 1 .. N : M - n \in 1 .. M - 1
  OBVIOUS
<1>2. \A n \in 1 .. N : \A d \in D : up[<<n, d>>] = step[<<M - n, d>>] /\ up[<<n, d>>] \in D
  BY <1>1
<1> HIDE DEF up, N
<1>3. PICK h : Iterates(D, last, up, N, h)
  BY <1>1, <1>2, IterationExists
<1> DEFINE g == [k \in 1 .. M |-> h[M - k]]
<1>4. g \in [1 .. M -> D] /\ g[M] = last
  BY <1>3 DEF Iterates, N
<1>5. ASSUME NEW k \in 1 .. M - 1 PROVE g[k] = step[<<k, g[k + 1]>>]
  <2> DEFINE n == M - k
  <2>1. n \in 1 .. N /\ M - n = k /\ n - 1 = M - (k + 1) /\ k + 1 \in 1 .. M /\ n - 1 \in 0 .. N
        /\ k \in 1 .. M
    BY DEF N
  <2>2. h[n] = up[<<n, h[n - 1]>>] /\ h[n - 1] \in D
    BY <1>3, <2>1 DEF Iterates
  <2>3. h[n] = step[<<M - n, h[n - 1]>>]
    BY <1>2, <2>1, <2>2
  <2>4. g[k] = h[n] /\ g[k + 1] = h[n - 1]
    BY <2>1
  <2> HIDE DEF n, g
  <2> QED BY <2>1, <2>3, <2>4
<1> QED BY <1>4, <1>5 DEF CountsDown

\* Induction downwards.
LEMMA DownInduction ==
  ASSUME NEW M \in Nat \ {0}, NEW S, M \in S, \A k \in 1 .. M - 1 : k + 1 \in S => k \in S
  PROVE  1 .. M \subseteq S
<1> DEFINE T == {n \in Nat : n < M => M - n \in S}
<1>1. 0 \in T
  OBVIOUS
<1>2. ASSUME NEW n \in Nat, n \in T PROVE n + 1 \in T
  <2> SUFFICES ASSUME n + 1 < M PROVE M - (n + 1) \in S
    OBVIOUS
  <2> DEFINE k == M - (n + 1)
  <2>1. k \in 1 .. M - 1 /\ k + 1 = M - n /\ n < M
    OBVIOUS
  <2>2. k + 1 \in S
    BY <1>2, <2>1
  <2> QED BY <2>1, <2>2
<1>3. Nat \subseteq T
  <2> HIDE DEF T
  <2> QED BY <1>1, <1>2, SetInduction
<1>4. ASSUME NEW k \in 1 .. M PROVE k \in S
  <2>1. M - k \in Nat /\ M - k < M /\ M - (M - k) = k
    OBVIOUS
  <2>2. M - k \in T
    BY <1>3, <2>1
  <2> QED BY <2>1, <2>2
<1> QED BY <1>4
---------------------------------------------------------------------------
(***************************************************************************)
(* Sums over finite sets                                                   *)
(***************************************************************************)

\* it sums a function over the subsets of S, taking the elements in the order in
\* which CHOOSE names them.
SumsOver(size, S, it) ==
  it = [s \in SUBSET S |->
          IF s = {} THEN 0
          ELSE LET x == CHOOSE x \in s : TRUE IN size[x] + it[s \ {x}]]

LEMMA SumExists ==
  ASSUME NEW S, IsFiniteSet(S), NEW size \in [S -> Nat]
  PROVE  \E it \in [SUBSET S -> Nat] : SumsOver(size, S, it)
<1> DEFINE pick(s) == CHOOSE x \in s : TRUE
           next(g, s) == IF s = {} THEN 0 ELSE size[pick(s)] + g[s \ {pick(s)}]
           Upto(n) == {g \in [SUBSET S -> Nat] :
                         \A s \in SUBSET S : Cardinality(s) <= n => g[s] = next(g, s)}
           Sizes == {n \in Nat : Upto(n) # {}}
<1>1. ASSUME NEW s \in SUBSET S
      PROVE  /\ IsFiniteSet(s) /\ Cardinality(s) \in Nat /\ Cardinality(s) <= Cardinality(S)
             /\ Cardinality(s) = 0 <=> s = {}
             /\ s # {} => /\ pick(s) \in s /\ pick(s) \in S /\ s \ {pick(s)} \in SUBSET S
                          /\ Cardinality(s \ {pick(s)}) = Cardinality(s) - 1
  <2>1. IsFiniteSet(s) /\ Cardinality(s) <= Cardinality(S)
    BY FS_Subset
  <2>2. Cardinality(s) \in Nat /\ (Cardinality(s) = 0 <=> s = {})
    BY <2>1, FS_CardinalityType, FS_EmptySet
  <2>3. s # {} => pick(s) \in s
    OBVIOUS
  <2> HIDE DEF pick
  <2>4. s # {} => Cardinality(s \ {pick(s)}) = Cardinality(s) - 1
    BY <2>1, <2>3, FS_RemoveElement
  <2> QED BY <2>1, <2>2, <2>3, <2>4
<1>2. ASSUME NEW g \in [SUBSET S -> Nat], NEW s \in SUBSET S
      PROVE  next(g, s) \in Nat
  <2>1. CASE s = {}
    BY <2>1
  <2>2. CASE s # {}
    <3>1. pick(s) \in S /\ s \ {pick(s)} \in SUBSET S
      BY <1>1, <2>2
    <3> HIDE DEF pick
    <3>2. size[pick(s)] \in Nat /\ g[s \ {pick(s)}] \in Nat
      BY <3>1
    <3> QED BY <2>2, <3>2
  <2> QED BY <2>1, <2>2
<1>3. 0 \in Sizes
  <2> DEFINE g == [s \in SUBSET S |-> 0]
  <2>1. ASSUME NEW s \in SUBSET S, Cardinality(s) <= 0 PROVE s = {}
    <3>1. Cardinality(s) \in Nat /\ (Cardinality(s) = 0 <=> s = {})
      BY <1>1
    <3> QED BY <2>1, <3>1
  <2>2. g \in Upto(0)
    BY <2>1
  <2> QED BY <2>2
<1>4. ASSUME NEW n \in Nat, n \in Sizes PROVE n + 1 \in Sizes
  <2>1. PICK g \in [SUBSET S -> Nat] :
               \A s \in SUBSET S : Cardinality(s) <= n => g[s] = next(g, s)
    BY <1>4
  <2> DEFINE h == [s \in SUBSET S |-> IF Cardinality(s) <= n THEN g[s] ELSE next(g, s)]
  <2>2. h \in [SUBSET S -> Nat]
    <3> HIDE DEF next
    <3> QED BY <1>2, <2>1
  <2>3. ASSUME NEW s \in SUBSET S, Cardinality(s) <= n + 1 PROVE h[s] = next(h, s)
    <3>1. h[s] = next(g, s)
      <4> HIDE DEF next
      <4> QED BY <2>1, <2>3
    <3>2. s # {} => h[s \ {pick(s)}] = g[s \ {pick(s)}]
      <4> SUFFICES ASSUME s # {} PROVE h[s \ {pick(s)}] = g[s \ {pick(s)}]
        OBVIOUS
      <4>1. s \ {pick(s)} \in SUBSET S /\ Cardinality(s \ {pick(s)}) <= n
        BY <1>1, <2>3
      <4> HIDE DEF pick, next
      <4> QED BY <4>1
    <3> HIDE DEF h, pick
    <3> QED BY <3>1, <3>2
  <2>4. h \in Upto(n + 1)
    <3> HIDE DEF h, next
    <3> QED BY <2>2, <2>3
  <2> HIDE DEF Upto
  <2> QED BY <2>4
<1>5. Cardinality(S) \in Sizes
  <2>1. Nat \subseteq Sizes
    <3> HIDE DEF Sizes
    <3> QED BY <1>3, <1>4, SetInduction
  <2> QED BY <2>1, FS_CardinalityType
<1>6. PICK g \in [SUBSET S -> Nat] : \A s \in SUBSET S : g[s] = next(g, s)
  <2>1. PICK g \in [SUBSET S -> Nat] :
               \A s \in SUBSET S : Cardinality(s) <= Cardinality(S) => g[s] = next(g, s)
    BY <1>5
  <2> HIDE DEF next
  <2> QED BY <1>1, <2>1
<1>7. SumsOver(size, S, g)
  BY <1>6 DEF SumsOver
<1> QED BY <1>7

\* What the sum of a set is does not depend on the set it is taken within ...
LEMMA SumsAgree ==
  ASSUME NEW S, IsFiniteSet(S), NEW size, NEW T \in SUBSET S,
         NEW it, SumsOver(size, S, it), NEW jt, SumsOver(size, T, jt)
  PROVE  jt[T] = it[T]
<1> DEFINE Bad == {s \in SUBSET T : jt[s] # it[s]}
<1>1. ASSUME Bad # {} PROVE FALSE
  <2>1. \A s \in Bad : IsFiniteSet(s)
    BY FS_Subset
  <2>2. PICK s \in Bad : \A r \in Bad : r \subseteq s => r = s
    <3> HIDE DEF Bad
    <3> QED BY <1>1, <2>1, FiniteMinimal
  <2>3. CASE s = {}
    BY <2>2, <2>3 DEF SumsOver
  <2>4. CASE s # {}
    <3> DEFINE x == CHOOSE x \in s : TRUE
    <3>1. x \in s
      BY <2>4
    <3>2. it[s] = size[x] + it[s \ {x}] /\ jt[s] = size[x] + jt[s \ {x}]
      BY <2>2, <2>4 DEF SumsOver
    <3> HIDE DEF x
    <3>3. s \ {x} \in SUBSET T /\ s \ {x} # s
      BY <2>2, <3>1
    <3>4. jt[s \ {x}] = it[s \ {x}]
      BY <2>2, <3>3
    <3> QED BY <2>2, <3>2, <3>4
  <2> QED BY <2>3, <2>4
<1> QED BY <1>1

\* ... nor on the order in which its elements are taken.
LEMMA SumRemoves ==
  ASSUME NEW S, IsFiniteSet(S), NEW size \in [S -> Nat],
         NEW it \in [SUBSET S -> Nat], SumsOver(size, S, it)
  PROVE  /\ it[{}] = 0
         /\ \A T \in SUBSET S : \A x \in T : it[T] = size[x] + it[T \ {x}]
<1> DEFINE Bad == {T \in SUBSET S : \E x \in T : it[T] # size[x] + it[T \ {x}]}
<1>1. it[{}] = 0
  BY DEF SumsOver
<1>2. ASSUME Bad # {} PROVE FALSE
  <2>1. \A T \in Bad : IsFiniteSet(T)
    BY FS_Subset
  <2>2. PICK T \in Bad : \A U \in Bad : U \subseteq T => U = T
    <3> HIDE DEF Bad
    <3> QED BY <1>2, <2>1, FiniteMinimal
  <2>3. PICK x \in T : it[T] # size[x] + it[T \ {x}]
    BY <2>2
  <2> DEFINE y == CHOOSE y \in T : TRUE
  <2>4. y \in T /\ it[T] = size[y] + it[T \ {y}]
    BY <2>2, <2>3 DEF SumsOver
  <2> HIDE DEF y
  <2>5. y # x
    BY <2>3, <2>4
  <2>6. T \ {x} \in SUBSET S /\ T \ {x} \notin Bad /\ T \ {y} \in SUBSET S /\ T \ {y} \notin Bad
        /\ y \in T \ {x} /\ x \in T \ {y}
    BY <2>2, <2>3, <2>4, <2>5
  <2>7. (T \ {x}) \ {y} = (T \ {y}) \ {x}
    OBVIOUS
  <2>8. it[T \ {x}] = size[y] + it[(T \ {y}) \ {x}] /\ it[T \ {y}] = size[x] + it[(T \ {y}) \ {x}]
    BY <2>6, <2>7
  <2>9. size[x] \in Nat /\ size[y] \in Nat /\ it[(T \ {y}) \ {x}] \in Nat
    BY <2>2, <2>3, <2>4
  <2>10. it[T] = size[x] + it[T \ {x}]
    <3> DEFINE a == size[x]  b == size[y]  c == it[(T \ {y}) \ {x}]
    <3>1. it[T] = b + (a + c) /\ it[T \ {x}] = b + c
      BY <2>4, <2>8
    <3>2. a \in Nat /\ b \in Nat /\ c \in Nat
      BY <2>9
    <3> HIDE DEF a, b, c
    <3>3. b + (a + c) = a + (b + c)
      BY <3>2
    <3> QED BY <3>1, <3>3 DEF a
  <2> QED BY <2>3, <2>10
<1> QED BY <1>1, <1>2

---------------------------------------------------------------------------
(***************************************************************************)
(* Finite sets in order, and finite sets of numbers in ascending order.    *)
(***************************************************************************)
Sorts(S, under, s) ==
  /\ s \in [1 .. Cardinality(S) -> S]
  /\ \A m, n \in DOMAIN s : m < n => <<s[m], s[n]>> \in under
  /\ \A i \in S : \E n \in DOMAIN s : s[n] = i

\* A finite set whose every part has a first element can be put in order.
LEMMA SortExists ==
  ASSUME NEW S, IsFiniteSet(S), NEW under,
         \A T \in SUBSET S : T # {} => \E a \in T : \A b \in T : b = a \/ <<a, b>> \in under
  PROVE  \E s : Sorts(S, under, s)
<1> DEFINE Ok(T) == \E s : Sorts(T, under, s)
           I == {n \in Nat : \A T \in SUBSET S : Cardinality(T) = n => Ok(T)}
<1>0. \A T \in SUBSET S : IsFiniteSet(T) /\ Cardinality(T) \in Nat
  BY FS_Subset, FS_CardinalityType
<1>1. 0 \in I
  <2> SUFFICES ASSUME NEW T \in SUBSET S, Cardinality(T) = 0 PROVE \E s : Sorts(T, under, s)
    OBVIOUS
  <2>1. T = {}
    BY <1>0, FS_EmptySet
  <2> DEFINE s == [n \in 1 .. 0 |-> 0]
  <2>2. s \in [1 .. 0 -> {}] /\ DOMAIN s = {}
    OBVIOUS
  <2>3. Sorts(T, under, s)
    <3> HIDE DEF s
    <3> QED BY <2>1, <2>2 DEF Sorts
  <2> QED BY <2>3
<1>2. ASSUME NEW n \in Nat, n \in I PROVE n + 1 \in I
  <2> SUFFICES ASSUME NEW T \in SUBSET S, Cardinality(T) = n + 1 PROVE \E s : Sorts(T, under, s)
    OBVIOUS
  <2>1. T # {}
    BY <1>0, FS_EmptySet
  <2>2. PICK a \in T : \A b \in T : b = a \/ <<a, b>> \in under
    BY <2>1
  <2> DEFINE R == T \ {a}
  <2>3. R \in SUBSET S /\ Cardinality(R) = n
    <3>1. IsFiniteSet(T) /\ Cardinality(T) - 1 = n
      BY <1>0
    <3> QED BY <3>1, <2>2, FS_RemoveElement
  <2>4. PICK s : Sorts(R, under, s)
    BY <1>2, <2>3
  <2> DEFINE u == [m \in 1 .. n + 1 |-> IF m = 1 THEN a ELSE s[m - 1]]
  <2>5. /\ s \in [1 .. n -> R] /\ \A l, m \in 1 .. n : l < m => <<s[l], s[m]>> \in under
        /\ \A i \in R : \E m \in 1 .. n : s[m] = i
    <3> HIDE DEF R
    <3> QED BY <2>3, <2>4 DEF Sorts
  <2>6. \A m \in 2 .. n + 1 : m - 1 \in 1 .. n /\ s[m - 1] \in T /\ <<a, s[m - 1]>> \in under
    <3> TAKE m \in 2 .. n + 1
    <3>1. m - 1 \in 1 .. n
      OBVIOUS
    <3>2. s[m - 1] \in R
      BY <2>5, <3>1
    <3>3. s[m - 1] \in T /\ s[m - 1] # a
      BY <3>2
    <3>4. <<a, s[m - 1]>> \in under
      BY <2>2, <3>3
    <3> QED BY <3>1, <3>3, <3>4
  <2>7. u \in [1 .. n + 1 -> T] /\ DOMAIN u = 1 .. n + 1
    <3>1. \A m \in 1 .. n + 1 : m = 1 \/ m \in 2 .. n + 1
      OBVIOUS
    <3>2. \A m \in 1 .. n + 1 : (IF m = 1 THEN a ELSE s[m - 1]) \in T
      BY <2>6, <3>1
    <3> QED BY <3>2
  <2>8. ASSUME NEW l \in 1 .. n + 1, NEW m \in 1 .. n + 1, l < m PROVE <<u[l], u[m]>> \in under
    <3>1. m # 1 /\ m \in 2 .. n + 1 /\ u[m] = s[m - 1]
      BY <2>8
    <3>2. CASE l = 1
      BY <2>6, <3>1, <3>2
    <3>3. CASE l # 1
      <4>1. l - 1 \in 1 .. n /\ m - 1 \in 1 .. n /\ l - 1 < m - 1 /\ u[l] = s[l - 1]
        BY <2>8, <3>3
      <4> QED BY <2>5, <3>1, <4>1
    <3> QED BY <3>2, <3>3
  <2>9. ASSUME NEW i \in T PROVE \E m \in 1 .. n + 1 : u[m] = i
    <3>1. CASE i = a
      <4>1. 1 \in 1 .. n + 1
        OBVIOUS
      <4> QED BY <3>1, <4>1
    <3>2. CASE i # a
      <4>1. PICK m \in 1 .. n : s[m] = i
        BY <2>5, <3>2
      <4>2. m + 1 \in 1 .. n + 1 /\ m + 1 # 1 /\ (m + 1) - 1 = m
        OBVIOUS
      <4>3. u[m + 1] = i
        BY <4>1, <4>2
      <4> QED BY <4>2, <4>3
    <3> QED BY <3>1, <3>2
  <2>10. Sorts(T, under, u)
    <3> HIDE DEF u
    <3> QED BY <2>7, <2>8, <2>9 DEF Sorts
  <2> QED BY <2>10
<1>3. Nat \subseteq I
  <2> HIDE DEF I
  <2> QED BY <1>1, <1>2, SetInduction
<1>4. Cardinality(S) \in I /\ S \in SUBSET S
  BY <1>0, <1>3
<1> QED BY <1>4

Ordered(S, s) ==
  /\ s \in [1 .. Cardinality(S) -> S]
  /\ \A m, n \in DOMAIN s : m < n => s[m] < s[n]
  /\ \A i \in S : \E n \in DOMAIN s : s[n] = i

LEMMA OrderExists ==
  ASSUME NEW S, IsFiniteSet(S), S \subseteq Nat
  PROVE  \E s : Ordered(S, s)
<1> DEFINE under == {e \in S \X S : e[1] < e[2]}
<1>1. ASSUME NEW T \in SUBSET S, T # {}
      PROVE  \E a \in T : \A b \in T : b = a \/ <<a, b>> \in under
  <2>1. PICK a \in T : \A b \in T : a <= b
    BY <1>1, LeastNatural
  <2>2. \A b \in T : b = a \/ a < b
    BY <2>1
  <2> QED BY <2>2
<1>2. \A a, b : <<a, b>> \in under => a < b
  OBVIOUS
<1> HIDE DEF under
<1>3. PICK s : Sorts(S, under, s)
  BY <1>1, SortExists
<1>4. Ordered(S, s)
  BY <1>2, <1>3 DEF Sorts, Ordered
<1> QED BY <1>4

\* An order repeats nothing.
LEMMA OrderRepeatsNothing ==
  ASSUME NEW S, IsFiniteSet(S), S \subseteq Nat, NEW s, Ordered(S, s)
  PROVE  /\ Cardinality(S) \in Nat /\ DOMAIN s = 1 .. Cardinality(S)
         /\ \A m \in DOMAIN s : s[m] \in S
         /\ \A m, n \in DOMAIN s : s[m] = s[n] => m = n
<1>1. Cardinality(S) \in Nat
  BY FS_CardinalityType
<1>2. DOMAIN s = 1 .. Cardinality(S) /\ \A m \in DOMAIN s : s[m] \in S
  BY DEF Ordered
<1>3. ASSUME NEW m \in DOMAIN s, NEW n \in DOMAIN s, s[m] = s[n] PROVE m = n
  <2>0. s[m] \in Nat /\ s[n] \in Nat
    BY <1>2
  <2>1. m \in Nat /\ n \in Nat
    <3>1. m \in 1 .. Cardinality(S) /\ n \in 1 .. Cardinality(S)
      BY <1>2
    <3> QED BY <3>1
  <2>2. ~(m < n) /\ ~(n < m)
    BY <1>3, <2>0, <2>1 DEF Ordered
  <2> QED BY <2>1, <2>2
<1> QED BY <1>1, <1>2, <1>3

\* What N rounds along the edges E reach from `start`.
Spreads(start, E, N, g) ==
  g = [n \in 0 .. N |-> IF n = 0 THEN start
                        ELSE g[n - 1] \cup {e[2] : e \in {e \in E : e[1] \in g[n - 1]}}]

\* R is the least set that holds the start and is closed along the edges.
LeastClosed(P, start, E, R) ==
  /\ R \subseteq P /\ start \subseteq R
  /\ \A e \in E : e[1] \in R => e[2] \in R
  /\ \A X : (start \subseteq X /\ \A e \in E : e[1] \in X => e[2] \in X) => R \subseteq X

\* Such rounds exist.
LEMMA SpreadExists ==
  ASSUME NEW P, NEW start \in SUBSET P, NEW E \in SUBSET (P \X P), NEW N \in Nat
  PROVE  \E g : Spreads(start, E, N, g)
<1> DEFINE D == SUBSET P
           On(S) == S \cup {e[2] : e \in {e \in E : e[1] \in S}}
           step == [e \in (1 .. N) \X D |-> On(e[2])]
<1>1. \A n \in 1 .. N : \A d \in D : step[<<n, d>>] = On(d) /\ On(d) \in D
  OBVIOUS
<1> HIDE DEF step, On
<1>2. start \in D /\ \A n \in 1 .. N : \A d \in D : step[<<n, d>>] \in D
  BY <1>1
<1> HIDE DEF D
<1>3. PICK g : Iterates(D, start, step, N, g)
  BY <1>2, IterationExists
<1>4. \A n \in 1 .. N : g[n] = On(g[n - 1])
  <2> TAKE n \in 1 .. N
  <2>1. n - 1 \in 0 .. N
    OBVIOUS
  <2>2. g[n - 1] \in D /\ g[n] = step[<<n, g[n - 1]>>]
    BY <1>3, <2>1 DEF Iterates
  <2> QED BY <1>1, <2>2
<1>5. g = [n \in 0 .. N |-> IF n = 0 THEN start ELSE On(g[n - 1])]
  <2>1. g = [n \in 0 .. N |-> g[n]] /\ g[0] = start
    BY <1>3 DEF Iterates
  <2>2. \A n \in 0 .. N : n = 0 \/ n \in 1 .. N
    OBVIOUS
  <2> QED BY <1>4, <2>1, <2>2
<1> QED BY <1>5 DEF Spreads, On

\* As many rounds as there are points are enough: what they reach is the least
\* such set.
LEMMA SpreadLeast ==
  ASSUME NEW P, IsFiniteSet(P), NEW start \in SUBSET P, NEW E \in SUBSET (P \X P),
         NEW N \in Nat, N = Cardinality(P), NEW g, Spreads(start, E, N, g)
  PROVE  LeastClosed(P, start, E, g[N])
<1> DEFINE Along(S) == {e[2] : e \in {e \in E : e[1] \in S}}
<1>1. g[0] = start
  BY DEF Spreads
<1>2. ASSUME NEW n \in Nat, n + 1 <= N PROVE g[n + 1] = g[n] \cup Along(g[n])
  <2>1. n + 1 \in 0 .. N /\ n + 1 # 0 /\ (n + 1) - 1 = n
    BY <1>2
  <2> QED BY <2>1 DEF Spreads
<1> HIDE DEF Along
<1>3. \A S : Along(S) \subseteq P
  BY DEF Along
<1>4. \A n \in Nat : n <= N => g[n] \subseteq P
  <2> DEFINE S == {n \in Nat : n <= N => g[n] \subseteq P}
  <2>1. 0 \in S
    BY <1>1
  <2>2. ASSUME NEW n \in Nat, n \in S PROVE n + 1 \in S
    BY <1>2, <1>3, <2>2
  <2>3. Nat \subseteq S
    <3> HIDE DEF S
    <3> QED BY <2>1, <2>2, SetInduction
  <2> QED BY <2>3
<1>5. start \subseteq g[N]
  <2> DEFINE S == {n \in Nat : n <= N => start \subseteq g[n]}
  <2>1. 0 \in S
    BY <1>1
  <2>2. ASSUME NEW n \in Nat, n \in S PROVE n + 1 \in S
    BY <1>2, <2>2
  <2>3. Nat \subseteq S
    <3> HIDE DEF S
    <3> QED BY <2>1, <2>2, SetInduction
  <2> QED BY <2>3
<1>6. ASSUME NEW X, start \subseteq X, \A e \in E : e[1] \in X => e[2] \in X
      PROVE  g[N] \subseteq X
  <2> DEFINE S == {n \in Nat : n <= N => g[n] \subseteq X}
  <2>1. 0 \in S
    BY <1>1, <1>6
  <2>2. ASSUME NEW n \in Nat, n \in S PROVE n + 1 \in S
    <3>1. CASE n + 1 <= N
      <4>1. g[n] \subseteq X
        BY <2>2, <3>1
      <4>2. Along(g[n]) \subseteq X
        BY <1>6, <4>1 DEF Along
      <4> QED BY <1>2, <3>1, <4>1, <4>2
    <3> QED BY <3>1
  <2>3. Nat \subseteq S
    <3> HIDE DEF S
    <3> QED BY <2>1, <2>2, SetInduction
  <2> QED BY <2>3
<1>7. Along(g[N]) \subseteq g[N]
  <2> DEFINE Closed(n) == Along(g[n]) \subseteq g[n]
             Full(n) == Cardinality(g[n]) \in Nat /\ Cardinality(g[n]) >= n
             S == {n \in Nat : n <= N => Closed(n) \/ Full(n)}
  <2>1. 0 \in S
    <3>1. IsFiniteSet(g[0])
      BY <1>1, FS_Subset
    <3>2. Cardinality(g[0]) \in Nat
      BY <3>1, FS_CardinalityType
    <3> QED BY <3>2
  <2>2. ASSUME NEW n \in Nat, n \in S PROVE n + 1 \in S
    <3>1. CASE n + 1 <= N /\ Closed(n)
      <4>1. g[n + 1] = g[n]
        BY <1>2, <3>1
      <4> QED BY <3>1, <4>1
    <3>2. CASE n + 1 <= N /\ ~ Closed(n)
      <4>1. Full(n)
        BY <2>2, <3>2
      <4>2. g[n] \subseteq g[n + 1] /\ g[n] # g[n + 1]
        BY <1>2, <3>2
      <4>3. IsFiniteSet(g[n + 1])
        BY <1>4, <3>2, FS_Subset
      <4>4. Cardinality(g[n + 1]) \in Nat
        BY <4>3, FS_CardinalityType
      <4>5. /\ Cardinality(g[n]) <= Cardinality(g[n + 1])
            /\ Cardinality(g[n + 1]) # Cardinality(g[n])
        BY <4>2, <4>3, FS_Subset
      <4>6. Full(n + 1)
        BY <4>1, <4>4, <4>5
      <4> QED BY <4>6
    <3> QED BY <3>1, <3>2
  <2>3. Nat \subseteq S
    <3> HIDE DEF S
    <3> QED BY <2>1, <2>2, SetInduction
  <2>4. Closed(N) \/ Full(N)
    BY <2>3
  <2>5. CASE Full(N)
    <3>1. g[N] \subseteq P
      BY <1>4
    <3>2. Cardinality(g[N]) <= Cardinality(P) /\ (Cardinality(g[N]) = Cardinality(P) => g[N] = P)
      BY <3>1, FS_Subset
    <3>3. g[N] = P
      BY <2>5, <3>2
    <3> QED BY <1>3, <3>3
  <2> QED BY <2>4, <2>5
<1>8. g[N] \subseteq P
  BY <1>4
<1>9. \A e \in E : e[1] \in g[N] => e[2] \in g[N]
  BY <1>7 DEF Along
<1> QED BY <1>5, <1>6, <1>8, <1>9 DEF LeastClosed
===============================================================================
