------------------------- MODULE MarkCompactProofs -------------------------
(***************************************************************************)
(* Theorems about MarkCompact, for every heap size, class table, program   *)
(* and layout that satisfies LayoutAssumption and HeapAssumption.          *)
(***************************************************************************)
EXTENDS MarkCompactProperties, Induction, SequenceTheorems

---------------------------------------------------------------------------
(***************************************************************************)
(* Sizes                                                                   *)
(***************************************************************************)

\* Rounding up to the alignment never shrinks a size and adds less than one
\* alignment unit.
LEMMA AlignedSizeBounds ==
  ASSUME NEW n \in Nat
  PROVE  /\ AlignedSize(n) \in Nat
         /\ AlignedSize(n) >= n
         /\ AlignedSize(n) < n + ObjectAlign
<1> DEFINE m == n + (ObjectAlign - 1)
<1>1. ObjectAlign \in Nat \ {0} /\ m \in Nat
  BY LayoutAssumption
<1>2. (m \div ObjectAlign) \in Nat /\ (m % ObjectAlign) \in 0 .. (ObjectAlign - 1)
  BY <1>1
<1>3. m = (ObjectAlign * (m \div ObjectAlign)) + (m % ObjectAlign)
  BY <1>1
<1>4. ((m \div ObjectAlign) * ObjectAlign) = (ObjectAlign * (m \div ObjectAlign))
  BY <1>1, <1>2
<1>5. ((m \div ObjectAlign) * ObjectAlign) = m - (m % ObjectAlign)
  BY <1>1, <1>2, <1>3, <1>4
<1>6. AlignedSize(n) = ((m \div ObjectAlign) * ObjectAlign)
  BY DEF AlignedSize, AlignDown
<1> QED
  BY <1>1, <1>2, <1>5, <1>6

\* Every object takes at least a header, so the allocator always advances and
\* no two objects start at the same offset.
LEMMA SizeBound ==
  ASSUME NEW class \in Classes, NEW len \in Nat
  PROVE  SizeOf(class, len) \in Nat /\ SizeOf(class, len) >= HeaderSize
<1>1. CASE class = StringClass
  <2>1. (StringDataOffset + len) \in Nat /\ StringDataOffset >= HeaderSize
    BY LayoutAssumption
  <2>2. AlignedSize(StringDataOffset + len) \in Nat
        /\ AlignedSize(StringDataOffset + len) >= StringDataOffset + len
    BY <2>1, AlignedSizeBounds
  <2> QED
    BY <1>1, <2>1, <2>2, LayoutAssumption DEF SizeOf, StringSize
<1>2. CASE class # StringClass
  <2>1. InstanceSize[class] \in Nat /\ InstanceSize[class] >= HeaderSize
    BY LayoutAssumption
  <2>2. AlignedSize(InstanceSize[class]) \in Nat
        /\ AlignedSize(InstanceSize[class]) >= InstanceSize[class]
    BY <2>1, AlignedSizeBounds
  <2> QED
    BY <1>2, <2>1, <2>2, LayoutAssumption DEF SizeOf
<1> QED
  BY <1>1, <1>2

LEMMA RegionNat == Region \in Nat
<1>1. HeapSize \in Nat /\ ObjectAlign \in Nat \ {0}
  BY LayoutAssumption, HeapAssumption
<1>2. (HeapSize \div ObjectAlign) \in Nat
  BY <1>1
<1>3. ((HeapSize \div ObjectAlign) * ObjectAlign) \in Nat
  BY <1>1, <1>2
<1> QED
  BY <1>3 DEF Region, AlignDown

---------------------------------------------------------------------------
(***************************************************************************)
(* Types                                                                   *)
(***************************************************************************)

LEMMA NullIsRef == Null \in Ref /\ EmptyString \in Ref
  BY DEF Ref

LEMMA SlotValuesTyped ==
  ASSUME TypeOK
  PROVE  SlotValues \subseteq Ref
BY DEF TypeOK, SlotValues

LEMMA FieldValuesTyped ==
  ASSUME TypeOK, NEW a \in DOMAIN heap
  PROVE  FieldValues(a) \subseteq Ref
BY DEF TypeOK, FieldValues, Object

LEMMA HeldTyped ==
  ASSUME TypeOK
  PROVE  Held \subseteq Ref
BY NullIsRef, SlotValuesTyped, FieldValuesTyped DEF Held

LEMMA FunctionIsSeq ==
  ASSUME NEW S, NEW n \in Nat, NEW s \in [1 .. n -> S]
  PROVE  s \in Seq(S)
BY SeqDef

\* Replacing an element, if there is one at that place, keeps a sequence typed.
LEMMA ExceptTyped ==
  ASSUME NEW S, NEW s \in Seq(S), NEW i, NEW e, i \in DOMAIN s => e \in S
  PROVE  [s EXCEPT ![i] = e] \in Seq(S)
<1>1. Len(s) \in Nat /\ s \in [1 .. Len(s) -> S]
  BY LenProperties
<1>2. [s EXCEPT ![i] = e] \in [1 .. Len(s) -> S]
  BY <1>1
<1> QED
  BY <1>1, <1>2, FunctionIsSeq

\* Storing a reference in a slot, if the frame has one, keeps the frames typed.
LEMMA StoreRootTyped ==
  ASSUME NEW stack \in Seq(Seq(Ref)), NEW v \in Ref, NEW slot
  PROVE  [stack EXCEPT ![1][slot] = v] \in Seq(Seq(Ref))
<1>1. 1 \in DOMAIN stack => [stack[1] EXCEPT ![slot] = v] \in Seq(Ref)
  <2> SUFFICES ASSUME 1 \in DOMAIN stack
               PROVE  [stack[1] EXCEPT ![slot] = v] \in Seq(Ref)
    OBVIOUS
  <2>1. stack[1] \in Seq(Ref)
    BY LenProperties, ElementOfSeq
  <2> QED
    BY <2>1, ExceptTyped
<1>2. [stack EXCEPT ![1] = [stack[1] EXCEPT ![slot] = v]] \in Seq(Seq(Ref))
  BY <1>1, ExceptTyped
<1> QED
  BY <1>2

LEMMA NullFrameTyped ==
  ASSUME NEW n \in Nat
  PROVE  [i \in 1 .. n |-> Null] \in Seq(Ref)
<1>1. [i \in 1 .. n |-> Null] \in [1 .. n -> Ref]
  BY NullIsRef
<1> QED
  BY <1>1, FunctionIsSeq

LEMMA SlotsNat ==
  ASSUME TypeOK
  PROVE  Slots \subseteq Nat
<1>1. CASE frames = <<>>
  BY <1>1 DEF Slots
<1>2. CASE frames # <<>>
  <2>1. frames[1] \in Seq(Ref)
    BY <1>2, EmptySeq, LenProperties DEF TypeOK
  <2> QED
    BY <1>2, <2>1, LenProperties DEF Slots
<1> QED
  BY <1>1, <1>2

LEMMA RequestTyped ==
  ASSUME NEW req \in Request
  PROVE  req.class \in Classes /\ req.len \in Nat
<1>1. req.class \in Classes /\ req.len \in StringLengths \cup {0}
  BY Zenon DEF Request
<1>2. \A n \in StringLengths \cup {0} : n \in Nat
  BY HeapAssumption
<1> QED
  BY <1>1, <1>2, Zenon

LEMMA SizeAtBound ==
  ASSUME TypeOK, NEW a \in DOMAIN heap
  PROVE  SizeAt(a) \in Nat /\ SizeAt(a) >= HeaderSize
BY SizeBound DEF TypeOK, Object, SizeAt

---------------------------------------------------------------------------
(***************************************************************************)
(* Every action keeps the types.  Two facts beyond TypeOK are needed: the  *)
(* entries of the worklist are objects, and the relocation table only      *)
(* moves objects down.                                                     *)
(***************************************************************************)

\* The object a satisfied request carves out is well typed and lies in the heap.
LEMMA CarveTyped ==
  ASSUME TypeOK, NEW req \in Request \cup {NoRequest}, req.class \in Classes,
         req.len \in Nat, Fits(req), Carve(req)
  PROVE  /\ DOMAIN heap' = DOMAIN heap \cup {free} /\ DOMAIN heap' \subseteq Addresses
         /\ heap' \in [DOMAIN heap' -> Object]
         /\ free' \in 0 .. Region
         /\ frames' \in Seq(Seq(Ref))
<1> DEFINE size == SizeOf(req.class, req.len)
<1>1. size \in Nat /\ size >= HeaderSize /\ HeaderSize \in Nat \ {0}
  BY SizeBound, LayoutAssumption
<1>2. free \in 0 .. Region /\ Region \in Nat /\ free + size <= Region
  BY RegionNat DEF TypeOK, Fits
<1>3. free \in Addresses /\ free \in Ref /\ Region >= HeaderSize
  BY <1>1, <1>2 DEF Addresses, Ref
<1>4. FreshPayload \in Payload
  <2>1. \E p \in Payload : p \in Used => Payload \subseteq Used
    BY HeapAssumption
  <2> QED
    BY <2>1 DEF FreshPayload
<1>5. Fresh(req) \in Object
  <2>1. [i \in 1 .. PointerCount[req.class] |-> Null] \in Seq(Ref)
    BY NullFrameTyped, LayoutAssumption
  <2> QED
    BY <1>4, <2>1 DEF Fresh, Object
<1>6. DOMAIN heap' = DOMAIN heap \cup {free} /\ DOMAIN heap' \subseteq Addresses
  BY <1>3 DEF Carve, TypeOK
<1>7. heap' \in [DOMAIN heap' -> Object]
  BY <1>5, <1>6 DEF Carve, TypeOK
<1>8. free' \in 0 .. Region
  BY <1>1, <1>2 DEF Carve
<1>9. frames' \in Seq(Seq(Ref))
  BY <1>3, StoreRootTyped DEF Carve, StoreRoot, TypeOK
<1> QED
  BY <1>6, <1>7, <1>8, <1>9

LEMMA FramesTyped ==
  ASSUME TypeOK, PushFrame \/ PopFrame \/ RootStore
  PROVE  frames' \in Seq(Seq(Ref))
<1>0. frames \in Seq(Seq(Ref)) /\ Held \subseteq Ref
  BY HeldTyped DEF TypeOK
<1>1. CASE PushFrame
  <2>1. PICK n \in FrameSizes : frames' = <<[i \in 1 .. n |-> Null]>> \o frames
    BY <1>1 DEF PushFrame
  <2>2. <<[i \in 1 .. n |-> Null]>> \in Seq(Seq(Ref))
    BY NullFrameTyped, HeapAssumption
  <2> QED
    BY <1>0, <2>1, <2>2, ConcatProperties
<1>2. CASE PopFrame
  <2>1. Tail(frames) \in Seq(Seq(Ref))
    BY <1>0, <1>2, HeadTailProperties DEF PopFrame
  <2>2. CASE frames' = Tail(frames)
    BY <2>1, <2>2
  <2>3. ASSUME NEW v \in Held, NEW i \in DOMAIN frames[2],
               frames' = [Tail(frames) EXCEPT ![1][i] = v]
        PROVE  frames' \in Seq(Seq(Ref))
    <3>1. v \in Ref
      BY <1>0
    <3> QED
      BY <2>1, <2>3, <3>1, StoreRootTyped
  <2> QED
    BY <1>2, <2>2, <2>3 DEF PopFrame
<1>3. CASE RootStore
  BY <1>0, <1>3, StoreRootTyped DEF RootStore, StoreRoot
<1> QED
  BY <1>1, <1>2, <1>3

TypeInv ==
  /\ TypeOK
  /\ WorklistInHeap
  /\ dest <= walk /\ walk <= free
  /\ \A i \in DOMAIN relocs : relocs[i].new <= relocs[i].old

LEMMA MutatorTyped ==
  ASSUME TypeInv, Mutator
  PROVE  TypeInv'
<1>0. Held \subseteq Ref /\ free \in Nat
  BY HeldTyped, RegionNat DEF TypeOK, TypeInv
<1>1. CASE PushFrame \/ PopFrame \/ RootStore
  <2>1. /\ frames' \in Seq(Seq(Ref))
        /\ UNCHANGED <<heap, free, pc, request, scratch>>
    BY <1>1, FramesTyped DEF TypeInv, PushFrame, PopFrame, RootStore
  <2> QED
    BY <2>1 DEF TypeInv, TypeOK, WorklistInHeap, scratch
<1>2. CASE WriteBarrier
  <2>1. PICK a \in Held \cap DOMAIN heap, v \in Held : \E i \in DOMAIN heap[a].fields :
          heap' = [heap EXCEPT ![a].fields[i] = v]
    BY <1>2 DEF WriteBarrier
  <2>2. PICK i \in DOMAIN heap[a].fields : heap' = [heap EXCEPT ![a].fields[i] = v]
    BY <2>1
  <2>3. v \in Ref /\ heap[a] \in Object
    BY <1>0 DEF TypeInv, TypeOK
  <2>4. [heap[a].fields EXCEPT ![i] = v] \in Seq(Ref)
    BY <2>3, ExceptTyped DEF Object
  <2>5. [heap[a] EXCEPT !.fields = [heap[a].fields EXCEPT ![i] = v]] \in Object
    BY <2>3, <2>4 DEF Object
  <2>6. DOMAIN heap' = DOMAIN heap /\ heap' \in [DOMAIN heap -> Object]
    BY <2>2, <2>5 DEF TypeInv, TypeOK
  <2>7. UNCHANGED <<free, frames, pc, request, scratch>>
    BY <1>2 DEF WriteBarrier
  <2> QED
    BY <2>6, <2>7 DEF TypeInv, TypeOK, WorklistInHeap, scratch
<1>3. CASE LoAlloc
  <2>1. PICK class \in Classes, slot \in Slots : \E len \in Lengths(class) :
          LET req == [class |-> class, len |-> len, slot |-> slot] IN
          \/ Fits(req) /\ Carve(req) /\ UNCHANGED <<pc, request, scratch>>
          \/ ~Fits(req) /\ StartCollection(req)
    BY <1>3 DEF LoAlloc
  <2>2. PICK len \in Lengths(class) :
          LET req == [class |-> class, len |-> len, slot |-> slot] IN
          \/ Fits(req) /\ Carve(req) /\ UNCHANGED <<pc, request, scratch>>
          \/ ~Fits(req) /\ StartCollection(req)
    BY <2>1
  <2> DEFINE req == [class |-> class, len |-> len, slot |-> slot]
  <2>3. len \in StringLengths \cup {0} /\ len \in Nat
    BY HeapAssumption DEF Lengths
  <2>4. slot \in Nat
    BY SlotsNat DEF TypeInv
  <2>5. req \in Request
    BY <2>3, <2>4 DEF Request
  <2>6. CASE Fits(req) /\ Carve(req) /\ UNCHANGED <<pc, request, scratch>>
    <3>1. /\ DOMAIN heap \subseteq DOMAIN heap' /\ DOMAIN heap' \subseteq Addresses
          /\ heap' \in [DOMAIN heap' -> Object]
          /\ free' \in 0 .. Region
          /\ frames' \in Seq(Seq(Ref))
      BY <2>3, <2>5, <2>6, CarveTyped DEF TypeInv
    <3>2. free <= free'
      BY <1>0, <2>3, <2>6, SizeBound, LayoutAssumption DEF Carve
    <3>3. walk <= free'
      BY <1>0, <3>1, <3>2, RegionNat DEF TypeInv, TypeOK
    <3> QED
      BY <2>6, <3>1, <3>3 DEF TypeInv, TypeOK, WorklistInHeap, scratch
  <2>7. CASE ~Fits(req) /\ StartCollection(req)
    BY <1>0, <2>5, <2>7 DEF TypeInv, TypeOK, WorklistInHeap, StartCollection, mutator, Collecting
  <2> QED
    BY <2>2, <2>6, <2>7
<1>4. CASE LoGcCollect
  BY <1>0, <1>4 DEF TypeInv, TypeOK, WorklistInHeap, LoGcCollect, StartCollection, mutator, Collecting
<1> QED
  BY <1>1, <1>2, <1>3, <1>4 DEF Mutator

LEMMA MarkTyped ==
  ASSUME TypeInv, MarkNextFrame \/ MarkVisit \/ MarkPop \/ MarkDone
  PROVE  TypeInv'
<1>0. /\ frames \in Seq(Seq(Ref)) /\ pending \in Seq(Ref) /\ worklist \in Seq(Addresses)
      /\ nextFrame \in Nat \ {0} /\ Len(frames) \in Nat /\ Len(worklist) \in Nat
      /\ DOMAIN worklist = 1 .. Len(worklist)
  BY LenProperties DEF TypeInv, TypeOK
<1>1. CASE MarkNextFrame
  <2>1. pending' \in Seq(Ref) /\ nextFrame' \in Nat \ {0}
    BY <1>0, <1>1, ElementOfSeq DEF MarkNextFrame
  <2> QED
    BY <1>1, <2>1 DEF MarkNextFrame, TypeInv, TypeOK, WorklistInHeap, mutator
<1>2. CASE MarkVisit
  <2> DEFINE r == Head(pending)
  <2>1. r \in Ref /\ pending' \in Seq(Ref)
    BY <1>0, <1>2, HeadTailProperties DEF MarkVisit
  <2>2. CASE r \in DOMAIN heap /\ Enqueue(r)
    <3>1. DOMAIN heap' = DOMAIN heap /\ heap' \in [DOMAIN heap -> Object]
      BY <2>2 DEF Enqueue, TypeInv, TypeOK, Object
    <3>2. r \in Addresses
      BY <2>2 DEF TypeInv, TypeOK
    <3>3. /\ worklist' \in Seq(Addresses)
          /\ pc' = "mark" => \A i \in DOMAIN worklist' : worklist'[i] \in DOMAIN heap
      <4>1. CASE UNCHANGED worklist
        BY <1>0, <1>2, <4>1 DEF MarkVisit, TypeInv, WorklistInHeap
      <4>2. CASE worklist' = Append(worklist, r)
        <5>1. /\ worklist' \in Seq(Addresses) /\ Len(worklist') = Len(worklist) + 1
              /\ \A i \in 1 .. Len(worklist) : worklist'[i] = worklist[i]
              /\ worklist'[Len(worklist) + 1] = r
          BY <1>0, <3>2, <4>2, AppendProperties
        <5>2. DOMAIN worklist' = 1 .. (Len(worklist) + 1)
          BY <5>1, LenProperties
        <5>3. \A i \in 1 .. Len(worklist) : worklist[i] \in DOMAIN heap
          BY <1>0, <1>2 DEF MarkVisit, TypeInv, WorklistInHeap
        <5>4. ASSUME NEW i \in 1 .. (Len(worklist) + 1)
              PROVE  worklist'[i] \in DOMAIN heap
          BY <1>0, <2>2, <5>1, <5>3
        <5> QED
          BY <5>1, <5>2, <5>4
      <4> QED
        BY <2>2, <4>1, <4>2 DEF Enqueue
    <3>4. pc' \in {"oom", "mark"}
      BY <1>2, <2>2 DEF Enqueue, MarkVisit
    <3> QED
      BY <1>2, <2>1, <3>1, <3>3, <3>4
         DEF MarkVisit, TypeInv, TypeOK, WorklistInHeap, Collecting, Faults
  <2>3. CASE UNCHANGED <<heap, worklist>> /\ pc' \in {"mark", "wild"}
    BY <1>2, <2>1, <2>3 DEF MarkVisit, TypeInv, TypeOK, WorklistInHeap, Collecting, Faults
  <2> QED
    BY <1>2, <2>2, <2>3 DEF MarkVisit
<1>3. CASE MarkPop
  <2> DEFINE top == worklist[Len(worklist)]
  <2>1. Len(worklist) \in 1 .. Len(worklist)
    BY <1>0, <1>3, EmptySeq DEF MarkPop
  <2>2. top \in DOMAIN heap
    BY <1>0, <1>3, <2>1 DEF MarkPop, TypeInv, WorklistInHeap
  <2>3. pending' \in Seq(Ref)
    BY <1>3, <2>2 DEF MarkPop, TypeInv, TypeOK, Object
  <2>4. /\ worklist' \in Seq(Addresses) /\ DOMAIN worklist' = 1 .. (Len(worklist) - 1)
        /\ \A i \in 1 .. (Len(worklist) - 1) : worklist'[i] = worklist[i]
    <3>1. \A i \in 1 .. (Len(worklist) - 1) : worklist[i] \in Addresses
      BY <1>0, ElementOfSeq
    <3> QED
      BY <1>0, <1>3, <2>1, <3>1, SubSeqProperties, LenProperties DEF MarkPop
  <2>5. \A i \in DOMAIN worklist' : worklist'[i] \in DOMAIN heap
    BY <1>0, <1>3, <2>1, <2>4 DEF MarkPop, TypeInv, WorklistInHeap
  <2> QED
    BY <1>3, <2>3, <2>4, <2>5 DEF MarkPop, TypeInv, TypeOK, WorklistInHeap, mutator
<1>4. CASE MarkDone
  BY <1>4 DEF MarkDone, TypeInv, TypeOK, WorklistInHeap, mutator, scratch, Collecting
<1> QED
  BY <1>1, <1>2, <1>3, <1>4

LEMMA ForwardTyped ==
  ASSUME TypeInv, ForwardObject \/ ForwardDone
  PROVE  TypeInv'
<1>0. /\ walk \in Nat /\ dest \in Nat /\ free \in Nat /\ Region \in Nat /\ free <= Region
      /\ relocs \in Seq([old : Addresses, new : Nat, size : Nat])
      /\ dest <= walk /\ walk <= free
  BY RegionNat DEF TypeInv, TypeOK
<1>1. CASE ForwardObject
  <2>0. /\ pc = "forward"
        /\ UNCHANGED <<heap, free, frames, request, nextFrame, pending, worklist, cursor>>
    BY <1>1 DEF ForwardObject, mutator
  <2>1. CASE pc' \in {"wild", "panic"} /\ UNCHANGED <<relocs, dest, walk>>
    BY <2>0, <2>1 DEF TypeInv, TypeOK, WorklistInHeap, Faults
  <2>2. CASE /\ walk \in DOMAIN heap
             /\ SizeAt(walk) >= HeaderSize /\ SizeAt(walk) <= free - walk
             /\ walk' = walk + SizeAt(walk)
             /\ \/ PushRelocation(SizeAt(walk)) \/ UNCHANGED <<pc, relocs, dest>>
    <3> DEFINE size == SizeAt(walk)  entry == [old |-> walk, new |-> dest, size |-> size]
    <3>1. size \in Nat /\ walk \in Addresses /\ walk' \in Nat /\ walk' <= free
      BY <1>0, <2>2, SizeAtBound DEF TypeInv, TypeOK
    <3>2. CASE UNCHANGED <<relocs, dest>> /\ pc' \in {"oom", "forward"}
      <4>1. dest' \in Nat /\ dest' <= walk'
        BY <1>0, <2>2, <3>1, <3>2
      <4> QED
        BY <2>0, <3>1, <3>2, <4>1 DEF TypeInv, TypeOK, WorklistInHeap, Faults, Collecting
    <3>3. CASE relocs' = Append(relocs, entry) /\ dest' = dest + size /\ UNCHANGED pc
      <4>1. entry \in [old : Addresses, new : Nat, size : Nat]
        BY <1>0, <3>1
      <4>2. /\ relocs' \in Seq([old : Addresses, new : Nat, size : Nat])
            /\ DOMAIN relocs' = 1 .. (Len(relocs) + 1)
            /\ DOMAIN relocs = 1 .. Len(relocs) /\ Len(relocs) \in Nat
            /\ \A i \in 1 .. Len(relocs) : relocs'[i] = relocs[i]
            /\ relocs'[Len(relocs) + 1] = entry
        BY <1>0, <3>3, <4>1, AppendProperties, LenProperties
      <4>3. \A i \in DOMAIN relocs' : relocs'[i].new <= relocs'[i].old
        <5>1. \A i \in 1 .. Len(relocs) : relocs[i].new <= relocs[i].old
          BY <4>2 DEF TypeInv
        <5>2. entry.new <= entry.old
          BY <1>0
        <5>3. ASSUME NEW i \in 1 .. (Len(relocs) + 1)
              PROVE  relocs'[i].new <= relocs'[i].old
          BY <4>2, <5>1, <5>2, <5>3, SMTT(30)
        <5> QED
          BY <4>2, <5>3
      <4>4. dest' \in Nat /\ dest' <= walk'
        BY <1>0, <2>2, <3>1, <3>3
      <4> QED
        BY <2>0, <3>1, <3>3, <4>2, <4>3, <4>4 DEF TypeInv, TypeOK, WorklistInHeap
    <3> QED
      BY <2>0, <2>2, <3>2, <3>3 DEF PushRelocation
  <2> QED
    BY <1>1, <2>1, <2>2 DEF ForwardObject
<1>2. CASE ForwardDone
  BY <1>2 DEF ForwardDone, TypeInv, TypeOK, WorklistInHeap, mutator, scratch, Collecting
<1> QED
  BY <1>1, <1>2

\* A slot that has a forwarding address is rewritten to a typed reference.
LEMMA RelocatedTyped ==
  ASSUME TypeInv, NEW r \in Ref, Managed(r) => HasDestination(r)
  PROVE  Relocated(r) \in Ref
<1>1. CASE ~Managed(r)
  BY <1>1 DEF Relocated
<1>2. CASE Managed(r)
  <2> DEFINE i == CHOOSE j \in DOMAIN relocs : relocs[j].old = r
  <2>1. i \in DOMAIN relocs
    BY <1>2 DEF HasDestination
  <2>2. relocs[i] \in [old : Addresses, new : Nat, size : Nat]
    BY <2>1, LenProperties, ElementOfSeq DEF TypeInv, TypeOK
  <2>3. relocs[i].new <= relocs[i].old
    BY <2>1 DEF TypeInv
  <2>4. relocs[i].new \in Addresses
    BY <2>2, <2>3, RegionNat DEF Addresses
  <2> QED
    BY <1>2, <2>4 DEF Relocated, Destination, Ref
<1> QED
  BY <1>1, <1>2

LEMMA FixTyped ==
  ASSUME TypeInv, FixRoots \/ FixFields \/ FixDone
  PROVE  TypeInv'
<1>1. CASE FixRoots
  <2>1. CASE AllForwarded(SlotValues)
             /\ frames' = [f \in DOMAIN frames |->
                             [i \in DOMAIN frames[f] |-> Relocated(frames[f][i])]]
             /\ cursor' = 1 /\ UNCHANGED pc
    <3>1. frames \in Seq(Seq(Ref)) /\ DOMAIN frames = 1 .. Len(frames) /\ Len(frames) \in Nat
      BY LenProperties DEF TypeInv, TypeOK
    <3>2. ASSUME NEW f \in DOMAIN frames
          PROVE  [i \in DOMAIN frames[f] |-> Relocated(frames[f][i])] \in Seq(Ref)
      <4>1. frames[f] \in Seq(Ref)
        BY <3>1, ElementOfSeq
      <4>2. DOMAIN frames[f] = 1 .. Len(frames[f]) /\ Len(frames[f]) \in Nat
        BY <4>1, LenProperties
      <4>3. ASSUME NEW i \in DOMAIN frames[f]
            PROVE  Relocated(frames[f][i]) \in Ref
        <5>1. frames[f][i] \in Ref
          BY <4>1, <4>2, ElementOfSeq
        <5>2. frames[f][i] \in SlotValues
          BY DEF SlotValues
        <5>3. Managed(frames[f][i]) => HasDestination(frames[f][i])
          BY <2>1, <5>2 DEF AllForwarded
        <5> QED
          BY <5>1, <5>3, RelocatedTyped
      <4>4. [i \in DOMAIN frames[f] |-> Relocated(frames[f][i])]
              \in [1 .. Len(frames[f]) -> Ref]
        BY <4>2, <4>3
      <4> QED
        BY <4>2, <4>4, FunctionIsSeq
    <3>3. frames' \in [1 .. Len(frames) -> Seq(Ref)]
      BY <2>1, <3>1, <3>2
    <3>4. frames' \in Seq(Seq(Ref))
      BY <3>1, <3>3, FunctionIsSeq
    <3> QED
      BY <1>1, <2>1, <3>4 DEF FixRoots, TypeInv, TypeOK, WorklistInHeap
  <2>2. CASE pc' = "panic" /\ UNCHANGED <<frames, cursor>>
    BY <1>1, <2>2 DEF FixRoots, TypeInv, TypeOK, WorklistInHeap, Faults
  <2> QED
    BY <1>1, <2>1, <2>2 DEF FixRoots
<1>2. CASE FixFields
  <2> DEFINE a == relocs[cursor].old
             fixed == [i \in DOMAIN heap[a].fields |-> Relocated(heap[a].fields[i])]
  <2>0. /\ pc = "fix"
        /\ UNCHANGED <<free, frames, request, nextFrame, pending, worklist, relocs, walk, dest>>
    BY <1>2 DEF FixFields
  <2>1. CASE /\ AllForwarded(FieldValues(a))
             /\ heap' = [heap EXCEPT ![a].fields = [i \in DOMAIN @ |-> Relocated(@[i])]]
             /\ cursor' = cursor + 1 /\ UNCHANGED pc
    <3>0. cursor' \in Nat /\ pc' = "fix"
      BY <2>0, <2>1, SMTT(30) DEF TypeInv, TypeOK
    <3>1. CASE a \in DOMAIN heap
      <4>1. heap[a] \in Object /\ heap[a].fields \in Seq(Ref)
        BY <3>1 DEF TypeInv, TypeOK, Object
      <4>2. DOMAIN heap[a].fields = 1 .. Len(heap[a].fields) /\ Len(heap[a].fields) \in Nat
        BY <4>1, LenProperties
      <4>3. ASSUME NEW i \in DOMAIN heap[a].fields
            PROVE  Relocated(heap[a].fields[i]) \in Ref
        <5>1. heap[a].fields[i] \in Ref
          BY <4>1, <4>2, ElementOfSeq
        <5>2. heap[a].fields[i] \in FieldValues(a)
          BY DEF FieldValues
        <5>3. Managed(heap[a].fields[i]) => HasDestination(heap[a].fields[i])
          BY <2>1, <5>2 DEF AllForwarded
        <5> QED
          BY <5>1, <5>3, RelocatedTyped
      <4>4. fixed \in [1 .. Len(heap[a].fields) -> Ref]
        BY <4>2, <4>3
      <4>5. fixed \in Seq(Ref)
        BY <4>2, <4>4, FunctionIsSeq
      <4>6. [heap[a] EXCEPT !.fields = fixed] \in Object
        BY <4>1, <4>5 DEF Object
      <4>7. heap' = [heap EXCEPT ![a] = [heap[a] EXCEPT !.fields = fixed]]
        BY <2>1
      <4>8. DOMAIN heap' = DOMAIN heap /\ heap' \in [DOMAIN heap -> Object]
        BY <3>1, <4>6, <4>7 DEF TypeInv, TypeOK
      <4> QED
        BY <2>0, <3>0, <4>8 DEF TypeInv, TypeOK, WorklistInHeap
    <3>2. CASE a \notin DOMAIN heap
      <4>1. heap' = heap
        BY <2>1, <3>2 DEF TypeInv, TypeOK
      <4> QED
        BY <2>0, <3>0, <4>1 DEF TypeInv, TypeOK, WorklistInHeap
    <3> QED
      BY <3>1, <3>2
  <2>2. CASE pc' = "panic" /\ UNCHANGED <<heap, cursor>>
    BY <1>2, <2>2 DEF FixFields, TypeInv, TypeOK, WorklistInHeap, Faults
  <2> QED
    BY <1>2, <2>1, <2>2 DEF FixFields
<1>3. CASE FixDone
  BY <1>3 DEF FixDone, TypeInv, TypeOK, WorklistInHeap, mutator, Collecting
<1> QED
  BY <1>1, <1>2, <1>3

LEMMA SlideTyped ==
  ASSUME TypeInv, SlideObject \/ CollectDone
  PROVE  TypeInv'
<1>1. CASE SlideObject
  <2> DEFINE r == relocs[cursor]
  <2>1. CASE pc' = "wild" /\ UNCHANGED <<heap, cursor>>
    BY <1>1, <2>1 DEF SlideObject, TypeInv, TypeOK, WorklistInHeap, Faults
  <2>2. CASE /\ r.old \in DOMAIN heap
             /\ heap' = [a \in (DOMAIN heap \ Overwritten(r.new, r.size)) \cup {r.new} |->
                           IF a = r.new THEN [heap[r.old] EXCEPT !.marked = FALSE]
                                        ELSE heap[a]]
             /\ cursor' = cursor + 1 /\ UNCHANGED pc
    <3>0. cursor \in DOMAIN relocs
      BY <1>1 DEF SlideObject
    <3>1. r \in [old : Addresses, new : Nat, size : Nat] /\ r.new <= r.old
      <4>1. relocs \in Seq([old : Addresses, new : Nat, size : Nat])
        BY DEF TypeInv, TypeOK
      <4>2. r \in [old : Addresses, new : Nat, size : Nat]
        BY <3>0, <4>1, LenProperties, ElementOfSeq
      <4> QED
        BY <3>0, <4>2 DEF TypeInv
    <3>2. r.new \in Addresses
      BY <3>1, RegionNat DEF Addresses
    <3>3. [heap[r.old] EXCEPT !.marked = FALSE] \in Object
      BY <2>2 DEF TypeInv, TypeOK, Object
    <3>4. DOMAIN heap' \subseteq Addresses /\ heap' \in [DOMAIN heap' -> Object]
      BY <2>2, <3>2, <3>3 DEF TypeInv, TypeOK
    <3>5. /\ pc = "slide" /\ pc' = "slide"
          /\ cursor' \in Nat
          /\ UNCHANGED <<free, frames, request, nextFrame, pending, worklist, relocs, walk, dest>>
      BY <1>1, <2>2, SMTT(30) DEF SlideObject, TypeInv, TypeOK
    <3> QED
      BY <3>4, <3>5 DEF TypeInv, TypeOK, WorklistInHeap
  <2> QED
    BY <1>1, <2>1, <2>2 DEF SlideObject
<1>2. CASE CollectDone
  <2>1. free' \in 0 .. Region /\ 0 <= free'
    BY <1>2, RegionNat DEF CollectDone, TypeInv, TypeOK
  <2>2. DOMAIN heap' \subseteq Addresses /\ heap' \in [DOMAIN heap' -> Object]
    BY <1>2 DEF CollectDone, TypeInv, TypeOK, Restrict
  <2>3. /\ nextFrame' = 1 /\ pending' = <<>> /\ worklist' = <<>> /\ relocs' = <<>>
        /\ walk' = 0 /\ dest' = 0 /\ cursor' = 0 /\ pc' \in {"run", "retry"}
        /\ UNCHANGED <<frames, request>>
    BY <1>2 DEF CollectDone
  <2>4. /\ request' \in Request \cup {NoRequest}
        /\ pc' = "retry" => request' \in Request
    BY <1>2 DEF CollectDone, TypeInv, TypeOK
  <2>5. TypeOK'
    BY <2>1, <2>2, <2>3, <2>4 DEF TypeInv, TypeOK
  <2> QED
    BY <2>1, <2>3, <2>5 DEF TypeInv, WorklistInHeap
<1> QED
  BY <1>1, <1>2

LEMMA RetryTyped ==
  ASSUME TypeInv, AllocRetry
  PROVE  TypeInv'
<1>0. UNCHANGED scratch /\ request' = NoRequest /\ pc = "retry"
  BY DEF AllocRetry
<1>1. CASE Fits(request) /\ Carve(request) /\ pc' = "run"
  <2>1. request \in Request /\ request.class \in Classes /\ request.len \in Nat
    BY <1>0, RequestTyped DEF TypeInv, TypeOK
  <2>2. /\ DOMAIN heap' \subseteq Addresses
        /\ heap' \in [DOMAIN heap' -> Object]
        /\ free' \in 0 .. Region
        /\ frames' \in Seq(Seq(Ref))
    BY <1>1, <2>1, CarveTyped DEF TypeInv
  <2>3. walk <= free'
    <3>1. SizeOf(request.class, request.len) \in Nat
      BY <2>1, SizeBound
    <3>2. free' = free + SizeOf(request.class, request.len)
      BY <1>1 DEF Carve
    <3> QED
      BY <3>1, <3>2 DEF TypeInv, TypeOK
  <2> QED
    BY <1>0, <1>1, <2>2, <2>3 DEF TypeInv, TypeOK, WorklistInHeap, scratch
<1>2. CASE pc' = "oom" /\ UNCHANGED mutator
  BY <1>0, <1>2 DEF TypeInv, TypeOK, WorklistInHeap, scratch, mutator, Faults
<1> QED
  BY <1>1, <1>2 DEF AllocRetry

LEMMA TypeInvInductive == TypeInv /\ [Next]_vars => TypeInv'
<1> SUFFICES ASSUME TypeInv, [Next]_vars PROVE TypeInv'
  OBVIOUS
<1>1. CASE Mutator
  BY <1>1, MutatorTyped
<1>2. CASE Collector
  BY <1>2, MarkTyped, ForwardTyped, FixTyped, SlideTyped, RetryTyped DEF Collector
<1>3. CASE UNCHANGED vars
  BY <1>3 DEF vars, mutator, scratch, TypeInv, TypeOK, WorklistInHeap
<1> QED
  BY <1>1, <1>2, <1>3 DEF Next, Exited

LEMMA TypeInvInit == Init => TypeInv
  BY RegionNat, EmptySeq DEF Init, TypeInv, TypeOK, WorklistInHeap, NoRequest

\* In every phase of a collection, and after an abort, every root slot, field,
\* worklist entry, relocation and free pointer stays within its type: no step
\* leaves the heap region, whatever the classes, sizes and programs.
THEOREM TypeCorrect == Spec => []TypeOK
<1>1. Spec => []TypeInv
  BY TypeInvInit, TypeInvInductive, PTL DEF Spec
<1>2. TypeInv => TypeOK
  BY DEF TypeInv
<1> QED
  BY <1>1, <1>2, PTL

---------------------------------------------------------------------------
(***************************************************************************)
(* The heap is tiled.  The invariant LayoutInv says how the relocation     *)
(* table partitions the old and the new heap, and how far the slide is.    *)
(***************************************************************************)

LEMMA LayoutTyped == LayoutInv => TypeInv
  BY DEF LayoutInv, TypeInv, WalkOnObject, TableOrdered

\* Steps that leave every object where it is and as large as it is.
LEMMA SameLayout ==
  ASSUME LayoutInv, TypeInv',
         DOMAIN heap' = DOMAIN heap,
         \A a \in DOMAIN heap : heap'[a].class = heap[a].class /\ heap'[a].len = heap[a].len,
         UNCHANGED <<free, relocs, walk, dest>>,
         pc # "slide", pc' # "slide",
         pc' \in {"run", "mark", "forward", "fix", "retry"} =>
           pc \in {"run", "mark", "forward", "fix", "retry"},
         pc' = "mark" => walk = 0 /\ relocs = <<>>,
         pc' = "forward" => walk \in DOMAIN heap \cup {free},
         pc' \in {"forward", "fix"} => pc \in {"forward", "fix"} \/ relocs = <<>>
  PROVE  LayoutInv'
<1>1. \A a \in DOMAIN heap : SizeAt(a)' = SizeAt(a)
  BY DEF SizeAt
<1>2. HeapTiled'
  BY <1>1 DEF LayoutInv, HeapTiled
<1>3. WalkOnObject'
  BY DEF LayoutInv, WalkOnObject
<1>4. TableOrdered'
  BY DEF LayoutInv, TableOrdered
<1>5. UnslidIntact'
  BY <1>1 DEF LayoutInv, UnslidIntact
<1>6. SlidPrefix'
  BY DEF SlidPrefix
<1> QED
  BY <1>2, <1>3, <1>4, <1>5, <1>6 DEF LayoutInv, TypeInv

\* An object carved out at `free` extends the tiling by its own stride.
LEMMA CarveTiled ==
  ASSUME TypeOK, HeapTiled, pc \in {"run", "retry"},
         NEW req \in Request, Fits(req), Carve(req)
  PROVE  HeapTiled' /\ free <= free'
<1> DEFINE size == SizeOf(req.class, req.len)
<1>1. req.class \in Classes /\ req.len \in Nat
  BY RequestTyped
<1>2. size \in Nat /\ size >= HeaderSize /\ HeaderSize \in Nat \ {0}
  BY <1>1, SizeBound, LayoutAssumption
<1>3. free \in Nat /\ free' = free + size
  BY RegionNat DEF TypeOK, Carve
<1>4. \A a \in DOMAIN heap :
        /\ a \in Nat /\ SizeAt(a) \in Nat /\ SizeAt(a) >= HeaderSize
        /\ a + SizeAt(a) = free \/ a + SizeAt(a) \in DOMAIN heap
        /\ a + SizeAt(a) <= free
        /\ \A b \in DOMAIN heap : b # a => ~Overlap(a, SizeAt(a), b, SizeAt(b))
  BY SizeAtBound DEF HeapTiled, TypeOK, Addresses
<1>5. free \notin DOMAIN heap
  BY <1>2, <1>3, <1>4
<1>6. /\ DOMAIN heap' = DOMAIN heap \cup {free}
      /\ \A a \in DOMAIN heap : heap'[a] = heap[a]
      /\ heap'[free].class = req.class /\ heap'[free].len = req.len
  BY <1>5 DEF Carve, Fresh
<1>7. \A a \in DOMAIN heap' : SizeAt(a)' = IF a = free THEN size ELSE SizeAt(a)
  BY <1>6 DEF SizeAt
<1>8. free' > 0 => 0 \in DOMAIN heap'
  BY <1>3, <1>6 DEF HeapTiled
<1>9. ASSUME NEW a \in DOMAIN heap'
      PROVE  /\ SizeAt(a)' >= HeaderSize
             /\ a + SizeAt(a)' = free' \/ a + SizeAt(a)' \in DOMAIN heap'
             /\ a + SizeAt(a)' <= free'
  BY <1>2, <1>3, <1>4, <1>5, <1>6, <1>7
<1>10. ASSUME NEW a \in DOMAIN heap', NEW b \in DOMAIN heap', b # a
       PROVE  ~Overlap(a, SizeAt(a), b, SizeAt(b))'
  <2>1. SizeAt(a)' = (IF a = free THEN size ELSE SizeAt(a))
        /\ SizeAt(b)' = (IF b = free THEN size ELSE SizeAt(b))
    BY <1>7
  <2>2. ~(a < b + SizeAt(b)' /\ b < a + SizeAt(a)')
    BY <1>2, <1>3, <1>4, <1>6, <1>10, <2>1 DEF Overlap
  <2> QED
    BY <2>2 DEF Overlap
<1>11. HeapTiled'
  BY <1>8, <1>9, <1>10 DEF HeapTiled
<1>12. free <= free'
  BY <1>2, <1>3
<1> QED
  BY <1>11, <1>12

LEMMA MutatorLayout ==
  ASSUME LayoutInv, Mutator
  PROVE  LayoutInv'
<1>0. TypeInv /\ TypeInv' /\ pc = "run"
  BY LayoutTyped, MutatorTyped
     DEF Mutator, PushFrame, PopFrame, RootStore, WriteBarrier, LoAlloc, LoGcCollect
<1>1. CASE PushFrame \/ PopFrame \/ RootStore
  <2>1. UNCHANGED <<heap, free, pc, scratch>>
    BY <1>1 DEF PushFrame, PopFrame, RootStore
  <2> QED
    BY <1>0, <2>1, SameLayout DEF scratch
<1>2. CASE WriteBarrier
  <2>1. UNCHANGED <<free, pc, scratch>>
    BY <1>2 DEF WriteBarrier
  <2>2. /\ DOMAIN heap' = DOMAIN heap
        /\ \A a \in DOMAIN heap : heap'[a].class = heap[a].class /\ heap'[a].len = heap[a].len
    <3>1. PICK a \in Held \cap DOMAIN heap, v \in Held : \E i \in DOMAIN heap[a].fields :
            heap' = [heap EXCEPT ![a].fields[i] = v]
      BY <1>2 DEF WriteBarrier
    <3>2. PICK i \in DOMAIN heap[a].fields : heap' = [heap EXCEPT ![a].fields[i] = v]
      BY <3>1
    <3>3. heap[a] \in Object
      BY <1>0 DEF TypeInv, TypeOK
    <3> QED
      BY <1>0, <3>2, <3>3 DEF TypeInv, TypeOK, Object
  <2> QED
    BY <1>0, <2>1, <2>2, SameLayout DEF scratch
<1>3. ASSUME NEW req \in Request, Fits(req), Carve(req), UNCHANGED <<pc, scratch>>
      PROVE  LayoutInv'
  <2>1. HeapTiled' /\ free <= free'
    BY <1>0, <1>3, CarveTiled DEF LayoutInv
  <2>2. WalkOnObject'
    BY <1>0, <1>3, <2>1 DEF TypeInv, TypeOK, WalkOnObject, scratch
  <2>3. TableOrdered'
    BY <1>3 DEF LayoutInv, TableOrdered, scratch
  <2>4. UnslidIntact' /\ SlidPrefix'
    BY <1>0, <1>3 DEF UnslidIntact, SlidPrefix
  <2> QED
    BY <1>0, <2>1, <2>2, <2>3, <2>4 DEF LayoutInv, TypeInv
<1>4. ASSUME NEW req, StartCollection(req)
      PROVE  LayoutInv'
  <2>1. UNCHANGED <<heap, free>> /\ pc' = "mark" /\ relocs' = <<>> /\ walk' = 0 /\ dest' = 0
    BY <1>4 DEF StartCollection, mutator
  <2>2. HeapTiled'
    BY <1>0, <2>1 DEF LayoutInv, HeapTiled, SizeAt
  <2>3. WalkOnObject'
    BY <1>0, <2>1 DEF TypeInv, TypeOK, WalkOnObject
  <2>4. TableOrdered' /\ UnslidIntact' /\ SlidPrefix'
    BY <2>1 DEF TableOrdered, UnslidIntact, SlidPrefix
  <2> QED
    BY <1>0, <2>2, <2>3, <2>4 DEF LayoutInv, TypeInv
<1>5. CASE LoAlloc
  <2>1. PICK class \in Classes, slot \in Slots : \E len \in Lengths(class) :
          LET req == [class |-> class, len |-> len, slot |-> slot] IN
          \/ Fits(req) /\ Carve(req) /\ UNCHANGED <<pc, request, scratch>>
          \/ ~Fits(req) /\ StartCollection(req)
    BY <1>5 DEF LoAlloc
  <2>2. PICK len \in Lengths(class) :
          LET req == [class |-> class, len |-> len, slot |-> slot] IN
          \/ Fits(req) /\ Carve(req) /\ UNCHANGED <<pc, request, scratch>>
          \/ ~Fits(req) /\ StartCollection(req)
    BY <2>1
  <2>3. [class |-> class, len |-> len, slot |-> slot] \in Request
    BY <1>0, SlotsNat, HeapAssumption DEF TypeInv, Lengths, Request
  <2> QED
    BY <1>3, <1>4, <2>2, <2>3
<1> QED
  BY <1>1, <1>2, <1>4, <1>5 DEF Mutator, LoGcCollect

LEMMA MarkLayout ==
  ASSUME LayoutInv, MarkNextFrame \/ MarkVisit \/ MarkPop \/ MarkDone
  PROVE  LayoutInv'
<1>0. /\ TypeInv /\ TypeInv' /\ pc = "mark"
      /\ UNCHANGED <<free, relocs, walk, dest>>
      /\ walk = 0 /\ relocs = <<>>
  BY LayoutTyped, MarkTyped
     DEF MarkNextFrame, MarkVisit, MarkPop, MarkDone, mutator, scratch, LayoutInv, WalkOnObject
<1>1. CASE MarkNextFrame \/ MarkPop
  <2>1. UNCHANGED <<heap, pc>>
    BY <1>1 DEF MarkNextFrame, MarkPop, mutator
  <2> QED
    BY <1>0, <2>1, SameLayout
<1>2. CASE MarkVisit
  <2>1. /\ DOMAIN heap' = DOMAIN heap
        /\ \A a \in DOMAIN heap : heap'[a].class = heap[a].class /\ heap'[a].len = heap[a].len
    <3>1. CASE UNCHANGED heap
      BY <3>1
    <3>2. ASSUME NEW r, heap' = [heap EXCEPT ![r].marked = TRUE]
          PROVE  /\ DOMAIN heap' = DOMAIN heap
                 /\ \A a \in DOMAIN heap : heap'[a].class = heap[a].class /\ heap'[a].len = heap[a].len
      BY <1>0, <3>2 DEF TypeInv, TypeOK, Object
    <3> QED
      BY <1>2, <3>1, <3>2 DEF MarkVisit, Enqueue
  <2>2. pc' \in {"mark", "oom", "wild"}
    BY <1>0, <1>2 DEF MarkVisit, Enqueue
  <2> QED
    BY <1>0, <2>1, <2>2, SameLayout
<1>3. CASE MarkDone
  <2>1. UNCHANGED heap /\ pc' = "forward"
    BY <1>3 DEF MarkDone, mutator
  <2>2. walk \in DOMAIN heap \cup {free}
    BY <1>0 DEF LayoutInv, HeapTiled, TypeInv, TypeOK
  <2> QED
    BY <1>0, <2>1, <2>2, SameLayout
<1> QED
  BY <1>1, <1>2, <1>3

LEMMA TableTyped ==
  ASSUME TypeOK
  PROVE  /\ Len(relocs) \in Nat /\ DOMAIN relocs = 1 .. Len(relocs)
         /\ \A i \in DOMAIN relocs :
              /\ relocs[i].old \in Addresses /\ relocs[i].old \in Nat
              /\ relocs[i].new \in Nat /\ relocs[i].size \in Nat
<1>1. relocs \in Seq([old : Addresses, new : Nat, size : Nat])
  BY DEF TypeOK
<1>2. Len(relocs) \in Nat /\ DOMAIN relocs = 1 .. Len(relocs)
  BY <1>1, LenProperties
<1>3. ASSUME NEW i \in DOMAIN relocs
      PROVE  relocs[i] \in [old : Addresses, new : Nat, size : Nat]
  BY <1>1, <1>2, ElementOfSeq
<1>4. Addresses \subseteq Nat
  BY DEF Addresses
<1> QED
  BY <1>2, <1>3, <1>4

\* A survivor found by the walk gets the next free destination.
LEMMA TableExtended ==
  ASSUME TypeOK, TableOrdered, dest <= walk, walk \in Addresses,
         NEW size \in Nat, size >= HeaderSize,
         DOMAIN relocs' = 1 .. (Len(relocs) + 1), relocs' # <<>>,
         \A i \in 1 .. Len(relocs) : relocs'[i] = relocs[i],
         relocs'[Len(relocs) + 1] = [old |-> walk, new |-> dest, size |-> size],
         dest' = dest + size, walk' = walk + size
  PROVE  TableOrdered'
<1> DEFINE n == Len(relocs)  entry == [old |-> walk, new |-> dest, size |-> size]
<1>1. /\ n \in Nat /\ DOMAIN relocs = 1 .. n
      /\ \A i \in DOMAIN relocs :
           relocs[i].old \in Nat /\ relocs[i].new \in Nat /\ relocs[i].size \in Nat
  BY TableTyped
<1>2. walk \in Nat /\ dest \in Nat /\ HeaderSize \in Nat \ {0}
  BY LayoutAssumption DEF TypeOK
<1>3. /\ DOMAIN relocs' = 1 .. (n + 1)
      /\ \A i \in 1 .. n : relocs'[i] = relocs[i]
      /\ relocs'[n + 1] = entry
      /\ relocs' # <<>>
  OBVIOUS
<1>4. ASSUME NEW i \in 1 .. n
      PROVE  /\ relocs'[i].old \in Nat /\ relocs'[i].new \in Nat /\ relocs'[i].size \in Nat
             /\ relocs'[i].size >= HeaderSize
             /\ relocs'[i].new <= relocs'[i].old
             /\ relocs'[i].old + relocs'[i].size <= walk
             /\ relocs'[i].new + relocs'[i].size <= dest
  BY <1>1, <1>3 DEF TableOrdered
<1>5. ASSUME NEW i \in 1 .. (n + 1)
      PROVE  /\ relocs'[i].size >= HeaderSize
             /\ relocs'[i].new <= relocs'[i].old
             /\ relocs'[i].old + relocs'[i].size <= walk'
             /\ relocs'[i].new + relocs'[i].size <= dest'
  <2>1. CASE i \in 1 .. n
    <3>1. /\ relocs'[i].old \in Nat /\ relocs'[i].new \in Nat /\ relocs'[i].size \in Nat
          /\ relocs'[i].size >= HeaderSize
          /\ relocs'[i].new <= relocs'[i].old
          /\ relocs'[i].old + relocs'[i].size <= walk
          /\ relocs'[i].new + relocs'[i].size <= dest
      BY <1>4, <2>1
    <3>2. walk <= walk' /\ dest <= dest' /\ walk' \in Nat /\ dest' \in Nat
      BY <1>2
    <3> QED
      BY <1>2, <3>1, <3>2, SMTT(30)
  <2>2. CASE i = n + 1
    BY <1>2, <1>3, <2>2
  <2> QED
    BY <1>1, <2>1, <2>2
<1>6. ASSUME NEW i \in 1 .. (n + 1), NEW j \in 1 .. (n + 1), i < j
      PROVE  /\ relocs'[i].old + relocs'[i].size <= relocs'[j].old
             /\ relocs'[i].new + relocs'[i].size <= relocs'[j].new
  <2>1. i \in 1 .. n
    BY <1>1, <1>6
  <2>2. CASE j \in 1 .. n
    BY <1>1, <1>3, <1>6, <2>1, <2>2 DEF TableOrdered
  <2>3. CASE j = n + 1
    BY <1>3, <1>4, <2>1, <2>3
  <2> QED
    BY <1>1, <2>2, <2>3
<1>7. ASSUME NEW i \in 1 .. (n + 1)
      PROVE  \/ relocs'[i].new + relocs'[i].size = dest'
             \/ /\ i + 1 \in 1 .. (n + 1)
                /\ relocs'[i + 1].new = relocs'[i].new + relocs'[i].size
  <2>1. CASE i \in 1 .. n
    <3>1. \/ relocs[i].new + relocs[i].size = dest
          \/ i + 1 \in DOMAIN relocs /\ relocs[i + 1].new = relocs[i].new + relocs[i].size
      BY <1>1, <2>1 DEF TableOrdered
    <3>2. CASE i + 1 \in DOMAIN relocs /\ relocs[i + 1].new = relocs[i].new + relocs[i].size
      BY <1>1, <1>3, <2>1, <3>2
    <3>3. CASE relocs[i].new + relocs[i].size = dest /\ i + 1 \notin DOMAIN relocs
      <4>1. n \in Nat /\ i + 1 \notin 1 .. n
        BY <1>1, <3>3
      <4>2. i = n
        BY <2>1, <4>1
      <4> QED
        BY <1>1, <1>3, <3>3, <4>1, <4>2
    <3>4. CASE relocs[i].new + relocs[i].size = dest /\ i + 1 \in DOMAIN relocs
      <4>1. /\ dest <= relocs[i + 1].new
            /\ relocs[i + 1].new + relocs[i + 1].size <= dest
            /\ relocs[i + 1].size >= HeaderSize
        BY <1>1, <2>1, <3>4, SMTT(30) DEF TableOrdered
      <4>2. relocs[i + 1].new \in Nat /\ relocs[i + 1].size \in Nat
        BY <1>1, <3>4
      <4>3. FALSE
        BY <1>2, <4>1, <4>2, SMTT(30)
      <4> QED
        BY <4>3
    <3> QED
      BY <3>1, <3>2, <3>3, <3>4
  <2>2. CASE i = n + 1
    BY <1>2, <1>3, <2>2
  <2> QED
    BY <1>1, <2>1, <2>2
<1>8. relocs'[1].new = 0
  <2>1. CASE n = 0
    <3>1. relocs = <<>>
      BY <2>1, EmptySeq DEF TypeOK
    <3> QED
      BY <1>3, <2>1, <3>1 DEF TableOrdered
  <2>2. CASE n # 0
    <3>1. relocs # <<>> /\ 1 \in 1 .. n
      BY <1>1, <2>2, EmptySeq
    <3> QED
      BY <1>3, <3>1 DEF TableOrdered
  <2> QED
    BY <2>1, <2>2
<1> QED
  BY <1>3, <1>5, <1>6, <1>7, <1>8 DEF TableOrdered

LEMMA ForwardLayout ==
  ASSUME LayoutInv, ForwardObject \/ ForwardDone
  PROVE  LayoutInv'
<1>0. TypeInv /\ TypeInv' /\ TypeOK
  BY LayoutTyped, ForwardTyped DEF TypeInv
<1>1. CASE ForwardDone
  <2>1. /\ pc = "forward" /\ pc' = "fix"
        /\ UNCHANGED <<heap, free, relocs, walk, dest>>
    BY <1>1 DEF ForwardDone, mutator, scratch
  <2> QED
    BY <1>0, <2>1, SameLayout
<1>2. CASE ForwardObject
  <2> DEFINE size == SizeAt(walk)
  <2>0. /\ pc = "forward" /\ walk < free
        /\ UNCHANGED <<heap, free>>
    BY <1>2 DEF ForwardObject, mutator
  <2>1. walk \in DOMAIN heap
    BY <1>0, <2>0 DEF LayoutInv, WalkOnObject, TypeOK
  <2>2. /\ walk \in Addresses /\ walk \in Nat /\ free \in Nat /\ dest \in Nat
        /\ size \in Nat /\ size >= HeaderSize
        /\ walk + size = free \/ walk + size \in DOMAIN heap
        /\ walk + size <= free
        /\ HeaderSize \in Nat
    BY <1>0, <2>0, <2>1, SizeAtBound, LayoutAssumption, SMTT(30)
       DEF LayoutInv, HeapTiled, TypeOK, Addresses
  <2>3. /\ walk' = walk + size
        /\ \/ PushRelocation(size) \/ UNCHANGED <<pc, relocs, dest>>
    BY <1>2, <2>1, <2>2 DEF ForwardObject
  <2>4. HeapTiled'
    <3>1. \A a \in DOMAIN heap : SizeAt(a)' = SizeAt(a)
      BY <2>0 DEF SizeAt
    <3> QED
      BY <2>0, <3>1 DEF LayoutInv, HeapTiled
  <2>5. CASE UNCHANGED <<relocs, dest>> /\ pc' \in {"oom", "forward"}
    <3>1. WalkOnObject'
      BY <2>0, <2>2, <2>3, <2>5 DEF LayoutInv, WalkOnObject
    <3>2. TableOrdered'
      <4>1. \A i \in DOMAIN relocs : relocs[i].old + relocs[i].size <= walk'
        BY <1>0, <2>2, <2>3, TableTyped DEF LayoutInv, TableOrdered
      <4> QED
        BY <2>5, <4>1 DEF LayoutInv, TableOrdered
    <3>3. UnslidIntact' /\ SlidPrefix'
      BY <2>0, <2>5 DEF LayoutInv, UnslidIntact, SlidPrefix, SizeAt
    <3> QED
      BY <1>0, <2>4, <3>1, <3>2, <3>3 DEF LayoutInv, TypeInv
  <2>6. CASE /\ relocs' = Append(relocs, [old |-> walk, new |-> dest, size |-> size])
             /\ dest' = dest + size /\ UNCHANGED pc
    <3> DEFINE n == Len(relocs)  entry == [old |-> walk, new |-> dest, size |-> size]
    <3>1. n \in Nat /\ DOMAIN relocs = 1 .. n
      BY <1>0, TableTyped
    <3>2. /\ DOMAIN relocs' = 1 .. (n + 1) /\ relocs' # <<>>
          /\ \A i \in 1 .. n : relocs'[i] = relocs[i]
          /\ relocs'[n + 1] = entry
      <4>1. relocs \in Seq([old : Addresses, new : Nat, size : Nat])
        BY <1>0 DEF TypeOK
      <4>2. entry \in [old : Addresses, new : Nat, size : Nat]
        BY <2>2
      <4> QED
        BY <2>6, <4>1, <4>2, AppendProperties, LenProperties
    <3>3. WalkOnObject'
      BY <2>0, <2>2, <2>3, <2>6 DEF LayoutInv, WalkOnObject
    <3>4. TableOrdered'
      BY <1>0, <2>2, <2>3, <2>6, <3>2, TableExtended DEF LayoutInv, WalkOnObject
    <3>5. UnslidIntact'
      <4>1. ASSUME NEW i \in 1 .. (n + 1)
            PROVE  relocs'[i].old \in DOMAIN heap
                   /\ SizeOf(heap[relocs'[i].old].class, heap[relocs'[i].old].len) = relocs'[i].size
        <5>1. CASE i \in 1 .. n
          BY <2>0, <3>1, <3>2, <5>1 DEF LayoutInv, UnslidIntact, SizeAt
        <5>2. CASE i = n + 1
          BY <2>1, <3>2, <5>2 DEF SizeAt
        <5> QED
          BY <3>1, <5>1, <5>2
      <4> QED
        BY <2>0, <3>2, <4>1 DEF UnslidIntact, SizeAt
    <3>6. SlidPrefix'
      BY <2>0, <2>6 DEF SlidPrefix
    <3> QED
      BY <1>0, <2>4, <3>3, <3>4, <3>5, <3>6 DEF LayoutInv, TypeInv
  <2> QED
    BY <2>0, <2>3, <2>5, <2>6 DEF PushRelocation
<1> QED
  BY <1>1, <1>2

LEMMA FixLayout ==
  ASSUME LayoutInv, FixRoots \/ FixFields \/ FixDone
  PROVE  LayoutInv'
<1>0. TypeInv /\ TypeInv' /\ pc = "fix" /\ UNCHANGED <<free, relocs, walk, dest>>
  BY LayoutTyped, FixTyped DEF FixRoots, FixFields, FixDone, mutator
<1>1. CASE FixRoots \/ FixFields
  <2>1. /\ DOMAIN heap' = DOMAIN heap
        /\ \A a \in DOMAIN heap : heap'[a].class = heap[a].class /\ heap'[a].len = heap[a].len
    <3>1. CASE UNCHANGED heap
      BY <3>1
    <3>2. ASSUME NEW b, NEW v, heap' = [heap EXCEPT ![b].fields = v]
          PROVE  /\ DOMAIN heap' = DOMAIN heap
                 /\ \A a \in DOMAIN heap : heap'[a].class = heap[a].class /\ heap'[a].len = heap[a].len
      BY <1>0, <3>2 DEF TypeInv, TypeOK, Object
    <3> QED
      BY <1>1, <3>1, <3>2 DEF FixRoots, FixFields
  <2>2. pc' \in {"fix", "panic"}
    BY <1>0, <1>1 DEF FixRoots, FixFields
  <2> QED
    BY <1>0, <2>1, <2>2, SameLayout
<1>2. CASE FixDone
  <2>1. UNCHANGED heap /\ pc' = "slide" /\ cursor' = 1
    BY <1>2 DEF FixDone, mutator
  <2>2. HeapTiled' /\ WalkOnObject' /\ TableOrdered'
    BY <1>0, <2>1 DEF HeapTiled, WalkOnObject, TableOrdered, LayoutInv
  <2>3. UnslidIntact'
    BY <1>0, <2>1 DEF UnslidIntact, LayoutInv, SizeAt
  <2>4. SlidPrefix'
    <3>1. SlideFront' = 0
      <4>1. relocs' = relocs /\ dest' = dest
        BY <1>2 DEF FixDone
      <4>2. CASE relocs = <<>>
        BY <2>1, <4>1, <4>2, EmptySeq DEF SlideFront, LayoutInv, TableOrdered
      <4>3. CASE relocs # <<>>
        <5>1. 1 \in DOMAIN relocs
          BY <1>0, <4>3, EmptySeq DEF TypeInv, TypeOK
        <5>2. relocs[1].new = 0
          BY <4>3 DEF LayoutInv, TableOrdered
        <5> QED
          BY <2>1, <4>1, <5>1, <5>2 DEF SlideFront
      <4> QED
        BY <4>2, <4>3
    <3>2. ASSUME NEW i \in DOMAIN relocs PROVE ~(i < 1)
      BY <1>0, TableTyped DEF TypeInv
    <3>3. ASSUME NEW a \in DOMAIN heap PROVE ~(a < 0)
      BY <1>0, SMTT(30) DEF TypeInv, TypeOK, Addresses
    <3> QED
      BY <1>0, <2>1, <3>1, <3>2, <3>3 DEF SlidPrefix
  <2> QED
    BY <1>0, <2>2, <2>3, <2>4 DEF LayoutInv, TypeInv
<1> QED
  BY <1>1, <1>2

\* Copying one survivor down overwrites neither a survivor already slid nor one
\* that is still to be slid, and leaves nothing else below the new front.
LEMMA SlideLayout ==
  ASSUME LayoutInv, SlideObject
  PROVE  LayoutInv'
<1> DEFINE r == relocs[cursor]
<1>0. /\ TypeInv /\ TypeInv' /\ TypeOK /\ pc = "slide" /\ cursor \in DOMAIN relocs
      /\ UNCHANGED <<free, relocs, walk, dest>>
  BY LayoutTyped, SlideTyped DEF SlideObject, TypeInv
<1>1. /\ Len(relocs) \in Nat /\ DOMAIN relocs = 1 .. Len(relocs) /\ cursor \in Nat /\ dest \in Nat
      /\ \A i \in DOMAIN relocs :
           relocs[i].old \in Nat /\ relocs[i].new \in Nat /\ relocs[i].size \in Nat
  BY <1>0, TableTyped DEF TypeOK
<1>2. /\ r.old \in DOMAIN heap /\ SizeAt(r.old) = r.size
      /\ r.size >= HeaderSize /\ r.new <= r.old /\ HeaderSize \in Nat \ {0}
  BY <1>0, <1>1, LayoutAssumption DEF LayoutInv, UnslidIntact, TableOrdered
<1>3. /\ heap' = [a \in (DOMAIN heap \ Overwritten(r.new, r.size)) \cup {r.new} |->
                    IF a = r.new THEN [heap[r.old] EXCEPT !.marked = FALSE] ELSE heap[a]]
      /\ cursor' = cursor + 1 /\ pc' = "slide"
  BY <1>0, <1>2 DEF SlideObject
<1>4. /\ DOMAIN heap' = (DOMAIN heap \ Overwritten(r.new, r.size)) \cup {r.new}
      /\ \A a \in DOMAIN heap' : a # r.new => heap'[a] = heap[a]
      /\ heap'[r.new].class = heap[r.old].class /\ heap'[r.new].len = heap[r.old].len
  BY <1>0, <1>2, <1>3 DEF TypeOK, Object
<1>5. \A a \in DOMAIN heap' : SizeAt(a)' = IF a = r.new THEN r.size ELSE SizeAt(a)
  BY <1>2, <1>4 DEF SizeAt
<1>6. \A a \in DOMAIN heap : a \in Nat /\ SizeAt(a) \in Nat /\ SizeAt(a) >= HeaderSize
  <2>1. \A a \in DOMAIN heap : a \in Nat
    BY <1>0 DEF TypeOK, Addresses
  <2> QED
    BY <1>0, <2>1, SizeAtBound
<1>7. ASSUME NEW a \in DOMAIN heap
      PROVE  a \in Overwritten(r.new, r.size)
               <=> a < r.new + r.size /\ r.new < a + SizeAt(a)
  BY DEF Overwritten, Overlap
<1>8. HeapTiled'
  BY <1>3 DEF HeapTiled
<1>9. WalkOnObject' /\ TableOrdered'
  BY <1>0, <1>3 DEF LayoutInv, WalkOnObject, TableOrdered
<1>10. UnslidIntact'
  <2>1. ASSUME NEW i \in DOMAIN relocs, cursor + 1 <= i
        PROVE  relocs[i].old \in DOMAIN heap' /\ SizeAt(relocs[i].old)' = relocs[i].size
    <3>1. relocs[i].old \in DOMAIN heap /\ SizeAt(relocs[i].old) = relocs[i].size
      BY <1>0, <1>1, <2>1 DEF LayoutInv, UnslidIntact
    <3>2. r.old + r.size <= relocs[i].old
      BY <1>0, <1>1, <2>1 DEF LayoutInv, TableOrdered
    <3>3. relocs[i].old >= r.new + r.size /\ relocs[i].old # r.new
      BY <1>0, <1>1, <1>2, <3>2, SMTT(30)
    <3>4. relocs[i].old \notin Overwritten(r.new, r.size)
      BY <1>0, <1>1, <1>7, <3>1, <3>3
    <3>5. relocs[i].old \in DOMAIN heap'
      BY <1>4, <3>1, <3>4
    <3>6. heap'[relocs[i].old] = heap[relocs[i].old]
      BY <1>4, <3>3, <3>5
    <3> QED
      BY <1>0, <3>1, <3>5, <3>6 DEF SizeAt
  <2> QED
    BY <1>0, <1>3, <2>1 DEF UnslidIntact
<1>11. SlideFront' = r.new + r.size
  <2>1. SlideFront' = IF cursor + 1 \in DOMAIN relocs THEN relocs[cursor + 1].new ELSE dest
    BY <1>0, <1>3 DEF SlideFront
  <2>2. \/ r.new + r.size = dest
        \/ cursor + 1 \in DOMAIN relocs /\ relocs[cursor + 1].new = r.new + r.size
    BY <1>0 DEF LayoutInv, TableOrdered
  <2>3. CASE cursor + 1 \in DOMAIN relocs /\ r.new + r.size = dest
    <3>1. /\ r.new + r.size <= relocs[cursor + 1].new
          /\ relocs[cursor + 1].new + relocs[cursor + 1].size <= dest
          /\ relocs[cursor + 1].size >= HeaderSize
      BY <1>0, <1>1, <2>3 DEF LayoutInv, TableOrdered
    <3>2. relocs[cursor + 1].new \in Nat /\ relocs[cursor + 1].size \in Nat
      BY <1>1, <2>3
    <3>3. dest <= relocs[cursor + 1].new
      BY <2>3, <3>1
    <3>4. FALSE
      BY <1>1, <1>2, <3>1, <3>2, <3>3, SMTT(30)
    <3> QED
      BY <3>4
  <2> QED
    BY <2>1, <2>2, <2>3
<1>12. SlidPrefix'
  <2>1. cursor' >= 1
    BY <1>1, <1>3
  <2>2. ASSUME NEW i \in DOMAIN relocs, i < cursor + 1
        PROVE  relocs[i].new \in DOMAIN heap' /\ SizeAt(relocs[i].new)' = relocs[i].size
    <3>1. CASE i = cursor
      BY <1>0, <1>2, <1>4, <3>1 DEF SizeAt
    <3>2. CASE i < cursor
      <4>1. relocs[i].new \in DOMAIN heap /\ SizeAt(relocs[i].new) = relocs[i].size
        BY <1>0, <3>2 DEF LayoutInv, SlidPrefix
      <4>2. relocs[i].new + relocs[i].size <= r.new /\ relocs[i].size >= HeaderSize
        BY <1>0, <3>2 DEF LayoutInv, TableOrdered
      <4>3. relocs[i].new # r.new
        BY <1>0, <1>1, <1>2, <4>2
      <4>4. relocs[i].new \notin Overwritten(r.new, r.size)
        BY <1>0, <1>1, <1>7, <4>1, <4>2
      <4>5. relocs[i].new \in DOMAIN heap'
        BY <1>4, <4>1, <4>4
      <4>6. heap'[relocs[i].new] = heap[relocs[i].new]
        BY <1>4, <4>3, <4>5
      <4> QED
        BY <1>0, <4>1, <4>5, <4>6 DEF SizeAt
    <3> QED
      BY <1>1, <2>2, <3>1, <3>2
  <2>3. ASSUME NEW a \in DOMAIN heap', a < r.new + r.size
        PROVE  \E i \in DOMAIN relocs : i < cursor + 1 /\ relocs[i].new = a
    <3>1. CASE a = r.new
      BY <1>0, <1>1, <3>1
    <3>2. CASE a # r.new
      <4>1. a \in DOMAIN heap /\ a \notin Overwritten(r.new, r.size)
        BY <1>4, <3>2
      <4>2. ~(r.new < a + SizeAt(a))
        BY <1>7, <2>3, <4>1
      <4>3. a < r.new
        BY <1>0, <1>1, <1>2, <1>6, <4>1, <4>2
      <4>4. SlideFront = r.new
        BY <1>0 DEF SlideFront
      <4>5. \E i \in DOMAIN relocs : i < cursor /\ relocs[i].new = a
        BY <1>0, <4>1, <4>3, <4>4 DEF LayoutInv, SlidPrefix
      <4> QED
        BY <1>1, <4>5
    <3> QED
      BY <3>1, <3>2
  <2> QED
    BY <1>0, <1>3, <1>11, <2>1, <2>2, <2>3 DEF SlidPrefix
<1> QED
  BY <1>0, <1>8, <1>9, <1>10, <1>12 DEF LayoutInv, TypeInv

\* What is left below the new `free` is the survivors, back to back.
LEMMA CollectDoneLayout ==
  ASSUME LayoutInv, CollectDone
  PROVE  LayoutInv'
<1>0. /\ TypeInv /\ TypeInv' /\ TypeOK /\ pc = "slide" /\ cursor > Len(relocs)
      /\ free' = dest
      /\ heap' = Restrict(heap, {a \in DOMAIN heap : a < dest})
      /\ pc' \in {"run", "retry"}
      /\ relocs' = <<>> /\ walk' = 0 /\ dest' = 0
  BY LayoutTyped, SlideTyped DEF CollectDone, TypeInv
<1>1. /\ Len(relocs) \in Nat /\ DOMAIN relocs = 1 .. Len(relocs) /\ cursor \in Nat /\ dest \in Nat
      /\ \A i \in DOMAIN relocs :
           i < cursor /\ relocs[i].new \in Nat /\ relocs[i].size \in Nat
  BY <1>0, TableTyped, SMTT(30) DEF TypeOK
<1>2. SlideFront = dest
  BY <1>0, <1>1 DEF SlideFront
<1>3. /\ DOMAIN heap' = {a \in DOMAIN heap : a < dest}
      /\ \A a \in DOMAIN heap' : heap'[a] = heap[a]
  BY <1>0 DEF Restrict
<1>4. \A a \in DOMAIN heap' : SizeAt(a)' = SizeAt(a)
  BY <1>3 DEF SizeAt
<1>5. ASSUME NEW i \in DOMAIN relocs
      PROVE  /\ relocs[i].new \in DOMAIN heap'
             /\ SizeAt(relocs[i].new) = relocs[i].size
  <2>1. relocs[i].new \in DOMAIN heap /\ SizeAt(relocs[i].new) = relocs[i].size
    BY <1>0, <1>1 DEF LayoutInv, SlidPrefix
  <2>2. relocs[i].new + relocs[i].size <= dest /\ relocs[i].size >= HeaderSize
    BY DEF LayoutInv, TableOrdered
  <2>3. relocs[i].new < dest
    BY <1>1, <2>2, LayoutAssumption
  <2> QED
    BY <1>3, <2>1, <2>3
<1>6. ASSUME NEW a \in DOMAIN heap'
      PROVE  \E i \in DOMAIN relocs : relocs[i].new = a
  BY <1>0, <1>2, <1>3 DEF LayoutInv, SlidPrefix
<1>7. free' > 0 => 0 \in DOMAIN heap'
  <2>1. CASE relocs = <<>>
    BY <1>0, <1>1, <2>1 DEF LayoutInv, TableOrdered
  <2>2. CASE relocs # <<>>
    <3>1. relocs[1].new = 0 /\ 1 \in DOMAIN relocs
      BY <1>0, <1>1, <2>2, EmptySeq DEF LayoutInv, TableOrdered, TypeOK
    <3> QED
      BY <1>5, <3>1
  <2> QED
    BY <2>1, <2>2
<1>8. ASSUME NEW a \in DOMAIN heap'
      PROVE  /\ SizeAt(a)' >= HeaderSize
             /\ a + SizeAt(a)' = free' \/ a + SizeAt(a)' \in DOMAIN heap'
             /\ a + SizeAt(a)' <= free'
  <2>1. PICK i \in DOMAIN relocs : relocs[i].new = a
    BY <1>6
  <2>2. SizeAt(a)' = relocs[i].size
    BY <1>4, <1>5, <2>1
  <2>3. /\ relocs[i].size >= HeaderSize
        /\ relocs[i].new + relocs[i].size <= dest
        /\ \/ relocs[i].new + relocs[i].size = dest
           \/ i + 1 \in DOMAIN relocs /\ relocs[i + 1].new = relocs[i].new + relocs[i].size
    BY DEF LayoutInv, TableOrdered
  <2> QED
    BY <1>0, <1>5, <2>1, <2>2, <2>3
<1>9. ASSUME NEW a \in DOMAIN heap', NEW b \in DOMAIN heap', b # a
      PROVE  ~Overlap(a, SizeAt(a), b, SizeAt(b))'
  <2>1. PICK i \in DOMAIN relocs : relocs[i].new = a
    BY <1>6
  <2>2. PICK j \in DOMAIN relocs : relocs[j].new = b
    BY <1>6
  <2>3. SizeAt(a)' = relocs[i].size /\ SizeAt(b)' = relocs[j].size /\ i # j
    BY <1>4, <1>5, <1>9, <2>1, <2>2
  <2>4. CASE i < j
    <3>1. relocs[i].new + relocs[i].size <= relocs[j].new
      BY <2>4 DEF LayoutInv, TableOrdered
    <3> QED
      BY <1>1, <2>1, <2>2, <2>3, <3>1 DEF Overlap
  <2>5. CASE j < i
    <3>1. relocs[j].new + relocs[j].size <= relocs[i].new
      BY <2>5 DEF LayoutInv, TableOrdered
    <3> QED
      BY <1>1, <2>1, <2>2, <2>3, <3>1 DEF Overlap
  <2> QED
    BY <1>1, <2>3, <2>4, <2>5
<1>10. HeapTiled'
  BY <1>7, <1>8, <1>9 DEF HeapTiled
<1>11. WalkOnObject' /\ TableOrdered' /\ UnslidIntact' /\ SlidPrefix'
  BY <1>0, <1>1 DEF WalkOnObject, TableOrdered, UnslidIntact, SlidPrefix
<1> QED
  BY <1>0, <1>10, <1>11 DEF LayoutInv, TypeInv

LEMMA RetryLayout ==
  ASSUME LayoutInv, AllocRetry
  PROVE  LayoutInv'
<1>0. TypeInv /\ TypeInv' /\ TypeOK /\ pc = "retry" /\ UNCHANGED scratch /\ request \in Request
  BY LayoutTyped, RetryTyped DEF AllocRetry, TypeInv, TypeOK
<1>1. CASE Fits(request) /\ Carve(request) /\ pc' = "run"
  <2>1. HeapTiled' /\ free <= free'
    BY <1>0, <1>1, CarveTiled DEF LayoutInv
  <2>2. WalkOnObject'
    BY <1>0, <1>1, <2>1 DEF TypeInv, TypeOK, WalkOnObject, scratch
  <2>3. TableOrdered' /\ UnslidIntact' /\ SlidPrefix'
    BY <1>0, <1>1 DEF LayoutInv, TableOrdered, UnslidIntact, SlidPrefix, scratch
  <2> QED
    BY <1>0, <2>1, <2>2, <2>3 DEF LayoutInv, TypeInv
<1>2. CASE pc' = "oom" /\ UNCHANGED mutator
  BY <1>0, <1>2, SameLayout DEF mutator, scratch
<1> QED
  BY <1>1, <1>2 DEF AllocRetry

LEMMA LayoutInvInductive == LayoutInv /\ [Next]_vars => LayoutInv'
<1> SUFFICES ASSUME LayoutInv, [Next]_vars PROVE LayoutInv'
  OBVIOUS
<1>1. CASE Mutator
  BY <1>1, MutatorLayout
<1>2. CASE Collector
  BY <1>2, MarkLayout, ForwardLayout, FixLayout, SlideLayout, CollectDoneLayout, RetryLayout
     DEF Collector
<1>3. CASE UNCHANGED vars
  <2>1. TypeInv /\ TypeInv'
    BY <1>3, LayoutTyped, TypeInvInductive
  <2> QED
    BY <1>3, <2>1 DEF vars, mutator, scratch, TypeInv, LayoutInv, HeapTiled, SizeAt, WalkOnObject,
                      TableOrdered, UnslidIntact, SlidPrefix, SlideFront
<1> QED
  BY <1>1, <1>2, <1>3 DEF Next, Exited

LEMMA LayoutInvInit == Init => LayoutInv
<1> SUFFICES ASSUME Init PROVE LayoutInv
  OBVIOUS
<1>1. TypeOK
  BY TypeInvInit DEF TypeInv
<1> QED
  BY <1>1 DEF Init, LayoutInv, HeapTiled, WorklistInHeap, WalkOnObject, TableOrdered,
              UnslidIntact, SlidPrefix

\* Whenever survivors are not being slid, the objects tile [0, free): the stride
\* of the allocator is the stride of the collector's walk, and after a collection
\* the survivors lie back to back at the bottom of the heap, none overwritten.
THEOREM TilingCorrect == Spec => []HeapTiled
<1>1. Spec => []LayoutInv
  BY LayoutInvInit, LayoutInvInductive, PTL DEF Spec
<1>2. LayoutInv => HeapTiled
  BY DEF LayoutInv
<1> QED
  BY <1>1, <1>2, PTL

---------------------------------------------------------------------------
(***************************************************************************)
(* What a collection keeps: references that point at objects, and no mark. *)
(* The invariant is ReferenceInv; it rests on LayoutInv.                   *)
(***************************************************************************)

RefsIn(S) ==
  /\ SlotValues \subseteq S
  /\ \A a \in DOMAIN heap : FieldValues(a) \subseteq S

LEMMA StaleRefs ==
  NoStaleReference <=> (pc \in {"run", "mark", "forward", "retry"} => RefsIn(Live))
BY DEF NoStaleReference, RefsIn, Live, Immortal

\* The collector manages exactly the references to objects.
LEMMA ManagedLive ==
  ASSUME LayoutInv, pc \in {"mark", "forward", "fix"}, NEW r \in Live
  PROVE  Managed(r) <=> r \in DOMAIN heap
<1>1. free \in Nat
  BY RegionNat DEF LayoutInv, TypeOK
<1>2. ASSUME r \in DOMAIN heap
      PROVE  Managed(r)
  <2>1. r \in Nat /\ SizeAt(r) \in Nat /\ SizeAt(r) >= HeaderSize /\ r + SizeAt(r) <= free
    BY <1>2, SizeAtBound DEF LayoutInv, HeapTiled, TypeOK, Addresses
  <2> QED
    BY <1>1, <2>1, LayoutAssumption DEF Managed
<1>3. ASSUME r \in Immortal
      PROVE  ~Managed(r)
  BY <1>1, <1>3, HeapAssumption DEF Immortal, Managed
<1>4. ASSUME r \in Immortal
      PROVE  r \notin DOMAIN heap
  BY <1>4, HeapAssumption DEF Immortal, LayoutInv, TypeOK, Addresses
<1> QED
  BY <1>2, <1>3, <1>4 DEF Live

\* Storing one reference in a slot adds that reference at most.
LEMMA StoreRootSlots ==
  ASSUME NEW stack \in Seq(Seq(Ref)), NEW slot, NEW v, NEW S,
         \A f \in DOMAIN stack : \A i \in DOMAIN stack[f] : stack[f][i] \in S,
         v \in S, frames' = [stack EXCEPT ![1][slot] = v]
  PROVE  SlotValues' \subseteq S
<1>1. DOMAIN frames' = DOMAIN stack
  OBVIOUS
<1>2. ASSUME NEW f \in DOMAIN stack, NEW i \in DOMAIN frames'[f]
      PROVE  frames'[f][i] \in S
  <2>1. CASE f = 1
    <3>1. frames'[f] = [stack[1] EXCEPT ![slot] = v]
      BY <2>1
    <3> QED
      BY <1>2, <2>1, <3>1
  <2>2. CASE f # 1
    <3>1. frames'[f] = stack[f]
      BY <2>2
    <3> QED
      BY <1>2, <3>1
  <2> QED
    BY <2>1, <2>2
<1> QED
  BY <1>1, <1>2 DEF SlotValues

\* What compiled code holds is live.
LEMMA HeldLive ==
  ASSUME RefsIn(Live)
  PROVE  Held \subseteq Live
BY DEF Held, RefsIn, Live, Immortal

---------------------------------------------------------------------------
(***************************************************************************)
(* The program and the allocator                                           *)
(***************************************************************************)

\* A fresh object refers to nothing, and only its slot refers to it.
LEMMA CarveRefs ==
  ASSUME TypeOK, RefsIn(Live), \A a \in DOMAIN heap : ~heap[a].marked,
         NEW req \in Request, Fits(req), Carve(req)
  PROVE  RefsIn(Live)' /\ \A a \in DOMAIN heap' : ~heap'[a].marked
<1>0. /\ DOMAIN heap' = DOMAIN heap \cup {free}
      /\ \A a \in DOMAIN heap' : heap'[a] = IF a = free THEN Fresh(req) ELSE heap[a]
      /\ frames' = StoreRoot(req.slot, free)
  BY DEF Carve
<1>1. Live' = Live \cup {free} /\ Null \in Live
  BY <1>0 DEF Live, Immortal
<1>2. SlotValues' \subseteq Live'
  <2>1. \A f \in DOMAIN frames : \A i \in DOMAIN frames[f] : frames[f][i] \in Live'
    BY <1>1 DEF RefsIn, SlotValues
  <2>2. CASE req.slot = 0
    BY <1>0, <2>1, <2>2 DEF StoreRoot, SlotValues
  <2>3. CASE req.slot # 0
    <3>1. frames' = [frames EXCEPT ![1][req.slot] = free]
      BY <1>0, <2>3 DEF StoreRoot
    <3>2. frames \in Seq(Seq(Ref)) /\ free \in Live'
      BY <1>1 DEF TypeOK
    <3> QED
      BY <2>1, <3>1, <3>2, StoreRootSlots
  <2> QED
    BY <2>2, <2>3
<1>3. ASSUME NEW a \in DOMAIN heap'
      PROVE  FieldValues(a)' \subseteq Live' /\ ~heap'[a].marked
  <2>1. CASE a = free
    <3>1. heap'[a] = Fresh(req)
      BY <1>0, <2>1
    <3> QED
      BY <1>1, <3>1 DEF Fresh, FieldValues
  <2>2. CASE a # free
    <3>1. heap'[a] = heap[a] /\ a \in DOMAIN heap
      BY <1>0, <2>2
    <3> QED
      BY <1>1, <3>1 DEF FieldValues, RefsIn
  <2> QED
    BY <2>1, <2>2
<1> QED
  BY <1>2, <1>3 DEF RefsIn

\* In the program's own steps only the first two parts of the invariant count.
LEMMA RunningRefs ==
  ASSUME pc' = "run", RefsIn(Live)', \A a \in DOMAIN heap' : ~heap'[a].marked
  PROVE  ReferenceInv'
BY DEF ReferenceInv, NoStaleReference, RefsIn, Live, Immortal, NoLeftoverMarks, NoFault,
       NotYetFixing, MarkFrontier, MarksClosed, TableExact, FixFront, MovedIntact

\* A collection that starts when no object is marked has nothing to account for.
LEMMA StartRefs ==
  ASSUME RefsIn(Live), \A a \in DOMAIN heap : ~heap[a].marked, TypeOK,
         NEW req, StartCollection(req)
  PROVE  ReferenceInv'
<1>1. /\ UNCHANGED <<heap, frames>> /\ pc' = "mark"
      /\ nextFrame' = 1 /\ pending' = <<>> /\ worklist' = <<>> /\ cursor' = 0
  BY DEF StartCollection, mutator
<1>2. NoStaleReference'
  BY <1>1 DEF NoStaleReference, RefsIn, Live, Immortal, SlotValues, FieldValues
<1>3. MarkFrontier'
  <2>1. ToVisit' = {}
    BY <1>1 DEF ToVisit
  <2>2. \A f \in DOMAIN frames : ~(f < 1)
    BY LenProperties DEF TypeOK
  <2> QED
    BY <1>1, <2>1, <2>2 DEF MarkFrontier
<1> QED
  BY <1>1, <1>2, <1>3
     DEF ReferenceInv, NoLeftoverMarks, NoFault, NotYetFixing, MarksClosed, TableExact,
         FixFront, MovedIntact

LEMMA MutatorRefs ==
  ASSUME LayoutInv, ReferenceInv, Mutator
  PROVE  ReferenceInv'
<1>0. /\ TypeOK /\ pc = "run" /\ RefsIn(Live)
      /\ \A a \in DOMAIN heap : ~heap[a].marked
      /\ Held \subseteq Live /\ Null \in Live
  <2>1. pc = "run"
    BY DEF Mutator, PushFrame, PopFrame, RootStore, WriteBarrier, LoAlloc, LoGcCollect
  <2>2. RefsIn(Live)
    BY <2>1, StaleRefs DEF ReferenceInv
  <2> QED
    BY <2>1, <2>2, HeldLive DEF LayoutInv, ReferenceInv, NoLeftoverMarks, Live, Immortal
<1>1. \A f \in DOMAIN frames : \A i \in DOMAIN frames[f] : frames[f][i] \in Live
  BY <1>0 DEF RefsIn, SlotValues
<1>2. ASSUME UNCHANGED <<heap, pc>>, SlotValues' \subseteq Live
      PROVE  ReferenceInv'
  BY <1>0, <1>2, RunningRefs DEF RefsIn, Live, FieldValues
<1>3. CASE PushFrame
  <2>1. PICK n \in FrameSizes : frames' = <<[i \in 1 .. n |-> Null]>> \o frames
    BY <1>3 DEF PushFrame
  <2>2. <<[i \in 1 .. n |-> Null]>> \in Seq(Seq(Ref)) /\ frames \in Seq(Seq(Ref))
    BY <1>0, NullFrameTyped, HeapAssumption DEF TypeOK
  <2>3. /\ DOMAIN frames' = 1 .. (Len(frames) + 1) /\ Len(frames) \in Nat
        /\ DOMAIN frames = 1 .. Len(frames)
        /\ frames'[1] = [i \in 1 .. n |-> Null]
        /\ \A f \in 2 .. (Len(frames) + 1) : frames'[f] = frames[f - 1]
    BY <2>1, <2>2, ConcatProperties, LenProperties
  <2>4. ASSUME NEW f \in 1 .. (Len(frames) + 1), NEW i \in DOMAIN frames'[f]
        PROVE  frames'[f][i] \in Live
    <3>1. CASE f = 1
      BY <1>0, <2>3, <2>4, <3>1
    <3>2. CASE f # 1
      <4>1. f - 1 \in DOMAIN frames /\ frames'[f] = frames[f - 1]
        BY <2>3, <3>2
      <4> QED
        BY <1>1, <2>4, <4>1
    <3> QED
      BY <3>1, <3>2
  <2>5. SlotValues' \subseteq Live
    BY <2>3, <2>4 DEF SlotValues
  <2> QED
    BY <1>2, <1>3, <2>5 DEF PushFrame
<1>4. CASE PopFrame
  <2>1. frames \in Seq(Seq(Ref)) /\ frames # <<>>
    BY <1>0, <1>4 DEF PopFrame, TypeOK
  <2>2. /\ Tail(frames) \in Seq(Seq(Ref))
        /\ \A f \in DOMAIN Tail(frames) : f + 1 \in DOMAIN frames /\ Tail(frames)[f] = frames[f + 1]
    BY <2>1, HeadTailProperties, LenProperties
  <2>3. \A f \in DOMAIN Tail(frames) : \A i \in DOMAIN Tail(frames)[f] : Tail(frames)[f][i] \in Live
    BY <1>1, <2>2
  <2>4. CASE frames' = Tail(frames)
    BY <1>2, <1>4, <2>3, <2>4 DEF PopFrame, SlotValues
  <2>5. ASSUME NEW v \in Held, NEW i \in DOMAIN frames[2],
               frames' = [Tail(frames) EXCEPT ![1][i] = v]
        PROVE  SlotValues' \subseteq Live
    BY <1>0, <2>2, <2>3, <2>5, StoreRootSlots
  <2> QED
    BY <1>2, <1>4, <2>4, <2>5 DEF PopFrame
<1>5. CASE RootStore
  <2>1. PICK slot \in Slots \ {0}, v \in Held : frames' = [frames EXCEPT ![1][slot] = v]
    BY <1>5 DEF RootStore, StoreRoot
  <2>2. SlotValues' \subseteq Live
    BY <1>0, <1>1, <2>1, StoreRootSlots DEF TypeOK
  <2> QED
    BY <1>2, <1>5, <2>2 DEF RootStore
<1>6. CASE WriteBarrier
  <2>1. PICK a \in Held \cap DOMAIN heap, v \in Held : \E i \in DOMAIN heap[a].fields :
          heap' = [heap EXCEPT ![a].fields[i] = v]
    BY <1>6 DEF WriteBarrier
  <2>2. PICK i \in DOMAIN heap[a].fields : heap' = [heap EXCEPT ![a].fields[i] = v]
    BY <2>1
  <2>3. \A b \in DOMAIN heap : heap[b] \in Object
    BY <1>0 DEF TypeOK
  <2>4. /\ DOMAIN heap' = DOMAIN heap
        /\ \A b \in DOMAIN heap : b # a => heap'[b] = heap[b]
        /\ heap'[a].fields = [heap[a].fields EXCEPT ![i] = v]
        /\ heap'[a].marked = heap[a].marked
    BY <2>2, <2>3 DEF Object
  <2>5. ASSUME NEW b \in DOMAIN heap
        PROVE  FieldValues(b)' \subseteq Live /\ ~heap'[b].marked
    <3>1. FieldValues(b) \subseteq Live /\ v \in Live
      BY <1>0 DEF RefsIn
    <3>2. CASE b = a
      BY <1>0, <2>4, <3>1, <3>2 DEF FieldValues
    <3>3. CASE b # a
      BY <1>0, <2>4, <3>1, <3>3 DEF FieldValues
    <3> QED
      BY <3>2, <3>3
  <2>6. SlotValues' = SlotValues /\ Live' = Live /\ pc' = "run"
    BY <1>0, <1>6, <2>4 DEF WriteBarrier, SlotValues, Live
  <2> QED
    BY <1>0, <2>4, <2>5, <2>6, RunningRefs DEF RefsIn
<1>7. CASE LoAlloc
  <2>1. PICK class \in Classes, slot \in Slots : \E len \in Lengths(class) :
          LET req == [class |-> class, len |-> len, slot |-> slot] IN
          \/ Fits(req) /\ Carve(req) /\ UNCHANGED <<pc, request, scratch>>
          \/ ~Fits(req) /\ StartCollection(req)
    BY <1>7 DEF LoAlloc
  <2>2. PICK len \in Lengths(class) :
          LET req == [class |-> class, len |-> len, slot |-> slot] IN
          \/ Fits(req) /\ Carve(req) /\ UNCHANGED <<pc, request, scratch>>
          \/ ~Fits(req) /\ StartCollection(req)
    BY <2>1
  <2>3. [class |-> class, len |-> len, slot |-> slot] \in Request
    BY <1>0, SlotsNat, HeapAssumption DEF Lengths, Request
  <2> DEFINE req == [class |-> class, len |-> len, slot |-> slot]
  <2>4. CASE Fits(req) /\ Carve(req) /\ UNCHANGED <<pc, request, scratch>>
    <3> HIDE DEF req
    <3>1. req \in Request
      BY <2>3 DEF req
    <3> QED
      BY <1>0, <2>4, <3>1, CarveRefs, RunningRefs
  <2>5. CASE ~Fits(req) /\ StartCollection(req)
    BY <1>0, <2>5, StartRefs
  <2> QED
    BY <2>2, <2>4, <2>5
<1>8. CASE LoGcCollect
  BY <1>0, <1>8, StartRefs DEF LoGcCollect
<1> QED
  BY <1>3, <1>4, <1>5, <1>6, <1>7, <1>8 DEF Mutator

---------------------------------------------------------------------------
(***************************************************************************)
(* Marking                                                                 *)
(***************************************************************************)

\* What a step of marking leaves alone, and what is left to show of it.
LEMMA StillMarking ==
  ASSUME pc' = "mark", cursor' = 0, RefsIn(Live)', MarkFrontier'
  PROVE  ReferenceInv'
BY DEF ReferenceInv, NoStaleReference, RefsIn, Live, Immortal, NoLeftoverMarks, NoFault,
       NotYetFixing, MarksClosed, TableExact, FixFront, MovedIntact

\* A process that has exited 137 owes nothing more.
LEMMA AfterExit ==
  ASSUME pc' = "oom"
  PROVE  ReferenceInv'
BY DEF ReferenceInv, NoStaleReference, NoLeftoverMarks, NoFault, NotYetFixing, MarkFrontier,
       MarksClosed, TableExact, FixFront, MovedIntact

LEMMA MarkNextFrameRefs ==
  ASSUME LayoutInv, ReferenceInv, MarkNextFrame
  PROVE  ReferenceInv'
<1>0. /\ pc = "mark" /\ pc' = "mark" /\ cursor' = 0 /\ pending = <<>>
      /\ nextFrame \in DOMAIN frames /\ pending' = frames[nextFrame]
      /\ nextFrame' = nextFrame + 1
      /\ UNCHANGED <<heap, frames, worklist>>
      /\ RefsIn(Live) /\ MarkFrontier
  <2>1. pc = "mark" /\ RefsIn(Live)
    BY StaleRefs DEF MarkNextFrame, ReferenceInv
  <2>2. nextFrame \in DOMAIN frames
    BY LenProperties DEF MarkNextFrame, LayoutInv, TypeOK
  <2> QED
    BY <2>1, <2>2 DEF MarkNextFrame, mutator, ReferenceInv, NotYetFixing
<1>1. /\ \A f \in DOMAIN frames : f \in Nat
      /\ nextFrame \in Nat
  BY LenProperties DEF LayoutInv, TypeOK
<1>2. RefsIn(Live)'
  BY <1>0 DEF RefsIn, SlotValues, FieldValues, Live
<1>3. ToVisit = {} /\ ToVisit' = {frames[nextFrame][i] : i \in DOMAIN frames[nextFrame]}
  BY <1>0 DEF ToVisit
<1>4. Reached' = Reached /\ Live' = Live /\ ToScan' = ToScan
  BY <1>0 DEF Reached, Live, ToScan
<1>5. ToVisit' \subseteq Live'
  BY <1>0, <1>3, <1>4 DEF RefsIn, SlotValues
<1>6. ASSUME NEW f \in DOMAIN frames, f < nextFrame + 1, NEW i \in DOMAIN frames[f]
      PROVE  frames[f][i] \in Reached \cup ToVisit'
  <2>1. CASE f = nextFrame
    BY <1>3, <1>6, <2>1
  <2>2. CASE f < nextFrame
    BY <1>0, <1>3, <1>6, <2>2 DEF MarkFrontier
  <2> QED
    BY <1>1, <1>6, <2>1, <2>2
<1>7. \A a \in DOMAIN heap : FieldValues(a)' = FieldValues(a)
  BY <1>0 DEF FieldValues
<1>8. \A a \in DOMAIN heap : heap[a].marked => a \in ToScan \/ FieldValues(a) \subseteq Reached
  BY <1>0, <1>3 DEF MarkFrontier
<1>9. MarkFrontier'
  BY <1>0, <1>4, <1>5, <1>6, <1>7, <1>8 DEF MarkFrontier
<1> QED
  BY <1>0, <1>2, <1>9, StillMarking

LEMMA MarkPopRefs ==
  ASSUME LayoutInv, ReferenceInv, MarkPop
  PROVE  ReferenceInv'
<1> DEFINE top == worklist[Len(worklist)]
<1>0. /\ pc = "mark" /\ pc' = "mark" /\ cursor' = 0 /\ pending = <<>>
      /\ worklist # <<>> /\ pending' = heap[top].fields
      /\ worklist' = SubSeq(worklist, 1, Len(worklist) - 1)
      /\ UNCHANGED <<heap, frames, nextFrame>>
      /\ RefsIn(Live) /\ MarkFrontier
  <2>1. pc = "mark" /\ RefsIn(Live)
    BY StaleRefs DEF MarkPop, ReferenceInv
  <2> QED
    BY <2>1 DEF MarkPop, mutator, ReferenceInv, NotYetFixing
<1>1. /\ worklist \in Seq(Addresses) /\ Len(worklist) \in Nat /\ Len(worklist) # 0
      /\ DOMAIN worklist = 1 .. Len(worklist)
  BY <1>0, LenProperties, EmptySeq DEF LayoutInv, TypeOK
<1>2. top \in DOMAIN heap
  BY <1>0, <1>1 DEF LayoutInv, WorklistInHeap
<1>3. ToVisit = {} /\ ToVisit' = FieldValues(top)
  BY <1>0 DEF ToVisit, FieldValues
<1>4. RefsIn(Live)'
  BY <1>0 DEF RefsIn, SlotValues, FieldValues, Live
<1>5. Reached' = Reached /\ Live' = Live
  BY <1>0 DEF Reached, Live
<1>6. ToScan \subseteq ToScan' \cup {top}
  <2>1. /\ DOMAIN worklist' = 1 .. (Len(worklist) - 1)
        /\ \A i \in 1 .. (Len(worklist) - 1) : worklist'[i] = worklist[i]
    <3>1. \A i \in 1 .. (Len(worklist) - 1) : worklist[i] \in Addresses
      BY <1>1, ElementOfSeq
    <3> QED
      BY <1>0, <1>1, <3>1, SubSeqProperties, LenProperties
  <2>2. \A n \in Nat : \A i \in 1 .. n : i # n => i \in 1 .. (n - 1)
    OBVIOUS
  <2> QED
    BY <1>1, <2>1, <2>2 DEF ToScan
<1>7. ToVisit' \subseteq Live'
  BY <1>0, <1>2, <1>3, <1>5 DEF RefsIn
<1>8. \A a \in DOMAIN heap : FieldValues(a)' = FieldValues(a)
  BY <1>0 DEF FieldValues
<1>9. ASSUME NEW a \in DOMAIN heap, heap[a].marked
      PROVE  a \in ToScan' \/ FieldValues(a) \subseteq Reached \cup ToVisit'
  <2>1. a \in ToScan \/ FieldValues(a) \subseteq Reached
    BY <1>0, <1>3, <1>9 DEF MarkFrontier
  <2> QED
    BY <1>3, <1>6, <2>1
<1>10. \A f \in DOMAIN frames : f < nextFrame =>
         \A i \in DOMAIN frames[f] : frames[f][i] \in Reached
  BY <1>0, <1>3 DEF MarkFrontier
<1>11. MarkFrontier'
  BY <1>0, <1>5, <1>7, <1>8, <1>9, <1>10 DEF MarkFrontier
<1> QED
  BY <1>0, <1>4, <1>11, StillMarking

\* Visiting a slot marks what it holds, and what is newly marked goes on the
\* worklist: nothing is left behind unmarked.
LEMMA MarkVisitRefs ==
  ASSUME LayoutInv, ReferenceInv, MarkVisit
  PROVE  ReferenceInv'
<1> DEFINE r == Head(pending)
<1>0. /\ pc = "mark" /\ cursor' = 0 /\ pending # <<>> /\ pending' = Tail(pending)
      /\ UNCHANGED <<free, frames, nextFrame>>
      /\ RefsIn(Live) /\ MarkFrontier
  <2>1. pc = "mark" /\ RefsIn(Live)
    BY StaleRefs DEF MarkVisit, ReferenceInv
  <2> QED
    BY <2>1 DEF MarkVisit, ReferenceInv, NotYetFixing
<1>1. /\ r \in ToVisit /\ ToVisit' \subseteq ToVisit /\ ToVisit \subseteq ToVisit' \cup {r}
  <2>1. pending \in Seq(Ref)
    BY DEF LayoutInv, TypeOK
  <2>2. /\ DOMAIN pending = 1 .. Len(pending) /\ Len(pending) \in Nat /\ Len(pending) # 0
        /\ r = pending[1]
        /\ DOMAIN pending' = 1 .. (Len(pending) - 1)
        /\ \A i \in 1 .. (Len(pending) - 1) : pending'[i] = pending[i + 1]
    BY <1>0, <2>1, HeadTailProperties, LenProperties, EmptySeq
  <2>3. ASSUME NEW i \in 1 .. (Len(pending) - 1)
        PROVE  i + 1 \in 1 .. Len(pending)
    BY <2>2
  <2>4. ASSUME NEW i \in 1 .. Len(pending), i # 1
        PROVE  i - 1 \in 1 .. (Len(pending) - 1) /\ (i - 1) + 1 = i
    BY <2>2, <2>4
  <2>5. ToVisit' = {pending[i + 1] : i \in 1 .. (Len(pending) - 1)}
    BY <2>2 DEF ToVisit
  <2>6. ToVisit = {pending[i] : i \in 1 .. Len(pending)}
    BY <2>2 DEF ToVisit
  <2>7. ToVisit' \subseteq ToVisit /\ r \in ToVisit
    BY <2>2, <2>3, <2>5, <2>6
  <2>8. ASSUME NEW i \in 1 .. Len(pending), i # 1
        PROVE  pending[i] \in ToVisit'
    BY <2>4, <2>5, <2>8
  <2> QED
    BY <2>2, <2>6, <2>7, <2>8
<1>2. r \in Live /\ ToVisit' \subseteq Live
  BY <1>0, <1>1 DEF MarkFrontier
<1>3. Managed(r) <=> r \in DOMAIN heap
  BY <1>0, <1>2, ManagedLive
<1>4. ASSUME r \in Reached, UNCHANGED <<heap, pc, worklist>>
      PROVE  ReferenceInv'
  <2>1. Reached' = Reached /\ Live' = Live /\ ToScan' = ToScan /\ SlotValues' = SlotValues
    BY <1>0, <1>4 DEF Reached, Live, ToScan, SlotValues
  <2>2. \A a \in DOMAIN heap : FieldValues(a)' = FieldValues(a)
    BY <1>4 DEF FieldValues
  <2>3. Reached \cup ToVisit \subseteq Reached \cup ToVisit'
    BY <1>1, <1>4
  <2>4. MarkFrontier'
    BY <1>0, <1>2, <1>4, <2>1, <2>2, <2>3 DEF MarkFrontier
  <2>5. RefsIn(Live)'
    BY <1>0, <1>4, <2>1, <2>2 DEF RefsIn
  <2> QED
    BY <1>0, <1>4, <2>4, <2>5, StillMarking
<1>5. CASE r \notin DOMAIN heap
  <2>1. r \in Reached
    BY <1>2, <1>5 DEF Live, Reached
  <2>2. UNCHANGED <<heap, pc, worklist>>
    BY <1>3, <1>5 DEF MarkVisit
  <2> QED
    BY <1>4, <2>1, <2>2
<1>6. CASE r \in DOMAIN heap /\ heap[r].marked
  <2>1. r \in Reached
    BY <1>6 DEF Reached
  <2>2. UNCHANGED <<heap, pc, worklist>>
    BY <1>3, <1>6 DEF MarkVisit
  <2> QED
    BY <1>4, <2>1, <2>2
<1>7. CASE r \in DOMAIN heap /\ ~heap[r].marked
  <2>1. Enqueue(r)
    BY <1>3, <1>7 DEF MarkVisit
  <2>2. CASE pc' = "oom"
    BY <2>2, AfterExit
  <2>3. CASE worklist' = Append(worklist, r) /\ UNCHANGED pc
    <3>1. /\ DOMAIN heap' = DOMAIN heap
          /\ \A a \in DOMAIN heap : /\ heap'[a].fields = heap[a].fields
                                    /\ heap'[a].marked <=> (heap[a].marked \/ a = r)
      BY <1>7, <2>1 DEF Enqueue, LayoutInv, TypeOK, Object
    <3>2. /\ Live' = Live /\ SlotValues' = SlotValues /\ Reached' = Reached \cup {r}
          /\ \A a \in DOMAIN heap : FieldValues(a)' = FieldValues(a)
      BY <1>0, <1>7, <3>1 DEF Live, SlotValues, Reached, FieldValues
    <3>3. ToScan' = ToScan \cup {r}
      <4>1. worklist \in Seq(Addresses) /\ r \in Addresses
        BY <1>7 DEF LayoutInv, TypeOK
      <4>2. /\ DOMAIN worklist = 1 .. Len(worklist) /\ Len(worklist) \in Nat
            /\ DOMAIN worklist' = 1 .. (Len(worklist) + 1)
            /\ \A i \in 1 .. Len(worklist) : worklist'[i] = worklist[i]
            /\ worklist'[Len(worklist) + 1] = r
        BY <2>3, <4>1, AppendProperties, LenProperties
      <4>3. \A i \in 1 .. (Len(worklist) + 1) : i \in 1 .. Len(worklist) \/ i = Len(worklist) + 1
        BY <4>2
      <4> QED
        BY <4>2, <4>3 DEF ToScan
    <3>4. ASSUME NEW a \in DOMAIN heap, heap'[a].marked
          PROVE  a \in ToScan' \/ FieldValues(a)' \subseteq Reached' \cup ToVisit'
      <4>1. CASE a = r
        BY <3>3, <4>1
      <4>2. CASE a # r
        <5>1. a \in ToScan \/ FieldValues(a) \subseteq Reached \cup ToVisit
          BY <1>0, <3>1, <3>4, <4>2 DEF MarkFrontier
        <5> QED
          BY <1>1, <3>2, <3>3, <5>1
      <4> QED
        BY <4>1, <4>2
    <3>5. MarkFrontier'
      <4>1. \A f \in DOMAIN frames : f < nextFrame =>
              \A i \in DOMAIN frames[f] : frames[f][i] \in Reached' \cup ToVisit'
        BY <1>0, <1>1, <3>2 DEF MarkFrontier
      <4> QED
        BY <1>0, <1>2, <3>1, <3>2, <3>4, <4>1 DEF MarkFrontier
    <3>6. RefsIn(Live)'
      BY <1>0, <3>1, <3>2 DEF RefsIn
    <3> QED
      BY <1>0, <2>3, <3>5, <3>6, StillMarking
  <2> QED
    BY <2>1, <2>2, <2>3 DEF Enqueue
<1> QED
  BY <1>5, <1>6, <1>7

\* When nothing is left to visit or to scan, the marked set is closed.
LEMMA MarkDoneRefs ==
  ASSUME LayoutInv, ReferenceInv, MarkDone
  PROVE  ReferenceInv'
<1>0. /\ pc = "mark" /\ pc' = "forward" /\ pending = <<>> /\ worklist = <<>>
      /\ nextFrame > Len(frames)
      /\ UNCHANGED <<heap, frames, relocs, walk, cursor>>
      /\ MarkFrontier /\ NotYetFixing
  BY DEF MarkDone, mutator, scratch, ReferenceInv
<1>1. ToVisit = {} /\ ToScan = {}
  BY <1>0 DEF ToVisit, ToScan
<1>2. \A f \in DOMAIN frames : f < nextFrame
  BY <1>0, LenProperties DEF LayoutInv, TypeOK
<1>3. Reached' = Reached /\ SlotValues' = SlotValues
      /\ \A a \in DOMAIN heap : FieldValues(a)' = FieldValues(a)
  BY <1>0 DEF Reached, SlotValues, FieldValues
<1>4. SlotValues \subseteq Reached
  BY <1>0, <1>1, <1>2 DEF MarkFrontier, SlotValues
<1>5. MarksClosed'
  BY <1>0, <1>1, <1>3, <1>4 DEF MarkFrontier, MarksClosed
<1>6. TableExact'
  <2>1. relocs = <<>> /\ walk = 0 /\ \A a \in DOMAIN heap : ~(a < 0)
    BY <1>0 DEF LayoutInv, WalkOnObject, TypeOK, Addresses
  <2> QED
    BY <1>0, <2>1 DEF TableExact
<1>7. NoStaleReference'
  BY <1>0, <1>3 DEF ReferenceInv, NoStaleReference
<1> QED
  BY <1>0, <1>5, <1>6, <1>7
     DEF ReferenceInv, NoLeftoverMarks, NoFault, NotYetFixing, MarkFrontier, FixFront, MovedIntact

---------------------------------------------------------------------------
(***************************************************************************)
(* Forwarding                                                              *)
(***************************************************************************)

LEMMA StillForwarding ==
  ASSUME pc' = "forward", cursor' = 0, UNCHANGED <<heap, frames>>,
         NoStaleReference, MarksClosed, pc = "forward", TableExact'
  PROVE  ReferenceInv'
<1>1. NoStaleReference' /\ MarksClosed'
  BY DEF NoStaleReference, MarksClosed, SlotValues, FieldValues, Reached
<1> QED
  BY <1>1 DEF ReferenceInv, NoLeftoverMarks, NoFault, NotYetFixing, MarkFrontier, FixFront,
              MovedIntact

\* The walk steps from object to object, so it passes no marked one.
LEMMA ForwardObjectRefs ==
  ASSUME LayoutInv, ReferenceInv, ForwardObject
  PROVE  ReferenceInv'
<1> DEFINE size == SizeAt(walk)  n == Len(relocs)
<1>0. /\ pc = "forward" /\ walk < free /\ cursor' = 0 /\ UNCHANGED <<heap, free, frames>>
      /\ NoStaleReference /\ MarksClosed /\ TableExact /\ TypeOK
  BY DEF ForwardObject, mutator, ReferenceInv, NotYetFixing, LayoutInv
<1>1. walk \in DOMAIN heap
  BY <1>0 DEF LayoutInv, WalkOnObject, TypeOK
<1>2. /\ walk \in Nat /\ free \in Nat /\ size \in Nat /\ size >= HeaderSize
      /\ HeaderSize \in Nat \ {0} /\ walk + size <= free
  BY <1>0, <1>1, SizeAtBound, LayoutAssumption DEF LayoutInv, HeapTiled, TypeOK, Addresses
<1>3. /\ walk' = walk + size
      /\ IF heap[walk].marked THEN PushRelocation(size) ELSE UNCHANGED <<pc, relocs, dest>>
  BY <1>1, <1>2 DEF ForwardObject
<1>4. ASSUME NEW a \in DOMAIN heap, a < walk + size
      PROVE  a < walk \/ a = walk
  <2>1. a \in Nat /\ SizeAt(a) \in Nat /\ SizeAt(a) >= HeaderSize
    BY <1>0, SizeAtBound DEF TypeOK, Addresses
  <2>2. a # walk => ~Overlap(a, SizeAt(a), walk, size)
    BY <1>0, <1>1 DEF LayoutInv, HeapTiled
  <2> QED
    BY <1>2, <1>4, <2>1, <2>2 DEF Overlap
<1>5. n \in Nat /\ DOMAIN relocs = 1 .. n
  BY <1>0, TableTyped
<1>6. CASE ~heap[walk].marked
  <2>1. UNCHANGED <<pc, relocs>>
    BY <1>3, <1>6
  <2>2. TableExact'
    BY <1>0, <1>3, <1>4, <1>6, <2>1 DEF TableExact
  <2> QED
    BY <1>0, <2>1, <2>2, StillForwarding
<1>7. CASE heap[walk].marked /\ pc' = "oom"
  BY <1>7, AfterExit
<1>8. CASE /\ heap[walk].marked /\ UNCHANGED pc
           /\ relocs' = Append(relocs, [old |-> walk, new |-> dest, size |-> size])
  <2>1. /\ DOMAIN relocs' = 1 .. (n + 1)
        /\ \A i \in 1 .. n : relocs'[i] = relocs[i]
        /\ relocs'[n + 1].old = walk
    <3>1. relocs \in Seq([old : Addresses, new : Nat, size : Nat])
      BY <1>0 DEF TypeOK
    <3>2. [old |-> walk, new |-> dest, size |-> size] \in [old : Addresses, new : Nat, size : Nat]
      BY <1>0, <1>1, <1>2 DEF TypeOK
    <3> QED
      BY <1>8, <3>1, <3>2, AppendProperties, LenProperties
  <2>2. ASSUME NEW i \in DOMAIN relocs'
        PROVE  heap[relocs'[i].old].marked
    <3>1. i \in 1 .. n \/ i = n + 1
      BY <1>5, <2>1
    <3> QED
      BY <1>0, <1>5, <1>8, <2>1, <3>1 DEF TableExact
  <2>3. ASSUME NEW a \in DOMAIN heap, heap[a].marked, a < walk + size
        PROVE  \E i \in DOMAIN relocs' : relocs'[i].old = a
    <3>1. CASE a < walk
      <4>1. PICK i \in 1 .. n : relocs[i].old = a
        BY <1>0, <1>5, <2>3, <3>1 DEF TableExact
      <4>2. i \in DOMAIN relocs' /\ relocs'[i].old = a
        BY <1>5, <2>1, <4>1
      <4> QED
        BY <4>2
    <3>2. CASE a = walk
      <4>1. n + 1 \in DOMAIN relocs' /\ relocs'[n + 1].old = a
        BY <1>5, <2>1, <3>2
      <4> QED
        BY <4>1
    <3> QED
      BY <1>4, <2>3, <3>1, <3>2
  <2>4. TableExact'
    BY <1>0, <1>3, <2>2, <2>3 DEF TableExact
  <2> QED
    BY <1>0, <1>8, <2>4, StillForwarding
<1> QED
  BY <1>3, <1>6, <1>7, <1>8 DEF PushRelocation

\* At the end of the walk every marked object has its entry.
LEMMA ForwardDoneRefs ==
  ASSUME LayoutInv, ReferenceInv, ForwardDone
  PROVE  ReferenceInv'
<1>0. /\ pc = "forward" /\ pc' = "fix" /\ walk >= free /\ cursor = 0
      /\ UNCHANGED <<heap, free, frames, relocs, walk, cursor>>
      /\ MarksClosed /\ TableExact /\ TypeOK
  BY DEF ForwardDone, mutator, scratch, ReferenceInv, NotYetFixing, LayoutInv
<1>1. ASSUME NEW a \in DOMAIN heap
      PROVE  a < walk
  <2>1. a \in Nat /\ SizeAt(a) \in Nat /\ SizeAt(a) >= HeaderSize /\ a + SizeAt(a) <= free
    BY <1>0, SizeAtBound DEF LayoutInv, HeapTiled, TypeOK, Addresses
  <2>2. walk \in Nat /\ free \in Nat
    BY <1>0, RegionNat DEF TypeOK
  <2> QED
    BY <1>0, <2>1, <2>2, LayoutAssumption
<1>2. Reached \subseteq Unmoved
  BY <1>0, <1>1 DEF Reached, Unmoved, TableExact
<1>3. \A i \in DOMAIN relocs : relocs[i].old \in DOMAIN heap /\ heap[relocs[i].old].marked
  BY <1>0 DEF LayoutInv, UnslidIntact, TableExact
<1>4. SlotValues \subseteq Unmoved
      /\ \A i \in DOMAIN relocs : FieldValues(relocs[i].old) \subseteq Unmoved
  BY <1>0, <1>2, <1>3 DEF MarksClosed
<1>5. \A i \in DOMAIN relocs : ~(i < 0)
  BY <1>0, TableTyped
<1>6. SlotValues' = SlotValues /\ Unmoved' = Unmoved
      /\ \A i \in DOMAIN relocs : FieldValues(relocs[i].old)' = FieldValues(relocs[i].old)
  BY <1>0 DEF SlotValues, Unmoved, FieldValues
<1>7. FixFront'
  BY <1>0, <1>4, <1>5, <1>6 DEF FixFront
<1> QED
  BY <1>0, <1>7
     DEF ReferenceInv, NoStaleReference, NoLeftoverMarks, NoFault, NotYetFixing, MarkFrontier,
         MarksClosed, TableExact, MovedIntact

---------------------------------------------------------------------------
(***************************************************************************)
(* Fixing                                                                  *)
(***************************************************************************)

\* A reference to an object with an entry is moved, the others are kept.
LEMMA RelocatedMoved ==
  ASSUME LayoutInv, pc = "fix", NEW r \in Unmoved
  PROVE  /\ Managed(r) => HasDestination(r)
         /\ Relocated(r) \in Moved
<1>1. Unmoved \subseteq Live
  BY DEF Unmoved, Live, LayoutInv, UnslidIntact
<1>2. Managed(r) <=> r \in DOMAIN heap
  BY <1>1, ManagedLive
<1>3. CASE Managed(r)
  <2>1. r \notin Immortal
    BY <1>2, <1>3, HeapAssumption DEF Immortal, LayoutInv, TypeOK, Addresses
  <2>2. \E i \in DOMAIN relocs : relocs[i].old = r
    BY <2>1 DEF Unmoved
  <2>3. Destination(r) \in Moved
    BY <2>2 DEF Destination, Moved
  <2> QED
    BY <1>3, <2>2, <2>3 DEF HasDestination, Relocated
<1>4. CASE ~Managed(r)
  <2>1. r \in Immortal
    BY <1>2, <1>4 DEF Unmoved, LayoutInv, UnslidIntact
  <2> QED
    BY <1>4, <2>1 DEF Relocated, Moved
<1> QED
  BY <1>3, <1>4

LEMMA StillFixing ==
  ASSUME pc' \in {"fix", "slide"}, FixFront', MovedIntact'
  PROVE  ReferenceInv'
BY DEF ReferenceInv, NoStaleReference, NoLeftoverMarks, NoFault, NotYetFixing, MarkFrontier,
       MarksClosed, TableExact

LEMMA FixRootsRefs ==
  ASSUME LayoutInv, ReferenceInv, FixRoots
  PROVE  ReferenceInv'
<1>0. /\ pc = "fix" /\ cursor = 0 /\ UNCHANGED <<heap, relocs>> /\ FixFront /\ TypeOK
  BY DEF FixRoots, ReferenceInv, LayoutInv
<1>1. SlotValues \subseteq Unmoved
  BY <1>0 DEF FixFront
<1>2. AllForwarded(SlotValues)
  BY <1>0, <1>1, RelocatedMoved DEF AllForwarded
<1>3. /\ frames' = [f \in DOMAIN frames |-> [i \in DOMAIN frames[f] |-> Relocated(frames[f][i])]]
      /\ cursor' = 1 /\ pc' = "fix"
  BY <1>0, <1>2 DEF FixRoots
<1>4. Moved' = Moved /\ Unmoved' = Unmoved
      /\ \A i \in DOMAIN relocs : FieldValues(relocs[i].old)' = FieldValues(relocs[i].old)
  BY <1>0 DEF Moved, Unmoved, FieldValues
<1>5. ASSUME NEW f \in DOMAIN frames, NEW i \in DOMAIN frames[f]
      PROVE  Relocated(frames[f][i]) \in Moved
  <2>1. frames[f][i] \in Unmoved
    BY <1>1 DEF SlotValues
  <2> QED
    BY <1>0, <2>1, RelocatedMoved
<1>6. SlotValues' \subseteq Moved
  BY <1>3, <1>5 DEF SlotValues
<1>7. ASSUME NEW i \in DOMAIN relocs
      PROVE  ~(i < 1) /\ ~(i < 0)
  BY <1>0, TableTyped
<1>8. FixFront'
  BY <1>0, <1>3, <1>4, <1>6, <1>7 DEF FixFront
<1> QED
  BY <1>3, <1>8, StillFixing DEF MovedIntact

\* The fields of one survivor are rewritten where it lies; the others keep theirs.
LEMMA FixFieldsRefs ==
  ASSUME LayoutInv, ReferenceInv, FixFields
  PROVE  ReferenceInv'
<1> DEFINE a == relocs[cursor].old
<1>0. /\ pc = "fix" /\ cursor \in DOMAIN relocs /\ UNCHANGED <<frames, relocs>>
      /\ FixFront /\ TypeOK
  BY DEF FixFields, ReferenceInv, LayoutInv
<1>1. /\ Len(relocs) \in Nat /\ DOMAIN relocs = 1 .. Len(relocs)
      /\ \A i \in DOMAIN relocs : relocs[i].old \in Nat /\ relocs[i].size \in Nat
  BY <1>0, TableTyped
<1>2. a \in DOMAIN heap
  BY <1>0, <1>1 DEF LayoutInv, UnslidIntact
<1>3. FieldValues(a) \subseteq Unmoved
  BY <1>0, <1>1 DEF FixFront
<1>4. AllForwarded(FieldValues(a))
  BY <1>0, <1>3, RelocatedMoved DEF AllForwarded
<1>5. /\ heap' = [heap EXCEPT ![a].fields = [i \in DOMAIN @ |-> Relocated(@[i])]]
      /\ cursor' = cursor + 1 /\ pc' = "fix"
  BY <1>0, <1>4 DEF FixFields
<1>6. /\ DOMAIN heap' = DOMAIN heap
      /\ \A b \in DOMAIN heap : b # a => heap'[b] = heap[b]
      /\ heap'[a].fields = [i \in DOMAIN heap[a].fields |-> Relocated(heap[a].fields[i])]
  BY <1>0, <1>2, <1>5 DEF TypeOK, Object
<1>7. Moved' = Moved /\ Unmoved' = Unmoved /\ SlotValues' = SlotValues
  BY <1>0 DEF Moved, Unmoved, SlotValues
<1>8. ASSUME NEW i \in DOMAIN relocs
      PROVE  FieldValues(relocs[i].old)' \subseteq IF i < cursor + 1 THEN Moved ELSE Unmoved
  <2>1. CASE i = cursor
    <3>1. \A k \in DOMAIN heap[a].fields : heap[a].fields[k] \in Unmoved
      BY <1>3 DEF FieldValues
    <3>2. \A k \in DOMAIN heap[a].fields : Relocated(heap[a].fields[k]) \in Moved
      BY <1>0, <3>1, RelocatedMoved
    <3>3. relocs'[i].old = a
      BY <1>0, <2>1
    <3>4. FieldValues(relocs[i].old)' =
            {heap'[a].fields[k] : k \in DOMAIN heap'[a].fields}
      BY <3>3 DEF FieldValues
    <3>5. /\ DOMAIN heap'[a].fields = DOMAIN heap[a].fields
          /\ \A k \in DOMAIN heap[a].fields : heap'[a].fields[k] = Relocated(heap[a].fields[k])
      BY <1>6
    <3>6. FieldValues(relocs[i].old)' \subseteq Moved
      <4> HIDE DEF a
      <4> QED BY <3>2, <3>4, <3>5
    <3> QED
      BY <1>0, <1>1, <2>1, <3>6
  <2>2. CASE i # cursor
    <3>1. relocs[i].old # a
      <4>1. CASE i < cursor
        BY <1>0, <1>1, <4>1, LayoutAssumption DEF LayoutInv, TableOrdered
      <4>2. CASE cursor < i
        BY <1>0, <1>1, <4>2, LayoutAssumption, SMTT(30) DEF LayoutInv, TableOrdered
      <4> QED
        BY <1>0, <1>1, <2>2, <4>1, <4>2
    <3>2. relocs[i].old \in DOMAIN heap
      BY <1>0 DEF LayoutInv, UnslidIntact
    <3>3. FieldValues(relocs[i].old)' = FieldValues(relocs[i].old)
      BY <1>0, <1>6, <3>1, <3>2 DEF FieldValues
    <3>4. i < cursor + 1 <=> i < cursor
      BY <1>0, <1>1, <2>2
    <3> QED
      BY <1>0, <3>3, <3>4 DEF FixFront
  <2> QED
    BY <2>1, <2>2
<1>9. FixFront'
  <2>1. cursor # 0 /\ cursor + 1 # 0
    BY <1>0, <1>1
  <2> QED
    BY <1>0, <1>5, <1>7, <1>8, <2>1 DEF FixFront
<1> QED
  BY <1>5, <1>9, StillFixing DEF MovedIntact

LEMMA FixDoneRefs ==
  ASSUME LayoutInv, ReferenceInv, FixDone
  PROVE  ReferenceInv'
<1>0. /\ pc = "fix" /\ cursor > Len(relocs) /\ pc' = "slide" /\ cursor' = 1
      /\ UNCHANGED <<heap, frames, relocs>> /\ FixFront /\ TypeOK
  BY DEF FixDone, mutator, ReferenceInv, LayoutInv
<1>1. /\ cursor \in Nat /\ cursor # 0
      /\ \A i \in DOMAIN relocs : i < cursor /\ ~(i < 1)
  BY <1>0, TableTyped, SMTT(30) DEF TypeOK
<1>2. SlotValues' = SlotValues /\ Moved' = Moved
      /\ \A i \in DOMAIN relocs : FieldValues(relocs[i].old)' = FieldValues(relocs[i].old)
  BY <1>0 DEF SlotValues, Moved, FieldValues
<1>3. MovedIntact'
  BY <1>0, <1>1, <1>2 DEF FixFront, MovedIntact
<1> QED
  BY <1>0, <1>3, StillFixing DEF FixFront

---------------------------------------------------------------------------
(***************************************************************************)
(* Sliding                                                                 *)
(***************************************************************************)

\* A slide spares the survivors already slid and those still to be slid.
LEMMA SlideSpares ==
  ASSUME LayoutInv, SlideObject, NEW i \in DOMAIN relocs
  PROVE  /\ i < cursor => heap'[relocs[i].new] = heap[relocs[i].new]
         /\ cursor < i => heap'[relocs[i].old] = heap[relocs[i].old]
<1> DEFINE r == relocs[cursor]
<1>0. pc = "slide" /\ cursor \in DOMAIN relocs /\ TypeOK
  BY DEF SlideObject, LayoutInv
<1>1. /\ DOMAIN relocs = 1 .. Len(relocs) /\ cursor \in Nat /\ HeaderSize \in Nat \ {0}
      /\ \A j \in DOMAIN relocs :
           relocs[j].old \in Nat /\ relocs[j].new \in Nat /\ relocs[j].size \in Nat
  BY <1>0, TableTyped, LayoutAssumption DEF TypeOK
<1>2. r.old \in DOMAIN heap /\ r.size >= HeaderSize /\ r.new <= r.old
  BY <1>0, <1>1 DEF LayoutInv, UnslidIntact, TableOrdered
<1>3. heap' = [a \in (DOMAIN heap \ Overwritten(r.new, r.size)) \cup {r.new} |->
                 IF a = r.new THEN [heap[r.old] EXCEPT !.marked = FALSE] ELSE heap[a]]
  BY <1>0, <1>2 DEF SlideObject
<1>5. ASSUME NEW b \in DOMAIN heap, b # r.new, ~Overlap(b, SizeAt(b), r.new, r.size)
      PROVE  heap'[b] = heap[b]
  BY <1>3, <1>5 DEF Overwritten
<1>7. ASSUME i < cursor
      PROVE  heap'[relocs[i].new] = heap[relocs[i].new]
  <2>1. relocs[i].new \in DOMAIN heap /\ SizeAt(relocs[i].new) = relocs[i].size
    BY <1>0, <1>7 DEF LayoutInv, SlidPrefix
  <2>2. relocs[i].new + relocs[i].size <= r.new /\ relocs[i].size >= HeaderSize
    BY <1>0, <1>7 DEF LayoutInv, TableOrdered
  <2>3. /\ r.new \in Nat /\ r.size \in Nat
        /\ relocs[i].new \in Nat /\ relocs[i].size \in Nat /\ relocs[i].size > 0
    BY <1>0, <1>1, <2>2
  <2>4. relocs[i].new # r.new /\ ~Overlap(relocs[i].new, relocs[i].size, r.new, r.size)
    BY <2>2, <2>3 DEF Overlap
  <2> QED
    BY <1>5, <2>1, <2>4
<1>8. ASSUME cursor < i
      PROVE  heap'[relocs[i].old] = heap[relocs[i].old]
  <2>1. relocs[i].old \in DOMAIN heap /\ SizeAt(relocs[i].old) = relocs[i].size
    BY <1>0, <1>1, <1>8 DEF LayoutInv, UnslidIntact
  <2>2. r.old + r.size <= relocs[i].old
    BY <1>0, <1>8 DEF LayoutInv, TableOrdered
  <2>3. /\ r.old \in Nat /\ r.new \in Nat /\ r.size \in Nat
        /\ relocs[i].old \in Nat /\ relocs[i].size \in Nat
    BY <1>0, <1>1
  <2>4. r.new + r.size <= relocs[i].old /\ r.size > 0
    BY <1>1, <1>2, <2>2, <2>3, SMTT(30)
  <2>5. relocs[i].old # r.new /\ ~Overlap(relocs[i].old, relocs[i].size, r.new, r.size)
    BY <2>3, <2>4 DEF Overlap
  <2> QED
    BY <1>5, <2>1, <2>5
<1> QED
  BY <1>7, <1>8

\* A survivor copied down keeps its fields and loses its mark, and the copy
\* spares the survivors below and above it.
LEMMA SlideRefs ==
  ASSUME LayoutInv, ReferenceInv, SlideObject
  PROVE  ReferenceInv'
<1> DEFINE r == relocs[cursor]
<1>0. /\ pc = "slide" /\ cursor \in DOMAIN relocs /\ UNCHANGED <<frames, relocs>>
      /\ MovedIntact /\ TypeOK
  BY DEF SlideObject, ReferenceInv, LayoutInv
<1>1. /\ DOMAIN relocs = 1 .. Len(relocs) /\ cursor \in Nat /\ HeaderSize \in Nat \ {0}
      /\ \A i \in DOMAIN relocs :
           i \in Nat /\ relocs[i].old \in Nat /\ relocs[i].new \in Nat /\ relocs[i].size \in Nat
  <2>1. cursor \in Nat /\ HeaderSize \in Nat \ {0}
    BY <1>0, LayoutAssumption DEF TypeOK
  <2>2. Len(relocs) \in Nat /\ DOMAIN relocs = 1 .. Len(relocs)
    BY <1>0, TableTyped
  <2>3. \A i \in DOMAIN relocs :
          relocs[i].old \in Nat /\ relocs[i].new \in Nat /\ relocs[i].size \in Nat
    BY <1>0, TableTyped
  <2> QED
    BY <2>1, <2>2, <2>3
<1>2. r.old \in DOMAIN heap /\ r.size >= HeaderSize /\ r.new <= r.old
  BY <1>0, <1>1 DEF LayoutInv, UnslidIntact, TableOrdered
<1>3. /\ heap' = [a \in (DOMAIN heap \ Overwritten(r.new, r.size)) \cup {r.new} |->
                    IF a = r.new THEN [heap[r.old] EXCEPT !.marked = FALSE] ELSE heap[a]]
      /\ cursor' = cursor + 1 /\ pc' = "slide"
  BY <1>0, <1>2 DEF SlideObject
<1>4. heap'[r.new].fields = heap[r.old].fields /\ heap'[r.new].marked = FALSE
  BY <1>0, <1>2, <1>3 DEF TypeOK, Object
<1>6. Moved' = Moved /\ SlotValues' = SlotValues
  BY <1>0 DEF Moved, SlotValues
<1>7. ASSUME NEW i \in DOMAIN relocs, i < cursor
      PROVE  heap'[relocs[i].new] = heap[relocs[i].new]
  BY <1>7, SlideSpares
<1>8. ASSUME NEW i \in DOMAIN relocs, cursor < i
      PROVE  heap'[relocs[i].old] = heap[relocs[i].old]
  BY <1>8, SlideSpares
<1>9. ASSUME NEW i \in DOMAIN relocs, i < cursor + 1
      PROVE  FieldValues(relocs[i].new)' \subseteq Moved /\ ~heap'[relocs[i].new].marked
  <2>1. FieldValues(relocs[i].new)' =
          {heap'[relocs[i].new].fields[k] : k \in DOMAIN heap'[relocs[i].new].fields}
    BY <1>0 DEF FieldValues
  <2>2. CASE i = cursor
    <3>1. FieldValues(relocs[i].new)' = FieldValues(relocs[i].old)
      BY <1>4, <2>1, <2>2, ZenonT(30) DEF FieldValues
    <3> QED
      BY <1>0, <1>1, <1>4, <2>2, <3>1 DEF MovedIntact
  <2>3. CASE i < cursor
    <3>1. FieldValues(relocs[i].new)' = FieldValues(relocs[i].new)
      BY <1>7, <2>1, <2>3 DEF FieldValues
    <3> QED
      BY <1>0, <1>7, <2>3, <3>1 DEF MovedIntact
  <2> QED
    BY <1>1, <1>9, <2>2, <2>3
<1>10. ASSUME NEW i \in DOMAIN relocs, cursor + 1 <= i
       PROVE  FieldValues(relocs[i].old)' \subseteq Moved
  <2>1. cursor < i /\ cursor <= i
    BY <1>1, <1>10
  <2>2. FieldValues(relocs[i].old)' = FieldValues(relocs[i].old)
    BY <1>0, <1>8, <2>1 DEF FieldValues
  <2> QED
    BY <1>0, <2>1, <2>2 DEF MovedIntact
<1>11. MovedIntact'
  BY <1>0, <1>3, <1>6, <1>9, <1>10 DEF MovedIntact
<1> QED
  BY <1>3, <1>11, StillFixing DEF FixFront

\* What remains is the survivors, and whatever the slots and they refer to is
\* among them.
LEMMA CollectDoneRefs ==
  ASSUME LayoutInv, ReferenceInv, CollectDone
  PROVE  ReferenceInv'
<1>0. /\ pc = "slide" /\ cursor > Len(relocs) /\ UNCHANGED frames
      /\ heap' = Restrict(heap, {a \in DOMAIN heap : a < dest})
      /\ pc' \in {"run", "retry"}
      /\ MovedIntact /\ TypeOK
  BY DEF CollectDone, ReferenceInv, LayoutInv
<1>1. /\ cursor \in Nat /\ dest \in Nat /\ HeaderSize \in Nat \ {0}
      /\ \A i \in DOMAIN relocs :
           i < cursor /\ relocs[i].new \in Nat /\ relocs[i].size \in Nat
  <2>1. cursor \in Nat /\ dest \in Nat /\ HeaderSize \in Nat \ {0}
    BY <1>0, LayoutAssumption DEF TypeOK
  <2>2. Len(relocs) \in Nat /\ DOMAIN relocs = 1 .. Len(relocs)
    BY <1>0, TableTyped
  <2>3. \A i \in DOMAIN relocs : relocs[i].new \in Nat /\ relocs[i].size \in Nat
    BY <1>0, TableTyped
  <2>4. \A i \in DOMAIN relocs : i < cursor
    BY <1>0, <2>1, <2>2
  <2> QED
    BY <2>1, <2>3, <2>4
<1>2. /\ DOMAIN heap' = {a \in DOMAIN heap : a < dest}
      /\ \A a \in DOMAIN heap' : heap'[a] = heap[a]
  BY <1>0 DEF Restrict
<1>3. ASSUME NEW i \in DOMAIN relocs
      PROVE  relocs[i].new \in DOMAIN heap'
  <2>1. relocs[i].new \in DOMAIN heap
    BY <1>0, <1>1 DEF LayoutInv, SlidPrefix
  <2>2. relocs[i].new + relocs[i].size <= dest /\ relocs[i].size >= HeaderSize
    BY DEF LayoutInv, TableOrdered
  <2> QED
    BY <1>1, <1>2, <2>1, <2>2
<1>4. Moved \subseteq Live'
  BY <1>3 DEF Moved, Live, Immortal
<1>5. ASSUME NEW a \in DOMAIN heap'
      PROVE  FieldValues(a)' \subseteq Moved /\ ~heap'[a].marked
  <2>1. SlideFront = dest
    BY <1>0, <1>1 DEF SlideFront
  <2>2. PICK i \in DOMAIN relocs : i < cursor /\ relocs[i].new = a
    BY <1>0, <1>2, <2>1 DEF LayoutInv, SlidPrefix
  <2>3. FieldValues(a) \subseteq Moved /\ ~heap[a].marked
    BY <1>0, <2>2 DEF MovedIntact
  <2> QED
    BY <1>2, <2>3 DEF FieldValues
<1>6. SlotValues' \subseteq Moved
  BY <1>0 DEF MovedIntact, SlotValues
<1>7. NoStaleReference' /\ NoLeftoverMarks'
  BY <1>4, <1>5, <1>6 DEF NoStaleReference, NoLeftoverMarks, Live, Immortal
<1> QED
  BY <1>0, <1>7
     DEF ReferenceInv, NoFault, NotYetFixing, MarkFrontier, MarksClosed, TableExact, FixFront,
         MovedIntact

LEMMA RetryRefs ==
  ASSUME LayoutInv, ReferenceInv, AllocRetry
  PROVE  ReferenceInv'
<1>1. /\ TypeOK /\ request \in Request /\ RefsIn(Live)
      /\ \A a \in DOMAIN heap : ~heap[a].marked
  BY StaleRefs DEF AllocRetry, LayoutInv, TypeOK, ReferenceInv, NoLeftoverMarks
<1>2. CASE Fits(request) /\ Carve(request) /\ pc' = "run"
  BY <1>1, <1>2, CarveRefs, RunningRefs
<1>3. CASE pc' = "oom"
  BY <1>3, AfterExit
<1> QED
  BY <1>2, <1>3 DEF AllocRetry

---------------------------------------------------------------------------
(***************************************************************************)
(* The theorems                                                            *)
(***************************************************************************)

LEMMA ReferenceInvInductive == LayoutInv /\ ReferenceInv /\ [Next]_vars => ReferenceInv'
<1> SUFFICES ASSUME LayoutInv, ReferenceInv, [Next]_vars PROVE ReferenceInv'
  OBVIOUS
<1>1. CASE Mutator
  BY <1>1, MutatorRefs
<1>2. CASE Collector
  BY <1>2, MarkNextFrameRefs, MarkVisitRefs, MarkPopRefs, MarkDoneRefs, ForwardObjectRefs,
     ForwardDoneRefs, FixRootsRefs, FixFieldsRefs, FixDoneRefs, SlideRefs, CollectDoneRefs,
     RetryRefs
     DEF Collector
<1>3. CASE UNCHANGED vars
  <2>1. /\ UNCHANGED <<heap, free, frames, pc, nextFrame, relocs, walk, cursor>>
        /\ pending' = pending /\ worklist' = worklist
    BY <1>3 DEF vars, mutator, scratch
  <2>2. /\ SlotValues' = SlotValues /\ Live' = Live /\ Reached' = Reached
        /\ ToVisit' = ToVisit /\ ToScan' = ToScan /\ Unmoved' = Unmoved /\ Moved' = Moved
    BY <2>1 DEF SlotValues, Live, Reached, ToVisit, ToScan, Unmoved, Moved
  <2>3. /\ \A a \in DOMAIN heap : FieldValues(a)' = FieldValues(a)
        /\ \A i \in DOMAIN relocs : /\ FieldValues(relocs[i].old)' = FieldValues(relocs[i].old)
                                    /\ FieldValues(relocs[i].new)' = FieldValues(relocs[i].new)
    BY <2>1 DEF FieldValues
  <2>4. NoStaleReference' /\ NoLeftoverMarks' /\ NoFault' /\ NotYetFixing'
    BY <2>1, <2>2, <2>3
       DEF ReferenceInv, NoStaleReference, NoLeftoverMarks, NoFault, NotYetFixing
  <2>5. MarkFrontier' /\ MarksClosed' /\ TableExact'
    BY <2>1, <2>2, <2>3 DEF ReferenceInv, MarkFrontier, MarksClosed, TableExact
  <2>6. FixFront' /\ MovedIntact'
    BY <2>1, <2>2, <2>3 DEF ReferenceInv, FixFront, MovedIntact
  <2> QED
    BY <2>4, <2>5, <2>6 DEF ReferenceInv
<1> QED
  BY <1>1, <1>2, <1>3 DEF Next, Exited

LEMMA ReferenceInvInit == Init => ReferenceInv
BY DEF Init, ReferenceInv, NoStaleReference, NoLeftoverMarks, NoFault, NotYetFixing,
       MarkFrontier, MarksClosed, TableExact, FixFront, MovedIntact, SlotValues, FieldValues

LEMMA ReferencesHold == Spec => []ReferenceInv
<1>1. Init => LayoutInv /\ ReferenceInv
  BY LayoutInvInit, ReferenceInvInit
<1>2. LayoutInv /\ ReferenceInv /\ [Next]_vars => LayoutInv' /\ ReferenceInv'
  BY LayoutInvInductive, ReferenceInvInductive
<1> QED
  BY <1>1, <1>2, PTL DEF Spec

\* No slot and no field, of garbage neither, ever refers to where an object used
\* to be once a collection is over.
THEOREM ReferencesCurrent == Spec => []NoStaleReference
<1>1. ReferenceInv => NoStaleReference
  BY DEF ReferenceInv
<1> QED
  BY <1>1, ReferencesHold, PTL

\* The collector never reads memory where no object starts, and neither its
\* assert nor its `expect` ever fires.
THEOREM CollectorSafe == Spec => []NoFault
<1>1. ReferenceInv => NoFault
  BY DEF ReferenceInv
<1> QED
  BY <1>1, ReferencesHold, PTL

\* A collection leaves no mark behind.
THEOREM MarksCleared == Spec => []NoLeftoverMarks
<1>1. ReferenceInv => NoLeftoverMarks
  BY DEF ReferenceInv
<1> QED
  BY <1>1, ReferencesHold, PTL

---------------------------------------------------------------------------
(***************************************************************************)
(* The side tables reserved at heap_init suffice: an entry of either       *)
(* stands for an object, and objects are at least a header apart.          *)
(***************************************************************************)

LEMMA CellNat ==
  ASSUME NEW x \in Nat
  PROVE  x \div HeaderSize \in Nat
<1>1. HeaderSize \in Nat /\ HeaderSize > 0
  BY LayoutAssumption
<1> QED
  BY <1>1

LEMMA CapacityNat == ScratchCapacity \in Nat
BY CellNat, RegionNat DEF ScratchCapacity

LEMMA NotFull ==
  ASSUME NEW k \in Nat, k + 1 <= ScratchCapacity
  PROVE  k # ScratchCapacity
BY CapacityNat

\* Positions a header apart lie in different cells of that size.
LEMMA CellsDiffer ==
  ASSUME NEW x \in Nat, NEW y \in Nat, x + HeaderSize <= y
  PROVE  x \div HeaderSize < y \div HeaderSize
<1> DEFINE H == HeaderSize
           q == x \div H
           r == y \div H
<1>1. H \in Nat /\ H > 0
  BY LayoutAssumption
<1>2. /\ q \in Nat /\ r \in Nat
      /\ x % H \in 0 .. (H - 1) /\ y % H \in 0 .. (H - 1)
  BY <1>1
<1>3. x = (H * q) + (x % H) /\ y = (H * r) + (y % H)
  BY <1>1
<1>4. ASSUME q >= r
      PROVE  FALSE
  <2>1. q - r \in Nat
    BY <1>2, <1>4
  <2>2. H * (q - r) \in Nat
    BY <1>1, <2>1
  <2>3. H * (q - r) = (H * q) - (H * r)
    BY <1>1, <1>2
  <2>4. H * q \in Nat /\ H * r \in Nat
    BY <1>1, <1>2
  <2> HIDE DEF q, r
  <2> QED
    BY <1>1, <1>2, <1>3, <2>2, <2>3, <2>4
<1> QED
  BY <1>2, <1>4

\* So a list of positions a header apart inside the region fits a side table.
LEMMA Capacity ==
  ASSUME NEW n \in Nat, NEW at \in [1 .. n -> Nat],
         \A i \in 1 .. n : at[i] + HeaderSize <= Region,
         \A i, j \in 1 .. n : i # j =>
           at[i] + HeaderSize <= at[j] \/ at[j] + HeaderSize <= at[i]
  PROVE  n <= ScratchCapacity
<1> DEFINE cell == [i \in 1 .. n |-> at[i] \div HeaderSize]
           Cells == 0 .. (ScratchCapacity - 1)
<1>1. HeaderSize \in Nat /\ HeaderSize > 0 /\ Region \in Nat
  BY LayoutAssumption, RegionNat
<1>2. ScratchCapacity \in Nat
  BY CapacityNat
<1>3. ASSUME NEW i \in 1 .. n
      PROVE  at[i] \div HeaderSize \in Cells
  <2>1. at[i] \in Nat
    OBVIOUS
  <2>2. at[i] \div HeaderSize \in Nat
    BY <2>1, CellNat
  <2>3. at[i] \div HeaderSize < Region \div HeaderSize
    BY <1>1, <2>1, CellsDiffer
  <2> QED
    BY <1>2, <2>2, <2>3 DEF ScratchCapacity
<1>4. cell \in [1 .. n -> Cells]
  BY <1>3
<1>5. ASSUME NEW i \in 1 .. n, NEW j \in 1 .. n, i # j
      PROVE  cell[i] # cell[j]
  <2>1. at[i] \in Nat /\ at[j] \in Nat
    OBVIOUS
  <2>2. at[i] \div HeaderSize < at[j] \div HeaderSize \/ at[j] \div HeaderSize < at[i] \div HeaderSize
    BY <1>5, <2>1, CellsDiffer
  <2>3. at[i] \div HeaderSize \in Nat /\ at[j] \div HeaderSize \in Nat
    BY <2>1, CellNat
  <2> QED
    BY <2>2, <2>3
<1>6. IsFiniteSet(1 .. n) /\ Cardinality(1 .. n) = n
  BY FS_Interval
<1>7. IsFiniteSet(Cells) /\ Cardinality(Cells) = ScratchCapacity
  BY <1>2, FS_Interval
<1>8. ~(Cardinality(Cells) < Cardinality(1 .. n))
  <2> HIDE DEF cell, Cells
  <2> QED
    BY <1>4, <1>5, <1>6, <1>7, FS_PigeonHole
<1> QED
  BY <1>2, <1>6, <1>7, <1>8

\* Two objects are at least a header apart.
LEMMA ObjectsApart ==
  ASSUME HeapTiled, TypeOK, pc = "mark", NEW a \in DOMAIN heap, NEW b \in DOMAIN heap
  PROVE  /\ a \in Nat /\ a + HeaderSize <= Region
         /\ a # b => a + HeaderSize <= b \/ b + HeaderSize <= a
<1>1. /\ a \in Nat /\ SizeAt(a) \in Nat /\ SizeAt(a) >= HeaderSize /\ a + SizeAt(a) <= free
      /\ b \in Nat /\ SizeAt(b) \in Nat /\ SizeAt(b) >= HeaderSize
  BY SizeAtBound DEF HeapTiled, TypeOK, Addresses
<1>2. free \in Nat /\ free <= Region /\ Region \in Nat /\ HeaderSize \in Nat
  BY RegionNat, LayoutAssumption DEF TypeOK
<1>3. a # b => ~Overlap(a, SizeAt(a), b, SizeAt(b))
  BY DEF HeapTiled
<1> QED
  BY <1>1, <1>2, <1>3 DEF Overlap

\* The worklist has room for an object that is not on it yet.
LEMMA WorklistRoom ==
  ASSUME LayoutInv, WorklistOnce, pc = "mark",
         NEW a \in DOMAIN heap, ~heap[a].marked
  PROVE  Len(worklist) # ScratchCapacity
<1> DEFINE n == Len(worklist) + 1
           at == [i \in 1 .. n |-> IF i = n THEN a ELSE worklist[i]]
<1>1. worklist \in Seq(Addresses) /\ n \in Nat /\ DOMAIN worklist = 1 .. Len(worklist)
      /\ Len(worklist) \in Nat
  BY DEF LayoutInv, TypeOK
<1>2. ASSUME NEW i \in 1 .. n
      PROVE  at[i] \in DOMAIN heap /\ (i # n => i \in DOMAIN worklist /\ at[i] = worklist[i])
  BY <1>1 DEF LayoutInv, WorklistInHeap
<1>3. ASSUME NEW i \in 1 .. n, NEW j \in 1 .. n, i # j
      PROVE  at[i] # at[j]
  BY <1>1, <1>2, <1>3 DEF WorklistOnce
<1>4. n <= ScratchCapacity
  <2>1. \A i \in 1 .. n : at[i] \in Nat /\ at[i] + HeaderSize <= Region
    BY <1>2, ObjectsApart DEF LayoutInv
  <2>2. \A i, j \in 1 .. n : i # j =>
          at[i] + HeaderSize <= at[j] \/ at[j] + HeaderSize <= at[i]
    BY <1>2, <1>3, ObjectsApart DEF LayoutInv
  <2>3. at \in [1 .. n -> Nat]
    BY <2>1
  <2> HIDE DEF n, at
  <2> QED
    BY <1>1, <2>1, <2>2, <2>3, Capacity
<1> QED
  BY <1>1, <1>4, NotFull

\* The relocation table has room for the object the walk stands on.
LEMMA RelocationRoom ==
  ASSUME LayoutInv, pc = "forward", walk \in DOMAIN heap
  PROVE  Len(relocs) # ScratchCapacity
<1> DEFINE n == Len(relocs) + 1
           at == [i \in 1 .. n |-> IF i = n THEN walk ELSE relocs[i].old]
<1>1. Len(relocs) \in Nat /\ n \in Nat /\ DOMAIN relocs = 1 .. Len(relocs)
  BY TableTyped DEF LayoutInv
<1>2. /\ walk \in Nat /\ SizeAt(walk) \in Nat /\ SizeAt(walk) >= HeaderSize
      /\ walk + SizeAt(walk) <= free /\ free \in Nat /\ free <= Region
      /\ Region \in Nat /\ HeaderSize \in Nat
  BY SizeAtBound, RegionNat, LayoutAssumption, SMTT(30) DEF LayoutInv, HeapTiled, TypeOK, Addresses
<1>3. ASSUME NEW i \in DOMAIN relocs
      PROVE  /\ relocs[i].old \in Nat /\ relocs[i].size \in Nat
             /\ relocs[i].old + HeaderSize <= walk
             /\ \A j \in DOMAIN relocs : i < j => relocs[i].old + HeaderSize <= relocs[j].old
  <2>1. /\ relocs[i].old \in Nat /\ relocs[i].size \in Nat
        /\ \A j \in DOMAIN relocs : relocs[j].old \in Nat
    BY TableTyped DEF LayoutInv
  <2>2. /\ relocs[i].size >= HeaderSize
        /\ relocs[i].old + relocs[i].size <= walk
        /\ \A j \in DOMAIN relocs : i < j => relocs[i].old + relocs[i].size <= relocs[j].old
    BY DEF LayoutInv, TableOrdered
  <2> QED
    BY <1>2, <2>1, <2>2
<1>4. ASSUME NEW i \in 1 .. n
      PROVE  /\ at[i] \in Nat /\ at[i] + HeaderSize <= Region
             /\ \A j \in 1 .. n : i < j => at[i] + HeaderSize <= at[j]
  <2>1. CASE i = n
    BY <1>1, <1>2, <2>1
  <2>2. CASE i # n
    <3>1. i \in DOMAIN relocs /\ at[i] = relocs[i].old
      BY <1>1, <2>2
    <3>2. \A j \in 1 .. n : at[j] = walk \/ (j \in DOMAIN relocs /\ at[j] = relocs[j].old)
      BY <1>1
    <3>3. /\ at[i] \in Nat /\ at[i] + HeaderSize <= walk
          /\ \A j \in DOMAIN relocs : i < j => at[i] + HeaderSize <= relocs[j].old
      BY <1>3, <3>1
    <3>4. at[i] + HeaderSize <= Region
      <4> HIDE DEF at
      <4> QED
        BY <1>2, <3>3
    <3> HIDE DEF at, n
    <3> QED
      BY <3>2, <3>3, <3>4
  <2> QED
    BY <2>1, <2>2
<1>6. n <= ScratchCapacity
  <2>1. at \in [1 .. n -> Nat]
    BY <1>4
  <2>2. \A i, j \in 1 .. n : i # j =>
          at[i] + HeaderSize <= at[j] \/ at[j] + HeaderSize <= at[i]
    <3>1. \A i, j \in 1 .. n : i # j => i < j \/ j < i
      BY <1>1
    <3> HIDE DEF n, at
    <3> QED
      BY <1>4, <3>1
  <2> HIDE DEF n, at
  <2> QED
    BY <1>1, <1>4, <2>1, <2>2, Capacity
<1> QED
  BY <1>1, <1>6, NotFull

---------------------------------------------------------------------------
LEMMA WorklistOnceInductive == LayoutInv /\ WorklistOnce /\ [Next]_vars => WorklistOnce'
<1> SUFFICES ASSUME LayoutInv, WorklistOnce, [Next]_vars, pc' = "mark"
             PROVE  /\ \A i \in DOMAIN worklist' : heap'[worklist'[i]].marked
                    /\ \A i, j \in DOMAIN worklist' : worklist'[i] = worklist'[j] => i = j
  BY DEF WorklistOnce
<1>1. CASE \E req \in {NoRequest} \cup Request : StartCollection(req)
  BY <1>1 DEF StartCollection
<1>2. CASE pc = "mark" /\ UNCHANGED <<heap, worklist>>
  BY <1>2 DEF WorklistOnce
<1>3. CASE MarkVisit
  <2>1. CASE UNCHANGED <<heap, worklist>>
    BY <1>2, <1>3, <2>1 DEF MarkVisit
  <2>2. CASE ~UNCHANGED <<heap, worklist>>
    <3> DEFINE a == Head(pending)
    <3>1. pc = "mark" /\ a \in DOMAIN heap /\ ~heap[a].marked /\ Enqueue(a)
      BY <1>3, <2>2 DEF MarkVisit
    <3> HIDE DEF a
    <3>2. worklist' = Append(worklist, a) /\ heap' = [heap EXCEPT ![a].marked = TRUE]
      BY <3>1 DEF Enqueue
    <3>3. worklist \in Seq(Addresses) /\ DOMAIN worklist = 1 .. Len(worklist)
          /\ Len(worklist) \in Nat /\ a \in Addresses
          /\ heap \in [DOMAIN heap -> Object]
      BY <3>1 DEF LayoutInv, TypeOK
    <3>4. \A i \in DOMAIN worklist :
            worklist[i] \in DOMAIN heap /\ heap[worklist[i]].marked /\ worklist[i] # a
      BY <3>1 DEF WorklistOnce, LayoutInv, WorklistInHeap
    <3>5. /\ DOMAIN worklist' = 1 .. (Len(worklist) + 1)
          /\ \A i \in DOMAIN worklist : worklist'[i] = worklist[i]
          /\ worklist'[Len(worklist) + 1] = a
      BY <3>2, <3>3
    <3>6. heap'[a].marked /\ \A b \in DOMAIN heap \ {a} : heap'[b] = heap[b]
      <4>1. heap[a] \in Object
        BY <3>1, <3>3
      <4> QED
        BY <3>1, <3>2, <4>1 DEF Object
    <3>7. \A i \in DOMAIN worklist' : heap'[worklist'[i]].marked
      BY <3>3, <3>4, <3>5, <3>6
    <3>8. \A i, j \in DOMAIN worklist' : worklist'[i] = worklist'[j] => i = j
      BY <3>1, <3>3, <3>4, <3>5 DEF WorklistOnce
    <3> QED
      BY <3>7, <3>8
  <2> QED
    BY <2>1, <2>2
<1>4. CASE MarkPop
  <2>1. /\ worklist \in Seq(Addresses) /\ worklist # <<>> /\ pc = "mark"
        /\ worklist' = SubSeq(worklist, 1, Len(worklist) - 1) /\ heap' = heap
    BY <1>4 DEF MarkPop, LayoutInv, TypeOK, mutator
  <2>2. /\ DOMAIN worklist' \subseteq DOMAIN worklist
        /\ \A i \in DOMAIN worklist' : worklist'[i] = worklist[i]
    BY <2>1
  <2> QED
    BY <2>1, <2>2 DEF WorklistOnce
<1>5. CASE MarkNextFrame
  BY <1>2, <1>5 DEF MarkNextFrame, mutator
<1>6. CASE UNCHANGED vars
  BY <1>2, <1>6 DEF vars, mutator, scratch
<1>7. CASE LoAlloc
  BY <1>7 DEF LoAlloc, StartCollection
<1>8. CASE LoGcCollect
  BY <1>8 DEF LoGcCollect, StartCollection
<1>9. CASE PushFrame \/ PopFrame \/ RootStore \/ WriteBarrier \/ MarkDone \/ AllocRetry
  BY <1>9 DEF PushFrame, PopFrame, RootStore, WriteBarrier, MarkDone, AllocRetry
<1>10. CASE ForwardObject \/ ForwardDone
  BY <1>10 DEF ForwardObject, ForwardDone, PushRelocation
<1>11. CASE FixRoots \/ FixFields \/ FixDone
  BY <1>11 DEF FixRoots, FixFields, FixDone
<1>12. CASE SlideObject \/ CollectDone
  BY <1>12 DEF SlideObject, CollectDone
<1> QED
  BY <1>3, <1>4, <1>5, <1>6, <1>7, <1>8, <1>9, <1>10, <1>11, <1>12
     DEF Next, Mutator, Collector, Exited

LEMMA OomStep ==
  LayoutInv /\ WorklistOnce /\ [Next]_vars => [pc' = "oom" => pc \in {"retry", "oom"}]_vars
<1> SUFFICES ASSUME LayoutInv, WorklistOnce, Next, pc' = "oom"
             PROVE  pc \in {"retry", "oom"}
  OBVIOUS
<1>1. CASE MarkVisit
  <2>1. pc = "mark" /\ Head(pending) \in DOMAIN heap /\ ~heap[Head(pending)].marked
        /\ Len(worklist) = ScratchCapacity
    BY <1>1 DEF MarkVisit, Enqueue
  <2> QED
    BY <2>1, WorklistRoom
<1>2. CASE ForwardObject
  <2>1. pc = "forward" /\ walk \in DOMAIN heap /\ Len(relocs) = ScratchCapacity
    BY <1>2 DEF ForwardObject, PushRelocation
  <2> QED
    BY <2>1, RelocationRoom
<1>3. CASE Mutator
  BY <1>3 DEF Mutator, PushFrame, PopFrame, RootStore, WriteBarrier, LoAlloc, LoGcCollect,
              StartCollection
<1>4. CASE MarkNextFrame \/ MarkPop \/ MarkDone \/ ForwardDone
  BY <1>4 DEF MarkNextFrame, MarkPop, MarkDone, ForwardDone
<1>5. CASE FixRoots \/ FixFields \/ FixDone
  BY <1>5 DEF FixRoots, FixFields, FixDone
<1>6. CASE SlideObject \/ CollectDone
  BY <1>6 DEF SlideObject, CollectDone
<1>7. CASE AllocRetry \/ Exited
  BY <1>7 DEF AllocRetry, Exited
<1> QED
  BY <1>1, <1>2, <1>3, <1>4, <1>5, <1>6, <1>7 DEF Next, Collector

\* A program is refused memory only by the retry of an allocation after a full
\* collection: neither side table, reserved at heap_init and never grown, fills up.
THEOREM TablesSuffice == Spec => OomOnlyAfterRetry
<1>1. Init => LayoutInv /\ WorklistOnce
  BY LayoutInvInit DEF Init, WorklistOnce
<1>2. LayoutInv /\ WorklistOnce /\ [Next]_vars => LayoutInv' /\ WorklistOnce'
  BY LayoutInvInductive, WorklistOnceInductive
<1> QED
  BY <1>1, <1>2, OomStep, PTL DEF Spec, OomOnlyAfterRetry

---------------------------------------------------------------------------
(***************************************************************************)
(* MarkCompact implements ManagedHeap                                      *)
(***************************************************************************)

\* The mapping's view of one object.
Content(a) == [class |-> heap[a].class, len |-> heap[a].len, fields |-> FieldIdentities(a)]

\* Payloads tell objects apart, so an object is the holder of its payload.
LEMMA HolderIs ==
  ASSUME PayloadsDistinct, NEW a \in Extant
  PROVE  Holder(heap[a].payload) = a
<1>1. Holder(heap[a].payload) \in Extant
      /\ heap[Holder(heap[a].payload)].payload = heap[a].payload
  BY DEF Holder
<1> QED BY <1>1 DEF PayloadsDistinct

\* The graph at an object's payload is that object.
LEMMA GraphAt ==
  ASSUME PayloadsDistinct
  PROVE  /\ DOMAIN Graph = {heap[a].payload : a \in Extant}
         /\ \A a \in Extant : Graph[heap[a].payload] = Content(a)
         /\ Graph = [p \in DOMAIN Graph |-> Graph[p]]
<1>1. /\ DOMAIN Graph = {heap[a].payload : a \in Extant}
      /\ Graph = [p \in DOMAIN Graph |-> Graph[p]]
  BY DEF Graph
<1>2. ASSUME NEW a \in Extant
      PROVE  Graph[heap[a].payload] = Content(a)
  <2>1. Holder(heap[a].payload) = a
    BY HolderIs
  <2>2. heap[a].payload \in {heap[b].payload : b \in Extant}
    OBVIOUS
  <2>3. Graph[heap[a].payload] =
          [class |-> heap[Holder(heap[a].payload)].class,
           len |-> heap[Holder(heap[a].payload)].len,
           fields |-> FieldIdentities(Holder(heap[a].payload))]
    BY <2>2 DEF Graph
  <2> QED BY <2>1, <2>3 DEF Content
<1> QED BY <1>1, <1>2

\* The graph is the same when every object has a counterpart in the next state.
LEMMA GraphKept ==
  ASSUME PayloadsDistinct, PayloadsDistinct',
         \A a \in Extant : \E b \in Extant' :
           heap'[b].payload = heap[a].payload /\ Content(b)' = Content(a),
         \A b \in Extant' : \E a \in Extant : heap'[b].payload = heap[a].payload
  PROVE  Graph' = Graph
<1>1. /\ DOMAIN Graph = {heap[a].payload : a \in Extant}
      /\ \A a \in Extant : Graph[heap[a].payload] = Content(a)
      /\ Graph = [p \in DOMAIN Graph |-> Graph[p]]
  BY GraphAt
<1>2. /\ DOMAIN Graph' = {heap'[a].payload : a \in Extant'}
      /\ \A a \in Extant' : Graph'[heap'[a].payload] = Content(a)'
      /\ Graph' = [p \in DOMAIN Graph' |-> Graph'[p]]
  <2>1. (PayloadsDistinct => /\ DOMAIN Graph = {heap[a].payload : a \in Extant}
                             /\ \A a \in Extant : Graph[heap[a].payload] = Content(a)
                             /\ Graph = [p \in DOMAIN Graph |-> Graph[p]])'
    BY GraphAt, PTL
  <2> QED BY <2>1
<1>3. DOMAIN Graph' = DOMAIN Graph
  BY <1>1, <1>2
<1>4. ASSUME NEW p \in DOMAIN Graph PROVE Graph'[p] = Graph[p]
  <2>1. PICK a \in Extant : p = heap[a].payload
    BY <1>1
  <2>2. PICK b \in Extant' : heap'[b].payload = heap[a].payload /\ Content(b)' = Content(a)
    BY <2>1
  <2> QED BY <1>1, <1>2, <2>1, <2>2
<1> QED BY <1>1, <1>2, <1>3, <1>4

\* The roots of the graph are the same when every slot means what it meant.
LEMMA RootGraphKept ==
  ASSUME DOMAIN frames' = DOMAIN frames,
         \A f \in DOMAIN frames :
           /\ DOMAIN frames'[f] = DOMAIN frames[f]
           /\ \A i \in DOMAIN frames[f] :
                Identity(frames[f][i], RootsFixed)' = Identity(frames[f][i], RootsFixed)
  PROVE  RootGraph' = RootGraph
BY DEF RootGraph

\* What a reference means as long as it has not been rewritten.
Plain(r) == IF r \in DOMAIN heap THEN heap[r].payload ELSE r

\* Before anything is rewritten, an identity is just the payload at the address.
LEMMA PlainIdentity ==
  ASSUME NEW r PROVE Identity(r, FALSE) = Plain(r)
BY DEF Identity, Target, Plain

\* Graph and roots as long as no reference has been rewritten.
LEMMA Unfixed ==
  ASSUME pc \notin {"fix", "slide"} \/ (pc = "fix" /\ cursor = 0), TypeOK
  PROVE  /\ RootsFixed = FALSE
         /\ \A a : FieldsFixed(a) = FALSE
         /\ RootGraph = [f \in DOMAIN frames |->
                           [i \in DOMAIN frames[f] |-> Plain(frames[f][i])]]
         /\ \A a : FieldIdentities(a) = [i \in DOMAIN heap[a].fields |-> Plain(heap[a].fields[i])]
<1>1. RootsFixed = FALSE
  BY DEF RootsFixed
<1>2. \A a : FieldsFixed(a) = FALSE
  <2>1. \A i \in DOMAIN relocs : i \in Nat /\ ~(i < 0)
    BY TableTyped
  <2> QED BY <2>1 DEF FieldsFixed
<1>3. RootGraph = [f \in DOMAIN frames |->
                     [i \in DOMAIN frames[f] |-> Plain(frames[f][i])]]
  BY <1>1, PlainIdentity DEF RootGraph
<1>4. \A a : FieldIdentities(a) = [i \in DOMAIN heap[a].fields |-> Plain(heap[a].fields[i])]
  BY <1>2, PlainIdentity DEF FieldIdentities
<1> QED BY <1>1, <1>2, <1>3, <1>4

---------------------------------------------------------------------------
(*************************************************************************)
(* The inductive invariant, and what leaves the graph as it is           *)
(*************************************************************************)
\* What the proofs above establish, all that the refinement needs of the memory.
MemoryInv == LayoutInv /\ ReferenceInv /\ WorklistOnce

\* No reference has been rewritten.
Unfixing == pc \notin {"fix", "slide"} \/ (pc = "fix" /\ cursor = 0)

\* Neither the graph nor what has been said of it changes.
Stutters == UNCHANGED <<Graph, RootGraph, Status>>

\* Reachability depends on the graph and its roots alone.
LEMMA ReachableKept ==
  ASSUME UNCHANGED <<Graph, RootGraph>>
  PROVE  Abstract!Reachable' = Abstract!Reachable
BY DEF Abstract!Reachable, Abstract!Closed, Abstract!FieldValues, Abstract!SlotValues

\* Outside the last three phases every object of the heap exists.
LEMMA ExtantAll ==
  ASSUME pc \notin {"forward", "fix", "slide"}
  PROVE  Extant = DOMAIN heap
BY DEF Extant

\* Steps that move nothing and rewrite no reference.
LEMMA StillUnfixed ==
  ASSUME TypeOK, TypeOK', Unfixing, Unfixing', frames' = frames,
         DOMAIN heap' = DOMAIN heap, Extant' = Extant, PayloadsDistinct,
         \A a \in DOMAIN heap :
           /\ heap'[a].class = heap[a].class /\ heap'[a].len = heap[a].len
           /\ heap'[a].fields = heap[a].fields /\ heap'[a].payload = heap[a].payload
  PROVE  PayloadsDistinct' /\ UNCHANGED <<Graph, RootGraph>>
<1>1. \A a : FieldIdentities(a) = [i \in DOMAIN heap[a].fields |-> Plain(heap[a].fields[i])]
  BY Unfixed DEF Unfixing
<1>2. \A a : FieldIdentities(a)' = [i \in DOMAIN heap'[a].fields |-> Plain(heap[a].fields[i])']
  <2>1. (TypeOK /\ Unfixing =>
           \A a : FieldIdentities(a) = [i \in DOMAIN heap[a].fields |-> Plain(heap[a].fields[i])])'
    BY Unfixed, PTL DEF Unfixing
  <2> QED BY <2>1
<1>3. Extant \subseteq DOMAIN heap
  BY DEF Extant
<1>4. PayloadsDistinct'
  BY <1>3 DEF PayloadsDistinct
<1>5. \A r : Plain(r)' = Plain(r)
  BY DEF Plain
<1>6. \A a \in Extant : heap'[a].payload = heap[a].payload /\ Content(a)' = Content(a)
  BY <1>1, <1>2, <1>3, <1>5 DEF Content
<1>7. Graph' = Graph
  BY <1>4, <1>6, GraphKept
<1>8. RootGraph' = RootGraph
  <2>1. RootGraph = [f \in DOMAIN frames |-> [i \in DOMAIN frames[f] |-> Plain(frames[f][i])]]
    BY Unfixed DEF Unfixing
  <2>2. RootGraph' = [f \in DOMAIN frames' |-> [i \in DOMAIN frames'[f] |-> Plain(frames[f][i])']]
    <3>1. (TypeOK /\ Unfixing =>
             RootGraph = [f \in DOMAIN frames |-> [i \in DOMAIN frames[f] |-> Plain(frames[f][i])]])'
      BY Unfixed, PTL DEF Unfixing
    <3> QED BY <3>1
  <2> QED BY <1>5, <2>1, <2>2
<1> QED BY <1>4, <1>7, <1>8

\* A collection starts: nothing is marked and nothing pending.
LEMMA StartGraph ==
  ASSUME MemoryInv, MemoryInv', GraphInv, pc = "run", NEW req, StartCollection(req),
         \/ req = NoRequest
         \/ req \in Request /\ req.slot \in Slots /\ req.len \in Lengths(req.class)
  PROVE  Stutters /\ GraphInv'
<1>1. /\ UNCHANGED <<heap, free, frames>> /\ pc' = "mark" /\ pending' = <<>> /\ request' = req
      /\ TypeOK /\ TypeOK' /\ PayloadsDistinct
  BY DEF StartCollection, MemoryInv, LayoutInv, GraphInv, mutator
<1>2. Extant = DOMAIN heap /\ Extant' = DOMAIN heap
  BY <1>1 DEF Extant
<1>3. PayloadsDistinct' /\ UNCHANGED <<Graph, RootGraph>>
  BY <1>1, <1>2, StillUnfixed DEF Unfixing
<1>4. Status' = Status
  BY <1>1 DEF Status, Faults
<1>5. MarkedReachable'
  <2>1. \A a \in DOMAIN heap : ~heap[a].marked
    BY DEF MemoryInv, ReferenceInv, NoLeftoverMarks
  <2>2. ToVisit' = {}
    BY <1>1 DEF ToVisit
  <2> QED BY <1>1, <2>1, <2>2 DEF MarkedReachable
<1>6. RequestKept'
  BY <1>1 DEF RequestKept, Slots, Lengths
<1>7. SurvivorsReachable' /\ FixTable'
  BY <1>1 DEF SurvivorsReachable, FixTable
<1> QED BY <1>3, <1>4, <1>5, <1>6, <1>7 DEF GraphInv, Stutters

\* What is reachable in the graph: the roots, and what a reachable object refers to.
LEMMA ReachableClosed ==
  /\ Abstract!SlotValues \cap DOMAIN Graph \subseteq Abstract!Reachable
  /\ \A p \in Abstract!Reachable : Abstract!FieldValues(p) \cap DOMAIN Graph \subseteq Abstract!Reachable
<1>1. ASSUME NEW p \in Abstract!Reachable, NEW q \in Abstract!FieldValues(p) \cap DOMAIN Graph
      PROVE  q \in Abstract!Reachable
  <2> SUFFICES ASSUME NEW S \in SUBSET DOMAIN Graph,
                      Abstract!SlotValues \cap DOMAIN Graph \subseteq S, Abstract!Closed(S)
               PROVE  q \in S
    BY DEF Abstract!Reachable
  <2>1. p \in S
    BY DEF Abstract!Reachable
  <2> QED BY <2>1 DEF Abstract!Closed
<1>2. Abstract!SlotValues \cap DOMAIN Graph \subseteq Abstract!Reachable
  BY DEF Abstract!Reachable
<1> QED BY <1>1, <1>2

\* The objects root slots and the fields of reachable objects refer to are reachable.
LEMMA RootsReachable ==
  ASSUME TypeOK, Unfixing, PayloadsDistinct, NEW f \in DOMAIN frames, NEW i \in DOMAIN frames[f],
         frames[f][i] \in Extant
  PROVE  heap[frames[f][i]].payload \in Abstract!Reachable
<1> DEFINE a == frames[f][i]
<1>1. a \in DOMAIN heap /\ heap[a].payload \in DOMAIN Graph
  BY GraphAt DEF Extant
<1>2. RootGraph[f][i] = heap[a].payload /\ f \in DOMAIN RootGraph /\ i \in DOMAIN RootGraph[f]
  BY <1>1, Unfixed DEF Unfixing, Plain
<1>3. heap[a].payload \in Abstract!SlotValues
  BY <1>2 DEF Abstract!SlotValues
<1> QED BY <1>1, <1>3, ReachableClosed

\* What a field of a reachable object refers to is reachable.
LEMMA FieldsReachable ==
  ASSUME TypeOK, Unfixing, PayloadsDistinct, NEW a \in Extant, NEW r \in FieldValues(a), r \in Extant,
         heap[a].payload \in Abstract!Reachable
  PROVE  heap[r].payload \in Abstract!Reachable
<1>1. r \in DOMAIN heap /\ heap[r].payload \in DOMAIN Graph
  BY GraphAt DEF Extant
<1>2. PICK i \in DOMAIN heap[a].fields : r = heap[a].fields[i]
  BY DEF FieldValues
<1>3. Graph[heap[a].payload].fields = FieldIdentities(a)
  <2>1. Graph[heap[a].payload] = Content(a)
    BY GraphAt
  <2> QED BY <2>1 DEF Content
<1>4. FieldIdentities(a)[i] = heap[r].payload /\ i \in DOMAIN FieldIdentities(a)
  BY <1>1, <1>2, Unfixed DEF Unfixing, Plain
<1>5. heap[r].payload \in Abstract!FieldValues(heap[a].payload)
  BY <1>3, <1>4 DEF Abstract!FieldValues
<1> QED BY <1>1, <1>5, ReachableClosed

---------------------------------------------------------------------------
(*************************************************************************)
(* Marking: the graph stays, and what is marked is reachable             *)
(*************************************************************************)
\* A step that only marks changes neither the graph nor its roots.
LEMMA StillMarkingGraph ==
  ASSUME MemoryInv, MemoryInv', GraphInv, pc = "mark", pc' = "mark", UNCHANGED <<frames, request>>,
         DOMAIN heap' = DOMAIN heap,
         \A a \in DOMAIN heap :
           /\ heap'[a].class = heap[a].class /\ heap'[a].len = heap[a].len
           /\ heap'[a].fields = heap[a].fields /\ heap'[a].payload = heap[a].payload,
         \A a \in DOMAIN heap :
           heap'[a].marked \/ a \in ToVisit' => heap[a].payload \in Abstract!Reachable
  PROVE  Stutters /\ GraphInv'
<1>1. /\ Extant = DOMAIN heap /\ Extant' = DOMAIN heap /\ TypeOK /\ TypeOK' /\ PayloadsDistinct
  BY DEF Extant, MemoryInv, LayoutInv, GraphInv
<1>2. PayloadsDistinct' /\ UNCHANGED <<Graph, RootGraph>>
  BY <1>1, StillUnfixed DEF Unfixing
<1>3. Status' = Status
  BY DEF Status
<1>4. MarkedReachable'
  <2>1. Abstract!Reachable' = Abstract!Reachable
    BY <1>2, ReachableKept
  <2> QED BY <2>1 DEF MarkedReachable
<1>5. RequestKept'
  BY DEF RequestKept, Slots, Lengths, GraphInv, Collecting
<1>6. SurvivorsReachable' /\ FixTable'
  BY DEF SurvivorsReachable, FixTable
<1> QED BY <1>2, <1>3, <1>4, <1>5, <1>6 DEF GraphInv, Stutters

\* The next frame's slots become pending: they are roots, so they are reachable.
LEMMA MarkNextFrameGraph ==
  ASSUME MemoryInv, MemoryInv', GraphInv, MarkNextFrame
  PROVE  Stutters /\ GraphInv'
<1>1. /\ pc = "mark" /\ pc' = "mark" /\ UNCHANGED <<heap, frames, request>>
      /\ pending' = frames[nextFrame] /\ nextFrame \in DOMAIN frames
      /\ TypeOK /\ PayloadsDistinct /\ MarkedReachable
  BY DEF MarkNextFrame, mutator, MemoryInv, LayoutInv, GraphInv, TypeOK
<1>2. ASSUME NEW a \in DOMAIN heap, heap'[a].marked \/ a \in ToVisit'
      PROVE  heap[a].payload \in Abstract!Reachable
  <2>1. CASE heap[a].marked
    BY <1>1, <2>1 DEF MarkedReachable
  <2>2. CASE a \in ToVisit'
    <3>1. PICK i \in DOMAIN frames[nextFrame] : a = frames[nextFrame][i]
      BY <1>1, <2>2 DEF ToVisit
    <3> QED BY <1>1, <3>1, RootsReachable, ExtantAll DEF Unfixing
  <2> QED BY <1>1, <1>2, <2>1, <2>2
<1> QED BY <1>1, <1>2, StillMarkingGraph

\* A marked object's fields become pending: they are reachable as it is.
LEMMA MarkPopGraph ==
  ASSUME MemoryInv, MemoryInv', GraphInv, MarkPop
  PROVE  Stutters /\ GraphInv'
<1> DEFINE top == worklist[Len(worklist)]
<1>1. /\ pc = "mark" /\ pc' = "mark" /\ UNCHANGED <<heap, frames, request>>
      /\ pending' = heap[top].fields /\ worklist # <<>>
      /\ TypeOK /\ PayloadsDistinct /\ MarkedReachable
  BY DEF MarkPop, mutator, MemoryInv, LayoutInv, GraphInv
<1>2. Len(worklist) \in DOMAIN worklist
  BY <1>1 DEF TypeOK
<1>3. top \in DOMAIN heap /\ heap[top].marked
  BY <1>1, <1>2 DEF MemoryInv, LayoutInv, WorklistInHeap, WorklistOnce
<1>4. heap[top].payload \in Abstract!Reachable
  BY <1>1, <1>3 DEF MarkedReachable
<1> HIDE DEF top
<1>5. ASSUME NEW a \in DOMAIN heap, heap'[a].marked \/ a \in ToVisit'
      PROVE  heap[a].payload \in Abstract!Reachable
  <2>1. CASE heap[a].marked
    BY <1>1, <2>1 DEF MarkedReachable
  <2>2. CASE a \in ToVisit'
    <3>1. a \in FieldValues(top)
      BY <1>1, <2>2 DEF ToVisit, FieldValues
    <3> QED BY <1>1, <1>3, <1>4, <3>1, FieldsReachable, ExtantAll DEF Unfixing
  <2> QED BY <1>1, <1>5, <2>1, <2>2
<1> QED BY <1>1, <1>5, StillMarkingGraph

\* A pending object is marked: it was reachable when it became pending.
LEMMA MarkVisitGraph ==
  ASSUME MemoryInv, MemoryInv', GraphInv, MarkVisit
  PROVE  Stutters /\ GraphInv'
<1> DEFINE r == Head(pending)
<1>1. /\ pc = "mark" /\ UNCHANGED <<free, frames, request>> /\ pending # <<>>
      /\ pending' = Tail(pending)
      /\ TypeOK /\ MarkedReachable /\ NoFault' /\ pending \in Seq(Ref)
  BY DEF MarkVisit, MemoryInv, LayoutInv, ReferenceInv, GraphInv, TypeOK
<1>2. r \in ToVisit /\ ToVisit' \subseteq ToVisit
  <2>1. /\ 1 \in DOMAIN pending /\ r = pending[1]
        /\ \A i \in DOMAIN Tail(pending) : i + 1 \in DOMAIN pending /\ Tail(pending)[i] = pending[i + 1]
    BY <1>1
  <2> QED BY <1>1, <2>1 DEF ToVisit
<1> HIDE DEF r
<1>3. /\ pc' = "mark" /\ DOMAIN heap' = DOMAIN heap
      /\ \A a \in DOMAIN heap :
           /\ heap'[a].class = heap[a].class /\ heap'[a].len = heap[a].len
           /\ heap'[a].fields = heap[a].fields /\ heap'[a].payload = heap[a].payload
      /\ \A a \in DOMAIN heap : heap'[a].marked => heap[a].marked \/ a = r
  <2>1. CASE heap' = heap /\ pc' = pc
    BY <1>1, <2>1
  <2>2. CASE r \in DOMAIN heap /\ ~heap[r].marked /\ Enqueue(r)
    <3>1. Len(worklist) # ScratchCapacity
      BY <1>1, <2>2, WorklistRoom DEF MemoryInv
    <3>2. pc' = pc /\ heap' = [heap EXCEPT ![r].marked = TRUE]
      BY <2>2, <3>1 DEF Enqueue
    <3>3. \A a \in DOMAIN heap : heap[a] \in Object
      BY <1>1 DEF TypeOK
    <3>4. /\ DOMAIN heap' = DOMAIN heap /\ heap'[r] = [heap[r] EXCEPT !.marked = TRUE]
          /\ \A a \in DOMAIN heap : a # r => heap'[a] = heap[a]
      BY <2>2, <3>2
    <3>5. /\ heap'[r].class = heap[r].class /\ heap'[r].len = heap[r].len
          /\ heap'[r].fields = heap[r].fields /\ heap'[r].payload = heap[r].payload
      BY <2>2, <3>3, <3>4 DEF Object
    <3> QED BY <1>1, <3>2, <3>4, <3>5
  <2>3. pc' # "wild"
    BY <1>1 DEF NoFault
  <2> QED BY <2>1, <2>2, <2>3 DEF MarkVisit, r
<1>4. ASSUME NEW a \in DOMAIN heap, heap'[a].marked \/ a \in ToVisit'
      PROVE  heap[a].payload \in Abstract!Reachable
  <2>1. heap[a].marked \/ a \in ToVisit
    BY <1>2, <1>3, <1>4
  <2> QED BY <1>1, <2>1 DEF MarkedReachable
<1> QED BY <1>1, <1>3, <1>4, StillMarkingGraph

---------------------------------------------------------------------------
(*************************************************************************)
(* The end of marking: the garbage leaves the graph                      *)
(*************************************************************************)
\* References that are not to objects of the heap are not identities.
LEMMA Immortals ==
  ASSUME TypeOK, EnoughPayloads
  PROVE  /\ Null \notin DOMAIN heap /\ EmptyString \notin DOMAIN heap
         /\ \A a \in DOMAIN heap : heap[a].payload \in Payload /\ heap[a].payload \notin Immortal
         /\ DOMAIN Graph \subseteq Payload
         /\ \A r \in Immortal : Plain(r) = r /\ r \notin DOMAIN Graph
<1>1. /\ DOMAIN heap \subseteq Addresses /\ \A a \in DOMAIN heap : heap[a] \in Object
  BY DEF TypeOK
<1>2. Null \notin DOMAIN heap /\ EmptyString \notin DOMAIN heap
  BY <1>1, HeapAssumption, RegionNat DEF Addresses
<1>3. \A a \in DOMAIN heap : heap[a].payload \in Payload
  BY <1>1 DEF Object
<1>4. DOMAIN Graph \subseteq Payload
  BY <1>3 DEF Graph, Extant
<1> QED BY <1>2, <1>3, <1>4 DEF EnoughPayloads, Immortal, Plain

\* Collecting what is unreachable leaves what is reachable reachable.
LEMMA RestrictReachable ==
  ASSUME Graph' = [p \in Abstract!Reachable |-> Graph[p]], RootGraph' = RootGraph
  PROVE  Abstract!Reachable' = Abstract!Reachable
<1> DEFINE R == Abstract!Reachable
<1>1. R \subseteq DOMAIN Graph /\ DOMAIN Graph' = R /\ \A p \in R : Graph'[p] = Graph[p]
  BY DEF Abstract!Reachable
<1>2. Abstract!SlotValues' = Abstract!SlotValues
  BY DEF Abstract!SlotValues
<1>3. \A p \in R : Abstract!FieldValues(p)' = Abstract!FieldValues(p)
  BY <1>1 DEF Abstract!FieldValues
<1>4. Abstract!Reachable' =
        {p \in R : \A S \in SUBSET R :
           Abstract!SlotValues \cap R \subseteq S /\ Abstract!Closed(S)' => p \in S}
  BY <1>1, <1>2 DEF Abstract!Reachable
<1>5. ASSUME NEW p \in R, NEW S \in SUBSET R,
             Abstract!SlotValues \cap R \subseteq S, Abstract!Closed(S)'
      PROVE  p \in S
  <2>1. Abstract!SlotValues \cap DOMAIN Graph \subseteq S
    BY <1>5, ReachableClosed
  <2>2. \A q \in S : Abstract!FieldValues(q) \cap R \subseteq S
    BY <1>1, <1>3, <1>5 DEF Abstract!Closed
  <2>3. Abstract!Closed(S)
    BY <2>2, ReachableClosed DEF Abstract!Closed
  <2>4. S \in SUBSET DOMAIN Graph
    BY <1>1
  <2> QED BY <2>1, <2>3, <2>4 DEF Abstract!Reachable
<1> QED BY <1>4, <1>5

\* The end of marking is where the garbage goes: ManagedHeap's Reclaim.
LEMMA MarkDoneGraph ==
  ASSUME EnoughPayloads, MemoryInv, MemoryInv', GraphInv, MarkDone
  PROVE  Abstract!Reclaim /\ GraphInv'
<1> DEFINE M == {a \in DOMAIN heap : heap[a].marked}
           MP == {heap[a].payload : a \in M}
<1>1. /\ pc = "mark" /\ pc' = "forward" /\ UNCHANGED <<heap, frames, request>>
      /\ TypeOK /\ TypeOK' /\ MarkedReachable /\ PayloadsDistinct /\ RequestKept /\ MarksClosed'
  BY DEF MarkDone, MemoryInv, LayoutInv, ReferenceInv, GraphInv, mutator, scratch
<1>2. Extant = DOMAIN heap /\ Extant' = M /\ Unfixing /\ Unfixing'
  BY <1>1 DEF Extant, Unfixing
<1>3. SlotValues \subseteq Reached /\ \A a \in M : FieldValues(a) \subseteq Reached
  BY <1>1 DEF MarksClosed, Reached, SlotValues, FieldValues
<1>4. Reached = Immortal \cup M /\ \A r \in Reached : Plain(r) \in MP \/ Plain(r) \notin DOMAIN Graph
  <2>1. Reached = Immortal \cup M
    BY DEF Reached
  <2>2. \A r \in M : Plain(r) = heap[r].payload
    BY DEF Plain
  <2> QED BY <1>1, <2>1, <2>2, Immortals
<1>5. /\ DOMAIN Graph = {heap[a].payload : a \in DOMAIN heap}
      /\ \A a \in DOMAIN heap : Graph[heap[a].payload] = Content(a)
  BY <1>1, <1>2, GraphAt
<1>6. /\ RootGraph = [f \in DOMAIN frames |-> [i \in DOMAIN frames[f] |-> Plain(frames[f][i])]]
      /\ \A a : FieldIdentities(a) = [i \in DOMAIN heap[a].fields |-> Plain(heap[a].fields[i])]
  BY <1>1, <1>2, Unfixed DEF Unfixing
<1> HIDE DEF M
<1>7. Abstract!SlotValues \cap DOMAIN Graph \subseteq MP
  <2> SUFFICES ASSUME NEW q \in Abstract!SlotValues, q \in DOMAIN Graph PROVE q \in MP
    OBVIOUS
  <2>1. PICK f \in DOMAIN RootGraph : \E i \in DOMAIN RootGraph[f] : q = RootGraph[f][i]
    BY DEF Abstract!SlotValues
  <2>2. f \in DOMAIN frames /\ \E i \in DOMAIN frames[f] : q = Plain(frames[f][i])
    BY <1>6, <2>1
  <2>3. PICK i \in DOMAIN frames[f] : q = Plain(frames[f][i])
    BY <2>2
  <2>4. frames[f][i] \in Reached
    BY <1>3, <2>2 DEF SlotValues
  <2> QED BY <1>4, <2>3, <2>4
<1>8. Abstract!Closed(MP)
  <2> SUFFICES ASSUME NEW a \in M, NEW q \in Abstract!FieldValues(heap[a].payload), q \in DOMAIN Graph
               PROVE  q \in MP
    BY DEF Abstract!Closed
  <2>1. a \in DOMAIN heap
    BY DEF M
  <2>2. Graph[heap[a].payload].fields = FieldIdentities(a)
    <3>1. Graph[heap[a].payload] = Content(a)
      BY <1>5, <2>1
    <3> QED BY <3>1 DEF Content
  <2>3. PICK i \in DOMAIN heap[a].fields : q = Plain(heap[a].fields[i])
    BY <1>6, <2>2 DEF Abstract!FieldValues
  <2>4. heap[a].fields[i] \in Reached
    BY <1>3 DEF FieldValues
  <2> QED BY <1>4, <2>3, <2>4
<1>9. Abstract!Reachable = MP
  <2>1. MP \in SUBSET DOMAIN Graph
    BY <1>5 DEF M
  <2>2. Abstract!Reachable \subseteq MP
    BY <1>7, <1>8, <2>1 DEF Abstract!Reachable
  <2>3. MP \subseteq Abstract!Reachable
    BY <1>1 DEF MarkedReachable, M
  <2> QED BY <2>2, <2>3
<1>10. PayloadsDistinct'
  BY <1>1, <1>2 DEF PayloadsDistinct, M
<1>11. RootGraph' = RootGraph /\ \A a : FieldIdentities(a)' = FieldIdentities(a)
  <2>1. \A r : Plain(r)' = Plain(r)
    BY <1>1 DEF Plain
  <2>2. (TypeOK /\ Unfixing =>
         /\ RootGraph = [f \in DOMAIN frames |-> [i \in DOMAIN frames[f] |-> Plain(frames[f][i])]]
         /\ \A a : FieldIdentities(a) = [i \in DOMAIN heap[a].fields |-> Plain(heap[a].fields[i])])'
    BY Unfixed, PTL DEF Unfixing
  <2> QED BY <1>1, <1>2, <1>6, <2>1, <2>2
<1>12. Graph' = [p \in Abstract!Reachable |-> Graph[p]]
  <2>1. /\ DOMAIN Graph' = {heap'[a].payload : a \in Extant'}
        /\ \A a \in Extant' : Graph'[heap'[a].payload] = Content(a)'
        /\ Graph' = [p \in DOMAIN Graph' |-> Graph'[p]]
    <3>1. (PayloadsDistinct => /\ DOMAIN Graph = {heap[a].payload : a \in Extant}
                               /\ \A a \in Extant : Graph[heap[a].payload] = Content(a)
                               /\ Graph = [p \in DOMAIN Graph |-> Graph[p]])'
      BY GraphAt, PTL
    <3> QED BY <1>10, <3>1
  <2>2. DOMAIN Graph' = MP
    BY <1>1, <1>2, <2>1
  <2>3. \A a \in M : Graph'[heap[a].payload] = Graph[heap[a].payload]
    <3>1. \A a \in M : Content(a)' = Content(a)
      BY <1>1, <1>11 DEF Content
    <3> QED BY <1>1, <1>2, <1>5, <2>1, <3>1 DEF M
  <2> QED BY <1>9, <2>1, <2>2, <2>3
<1>13. Status' = Status
  BY <1>1 DEF Status, Faults
<1>14. SurvivorsReachable'
  <2>1. Abstract!Reachable' = Abstract!Reachable
    BY <1>11, <1>12, RestrictReachable
  <2> QED BY <1>12, <2>1 DEF SurvivorsReachable
<1>15. RequestKept' /\ MarkedReachable' /\ FixTable'
  BY <1>1 DEF RequestKept, MarkedReachable, FixTable, Slots, Lengths, Collecting
<1> QED BY <1>10, <1>11, <1>12, <1>13, <1>14, <1>15 DEF Abstract!Reclaim, GraphInv

---------------------------------------------------------------------------
(*************************************************************************)
(* Forwarding: the survivors get their new addresses                     *)
(*************************************************************************)
\* A step of a later phase that keeps the graph keeps what is said of it.
LEMMA StillSurviving ==
  ASSUME MemoryInv, MemoryInv', GraphInv, PayloadsDistinct', UNCHANGED <<Graph, RootGraph, request>>, FixTable',
         pc \in {"forward", "fix", "slide"}, pc' \in {"forward", "fix", "slide", "retry", "run"},
         Slots' = Slots
  PROVE  Stutters /\ GraphInv'
<1>1. Status' = Status
  BY DEF Status, Faults
<1>2. SurvivorsReachable'
  BY ReachableKept DEF GraphInv, SurvivorsReachable
<1>3. RequestKept' /\ MarkedReachable'
  BY DEF RequestKept, GraphInv, Collecting, Lengths, MarkedReachable
<1> QED BY <1>1, <1>2, <1>3 DEF GraphInv, Stutters

\* The table grows by an object of the walk, and the graph does not change.
LEMMA ForwardObjectGraph ==
  ASSUME MemoryInv, MemoryInv', GraphInv, ForwardObject
  PROVE  Stutters /\ GraphInv'
<1>1. /\ pc = "forward" /\ UNCHANGED <<heap, free, frames, request>>
      /\ TypeOK /\ TypeOK' /\ NoFault' /\ PayloadsDistinct
  BY DEF ForwardObject, MemoryInv, LayoutInv, ReferenceInv, GraphInv, mutator
<1>2. pc' = "forward"
  <2>1. pc' \notin {"wild", "panic"}
    BY <1>1 DEF NoFault
  <2>2. walk \in DOMAIN heap => Len(relocs) # ScratchCapacity
    BY <1>1, RelocationRoom DEF MemoryInv
  <2> QED BY <1>1, <2>1, <2>2 DEF ForwardObject, PushRelocation
<1>3. Extant' = Extant /\ Unfixing /\ Unfixing'
  BY <1>1, <1>2 DEF Extant, Unfixing
<1>4. PayloadsDistinct' /\ UNCHANGED <<Graph, RootGraph>>
  BY <1>1, <1>3, StillUnfixed
<1>5. FixTable' /\ Slots' = Slots
  BY <1>1, <1>2 DEF FixTable, Slots
<1> QED BY <1>1, <1>2, <1>4, <1>5, StillSurviving

\* The walk ends with exactly the marked objects in the table.
LEMMA ForwardDoneGraph ==
  ASSUME MemoryInv, MemoryInv', GraphInv, ForwardDone
  PROVE  Stutters /\ GraphInv'
<1>1. /\ pc = "forward" /\ pc' = "fix" /\ walk >= free /\ cursor = 0 /\ cursor' = 0
      /\ UNCHANGED <<heap, free, frames, request, relocs>>
      /\ TypeOK /\ TypeOK' /\ TableExact /\ HeapTiled /\ PayloadsDistinct
  BY DEF ForwardDone, MemoryInv, LayoutInv, ReferenceInv, GraphInv, mutator, scratch, NotYetFixing
<1>2. Extant' = Extant /\ Unfixing /\ Unfixing'
  BY <1>1 DEF Extant, Unfixing
<1>3. PayloadsDistinct' /\ UNCHANGED <<Graph, RootGraph>>
  BY <1>1, <1>2, StillUnfixed
<1>4. \A a \in DOMAIN heap : a < walk
  <2>1. walk \in Nat /\ free \in Nat
    BY <1>1, RegionNat DEF TypeOK
  <2>2. ASSUME NEW a \in DOMAIN heap PROVE a < walk
    <3>1. a \in Nat /\ SizeAt(a) \in Nat /\ SizeAt(a) >= HeaderSize /\ a + SizeAt(a) <= free
      BY <1>1, SizeAtBound DEF HeapTiled, TypeOK, Addresses
    <3>2. HeaderSize \in Nat \ {0}
      BY LayoutAssumption
    <3> HIDE DEF SizeAt
    <3> QED BY <1>1, <2>1, <3>1, <3>2
  <2> QED BY <2>2
<1>5. FixTable' /\ Slots' = Slots
  BY <1>1, <1>4 DEF FixTable, TableExact, Slots
<1> QED BY <1>1, <1>3, <1>5, StillSurviving

\* Neither the old nor the new places of two survivors are the same.
LEMMA TableDistinct ==
  ASSUME LayoutInv, NEW i \in DOMAIN relocs, NEW j \in DOMAIN relocs, i # j
  PROVE  relocs[i].old # relocs[j].old /\ relocs[i].new # relocs[j].new
<1>1. ASSUME NEW m \in DOMAIN relocs, NEW n \in DOMAIN relocs, m < n
      PROVE  relocs[m].old < relocs[n].old /\ relocs[m].new < relocs[n].new
  <2>1. /\ relocs[m].old + relocs[m].size <= relocs[n].old
        /\ relocs[m].new + relocs[m].size <= relocs[n].new
        /\ relocs[m].size >= HeaderSize
    BY <1>1 DEF LayoutInv, TableOrdered
  <2>2. /\ relocs[m].old \in Nat /\ relocs[m].new \in Nat /\ relocs[m].size \in Nat
        /\ relocs[n].old \in Nat /\ relocs[n].new \in Nat
    BY TableTyped DEF LayoutInv
  <2>3. HeaderSize \in Nat \ {0}
    BY LayoutAssumption
  <2> QED BY <2>1, <2>2, <2>3
<1>2. i < j \/ j < i
  BY TableTyped DEF LayoutInv
<1>3. /\ relocs[i].old \in Nat /\ relocs[i].new \in Nat /\ relocs[j].old \in Nat /\ relocs[j].new \in Nat
  BY TableTyped DEF LayoutInv
<1>4. CASE i < j
  BY <1>1, <1>3, <1>4
<1>5. CASE j < i
  BY <1>1, <1>3, <1>5
<1> QED BY <1>2, <1>4, <1>5

\* A survivor of the table exists, at its old or its new address.
LEMMA SurvivorsIntact ==
  ASSUME LayoutInv, pc \in {"fix", "slide"}, NEW i \in DOMAIN relocs
  PROVE  At(i) \in DOMAIN heap /\ SizeAt(At(i)) = relocs[i].size
<1>1. CASE Slid(i)
  BY <1>1 DEF At, Slid, LayoutInv, SlidPrefix
<1>2. CASE ~Slid(i)
  <2>1. pc = "slide" => cursor <= i
    BY <1>2, TableTyped DEF Slid, LayoutInv, TypeOK
  <2> QED BY <1>2, <2>1 DEF At, LayoutInv, UnslidIntact
<1> QED BY <1>1, <1>2

\* What a reference that has been rewritten means: the survivor, where it is now.
LEMMA MovedIdentity ==
  ASSUME LayoutInv, pc \in {"fix", "slide"}
  PROVE  /\ \A i \in DOMAIN relocs : \A r : r = relocs[i].new => Identity(r, TRUE) = Plain(At(i))
         /\ \A r \in Immortal : Identity(r, TRUE) = r
<1>1. ASSUME NEW i \in DOMAIN relocs PROVE Identity(relocs[i].new, TRUE) = Plain(At(i))
  <2>1. (CHOOSE j \in DOMAIN relocs : relocs[j].new = relocs[i].new) = i
    BY TableDistinct
  <2>2. Target(relocs[i].new, TRUE) = At(i)
    BY <2>1 DEF Target
  <2>3. At(i) \in DOMAIN heap
    BY SurvivorsIntact
  <2> QED BY <2>2, <2>3 DEF Identity, Plain
<1>2. ASSUME NEW r \in Immortal PROVE Identity(r, TRUE) = r
  <2>1. r \notin Int
    BY HeapAssumption DEF Immortal
  <2>2. \A i \in DOMAIN relocs : relocs[i].new # r
    BY <2>1, TableTyped DEF LayoutInv
  <2>3. r \notin DOMAIN heap
    BY <2>1, RegionNat DEF LayoutInv, TypeOK, Addresses
  <2> QED BY <2>2, <2>3 DEF Identity, Target
<1> QED BY <1>1, <1>2

\* Rewriting a reference does not change what it means.
LEMMA RelocatedIdentity ==
  ASSUME LayoutInv, pc = "fix", NEW r \in Unmoved
  PROVE  Identity(Relocated(r), TRUE) = Plain(r)
<1>1. Unmoved \subseteq Live
  BY DEF Unmoved, Live, LayoutInv, UnslidIntact
<1>2. Managed(r) <=> r \in DOMAIN heap
  BY <1>1, ManagedLive
<1>3. CASE r \in Immortal
  <2>1. r \notin DOMAIN heap
    BY <1>3, HeapAssumption, RegionNat DEF Immortal, LayoutInv, TypeOK, Addresses
  <2>2. Relocated(r) = r /\ Plain(r) = r
    BY <1>2, <2>1 DEF Relocated, Plain
  <2> QED BY <1>3, <2>2, MovedIdentity
<1>4. CASE r \notin Immortal
  <2>1. PICK i \in DOMAIN relocs : r = relocs[i].old
    BY <1>4 DEF Unmoved
  <2>2. r \in DOMAIN heap
    BY <2>1 DEF LayoutInv, UnslidIntact
  <2>3. (CHOOSE j \in DOMAIN relocs : relocs[j].old = r) = i
    BY <2>1, TableDistinct
  <2>4. Relocated(r) = relocs[i].new
    BY <1>2, <2>2, <2>3 DEF Relocated, Destination
  <2>5. At(i) = r
    BY <2>1 DEF At, Slid
  <2> QED BY <2>4, <2>5, MovedIdentity
<1> QED BY <1>3, <1>4

---------------------------------------------------------------------------
(*************************************************************************)
(* Fixing: a rewritten reference means what it meant                     *)
(*************************************************************************)
\* In the phase that fixes references, a step that moves no object keeps what each
\* reference means.
LEMMA FixMeaning ==
  ASSUME pc = "fix", pc' = "fix" \/ (pc' = "slide" /\ cursor' = 1), relocs' = relocs, TypeOK,
         DOMAIN heap' = DOMAIN heap, \A a \in DOMAIN heap : heap'[a].payload = heap[a].payload
  PROVE  /\ \A r : Plain(r)' = Plain(r)
         /\ \A r : Identity(r, TRUE)' = Identity(r, TRUE) /\ Identity(r, FALSE)' = Identity(r, FALSE)
         /\ \A i \in DOMAIN relocs : At(i)' = At(i)
<1>1. \A i \in DOMAIN relocs : At(i)' = relocs[i].old /\ At(i) = relocs[i].old
  <2>1. \A i \in DOMAIN relocs : i \in Nat /\ ~(i < 1)
    BY TableTyped
  <2> QED BY <2>1 DEF At, Slid
<1>2. \A r : Target(r, TRUE)' = Target(r, TRUE) /\ Target(r, FALSE)' = Target(r, FALSE)
  <2>1. ASSUME NEW r PROVE Target(r, TRUE)' = Target(r, TRUE)
    <3>1. CASE \E i \in DOMAIN relocs : relocs[i].new = r
      <4>1. (CHOOSE i \in DOMAIN relocs : relocs[i].new = r) \in DOMAIN relocs
        BY <3>1
      <4>2. Target(r, TRUE) = At(CHOOSE i \in DOMAIN relocs : relocs[i].new = r)
        BY <3>1 DEF Target
      <4>3. Target(r, TRUE)' = At(CHOOSE i \in DOMAIN relocs : relocs[i].new = r)'
        BY <3>1 DEF Target
      <4>4. PICK c \in DOMAIN relocs : c = (CHOOSE i \in DOMAIN relocs : relocs[i].new = r)
        BY <4>1
      <4>5. Target(r, TRUE) = At(c) /\ Target(r, TRUE)' = At(c)'
        BY <4>2, <4>3, <4>4 DEF At, Slid
      <4> QED BY <1>1, <4>5
    <3>2. CASE ~ \E i \in DOMAIN relocs : relocs[i].new = r
      BY <3>2 DEF Target
    <3> QED BY <3>1, <3>2
  <2>2. \A r : Target(r, FALSE)' = Target(r, FALSE)
    BY DEF Target
  <2> QED BY <2>1, <2>2
<1>3. \A r : Plain(r)' = Plain(r)
  BY DEF Plain
<1>4. \A r : Identity(r, TRUE)' = Identity(r, TRUE) /\ Identity(r, FALSE)' = Identity(r, FALSE)
  BY <1>2 DEF Identity
<1> QED BY <1>1, <1>3, <1>4

\* The slots are rewritten from old to new addresses and mean the same objects.
LEMMA FixRootsGraph ==
  ASSUME MemoryInv, MemoryInv', GraphInv, FixRoots
  PROVE  Stutters /\ GraphInv'
<1>1. /\ pc = "fix" /\ cursor = 0 /\ UNCHANGED <<heap, free, request, relocs>>
      /\ LayoutInv /\ TypeOK /\ TypeOK' /\ NoFault' /\ PayloadsDistinct /\ FixFront /\ FixTable
  BY DEF FixRoots, MemoryInv, LayoutInv, ReferenceInv, GraphInv
<1>2. /\ pc' = "fix" /\ cursor' = 1
      /\ frames' = [f \in DOMAIN frames |-> [i \in DOMAIN frames[f] |-> Relocated(frames[f][i])]]
  BY <1>1 DEF FixRoots, NoFault
<1>3. Extant' = Extant
  BY <1>1, <1>2 DEF Extant
<1>4. PayloadsDistinct'
  BY <1>1, <1>3 DEF PayloadsDistinct
<1>5. /\ \A r : Plain(r)' = Plain(r)
      /\ \A r : Identity(r, TRUE)' = Identity(r, TRUE) /\ Identity(r, FALSE)' = Identity(r, FALSE)
  BY <1>1, <1>2, FixMeaning
<1>6. Graph' = Graph
  <2>1. \A a : FieldsFixed(a) = FALSE /\ FieldsFixed(a)' = FALSE
    <3>1. \A i \in DOMAIN relocs : i \in Nat /\ ~(i < 0) /\ ~(i < 1)
      BY <1>1, TableTyped
    <3> QED BY <1>1, <1>2, <3>1 DEF FieldsFixed
  <2>2. \A a : FieldIdentities(a)' = FieldIdentities(a)
    BY <1>1, <1>5, <2>1 DEF FieldIdentities
  <2>3. \A a \in Extant : heap'[a].payload = heap[a].payload /\ Content(a)' = Content(a)
    BY <1>1, <2>2 DEF Content
  <2> QED BY <1>1, <1>3, <1>4, <2>3, GraphKept
<1>7. RootGraph' = RootGraph
  <2>1. RootsFixed = FALSE /\ RootsFixed' = TRUE
    BY <1>1, <1>2 DEF RootsFixed
  <2>2. ASSUME NEW f \in DOMAIN frames, NEW i \in DOMAIN frames[f]
        PROVE  Identity(frames[f][i], RootsFixed)' = Identity(frames[f][i], RootsFixed)
    <3>1. frames[f][i] \in Unmoved
      BY <1>1 DEF FixFront, SlotValues
    <3>2. Identity(Relocated(frames[f][i]), TRUE) = Plain(frames[f][i])
      BY <1>1, <3>1, RelocatedIdentity
    <3>3. PICK c : c = Relocated(frames[f][i])
      OBVIOUS
    <3>4. frames'[f][i] = c
      BY <1>2, <3>3
    <3>5. Identity(c, TRUE)' = Plain(frames[f][i])
      BY <1>5, <3>2, <3>3
    <3>6. Identity(frames[f][i], RootsFixed)' = Identity(c, TRUE)'
      BY <2>1, <3>4
    <3>7. Identity(frames[f][i], RootsFixed) = Plain(frames[f][i])
      BY <2>1, PlainIdentity
    <3> QED BY <3>5, <3>6, <3>7
  <2>3. DOMAIN frames' = DOMAIN frames /\ \A f \in DOMAIN frames : DOMAIN frames'[f] = DOMAIN frames[f]
    BY <1>2
  <2> QED BY <2>2, <2>3, RootGraphKept
<1>8. FixTable'
  BY <1>1, <1>2 DEF FixTable
<1>9. Slots' = Slots
  <2>1. CASE frames = <<>>
    BY <1>1, <1>2, <2>1 DEF Slots
  <2>2. CASE frames # <<>>
    <3>1. frames \in Seq(Seq(Ref)) /\ frames' \in Seq(Seq(Ref))
      BY <1>1 DEF TypeOK
    <3>2. 1 \in DOMAIN frames /\ DOMAIN frames' = DOMAIN frames
      BY <1>2, <2>2, <3>1
    <3>3. frames' # <<>>
      BY <3>2
    <3> QED BY <1>2, <2>2, <3>2, <3>3 DEF Slots
  <2> QED BY <2>1, <2>2
<1> QED BY <1>1, <1>2, <1>4, <1>6, <1>7, <1>8, <1>9, StillSurviving

\* What a reference x means in a field of the object at a, rewritten or not.
Meaning(x, a) == IF FieldsFixed(a) THEN Identity(x, TRUE) ELSE Plain(x)

\* What one field of an object means.
LEMMA FieldIdentityIs ==
  \A a : /\ FieldIdentities(a) = [i \in DOMAIN heap[a].fields |-> FieldIdentities(a)[i]]
         /\ \A i \in DOMAIN heap[a].fields : \A x : x = heap[a].fields[i] =>
              FieldIdentities(a)[i] = Meaning(x, a)
<1> SUFFICES ASSUME NEW a
             PROVE  /\ FieldIdentities(a) = [i \in DOMAIN heap[a].fields |-> FieldIdentities(a)[i]]
                    /\ \A i \in DOMAIN heap[a].fields :
                         FieldIdentities(a)[i] = Meaning(heap[a].fields[i], a)
  OBVIOUS
<1>1. FieldsFixed(a) \in BOOLEAN
  BY DEF FieldsFixed
<1>2. CASE FieldsFixed(a) = TRUE
  BY <1>2 DEF FieldIdentities, Meaning
<1>3. CASE FieldsFixed(a) = FALSE
  BY <1>3, PlainIdentity DEF FieldIdentities, Meaning
<1> QED BY <1>1, <1>2, <1>3

\* An object at b keeps what its fields say when it goes to c.
LEMMA FieldIdentitiesKept ==
  ASSUME NEW b, NEW c, DOMAIN heap'[c].fields = DOMAIN heap[b].fields,
         \A i \in DOMAIN heap[b].fields : \A x, y :
           x = heap[b].fields[i] /\ y = heap'[c].fields[i] => Meaning(y, c)' = Meaning(x, b)
  PROVE  FieldIdentities(c)' = FieldIdentities(b)
<1>1. /\ FieldIdentities(b) = [i \in DOMAIN heap[b].fields |-> FieldIdentities(b)[i]]
      /\ \A i \in DOMAIN heap[b].fields : \A x : x = heap[b].fields[i] =>
           FieldIdentities(b)[i] = Meaning(x, b)
  BY FieldIdentityIs
<1>2. /\ FieldIdentities(c)' = [i \in DOMAIN heap'[c].fields |-> FieldIdentities(c)'[i]]
      /\ \A i \in DOMAIN heap'[c].fields : \A y : y = heap'[c].fields[i] =>
           FieldIdentities(c)'[i] = Meaning(y, c)'
  <2>1. (\A a : /\ FieldIdentities(a) = [i \in DOMAIN heap[a].fields |-> FieldIdentities(a)[i]]
                /\ \A i \in DOMAIN heap[a].fields : \A x : x = heap[a].fields[i] =>
                     FieldIdentities(a)[i] = Meaning(x, a))'
    BY FieldIdentityIs, PTL
  <2> QED BY <2>1
<1>3. ASSUME NEW i \in DOMAIN heap[b].fields PROVE FieldIdentities(c)'[i] = FieldIdentities(b)[i]
  <2>1. PICK x, y : x = heap[b].fields[i] /\ y = heap'[c].fields[i]
    OBVIOUS
  <2>2. FieldIdentities(b)[i] = Meaning(x, b)
    BY <1>1, <2>1
  <2>3. FieldIdentities(c)'[i] = Meaning(y, c)'
    BY <1>2, <2>1
  <2>4. Meaning(y, c)' = Meaning(x, b)
    BY <2>1
  <2> QED BY <2>2, <2>3, <2>4
<1> QED BY <1>1, <1>2, <1>3

\* The graph is the same when every object stays at its address with its content.
LEMMA GraphStays ==
  ASSUME PayloadsDistinct, PayloadsDistinct', Extant' = Extant,
         \A a \in Extant : heap'[a].payload = heap[a].payload /\ Content(a)' = Content(a)
  PROVE  Graph' = Graph
<1>1. \A a \in Extant : \E b \in Extant' :
        heap'[b].payload = heap[a].payload /\ Content(b)' = Content(a)
  OBVIOUS
<1>2. \A b \in Extant' : \E a \in Extant : heap'[b].payload = heap[a].payload
  OBVIOUS
<1> QED BY <1>1, <1>2, GraphKept

\* One survivor's fields are rewritten and mean the same objects.
LEMMA FixFieldsGraph ==
  ASSUME MemoryInv, MemoryInv', GraphInv, FixFields
  PROVE  Stutters /\ GraphInv'
<1>0. PICK a : a = relocs[cursor].old
  OBVIOUS
<1>1. /\ pc = "fix" /\ cursor \in DOMAIN relocs /\ UNCHANGED <<free, frames, request, relocs>>
      /\ LayoutInv /\ TypeOK /\ NoFault' /\ PayloadsDistinct /\ FixFront /\ FixTable
  BY DEF FixFields, MemoryInv, LayoutInv, ReferenceInv, GraphInv
<1>2. a \in DOMAIN heap /\ cursor \in Nat /\ cursor > 0
  BY <1>0, <1>1, TableTyped DEF LayoutInv, UnslidIntact
<1>3. /\ pc' = "fix" /\ cursor' = cursor + 1
      /\ heap' = [heap EXCEPT ![a].fields = [i \in DOMAIN @ |-> Relocated(@[i])]]
  BY <1>0, <1>1 DEF FixFields, NoFault
<1>4. /\ DOMAIN heap' = DOMAIN heap
      /\ \A b \in DOMAIN heap : b # a => heap'[b] = heap[b]
      /\ heap'[a].fields = [i \in DOMAIN heap[a].fields |-> Relocated(heap[a].fields[i])]
      /\ \A b \in DOMAIN heap :
           /\ heap'[b].class = heap[b].class /\ heap'[b].len = heap[b].len
           /\ heap'[b].marked = heap[b].marked /\ heap'[b].payload = heap[b].payload
  <2>1. \A b \in DOMAIN heap : heap[b] \in Object
    BY <1>1 DEF TypeOK
  <2>2. /\ DOMAIN heap' = DOMAIN heap
        /\ \A b \in DOMAIN heap : b # a => heap'[b] = heap[b]
        /\ heap'[a] = [heap[a] EXCEPT !.fields = [i \in DOMAIN @ |-> Relocated(@[i])]]
    BY <1>2, <1>3
  <2>3. /\ heap'[a].fields = [i \in DOMAIN heap[a].fields |-> Relocated(heap[a].fields[i])]
        /\ heap'[a].class = heap[a].class /\ heap'[a].len = heap[a].len
        /\ heap'[a].marked = heap[a].marked /\ heap'[a].payload = heap[a].payload
    BY <1>2, <2>1, <2>2 DEF Object
  <2> QED BY <2>2, <2>3
<1>5. Extant' = Extant /\ Extant \subseteq DOMAIN heap
  BY <1>1, <1>3, <1>4 DEF Extant
<1>6. PayloadsDistinct'
  <2> SUFFICES ASSUME NEW b \in Extant, NEW c \in Extant, heap'[b].payload = heap'[c].payload
               PROVE  b = c
    BY <1>5 DEF PayloadsDistinct
  <2>1. heap[b].payload = heap[c].payload
    BY <1>4, <1>5
  <2> QED BY <1>1, <2>1 DEF PayloadsDistinct
<1>7. /\ \A r : Plain(r)' = Plain(r)
      /\ \A r : Identity(r, TRUE)' = Identity(r, TRUE) /\ Identity(r, FALSE)' = Identity(r, FALSE)
  BY <1>1, <1>3, <1>4, FixMeaning
<1>8. /\ \A b : b # a => (FieldsFixed(b)' <=> FieldsFixed(b))
      /\ ~FieldsFixed(a) /\ FieldsFixed(a)'
  <2>1. \A i \in DOMAIN relocs : i \in Nat /\ (i < cursor + 1 <=> i < cursor \/ i = cursor)
    BY <1>1, <1>2, TableTyped
  <2>2. \A i \in DOMAIN relocs : relocs[i].old = a => i = cursor
    BY <1>0, <1>1, TableDistinct
  <2>3. cursor < cursor + 1 /\ ~(cursor < cursor)
    BY <1>2
  <2>4. \A b : b # a => (FieldsFixed(b)' <=> FieldsFixed(b))
    BY <1>0, <1>1, <1>3, <2>1 DEF FieldsFixed
  <2>5. ~FieldsFixed(a)
    BY <1>1, <2>2, <2>3 DEF FieldsFixed
  <2>6. FieldsFixed(a)'
    <3>1. pc' = "fix" /\ relocs' = relocs /\ cursor < cursor' /\ cursor \in DOMAIN relocs
          /\ relocs[cursor].old = a
      BY <1>0, <1>1, <1>3, <2>3
    <3> QED BY ONLY <3>1 DEF FieldsFixed
  <2> QED BY <2>4, <2>5, <2>6
<1>9. ASSUME NEW b \in Extant PROVE heap'[b].payload = heap[b].payload /\ Content(b)' = Content(b)
  <2>1. CASE b # a
    <3>1. heap'[b] = heap[b] /\ (FieldsFixed(b)' <=> FieldsFixed(b))
      BY <1>4, <1>5, <1>8, <2>1
    <3>2. FieldIdentities(b)' = FieldIdentities(b)
      BY <1>7, <3>1, FieldIdentitiesKept DEF Meaning
    <3> QED BY <3>1, <3>2 DEF Content
  <2>2. CASE b = a
    <3>1. ASSUME NEW i \in DOMAIN heap[a].fields, NEW x, NEW y,
                 x = heap[a].fields[i], y = heap'[a].fields[i]
          PROVE  Meaning(y, a)' = Meaning(x, a)
      <4>1. y = Relocated(x)
        BY <1>4, <3>1
      <4>2. x \in Unmoved
        <5>1. x \in FieldValues(a)
          BY <3>1 DEF FieldValues
        <5>2. ~(cursor < cursor)
          BY <1>2
        <5> QED BY <1>0, <1>1, <5>1, <5>2 DEF FixFront
      <4>3. Identity(y, TRUE) = Plain(x)
        BY <1>1, <4>1, <4>2, RelocatedIdentity
      <4>4. Identity(y, TRUE)' = Plain(x)
        BY <1>7, <4>3
      <4> QED BY <1>8, <4>4 DEF Meaning
    <3>2. FieldIdentities(a)' = FieldIdentities(a)
      <4>1. DOMAIN heap'[a].fields = DOMAIN heap[a].fields
        BY <1>4
      <4> QED BY <3>1, <4>1, FieldIdentitiesKept
    <3> QED BY <1>2, <1>4, <2>2, <3>2 DEF Content
  <2> QED BY <1>4, <1>5, <2>1, <2>2
<1>10. Graph' = Graph
  BY <1>1, <1>5, <1>6, <1>9, GraphStays
<1>11. RootGraph' = RootGraph
  <2>1. cursor + 1 > 0
    BY <1>2
  <2>2. RootsFixed = TRUE /\ RootsFixed' = TRUE
    BY <1>1, <1>2, <1>3, <2>1 DEF RootsFixed
  <2> QED BY <1>1, <1>7, <2>2, RootGraphKept
<1>12. FixTable' /\ Slots' = Slots
  <2>1. \A i \in DOMAIN relocs : relocs[i].old \in DOMAIN heap
    BY <1>1 DEF LayoutInv, UnslidIntact
  <2> QED BY <1>1, <1>3, <1>4, <2>1 DEF FixTable, Slots
<1> QED BY <1>1, <1>3, <1>6, <1>10, <1>11, <1>12, StillSurviving

\* When every survivor's fields are rewritten, nothing has moved yet.
LEMMA FixDoneGraph ==
  ASSUME MemoryInv, MemoryInv', GraphInv, FixDone
  PROVE  Stutters /\ GraphInv'
<1>1. /\ pc = "fix" /\ pc' = "slide" /\ cursor > Len(relocs) /\ cursor' = 1
      /\ UNCHANGED <<heap, free, frames, request, relocs>>
      /\ LayoutInv /\ TypeOK /\ PayloadsDistinct /\ FixTable
  BY DEF FixDone, MemoryInv, LayoutInv, ReferenceInv, GraphInv, mutator
<1>2. cursor \in Nat /\ cursor > 0 /\ \A i \in DOMAIN relocs : i \in Nat /\ i < cursor
  <2>1. cursor \in Nat /\ cursor > Len(relocs)
    BY <1>1 DEF TypeOK
  <2>2. Len(relocs) \in Nat /\ DOMAIN relocs = 1 .. Len(relocs)
    BY <1>1, TableTyped
  <2> QED BY ONLY <2>1, <2>2
<1>3. /\ \A r : Identity(r, TRUE)' = Identity(r, TRUE)
      /\ \A i \in DOMAIN relocs : At(i)' = At(i)
  BY <1>1, FixMeaning
<1>4. \A i \in DOMAIN relocs : At(i)' = relocs[i].old /\ relocs[i].old \in DOMAIN heap
  BY <1>1, <1>3, SurvivorsIntact DEF At, Slid
<1>5. Extant' = Extant /\ Extant \subseteq DOMAIN heap
      /\ \A a \in Extant : \E i \in DOMAIN relocs : relocs[i].old = a
  BY <1>1, <1>4 DEF Extant, FixTable
<1>6. PayloadsDistinct'
  BY <1>1, <1>5 DEF PayloadsDistinct
<1>7. ASSUME NEW a \in Extant PROVE heap'[a].payload = heap[a].payload /\ Content(a)' = Content(a)
  <2>1. FieldsFixed(a) = TRUE /\ FieldsFixed(a)' = TRUE
    BY <1>1, <1>2, <1>5 DEF FieldsFixed
  <2>2. FieldIdentities(a)' = FieldIdentities(a)
    BY <1>1, <1>3, <2>1 DEF FieldIdentities
  <2> QED BY <1>1, <2>2 DEF Content
<1>8. Graph' = Graph
  BY <1>1, <1>5, <1>6, <1>7, GraphStays
<1>9. RootGraph' = RootGraph
  <2>1. RootsFixed = TRUE /\ RootsFixed' = TRUE
    BY <1>1, <1>2 DEF RootsFixed
  <2> QED BY <1>1, <1>3, <2>1, RootGraphKept
<1>10. FixTable' /\ Slots' = Slots
  BY <1>1 DEF FixTable, Slots
<1> QED BY <1>1, <1>6, <1>8, <1>9, <1>10, StillSurviving

---------------------------------------------------------------------------
(*************************************************************************)
(* Sliding: an object is the same wherever it lies                       *)
(*************************************************************************)
\* What two objects, one now and one in the next state, have in common.
SameObject(b, c) ==
  /\ heap'[c].class = heap[b].class /\ heap'[c].len = heap[b].len
  /\ heap'[c].fields = heap[b].fields /\ heap'[c].payload = heap[b].payload

\* Every survivor is the same object after a slide, wherever it lies.
LEMMA SlideSame ==
  ASSUME LayoutInv, SlideObject, NEW i \in DOMAIN relocs
  PROVE  SameObject(At(i), At(i)')
<1>1. /\ pc = "slide" /\ cursor \in DOMAIN relocs /\ relocs' = relocs /\ TypeOK
      /\ cursor \in Nat /\ i \in Nat
  <2>1. pc = "slide" /\ cursor \in DOMAIN relocs /\ relocs' = relocs /\ TypeOK
    BY DEF SlideObject, LayoutInv
  <2>2. DOMAIN relocs = 1 .. Len(relocs) /\ Len(relocs) \in Nat
    BY <2>1, TableTyped
  <2>3. cursor \in Nat /\ i \in Nat
    BY ONLY i \in DOMAIN relocs, <2>1, <2>2
  <2> QED BY <2>1, <2>3
<1>2. PICK old, new : old = relocs[cursor].old /\ new = relocs[cursor].new
  OBVIOUS
<1>3. old \in DOMAIN heap
  BY <1>1, <1>2 DEF LayoutInv, UnslidIntact
<1>4. /\ pc' = "slide" /\ cursor' = cursor + 1
      /\ heap'[new] = [heap[old] EXCEPT !.marked = FALSE]
  BY <1>1, <1>2, <1>3 DEF SlideObject
<1>5. At(i) = (IF i < cursor THEN relocs[i].new ELSE relocs[i].old)
      /\ At(i)' = IF i < cursor + 1 THEN relocs[i].new ELSE relocs[i].old
  BY <1>1, <1>4 DEF At, Slid
<1>6. CASE i = cursor
  <2>1. At(i) = old /\ At(i)' = new
    BY <1>1, <1>2, <1>5, <1>6
  <2>2. heap[old] \in Object
    BY <1>1, <1>3 DEF TypeOK
  <2>3. SameObject(old, new)
    BY <1>4, <2>2 DEF SameObject, Object
  <2> QED BY <2>1, <2>3
<1>7. CASE i < cursor
  <2>1. At(i) = relocs[i].new /\ At(i)' = relocs[i].new
    BY <1>1, <1>5, <1>7
  <2> QED BY <1>7, <2>1, SlideSpares DEF SameObject
<1>8. CASE cursor < i
  <2>1. At(i) = relocs[i].old /\ At(i)' = relocs[i].old
    BY <1>1, <1>5, <1>8
  <2> QED BY <1>8, <2>1, SlideSpares DEF SameObject
<1> QED BY <1>1, <1>6, <1>7, <1>8

\* No two survivors are at the same place.
LEMMA AtDistinct ==
  ASSUME LayoutInv, NEW i \in DOMAIN relocs, NEW j \in DOMAIN relocs, At(i) = At(j)
  PROVE  i = j
<1>1. ASSUME NEW m \in DOMAIN relocs, NEW n \in DOMAIN relocs, Slid(m), ~Slid(n)
      PROVE  At(m) # At(n)
  <2>1. cursor \in Nat /\ HeaderSize \in Nat \ {0} /\ m \in Nat /\ n \in Nat
    <3>1. DOMAIN relocs = 1 .. Len(relocs) /\ Len(relocs) \in Nat
      BY TableTyped DEF LayoutInv
    <3>2. cursor \in Nat /\ HeaderSize \in Nat \ {0}
      BY LayoutAssumption DEF LayoutInv, TypeOK
    <3> QED BY <3>1, <3>2
  <2>2. m < n
    BY <1>1, <2>1 DEF Slid
  <2>3. /\ relocs[m].new + relocs[m].size <= relocs[n].new /\ relocs[n].new <= relocs[n].old
        /\ relocs[m].size >= HeaderSize
    BY <2>2 DEF LayoutInv, TableOrdered
  <2>4. /\ relocs[m].new \in Nat /\ relocs[m].size \in Nat
        /\ relocs[n].new \in Nat /\ relocs[n].old \in Nat
    BY TableTyped DEF LayoutInv
  <2>5. relocs[m].new # relocs[n].old
    BY <2>1, <2>3, <2>4
  <2> QED BY <1>1, <2>5 DEF At
<1>2. Slid(i) <=> Slid(j)
  BY <1>1
<1> QED BY <1>2, TableDistinct DEF At

\* While survivors slide, what exists is the objects of the table, each where it is.
LEMMA SlideExtant ==
  ASSUME LayoutInv, pc = "slide"
  PROVE  Extant = {At(i) : i \in DOMAIN relocs}
BY SurvivorsIntact DEF Extant

\* What a rewritten reference means does not depend on how far the slide is.
LEMMA SlideMeaning ==
  ASSUME LayoutInv, LayoutInv', SlideObject, pc' = "slide"
  PROVE  \A r \in Moved : Identity(r, TRUE)' = Identity(r, TRUE)
<1>1. pc = "slide" /\ relocs' = relocs
  BY DEF SlideObject
<1>0. Extant' = {At(i)' : i \in DOMAIN relocs}
  <2>1. (LayoutInv /\ pc = "slide" => Extant = {At(i) : i \in DOMAIN relocs})'
    BY SlideExtant, PTL
  <2> QED BY <1>1, <2>1
<1>2. /\ \A i \in DOMAIN relocs : \A r : r = relocs[i].new => Identity(r, TRUE) = Plain(At(i))
      /\ \A r \in Immortal : Identity(r, TRUE) = r
  BY <1>1, MovedIdentity
<1>3. /\ \A i \in DOMAIN relocs : \A r : r = relocs[i].new => Identity(r, TRUE)' = Plain(At(i))'
      /\ \A r \in Immortal : Identity(r, TRUE)' = r
  <2>1. (LayoutInv /\ pc \in {"fix", "slide"} =>
           /\ \A i \in DOMAIN relocs : \A r : r = relocs[i].new => Identity(r, TRUE) = Plain(At(i))
           /\ \A r \in Immortal : Identity(r, TRUE) = r)'
    BY MovedIdentity, PTL
  <2> QED BY <1>1, <2>1 DEF Immortal
<1>4. ASSUME NEW k \in DOMAIN relocs PROVE Plain(At(k))' = Plain(At(k))
  <2>1. At(k) \in DOMAIN heap
    BY <1>1, SurvivorsIntact
  <2>2. At(k)' \in DOMAIN heap'
    BY <1>0, <1>1 DEF Extant
  <2>3. SameObject(At(k), At(k)')
    BY SlideSame
  <2> QED BY <2>1, <2>2, <2>3 DEF Plain, SameObject
<1> SUFFICES ASSUME NEW r \in Moved PROVE Identity(r, TRUE)' = Identity(r, TRUE)
  OBVIOUS
<1>5. CASE r \in Immortal
  BY <1>2, <1>3, <1>5
<1>6. CASE r \notin Immortal
  <2>1. PICK i \in DOMAIN relocs : r = relocs[i].new
    BY <1>6 DEF Moved
  <2> QED BY <1>2, <1>3, <1>4, <2>1, ZenonT(30)
<1> QED BY <1>5, <1>6

\* One survivor is copied down, and the graph cannot tell.
LEMMA SlideObjectGraph ==
  ASSUME MemoryInv, MemoryInv', GraphInv, SlideObject
  PROVE  Stutters /\ GraphInv'
<1>1. /\ pc = "slide" /\ UNCHANGED <<frames, request, relocs>>
      /\ LayoutInv /\ LayoutInv' /\ NoFault' /\ MovedIntact /\ PayloadsDistinct
  BY DEF SlideObject, MemoryInv, ReferenceInv, GraphInv
<1>2. pc' = "slide"
  BY <1>1 DEF SlideObject, NoFault
<1>3. Extant = {At(i) : i \in DOMAIN relocs} /\ Extant' = {At(i)' : i \in DOMAIN relocs}
  <2>1. (LayoutInv /\ pc = "slide" => Extant = {At(i) : i \in DOMAIN relocs})'
    BY SlideExtant, PTL
  <2> QED BY <1>1, <1>2, <2>1, SlideExtant
<1>4. \A i \in DOMAIN relocs : SameObject(At(i), At(i)')
  BY <1>1, SlideSame
<1>5. PayloadsDistinct'
  <2> SUFFICES ASSUME NEW b \in Extant', NEW c \in Extant', heap'[b].payload = heap'[c].payload
               PROVE  b = c
    BY DEF PayloadsDistinct
  <2>1. PICK i \in DOMAIN relocs : b = At(i)'
    BY <1>3
  <2>2. PICK j \in DOMAIN relocs : c = At(j)'
    BY <1>3
  <2>3. heap[At(i)].payload = heap[At(j)].payload
    BY <1>4, <2>1, <2>2 DEF SameObject
  <2>4. At(i) = At(j)
    BY <1>1, <1>3, <2>3 DEF PayloadsDistinct
  <2>5. i = j
    BY <1>1, <2>4, AtDistinct
  <2> QED BY <2>1, <2>2, <2>5
<1>6. \A r \in Moved : Identity(r, TRUE)' = Identity(r, TRUE)
  BY <1>1, <1>2, SlideMeaning
<1>7. ASSUME NEW i \in DOMAIN relocs, NEW b, NEW c, b = At(i), c = At(i)'
      PROVE  heap'[c].payload = heap[b].payload /\ Content(c)' = Content(b)
  <2>1. SameObject(b, c)
    BY <1>4, <1>7
  <2>2. FieldValues(b) \subseteq Moved
    <3>1. cursor \in Nat /\ i \in Nat
      <4>1. TypeOK /\ DOMAIN relocs = 1 .. Len(relocs) /\ Len(relocs) \in Nat
        BY <1>1, TableTyped DEF LayoutInv
      <4>2. i \in Nat
        BY ONLY i \in DOMAIN relocs, <4>1
      <4> QED BY <4>1, <4>2 DEF TypeOK
    <3>2. CASE i < cursor
      BY <1>1, <1>7, <3>2 DEF MovedIntact, At, Slid
    <3>3. CASE cursor <= i
      <4>1. ~(i < cursor)
        BY <3>1, <3>3
      <4> QED BY <1>1, <1>7, <3>3, <4>1 DEF MovedIntact, At, Slid
    <3> QED BY <3>1, <3>2, <3>3
  <2>3. (FieldsFixed(c)' <=> TRUE) /\ (FieldsFixed(b) <=> TRUE)
    BY <1>1, <1>2 DEF FieldsFixed
  <2>4. ASSUME NEW k \in DOMAIN heap[b].fields, NEW x, NEW y,
               x = heap[b].fields[k], y = heap'[c].fields[k]
        PROVE  Meaning(y, c)' = Meaning(x, b)
    <3>1. y = x /\ x \in Moved
      BY <2>1, <2>2, <2>4 DEF SameObject, FieldValues
    <3>2. Identity(y, TRUE)' = Identity(x, TRUE)
      BY <1>6, <3>1
    <3> QED BY <2>3, <3>2 DEF Meaning
  <2>5. FieldIdentities(c)' = FieldIdentities(b)
    <3>1. DOMAIN heap'[c].fields = DOMAIN heap[b].fields
      BY <2>1 DEF SameObject
    <3> QED BY <2>4, <3>1, FieldIdentitiesKept
  <2> QED BY <2>1, <2>5 DEF Content, SameObject
<1>8. Graph' = Graph
  <2>1. ASSUME NEW a \in Extant
        PROVE  \E b \in Extant' : heap'[b].payload = heap[a].payload /\ Content(b)' = Content(a)
    <3>1. PICK i \in DOMAIN relocs : a = At(i)
      BY <1>3
    <3>2. PICK b : b = At(i)'
      OBVIOUS
    <3>3. heap'[b].payload = heap[a].payload /\ Content(b)' = Content(a)
      BY <1>7, <3>1, <3>2
    <3> QED BY <1>3, <3>2, <3>3
  <2>2. ASSUME NEW b \in Extant' PROVE \E a \in Extant : heap'[b].payload = heap[a].payload
    <3>1. PICK i \in DOMAIN relocs : b = At(i)'
      BY <1>3
    <3> QED BY <1>3, <1>4, <3>1 DEF SameObject
  <2> QED BY <1>1, <1>5, <2>1, <2>2, GraphKept
<1>9. RootGraph' = RootGraph
  <2>1. RootsFixed = TRUE /\ RootsFixed' = TRUE
    BY <1>1, <1>2 DEF RootsFixed
  <2>2. \A f \in DOMAIN frames : \A i \in DOMAIN frames[f] : frames[f][i] \in Moved
    BY <1>1 DEF MovedIntact, SlotValues
  <2> QED BY <1>1, <1>6, <2>1, <2>2, RootGraphKept
<1>10. FixTable' /\ Slots' = Slots
  BY <1>1, <1>2 DEF FixTable, Slots
<1> QED BY <1>1, <1>2, <1>5, <1>8, <1>9, <1>10, StillSurviving

\* When everything has been slid, the new addresses are what references mean.
LEMMA CollectDoneMeaning ==
  ASSUME LayoutInv, TypeOK', CollectDone
  PROVE  /\ Extant = {relocs[i].new : i \in DOMAIN relocs} /\ Extant' = Extant
         /\ \A a \in Extant : a \in DOMAIN heap' /\ heap'[a] = heap[a]
         /\ \A i \in DOMAIN relocs : i < cursor
         /\ \A r \in Moved : Plain(r)' = Identity(r, TRUE)
<1>1. /\ pc = "slide" /\ cursor > Len(relocs) /\ pc' \in {"run", "retry"}
      /\ heap' = Restrict(heap, {a \in DOMAIN heap : a < dest})
      /\ TypeOK
  BY DEF CollectDone, LayoutInv
<1>2. /\ DOMAIN relocs = 1 .. Len(relocs) /\ Len(relocs) \in Nat
      /\ \A i \in DOMAIN relocs : relocs[i].new \in Nat /\ relocs[i].size \in Nat
  BY <1>1, TableTyped
<1>3. cursor \in Nat /\ dest \in Nat /\ HeaderSize \in Nat \ {0}
  BY <1>1, LayoutAssumption DEF TypeOK
<1>4. \A i \in DOMAIN relocs : i < cursor
  BY <1>1, <1>2, <1>3
<1>5. \A i \in DOMAIN relocs : At(i) = relocs[i].new
  BY <1>1, <1>4 DEF At, Slid
<1>6. Extant = {relocs[i].new : i \in DOMAIN relocs}
  BY <1>1, <1>5, SlideExtant
<1>7. /\ DOMAIN heap' = {a \in DOMAIN heap : a < dest}
      /\ \A a \in DOMAIN heap' : heap'[a] = heap[a]
  BY <1>1 DEF Restrict
<1>8. \A i \in DOMAIN relocs : relocs[i].new \in DOMAIN heap'
  <2>1. ASSUME NEW i \in DOMAIN relocs PROVE relocs[i].new < dest
    <3>1. relocs[i].new + relocs[i].size <= dest /\ relocs[i].size >= HeaderSize
      BY DEF LayoutInv, TableOrdered
    <3> QED BY <1>2, <1>3, <3>1
  <2>2. \A i \in DOMAIN relocs : relocs[i].new \in DOMAIN heap
    BY <1>1, <1>4 DEF LayoutInv, SlidPrefix
  <2> QED BY <1>7, <2>1, <2>2
<1>9. \A a \in DOMAIN heap' : \E i \in DOMAIN relocs : relocs[i].new = a
  <2>1. SlideFront = dest
    <3>1. cursor \notin DOMAIN relocs
      BY <1>1, <1>2, <1>3
    <3> QED BY <3>1 DEF SlideFront
  <2> QED BY <1>1, <1>7, <2>1 DEF LayoutInv, SlidPrefix
<1>10. Extant' = DOMAIN heap'
  BY <1>1 DEF Extant
<1>11. ASSUME NEW r \in Moved PROVE Plain(r)' = Identity(r, TRUE)
  <2>1. CASE r \in Immortal
    <3>1. Identity(r, TRUE) = r
      BY <1>1, <2>1, MovedIdentity
    <3>2. r \notin DOMAIN heap'
      BY <2>1, HeapAssumption, RegionNat DEF Immortal, TypeOK, Addresses
    <3> QED BY <3>1, <3>2 DEF Plain
  <2>2. CASE r \notin Immortal
    <3>1. PICK i \in DOMAIN relocs : r = relocs[i].new
      BY <2>2 DEF Moved
    <3>2. Identity(r, TRUE) = Plain(At(i)) /\ At(i) = r
      BY <1>1, <1>5, <3>1, MovedIdentity
    <3>3. r \in DOMAIN heap /\ r \in DOMAIN heap' /\ heap'[r] = heap[r]
      BY <1>7, <1>8, <3>1
    <3> QED BY <3>2, <3>3 DEF Plain
  <2> QED BY <2>1, <2>2
<1>12. \A r \in Moved : Plain(r)' = Identity(r, TRUE)
  BY <1>11
<1> QED BY <1>4, <1>6, <1>7, <1>8, <1>9, <1>10, <1>12

\* `free` is reset to the end of the survivors, and the graph cannot tell.
LEMMA CollectDoneGraph ==
  ASSUME MemoryInv, MemoryInv', GraphInv, CollectDone
  PROVE  Stutters /\ GraphInv'
<1>1. /\ pc = "slide" /\ pc' \in {"run", "retry"} /\ UNCHANGED <<frames, request>>
      /\ LayoutInv /\ TypeOK' /\ MovedIntact /\ PayloadsDistinct
  BY DEF CollectDone, MemoryInv, LayoutInv, ReferenceInv, GraphInv
<1>2. /\ Extant = {relocs[i].new : i \in DOMAIN relocs} /\ Extant' = Extant
      /\ \A a \in Extant : a \in DOMAIN heap' /\ heap'[a] = heap[a]
      /\ \A i \in DOMAIN relocs : i < cursor
      /\ \A r \in Moved : Plain(r)' = Identity(r, TRUE)
  BY <1>1, CollectDoneMeaning
<1>3. PayloadsDistinct'
  <2> SUFFICES ASSUME NEW b \in Extant, NEW c \in Extant, heap'[b].payload = heap'[c].payload
               PROVE  b = c
    BY <1>2 DEF PayloadsDistinct
  <2>1. heap[b].payload = heap[c].payload
    BY <1>2
  <2> QED BY <1>1, <2>1 DEF PayloadsDistinct
<1>4. ASSUME NEW a \in Extant PROVE heap'[a].payload = heap[a].payload /\ Content(a)' = Content(a)
  <2>1. heap'[a] = heap[a] /\ FieldValues(a) \subseteq Moved
    BY <1>1, <1>2 DEF MovedIntact
  <2>2. (FieldsFixed(a)' <=> FALSE) /\ (FieldsFixed(a) <=> TRUE)
    BY <1>1 DEF FieldsFixed
  <2>3. ASSUME NEW k \in DOMAIN heap[a].fields, NEW x, NEW y,
               x = heap[a].fields[k], y = heap'[a].fields[k]
        PROVE  Meaning(y, a)' = Meaning(x, a)
    <3>1. y = x /\ x \in Moved
      BY <2>1, <2>3 DEF FieldValues
    <3>2. Plain(y)' = Identity(x, TRUE)
      BY <1>2, <3>1
    <3> QED BY <2>2, <3>2 DEF Meaning
  <2>4. FieldIdentities(a)' = FieldIdentities(a)
    <3>1. DOMAIN heap'[a].fields = DOMAIN heap[a].fields
      BY <2>1
    <3> QED BY <2>3, <3>1, FieldIdentitiesKept
  <2> QED BY <2>1, <2>4 DEF Content
<1>5. Graph' = Graph
  BY <1>1, <1>2, <1>3, <1>4, GraphStays
<1>6. RootGraph' = RootGraph
  <2>1. RootsFixed = TRUE /\ RootsFixed' = FALSE
    BY <1>1 DEF RootsFixed
  <2>2. \A f \in DOMAIN frames : \A i \in DOMAIN frames[f] : frames[f][i] \in Moved
    BY <1>1 DEF MovedIntact, SlotValues
  <2>3. \A r : Identity(r, FALSE)' = Plain(r)'
    BY DEF Identity, Target, Plain
  <2>4. ASSUME NEW f \in DOMAIN frames, NEW i \in DOMAIN frames[f]
        PROVE  Identity(frames[f][i], RootsFixed)' = Identity(frames[f][i], RootsFixed)
    <3>1. PICK r : r = frames[f][i]
      OBVIOUS
    <3>2. Identity(r, FALSE)' = Identity(r, TRUE)
      BY <1>2, <2>2, <2>3, <3>1
    <3> QED BY <1>1, <2>1, <3>1, <3>2
  <2> QED BY <1>1, <2>4, RootGraphKept
<1>7. FixTable' /\ Slots' = Slots
  BY <1>1 DEF FixTable, Slots
<1> QED BY <1>1, <1>3, <1>5, <1>6, <1>7, StillSurviving

---------------------------------------------------------------------------
(*************************************************************************)
(* Allocating: the room below `free`, and an identity for the new object *)
(*************************************************************************)
\* Every place in the tiled prefix but its base has an object that ends there, and
\* that is the last one before it.
LEMMA Predecessor ==
  ASSUME TypeOK, HeapTiled, pc \in {"run", "mark", "forward", "fix", "retry"},
         NEW n \in DOMAIN heap \cup {free}, n > 0
  PROVE  \E a \in DOMAIN heap : /\ a < n /\ a + SizeAt(a) = n
                                /\ \A b \in DOMAIN heap : b < n <=> b < a \/ b = a
<1>1. /\ \A a \in DOMAIN heap : a \in Nat /\ SizeAt(a) \in Nat /\ SizeAt(a) >= HeaderSize
      /\ free \in Nat /\ HeaderSize \in Nat \ {0} /\ n \in Nat
  BY RegionNat, SizeAtBound, LayoutAssumption, SMTT(30) DEF TypeOK, Addresses
<1>2. /\ free > 0 => 0 \in DOMAIN heap
      /\ \A a \in DOMAIN heap :
           /\ a + SizeAt(a) = free \/ a + SizeAt(a) \in DOMAIN heap
           /\ a + SizeAt(a) <= free
           /\ \A b \in DOMAIN heap : b # a => ~(a < b + SizeAt(b) /\ b < a + SizeAt(a))
  BY DEF HeapTiled, Overlap
<1> DEFINE T == {n - a : a \in {a \in DOMAIN heap : a < n}}
<1>3. T \subseteq Nat /\ T # {}
  <2>1. 0 \in DOMAIN heap
    <3>1. n \in DOMAIN heap => n + SizeAt(n) <= free
      BY <1>2
    <3>2. free > 0
      BY <1>1, <3>1
    <3> QED BY <1>2, <3>2
  <2>2. n - 0 \in T
    BY <2>1
  <2>3. ASSUME NEW a \in DOMAIN heap, a < n PROVE n - a \in Nat
    BY <1>1, <2>3
  <2> QED BY <2>2, <2>3
<1>4. PICK m \in T : \A k \in T : m <= k
  <2> HIDE DEF T
  <2> QED BY <1>3, LeastNatural
<1>5. PICK a \in DOMAIN heap : a < n /\ m = n - a
  BY <1>4
<1>6. ASSUME NEW b \in DOMAIN heap, b < n PROVE b < a \/ b = a
  <2>1. n - a <= n - b
    BY <1>4, <1>5, <1>6
  <2>2. a \in Nat /\ b \in Nat
    BY <1>1
  <2> QED BY <1>1, <2>1, <2>2
<1>7. a \in Nat /\ SizeAt(a) \in Nat /\ SizeAt(a) >= HeaderSize /\ a + SizeAt(a) \in Nat
  BY <1>1
<1>8. ~(a + SizeAt(a) < n)
  <2> SUFFICES ASSUME a + SizeAt(a) < n PROVE FALSE
    OBVIOUS
  <2>1. n <= free
    BY <1>1, <1>2
  <2>2. a + SizeAt(a) # free
    BY <1>1, <1>7, <2>1
  <2>3. a + SizeAt(a) \in DOMAIN heap
    BY <1>2, <2>2
  <2>4. a + SizeAt(a) < a \/ a + SizeAt(a) = a
    BY <1>6, <2>3
  <2> QED BY <1>1, <1>7, <2>4
<1>9. ~(n < a + SizeAt(a))
  <2> SUFFICES ASSUME n < a + SizeAt(a) PROVE FALSE
    OBVIOUS
  <2>1. n # free
    BY <1>1, <1>2, <1>7
  <2>2. n \in DOMAIN heap /\ n # a
    BY <1>1, <1>5, <2>1
  <2>3. a < n + SizeAt(n)
    BY <1>1, <1>5, <2>2
  <2> QED BY <1>2, <2>2, <2>3
<1>10. a + SizeAt(a) = n
  BY <1>1, <1>7, <1>8, <1>9
<1>11. \A b \in DOMAIN heap : b < n <=> b < a \/ b = a
  BY <1>1, <1>5, <1>6
<1> QED BY <1>5, <1>10, <1>11

\* What the mapping's objects occupy.
GraphSizes == [p \in DOMAIN Graph |-> SizeOf(Graph[p].class, Graph[p].len)]

\* Both specifications round an object's size alike.
LEMMA AbstractSizeOf ==
  ASSUME NEW class, NEW len
  PROVE  Abstract!SizeOf(class, len) = SizeOf(class, len)
BY DEF Abstract!SizeOf, SizeOf, Abstract!StringSize, StringSize, Abstract!AlignedSize,
       AlignedSize, Abstract!AlignDown, AlignDown

\* The image of a finite set is finite.
LEMMA ImageFinite ==
  ASSUME NEW S, IsFiniteSet(S), NEW f
  PROVE  /\ IsFiniteSet({f[x] : x \in S})
         /\ Cardinality({f[x] : x \in S}) <= Cardinality(S)
<1> DEFINE T == {f[x] : x \in S}
           g == [x \in S |-> f[x]]
<1>1. g \in Surjection(S, T)
  BY DEF Surjection
<1> HIDE DEF g, T
<1> QED BY <1>1, FS_Surjection DEF T

\* There are finitely many objects.
LEMMA GraphFinite ==
  ASSUME TypeOK, PayloadsDistinct
  PROVE  /\ IsFiniteSet(DOMAIN Graph) /\ GraphSizes \in [DOMAIN Graph -> Nat]
         /\ \A a \in Extant : GraphSizes[heap[a].payload] = SizeAt(a)
         /\ IsFiniteSet(DOMAIN heap)
<1>1. IsFiniteSet(DOMAIN heap)
  <2>1. IsFiniteSet(Addresses)
    BY RegionNat, FS_Interval DEF Addresses
  <2> QED BY <2>1, FS_Subset DEF TypeOK
<1>2. Extant \subseteq DOMAIN heap
  BY DEF Extant
<1>3. IsFiniteSet(Extant)
  BY <1>1, <1>2, FS_Subset
<1>4. IsFiniteSet({heap[a].payload : a \in Extant})
  <2> DEFINE f == [a \in Extant |-> heap[a].payload]
  <2>1. {heap[a].payload : a \in Extant} = {f[a] : a \in Extant}
    OBVIOUS
  <2> HIDE DEF f
  <2> QED BY <1>3, <2>1, ImageFinite
<1>5. /\ DOMAIN Graph = {heap[a].payload : a \in Extant}
      /\ \A a \in Extant : Graph[heap[a].payload] = Content(a)
  BY GraphAt
<1>6. ASSUME NEW a \in Extant
      PROVE  GraphSizes[heap[a].payload] = SizeAt(a) /\ SizeAt(a) \in Nat
  <2>1. heap[a].payload \in DOMAIN Graph /\ Graph[heap[a].payload] = Content(a)
    BY <1>5
  <2>2. GraphSizes[heap[a].payload] = SizeAt(a)
    BY <2>1 DEF GraphSizes, Content, SizeAt
  <2> QED BY <1>2, <2>2, SizeAtBound
<1>7. GraphSizes \in [DOMAIN Graph -> Nat]
  <2>1. \A p \in DOMAIN Graph : GraphSizes[p] \in Nat
    BY <1>5, <1>6
  <2>2. GraphSizes = [p \in DOMAIN Graph |-> GraphSizes[p]]
    BY DEF GraphSizes
  <2> QED BY <2>1, <2>2
<1> QED BY <1>1, <1>4, <1>5, <1>6, <1>7

\* ManagedHeap's Bytes is a sum over a finite set.
LEMMA BytesSum ==
  ASSUME TypeOK, PayloadsDistinct, NEW it, SumsOver(GraphSizes, DOMAIN Graph, it)
  PROVE  Abstract!Bytes(DOMAIN Graph) = it[DOMAIN Graph]
<1> DEFINE S == DOMAIN Graph
           P(f) == f = [s \in SUBSET S |->
                          IF s = {} THEN 0
                          ELSE LET x == CHOOSE x \in s : TRUE
                               IN Abstract!SizeOf(Graph[x].class, Graph[x].len) + f[s \ {x}]]
<1>1. ASSUME NEW f PROVE P(f) <=> SumsOver(GraphSizes, S, f)
  <2>1. ASSUME NEW s \in SUBSET S, s # {}, NEW x, x = CHOOSE y \in s : TRUE
        PROVE  Abstract!SizeOf(Graph[x].class, Graph[x].len) = GraphSizes[x]
    <3>1. x \in S
      BY <2>1
    <3> QED BY <3>1, AbstractSizeOf DEF GraphSizes
  <2>2. [s \in SUBSET S |->
           IF s = {} THEN 0
           ELSE LET x == CHOOSE x \in s : TRUE
                IN Abstract!SizeOf(Graph[x].class, Graph[x].len) + f[s \ {x}]]
        = [s \in SUBSET S |->
             IF s = {} THEN 0
             ELSE LET x == CHOOSE x \in s : TRUE IN GraphSizes[x] + f[s \ {x}]]
    BY <2>1
  <2> QED BY <2>2 DEF SumsOver
<1>2. Abstract!Bytes(S) = (CHOOSE f : P(f))[S]
  BY DEF Abstract!Bytes, Abstract!MapThenSumSet, Abstract!MapThenFoldSet
<1>3. PICK g : g = CHOOSE f : P(f)
  OBVIOUS
<1>4. P(it)
  <2> HIDE DEF P
  <2> QED BY <1>1
<1>5. P(g)
  <2> HIDE DEF P
  <2> QED BY <1>3, <1>4
<1>6. SumsOver(GraphSizes, S, g)
  <2> HIDE DEF P
  <2> QED BY <1>1, <1>5
<1>7. IsFiniteSet(S)
  BY GraphFinite
<1>8. g[S] = it[S]
  <2> HIDE DEF P, S
  <2>1. S \in SUBSET S
    OBVIOUS
  <2> QED BY <1>6, <1>7, <2>1, SumsAgree DEF S
<1>9. Abstract!Bytes(S) = g[S]
  <2> HIDE DEF P
  <2> QED BY <1>2, <1>3
<1> QED BY <1>8, <1>9

\* Between collections the allocated prefix is exactly what its objects occupy.
LEMMA AllocatedBytes ==
  ASSUME TypeOK, HeapTiled, PayloadsDistinct, pc \in {"run", "retry"}
  PROVE  Abstract!Bytes(DOMAIN Graph) = free
<1> DEFINE Below(n) == {heap[a].payload : a \in {b \in DOMAIN heap : b < n}}
<1>1. /\ IsFiniteSet(DOMAIN Graph) /\ GraphSizes \in [DOMAIN Graph -> Nat]
      /\ \A a \in Extant : GraphSizes[heap[a].payload] = SizeAt(a)
  BY GraphFinite
<1>2. Extant = DOMAIN heap
  BY ExtantAll
<1>3. DOMAIN Graph = {heap[a].payload : a \in DOMAIN heap}
  BY <1>2, GraphAt
<1>4. PICK it \in [SUBSET DOMAIN Graph -> Nat] : SumsOver(GraphSizes, DOMAIN Graph, it)
  BY <1>1, SumExists
<1>5. /\ it[{}] = 0
      /\ \A T \in SUBSET DOMAIN Graph : \A p \in T : it[T] = GraphSizes[p] + it[T \ {p}]
  BY <1>1, <1>4, SumRemoves
<1>6. free \in Nat /\ \A a \in DOMAIN heap : a \in Nat /\ SizeAt(a) \in Nat
  BY RegionNat, SizeAtBound DEF TypeOK, Addresses
<1> DEFINE Bad == {n \in DOMAIN heap \cup {free} : it[Below(n)] # n}
<1>7. ASSUME Bad # {} PROVE FALSE
  <2>1. Bad \subseteq Nat
    BY <1>6
  <2>2. PICK n \in Bad : \A k \in Bad : n <= k
    <3> HIDE DEF Bad
    <3> QED BY <1>7, <2>1, LeastNatural
  <2>3. n \in Nat /\ n \in DOMAIN heap \cup {free} /\ it[Below(n)] # n
    BY <2>1, <2>2
  <2>4. CASE n = 0
    <3>1. \A b \in DOMAIN heap : ~(b < 0)
      BY <1>6
    <3>2. Below(n) = {}
      BY <2>4, <3>1
    <3> QED BY <1>5, <2>3, <2>4, <3>2
  <2>5. CASE n # 0
    <3>1. n > 0
      BY <2>3, <2>5
    <3>2. PICK a \in DOMAIN heap :
                 /\ a < n /\ a + SizeAt(a) = n
                 /\ \A b \in DOMAIN heap : b < n <=> b < a \/ b = a
      BY <2>3, <3>1, Predecessor
    <3>3. a \in Nat /\ ~(a < a) /\ SizeAt(a) \in Nat
      BY <1>6
    <3>4. a \notin Bad
      BY <2>2, <2>3, <3>2, <3>3
    <3>5. it[Below(a)] = a
      BY <3>4
    <3>6. Below(n) \ {heap[a].payload} = Below(a)
      <4>1. Below(n) = Below(a) \cup {heap[a].payload}
        BY <3>2
      <4>2. heap[a].payload \notin Below(a)
        BY <1>2, <3>3 DEF PayloadsDistinct
      <4> HIDE DEF Below
      <4> QED BY <4>1, <4>2
    <3>7. Below(n) \in SUBSET DOMAIN Graph /\ heap[a].payload \in Below(n)
      BY <1>3, <3>2
    <3>8. GraphSizes[heap[a].payload] = SizeAt(a)
      BY <1>1, <1>2
    <3>9. it[Below(n)] = SizeAt(a) + a
      <4> HIDE DEF Below, Bad
      <4> QED BY <1>5, <3>5, <3>6, <3>7, <3>8
    <3> HIDE DEF Below, Bad
    <3> QED BY <2>3, <3>2, <3>3, <3>9
  <2> QED BY <2>4, <2>5
<1>8. it[Below(free)] = free
  BY <1>7
<1>9. Below(free) = DOMAIN Graph
  <2>1. \A a \in DOMAIN heap : a < free
    <3>1. HeaderSize \in Nat \ {0}
      BY LayoutAssumption
    <3>2. \A a \in DOMAIN heap : a + SizeAt(a) <= free /\ SizeAt(a) >= HeaderSize
      BY DEF HeapTiled
    <3> QED BY <1>6, <3>1, <3>2
  <2> QED BY <1>3, <2>1
<1> HIDE DEF Below
<1> QED BY <1>4, <1>8, <1>9, BytesSum

\* Two places of the tiled prefix, its end included, are at least a header apart.
LEMMA PlacesApart ==
  ASSUME TypeOK, HeapTiled, pc \in {"run", "retry"},
         NEW a \in DOMAIN heap, NEW b \in DOMAIN heap \cup {free}, a # b
  PROVE  a + HeaderSize <= b \/ b + HeaderSize <= a
<1>1. /\ a \in Nat /\ SizeAt(a) \in Nat /\ SizeAt(a) >= HeaderSize /\ a + SizeAt(a) <= free
      /\ HeaderSize \in Nat /\ free \in Nat
  <2>1. a \in Nat /\ SizeAt(a) \in Nat /\ SizeAt(a) >= HeaderSize /\ a + SizeAt(a) <= free
    BY SizeAtBound DEF HeapTiled, TypeOK, Addresses
  <2>2. HeaderSize \in Nat /\ free \in Nat
    BY RegionNat, LayoutAssumption DEF TypeOK
  <2> QED BY <2>1, <2>2
<1>2. CASE b = free
  BY <1>1, <1>2
<1>3. CASE b # free
  <2>1. /\ b \in Nat /\ SizeAt(b) \in Nat /\ SizeAt(b) >= HeaderSize
        /\ ~Overlap(a, SizeAt(a), b, SizeAt(b))
    BY <1>3, SizeAtBound DEF HeapTiled, TypeOK, Addresses
  <2> QED BY <1>1, <2>1 DEF Overlap
<1> QED BY <1>2, <1>3

\* There is a payload left for an object that fits.
LEMMA PayloadLeft ==
  ASSUME EnoughPayloads, TypeOK, HeapTiled, PayloadsDistinct, pc \in {"run", "retry"},
         free + HeaderSize <= Region
  PROVE  FreshPayload \in Payload \ Used
<1> DEFINE Places == DOMAIN heap \cup {free}
           Cells == 0 .. (ScratchCapacity - 1)
           cell == [a \in Places |-> a \div HeaderSize]
<1>1. /\ \A a \in Places : a \in Nat /\ a + HeaderSize <= Region
      /\ \A a, b \in Places : a # b => a + HeaderSize <= b \/ b + HeaderSize <= a
      /\ free \notin DOMAIN heap /\ HeaderSize \in Nat \ {0} /\ Region \in Nat
  <2>1. free \in Nat /\ HeaderSize \in Nat \ {0} /\ Region \in Nat
    BY RegionNat, LayoutAssumption DEF TypeOK
  <2>2. ASSUME NEW a \in DOMAIN heap PROVE a \in Nat /\ a + HeaderSize <= Region /\ a # free
    <3>1. a \in Nat /\ SizeAt(a) \in Nat /\ SizeAt(a) >= HeaderSize /\ a + SizeAt(a) <= free
      BY SizeAtBound DEF HeapTiled, TypeOK, Addresses
    <3> QED BY <2>1, <3>1
  <2>3. \A a, b \in Places : a # b => a + HeaderSize <= b \/ b + HeaderSize <= a
    BY PlacesApart
  <2> QED BY <2>1, <2>2, <2>3
<1>2. ASSUME NEW a \in Places PROVE a \div HeaderSize \in Cells
  <2>1. a \in Nat /\ a \div HeaderSize \in Nat /\ ScratchCapacity \in Nat
    BY <1>1, CellNat, CapacityNat
  <2>2. a \div HeaderSize < Region \div HeaderSize
    BY <1>1, <2>1, CellsDiffer
  <2> QED BY <2>1, <2>2 DEF ScratchCapacity
<1>3. cell \in Injection(Places, Cells)
  <2>1. cell \in [Places -> Cells]
    BY <1>2
  <2>2. ASSUME NEW a \in Places, NEW b \in Places, a # b PROVE cell[a] # cell[b]
    <3>1. a \in Nat /\ b \in Nat /\ (a + HeaderSize <= b \/ b + HeaderSize <= a)
      BY <1>1, <2>2
    <3>2. a \div HeaderSize < b \div HeaderSize \/ b \div HeaderSize < a \div HeaderSize
      BY <3>1, CellsDiffer
    <3>3. a \div HeaderSize \in Nat /\ b \div HeaderSize \in Nat
      BY <3>1, CellNat
    <3>4. a \div HeaderSize # b \div HeaderSize
      BY <3>2, <3>3
    <3> QED BY <3>4
  <2> HIDE DEF cell, Places, Cells
  <2> QED BY <2>1, <2>2 DEF Injection, IsInjective
<1>4. IsFiniteSet(Cells) /\ Cardinality(Cells) = ScratchCapacity
  BY CapacityNat, FS_Interval
<1>5. IsFiniteSet(Places) /\ Cardinality(Places) <= ScratchCapacity
  <2> HIDE DEF cell, Places, Cells
  <2> QED BY <1>3, <1>4, FS_Injection
<1>6. IsFiniteSet(DOMAIN heap) /\ Cardinality(Places) = Cardinality(DOMAIN heap) + 1
  <2>1. IsFiniteSet(DOMAIN heap)
    BY <1>5, FS_Subset
  <2> QED BY <1>1, <2>1, FS_AddElement
<1>7. IsFiniteSet(Used) /\ Cardinality(Used) <= Cardinality(DOMAIN heap)
  <2> DEFINE f == [a \in DOMAIN heap |-> heap[a].payload]
  <2>1. Used = {f[a] : a \in DOMAIN heap}
    BY DEF Used
  <2> HIDE DEF f
  <2> QED BY <1>6, <2>1, ImageFinite
<1>8. ~(Payload \subseteq Used)
  <2> SUFFICES ASSUME Payload \subseteq Used PROVE FALSE
    OBVIOUS
  <2>1. IsFiniteSet(Payload) /\ Cardinality(Payload) <= Cardinality(Used)
    BY <1>7, FS_Subset
  <2>2. Cardinality(Payload) >= ScratchCapacity
    BY <2>1 DEF EnoughPayloads
  <2>3. /\ Cardinality(Payload) \in Nat /\ Cardinality(Used) \in Nat
        /\ Cardinality(DOMAIN heap) \in Nat /\ ScratchCapacity \in Nat
    BY <1>6, <1>7, <2>1, FS_CardinalityType, CapacityNat
  <2> HIDE DEF Places
  <2> QED BY <1>5, <1>6, <1>7, <2>1, <2>2, <2>3
<1>9. PICK p \in Payload : p \notin Used
  BY <1>8
<1> QED BY <1>8, <1>9 DEF FreshPayload

\* The graph has the slots that the memory has.
LEMMA SlotsMeant ==
  ASSUME TypeOK
  PROVE  Abstract!Slots = Slots
<1>1. frames \in Seq(Seq(Ref)) /\ DOMAIN RootGraph = DOMAIN frames
  BY DEF TypeOK, RootGraph
<1>2. CASE frames = <<>>
  <2>1. RootGraph = <<>>
    BY <1>2 DEF RootGraph
  <2> QED BY <1>2, <2>1 DEF Slots, Abstract!Slots
<1>3. CASE frames # <<>>
  <2>1. 1 \in DOMAIN frames
    BY <1>1, <1>3
  <2>2. RootGraph # <<>> /\ DOMAIN RootGraph[1] = DOMAIN frames[1]
    BY <1>1, <2>1 DEF RootGraph
  <2> QED BY <1>3, <2>2 DEF Slots, Abstract!Slots
<1> QED BY <1>2, <1>3

\* The mapping's root slots as long as none has been rewritten.
LEMMA RootsMean ==
  ASSUME TypeOK, Unfixing
  PROVE  /\ RootGraph = [f \in DOMAIN frames |-> RootGraph[f]]
         /\ \A f \in DOMAIN frames :
              /\ RootGraph[f] = [i \in DOMAIN frames[f] |-> RootGraph[f][i]]
              /\ \A i \in DOMAIN frames[f] : \A r : r = frames[f][i] => RootGraph[f][i] = Plain(r)
<1>1. RootGraph = [f \in DOMAIN frames |-> [i \in DOMAIN frames[f] |-> Plain(frames[f][i])]]
  BY Unfixed DEF Unfixing
<1> QED BY <1>1

\* A store to one slot changes one root of the graph.
LEMMA RootsBecome ==
  ASSUME TypeOK', Unfixing', NEW G, G = [f \in DOMAIN frames' |-> G[f]],
         \A f \in DOMAIN frames' :
           /\ G[f] = [i \in DOMAIN frames'[f] |-> G[f][i]]
           /\ \A i \in DOMAIN frames'[f] : \A r : r = frames'[f][i] => G[f][i] = Plain(r)'
  PROVE  RootGraph' = G
<1>1. /\ RootGraph' = [f \in DOMAIN frames' |-> RootGraph'[f]]
      /\ \A f \in DOMAIN frames' :
           /\ RootGraph'[f] = [i \in DOMAIN frames'[f] |-> RootGraph'[f][i]]
           /\ \A i \in DOMAIN frames'[f] : \A r : r = frames'[f][i] => RootGraph'[f][i] = Plain(r)'
  <2>1. (TypeOK /\ Unfixing =>
           /\ RootGraph = [f \in DOMAIN frames |-> RootGraph[f]]
           /\ \A f \in DOMAIN frames :
                /\ RootGraph[f] = [i \in DOMAIN frames[f] |-> RootGraph[f][i]]
                /\ \A i \in DOMAIN frames[f] : \A r : r = frames[f][i] => RootGraph[f][i] = Plain(r))'
    BY RootsMean, PTL
  <2> QED BY <2>1
<1>2. ASSUME NEW f \in DOMAIN frames' PROVE RootGraph'[f] = G[f]
  <2>1. \A i \in DOMAIN frames'[f] : RootGraph'[f][i] = G[f][i]
    BY <1>1
  <2> QED BY <1>1, <2>1
<1> QED BY <1>1, <1>2

\* Storing a reference in a root slot.
LEMMA StoreMeant ==
  ASSUME TypeOK, TypeOK', Unfixing, Unfixing', NEW slot \in Slots, NEW v, NEW w,
         frames' = StoreRoot(slot, v), w = Plain(v)',
         \A r \in SlotValues : Plain(r)' = Plain(r)
  PROVE  RootGraph' = Abstract!StoreRoot(slot, w)
<1>1. /\ RootGraph = [f \in DOMAIN frames |-> RootGraph[f]]
      /\ \A f \in DOMAIN frames :
           /\ RootGraph[f] = [i \in DOMAIN frames[f] |-> RootGraph[f][i]]
           /\ \A i \in DOMAIN frames[f] : \A r : r = frames[f][i] => RootGraph[f][i] = Plain(r)
  BY RootsMean
<1>2. \A f \in DOMAIN frames : \A i \in DOMAIN frames[f] : frames[f][i] \in SlotValues
  BY DEF SlotValues
<1>3. CASE slot = 0
  <2>1. frames' = frames
    BY <1>3 DEF StoreRoot
  <2>2. ASSUME NEW f \in DOMAIN frames', NEW i \in DOMAIN frames'[f], NEW r, r = frames'[f][i]
        PROVE  RootGraph[f][i] = Plain(r)'
    <3>1. f \in DOMAIN frames /\ i \in DOMAIN frames[f] /\ r = frames[f][i]
      BY <2>1, <2>2
    <3>2. RootGraph[f][i] = Plain(r) /\ r \in SlotValues
      BY <1>1, <1>2, <3>1
    <3> QED BY <3>2
  <2>3. /\ RootGraph = [f \in DOMAIN frames' |-> RootGraph[f]]
        /\ \A f \in DOMAIN frames' : RootGraph[f] = [i \in DOMAIN frames'[f] |-> RootGraph[f][i]]
    BY <1>1, <2>1
  <2>4. RootGraph' = RootGraph
    <3>1. PICK G : G = RootGraph
      OBVIOUS
    <3>2. /\ G = [f \in DOMAIN frames' |-> G[f]]
          /\ \A f \in DOMAIN frames' :
               /\ G[f] = [i \in DOMAIN frames'[f] |-> G[f][i]]
               /\ \A i \in DOMAIN frames'[f] : \A r : r = frames'[f][i] => G[f][i] = Plain(r)'
      BY ONLY <2>2, <2>3, <3>1
    <3>3. RootGraph' = G
      BY ONLY <3>2, TypeOK', Unfixing', RootsBecome
    <3> QED BY <3>1, <3>3
  <2> QED BY <1>3, <2>4 DEF Abstract!StoreRoot
<1>4. CASE slot # 0
  <2>1. /\ frames' = [frames EXCEPT ![1][slot] = v]
        /\ frames \in Seq(Seq(Ref)) /\ frames # <<>> /\ slot \in DOMAIN frames[1]
    BY <1>4 DEF StoreRoot, Slots, TypeOK
  <2>2. 1 \in DOMAIN frames
    BY <2>1
  <2>3. /\ DOMAIN frames' = DOMAIN frames
        /\ frames'[1] = [frames[1] EXCEPT ![slot] = v]
        /\ \A f \in DOMAIN frames : f # 1 => frames'[f] = frames[f]
    BY <2>1, <2>2
  <2>4. /\ DOMAIN frames'[1] = DOMAIN frames[1] /\ frames'[1][slot] = v
        /\ \A i \in DOMAIN frames[1] : i # slot => frames'[1][i] = frames[1][i]
    BY <2>1, <2>3
  <2> DEFINE G == [RootGraph EXCEPT ![1][slot] = w]
  <2>5. /\ G = [f \in DOMAIN frames |-> G[f]]
        /\ G[1] = [RootGraph[1] EXCEPT ![slot] = w]
        /\ \A f \in DOMAIN frames : f # 1 => G[f] = RootGraph[f]
    BY <1>1, <2>2
  <2>6. /\ G[1] = [i \in DOMAIN frames[1] |-> G[1][i]]
        /\ G[1][slot] = w
        /\ \A i \in DOMAIN frames[1] : i # slot => G[1][i] = RootGraph[1][i]
    <3> HIDE DEF G
    <3> QED BY <1>1, <2>1, <2>2, <2>5
  <2> HIDE DEF G
  <2>7. ASSUME NEW f \in DOMAIN frames', NEW i \in DOMAIN frames'[f], NEW r, r = frames'[f][i]
        PROVE  G[f][i] = Plain(r)'
    <3>1. CASE f = 1 /\ i = slot
      BY <2>4, <2>6, <2>7, <3>1
    <3>2. CASE f # 1 \/ i # slot
      <4>1. f \in DOMAIN frames /\ i \in DOMAIN frames[f] /\ r = frames[f][i]
        BY <2>3, <2>4, <2>7, <3>2
      <4>2. G[f][i] = RootGraph[f][i]
        BY <2>5, <2>6, <3>2, <4>1
      <4>3. G[f][i] = Plain(r) /\ r \in SlotValues
        BY <1>1, <1>2, <4>1, <4>2
      <4> QED BY <4>3
    <3> QED BY <3>1, <3>2
  <2>8. \A f \in DOMAIN frames' : G[f] = [i \in DOMAIN frames'[f] |-> G[f][i]]
    BY <1>1, <2>3, <2>4, <2>5, <2>6
  <2>9. RootGraph' = G
    <3>1. G = [f \in DOMAIN frames' |-> G[f]]
      BY <2>3, <2>5
    <3> QED BY ONLY <2>7, <2>8, <3>1, TypeOK', Unfixing', RootsBecome, ZenonT(30)
  <2> QED BY <1>4, <2>9 DEF G, Abstract!StoreRoot
<1> QED BY <1>3, <1>4

\* A carved object is a new vertex, and the requesting slot refers to it.
LEMMA CarveGraph ==
  ASSUME EnoughPayloads, MemoryInv, MemoryInv', GraphInv, pc \in {"run", "retry"}, pc' = "run",
         NEW req \in Request, req.slot \in Slots, req.len \in Lengths(req.class),
         Fits(req), Carve(req)
  PROVE  Abstract!Alloc /\ GraphInv'
<1>0. PICK at, id : at = free /\ id = FreshPayload
  OBVIOUS
<1>1. TypeOK /\ TypeOK' /\ HeapTiled /\ NoStaleReference /\ PayloadsDistinct
  BY DEF MemoryInv, LayoutInv, ReferenceInv, GraphInv
<1>2. /\ req.class \in Classes /\ req.len \in Nat
      /\ SizeOf(req.class, req.len) \in Nat /\ SizeOf(req.class, req.len) >= HeaderSize
  BY RequestTyped, SizeBound
<1>3. id \in Payload \ Used
  <2>1. free \in Nat /\ HeaderSize \in Nat /\ Region \in Nat
    BY <1>1, RegionNat, LayoutAssumption DEF TypeOK
  <2>2. free + SizeOf(req.class, req.len) <= Region
    BY DEF Fits
  <2>3. free + HeaderSize <= Region
    <3> HIDE DEF SizeOf
    <3> QED BY <1>2, <2>1, <2>2
  <2> QED BY <1>0, <1>1, <2>3, PayloadLeft
<1>4. /\ at \in Nat /\ at \notin DOMAIN heap
      /\ DOMAIN heap' = DOMAIN heap \cup {at} /\ \A a \in DOMAIN heap : heap'[a] = heap[a]
      /\ heap'[at].class = req.class /\ heap'[at].len = req.len
      /\ heap'[at].fields = [i \in 1 .. PointerCount[req.class] |-> Null]
      /\ heap'[at].payload = id
  <2>1. at \in Nat /\ HeaderSize \in Nat \ {0}
    BY <1>0, <1>1, RegionNat, LayoutAssumption DEF TypeOK
  <2>2. at \notin DOMAIN heap
    <3> SUFFICES ASSUME at \in DOMAIN heap PROVE FALSE
      OBVIOUS
    <3>1. at + SizeAt(at) <= at /\ SizeAt(at) \in Nat /\ SizeAt(at) >= HeaderSize
      BY <1>0, <1>1, SizeAtBound DEF HeapTiled
    <3> QED BY <2>1, <3>1
  <2>3. heap' = [a \in DOMAIN heap \cup {at} |-> IF a = at THEN Fresh(req) ELSE heap[a]]
    BY <1>0 DEF Carve
  <2>4. heap'[at] = Fresh(req)
    BY <2>3
  <2>5. DOMAIN heap' = DOMAIN heap \cup {at} /\ \A a \in DOMAIN heap : heap'[a] = heap[a]
    BY <2>2, <2>3
  <2> QED BY <1>0, <2>1, <2>2, <2>4, <2>5 DEF Fresh
<1>5. Extant = DOMAIN heap /\ Extant' = DOMAIN heap'
  BY DEF Extant
<1>6. PayloadsDistinct'
  <2>1. \A a \in DOMAIN heap : heap[a].payload # id
    BY <1>3 DEF Used
  <2> SUFFICES ASSUME NEW b \in DOMAIN heap', NEW c \in DOMAIN heap', heap'[b].payload = heap'[c].payload
               PROVE  b = c
    BY <1>5 DEF PayloadsDistinct
  <2>2. CASE b \in DOMAIN heap /\ c \in DOMAIN heap
    BY <1>1, <1>4, <1>5, <2>2 DEF PayloadsDistinct
  <2>3. CASE b = at \/ c = at
    BY <1>4, <2>1, <2>3
  <2> QED BY <1>4, <2>2, <2>3
<1>7. \A r \in Live : Plain(r)' = Plain(r)
  <2>1. at \notin Live
    BY <1>4, HeapAssumption DEF Live, Immortal
  <2> QED BY <1>4, <2>1 DEF Plain
<1>8. /\ SlotValues \subseteq Live
      /\ \A a \in DOMAIN heap : FieldValues(a) \subseteq Live
  BY <1>1 DEF NoStaleReference, Live, Immortal
<1>9. \A a : ~FieldsFixed(a) /\ ~FieldsFixed(a)'
  BY DEF FieldsFixed
<1>10. ASSUME NEW a \in DOMAIN heap PROVE Content(a)' = Content(a)
  <2>1. ASSUME NEW k \in DOMAIN heap[a].fields, NEW x, NEW y,
               x = heap[a].fields[k], y = heap'[a].fields[k]
        PROVE  Meaning(y, a)' = Meaning(x, a)
    <3>1. y = x /\ x \in Live
      BY <1>4, <1>8, <2>1 DEF FieldValues
    <3> QED BY <1>7, <1>9, <3>1 DEF Meaning
  <2>2. FieldIdentities(a)' = FieldIdentities(a)
    <3>1. DOMAIN heap'[a].fields = DOMAIN heap[a].fields
      BY <1>4
    <3> QED BY <2>1, <3>1, FieldIdentitiesKept
  <2> QED BY <1>4, <2>2 DEF Content
<1>11. Content(at)' = [class |-> req.class, len |-> req.len,
                       fields |-> [i \in 1 .. PointerCount[req.class] |-> Null]]
  <2>1. /\ FieldIdentities(at)' = [i \in DOMAIN heap'[at].fields |-> FieldIdentities(at)'[i]]
        /\ \A i \in DOMAIN heap'[at].fields : \A y : y = heap'[at].fields[i] =>
             FieldIdentities(at)'[i] = Meaning(y, at)'
    <3>1. (\A a : /\ FieldIdentities(a) = [i \in DOMAIN heap[a].fields |-> FieldIdentities(a)[i]]
                  /\ \A i \in DOMAIN heap[a].fields : \A x : x = heap[a].fields[i] =>
                       FieldIdentities(a)[i] = Meaning(x, a))'
      BY FieldIdentityIs, PTL
    <3> QED BY <3>1
  <2>2. Meaning(Null, at)' = Null
    <3>1. Null \notin DOMAIN heap'
      BY <1>1, HeapAssumption, RegionNat DEF TypeOK, Addresses
    <3> QED BY <1>9, <3>1 DEF Meaning, Plain
  <2>3. FieldIdentities(at)' = [i \in 1 .. PointerCount[req.class] |-> Null]
    <3>1. PICK n : n = PointerCount[req.class]
      OBVIOUS
    <3>2. DOMAIN heap'[at].fields = 1 .. n /\ \A i \in 1 .. n : heap'[at].fields[i] = Null
      BY <1>4, <3>1
    <3>3. \A i \in 1 .. n : FieldIdentities(at)'[i] = Null
      BY <2>1, <2>2, <3>2
    <3> QED BY <2>1, <3>1, <3>2, <3>3
  <2> QED BY <1>4, <2>3 DEF Content
<1>12. /\ id \notin DOMAIN Graph
       /\ Graph' = [j \in DOMAIN Graph \cup {id} |->
                      IF j = id
                        THEN [class |-> req.class, len |-> req.len,
                              fields |-> [i \in 1 .. PointerCount[req.class] |-> Null]]
                        ELSE Graph[j]]
  <2>1. /\ DOMAIN Graph = {heap[a].payload : a \in DOMAIN heap}
        /\ \A a \in DOMAIN heap : Graph[heap[a].payload] = Content(a)
    BY <1>1, <1>5, GraphAt
  <2>2. /\ DOMAIN Graph' = {heap'[a].payload : a \in DOMAIN heap'}
        /\ \A a \in DOMAIN heap' : Graph'[heap'[a].payload] = Content(a)'
        /\ Graph' = [p \in DOMAIN Graph' |-> Graph'[p]]
    <3>1. (PayloadsDistinct => /\ DOMAIN Graph = {heap[a].payload : a \in Extant}
                               /\ \A a \in Extant : Graph[heap[a].payload] = Content(a)
                               /\ Graph = [p \in DOMAIN Graph |-> Graph[p]])'
      BY GraphAt, PTL
    <3> QED BY <1>5, <1>6, <3>1
  <2>3. id \notin DOMAIN Graph
    BY <1>3, <2>1 DEF Used
  <2>4. DOMAIN Graph' = DOMAIN Graph \cup {id}
    BY <1>4, <2>1, <2>2
  <2>5. \A j \in DOMAIN Graph : Graph'[j] = Graph[j]
    BY <1>4, <1>10, <2>1, <2>2
  <2>6. Graph'[id] = Content(at)'
    BY <1>4, <2>2
  <2>7. \A j \in DOMAIN Graph' :
          Graph'[j] = IF j = id
                        THEN [class |-> req.class, len |-> req.len,
                              fields |-> [i \in 1 .. PointerCount[req.class] |-> Null]]
                        ELSE Graph[j]
    BY <1>11, <2>3, <2>4, <2>5, <2>6
  <2> QED BY <2>2, <2>3, <2>4, <2>7
<1>13. RootGraph' = Abstract!StoreRoot(req.slot, id)
  <2>1. id = Plain(at)'
    BY <1>4 DEF Plain
  <2>2. frames' = StoreRoot(req.slot, at)
    BY <1>0 DEF Carve
  <2>3. Unfixing /\ Unfixing'
    BY DEF Unfixing
  <2>4. \A r \in SlotValues : Plain(r)' = Plain(r)
    BY <1>7, <1>8
  <2> QED BY <1>1, <2>1, <2>2, <2>3, <2>4, StoreMeant
<1>14. Abstract!Bytes(DOMAIN Graph) + Abstract!SizeOf(req.class, req.len) <= Region
  BY <1>1, AllocatedBytes, AbstractSizeOf DEF Fits
<1>15. req.slot \in Abstract!Slots /\ req.len \in Abstract!Lengths(req.class)
  BY <1>1, SlotsMeant DEF Lengths, Abstract!Lengths
<1>16. Status' = Status
  BY DEF Status, Faults
<1>17. GraphInv'
  BY <1>6 DEF GraphInv, RequestKept, MarkedReachable, SurvivorsReachable, FixTable, Collecting
<1>18. Abstract!Alloc
  BY <1>2, <1>3, <1>12, <1>13, <1>14, <1>15, <1>16 DEF Abstract!Alloc
<1> QED BY <1>17, <1>18

\* The allocation after a collection: it succeeds, or the program is out of memory.
LEMMA AllocRetryGraph ==
  ASSUME EnoughPayloads, MemoryInv, MemoryInv', GraphInv, AllocRetry
  PROVE  (Abstract!Alloc \/ Abstract!OutOfMemory) /\ GraphInv'
<1>1. /\ pc = "retry" /\ TypeOK /\ TypeOK' /\ HeapTiled /\ PayloadsDistinct
      /\ request \in Request /\ request # NoRequest
      /\ request.slot \in Slots /\ request.len \in Lengths(request.class)
  <2>1. pc = "retry" /\ TypeOK /\ TypeOK' /\ HeapTiled /\ PayloadsDistinct /\ RequestKept
        /\ request \in Request
    BY DEF AllocRetry, MemoryInv, LayoutInv, TypeOK, GraphInv
  <2>2. request # NoRequest
    <3>1. request.len \in Nat
      BY <2>1, RequestTyped
    <3>2. -1 \notin Nat
      OBVIOUS
    <3> QED BY <3>1, <3>2 DEF NoRequest
  <2> QED BY <2>1, <2>2 DEF RequestKept
<1>2. CASE Fits(request) /\ Carve(request) /\ pc' = "run"
  <2>1. PICK req : req = request
    OBVIOUS
  <2> QED BY <1>1, <1>2, <2>1, CarveGraph
<1>3. CASE ~Fits(request) /\ pc' = "oom" /\ UNCHANGED mutator
  <2>1. UNCHANGED <<heap, free, frames>>
    BY <1>3 DEF mutator
  <2>2. Extant' = Extant /\ Unfixing /\ Unfixing'
    BY <1>1, <1>3, <2>1 DEF Extant, Unfixing
  <2>3. PayloadsDistinct' /\ UNCHANGED <<Graph, RootGraph>>
    BY <1>1, <2>1, <2>2, StillUnfixed
  <2>4. Status' = "oom"
    BY <1>3 DEF Status, Faults
  <2>5. Abstract!Bytes(Abstract!Reachable) = free
    <3>1. Abstract!Reachable = DOMAIN Graph
      BY <1>1 DEF GraphInv, SurvivorsReachable
    <3> QED BY <1>1, <3>1, AllocatedBytes
  <2>6. Abstract!Bytes(Abstract!Reachable) + Abstract!SizeOf(request.class, request.len) > Region
    <3>1. free \in Nat /\ Region \in Nat /\ SizeOf(request.class, request.len) \in Nat
      <4>1. SizeOf(request.class, request.len) \in Nat
        BY <1>1, RequestTyped, SizeBound
      <4>2. free \in Nat /\ Region \in Nat
        BY <1>1, RegionNat DEF TypeOK
      <4> QED BY <4>1, <4>2
    <3>2. ~(free + SizeOf(request.class, request.len) <= Region)
      BY <1>3 DEF Fits
    <3>3. free + SizeOf(request.class, request.len) > Region
      <4> HIDE DEF SizeOf
      <4> QED BY <3>1, <3>2
    <3> QED BY <2>5, <3>3, AbstractSizeOf
  <2>7. Abstract!OutOfMemory
    <3>1. request.class \in Classes /\ request.len \in Abstract!Lengths(request.class)
      BY <1>1, RequestTyped DEF Lengths, Abstract!Lengths
    <3> QED BY <2>3, <2>4, <2>6, <3>1 DEF Abstract!OutOfMemory
  <2>8. GraphInv'
    BY <1>3, <2>3 DEF GraphInv, RequestKept, MarkedReachable, SurvivorsReachable, FixTable, Collecting
  <2> QED BY <2>7, <2>8
<1> QED BY <1>2, <1>3 DEF AllocRetry

\* The allocation: it succeeds at once, or a collection begins.
LEMMA LoAllocGraph ==
  ASSUME EnoughPayloads, MemoryInv, MemoryInv', GraphInv, LoAlloc
  PROVE  (Abstract!Alloc \/ Stutters) /\ GraphInv'
<1>1. pc = "run" /\ TypeOK
  BY DEF LoAlloc, MemoryInv, LayoutInv
<1>2. PICK class \in Classes, slot \in Slots : \E len \in Lengths(class) :
        LET req == [class |-> class, len |-> len, slot |-> slot] IN
          \/ Fits(req) /\ Carve(req) /\ UNCHANGED <<pc, request, scratch>>
          \/ ~Fits(req) /\ StartCollection(req)
  BY DEF LoAlloc
<1>3. PICK len \in Lengths(class) :
        LET req == [class |-> class, len |-> len, slot |-> slot] IN
          \/ Fits(req) /\ Carve(req) /\ UNCHANGED <<pc, request, scratch>>
          \/ ~Fits(req) /\ StartCollection(req)
  BY <1>2
<1>4. PICK req : req = [class |-> class, len |-> len, slot |-> slot]
  OBVIOUS
<1>5. /\ req \in Request /\ req.slot \in Slots /\ req.len \in Lengths(req.class)
      /\ \/ Fits(req) /\ Carve(req) /\ pc' = pc
         \/ StartCollection(req)
  <2>1. slot \in Nat
    BY <1>1, SlotsNat
  <2>2. len \in StringLengths \cup {0}
    BY DEF Lengths
  <2> QED BY <1>3, <1>4, <2>1, <2>2 DEF Request
<1>6. CASE Fits(req) /\ Carve(req) /\ pc' = pc
  BY <1>1, <1>5, <1>6, CarveGraph
<1>7. CASE StartCollection(req)
  BY <1>1, <1>5, <1>7, StartGraph
<1> QED BY <1>5, <1>6, <1>7

---------------------------------------------------------------------------
(*************************************************************************)
(* The program's other operations                                        *)
(*************************************************************************)
\* What compiled code can name is, in the mapping, what a program can name.
LEMMA HeldMeant ==
  ASSUME EnoughPayloads, TypeOK, PayloadsDistinct, pc = "run", NEW v \in Held
  PROVE  Plain(v) \in Abstract!Held
<1>1. Extant = DOMAIN heap /\ Unfixing
  BY DEF Extant, Unfixing
<1>2. Plain(Null) = Null /\ Plain(EmptyString) = EmptyString
  BY Immortals DEF Immortal
<1>3. ASSUME NEW r \in SlotValues PROVE Plain(r) \in Abstract!SlotValues
  <2>1. PICK f \in DOMAIN frames : \E i \in DOMAIN frames[f] : r = frames[f][i]
    BY DEF SlotValues
  <2>2. PICK i \in DOMAIN frames[f] : r = frames[f][i]
    BY <2>1
  <2>3. f \in DOMAIN RootGraph /\ i \in DOMAIN RootGraph[f] /\ RootGraph[f][i] = Plain(r)
    BY <1>1, <2>2, RootsMean
  <2> QED BY <2>3 DEF Abstract!SlotValues
<1>4. ASSUME NEW a \in SlotValues \cap DOMAIN heap, v \in FieldValues(a)
      PROVE  Plain(v) \in Abstract!Held
  <2>1. heap[a].payload \in Abstract!SlotValues \cap DOMAIN Graph
    <3>1. Plain(a) = heap[a].payload
      BY DEF Plain
    <3> QED BY <1>1, <1>3, <3>1, GraphAt
  <2>2. Graph[heap[a].payload].fields = FieldIdentities(a)
    <3>1. Graph[heap[a].payload] = Content(a)
      BY <1>1, GraphAt
    <3> QED BY <3>1 DEF Content
  <2>3. PICK i \in DOMAIN heap[a].fields : v = heap[a].fields[i]
    BY <1>4 DEF FieldValues
  <2>4. i \in DOMAIN FieldIdentities(a) /\ FieldIdentities(a)[i] = Plain(v)
    BY <1>1, <2>3, Unfixed DEF Unfixing
  <2>5. Plain(v) \in Abstract!FieldValues(heap[a].payload)
    BY <2>2, <2>4 DEF Abstract!FieldValues
  <2> QED BY <2>1, <2>5 DEF Abstract!Held
<1>5. CASE v \in {Null, EmptyString}
  BY <1>2, <1>5 DEF Abstract!Held
<1>6. CASE v \in SlotValues
  BY <1>3, <1>6 DEF Abstract!Held
<1> QED BY <1>4, <1>5, <1>6 DEF Held

\* Steps of compiled code that leave the objects alone.
LEMMA SameObjects ==
  ASSUME MemoryInv, MemoryInv', GraphInv, pc = "run", UNCHANGED <<heap, pc>>
  PROVE  UNCHANGED <<Graph, Status>> /\ GraphInv' /\ Unfixing /\ Unfixing' /\ \A r : Plain(r)' = Plain(r)
<1>1. TypeOK /\ TypeOK' /\ PayloadsDistinct
  BY DEF MemoryInv, LayoutInv, GraphInv
<1>2. Extant' = Extant
  BY DEF Extant
<1>3. PayloadsDistinct'
  BY <1>1, <1>2 DEF PayloadsDistinct
<1>4. \A r : Plain(r)' = Plain(r)
  BY DEF Plain
<1>5. \A a : ~FieldsFixed(a) /\ ~FieldsFixed(a)'
  BY DEF FieldsFixed
<1>6. \A a : FieldIdentities(a)' = FieldIdentities(a)
  BY <1>4, <1>5, FieldIdentitiesKept DEF Meaning
<1>7. Graph' = Graph
  BY <1>1, <1>2, <1>3, <1>6, GraphStays DEF Content
<1>8. Status' = Status
  BY DEF Status
<1>9. GraphInv'
  BY <1>3 DEF GraphInv, RequestKept, MarkedReachable, SurvivorsReachable, FixTable, Collecting
<1> QED BY <1>4, <1>7, <1>8, <1>9 DEF Unfixing

\* A store to a root slot is the abstract store of what it means.
LEMMA RootStoreGraph ==
  ASSUME EnoughPayloads, MemoryInv, MemoryInv', GraphInv, RootStore
  PROVE  Abstract!RootStore /\ GraphInv'
<1>1. /\ pc = "run" /\ UNCHANGED <<heap, pc>>
      /\ TypeOK /\ TypeOK' /\ PayloadsDistinct
  BY DEF RootStore, MemoryInv, LayoutInv, GraphInv
<1>2. /\ UNCHANGED <<Graph, Status>> /\ GraphInv' /\ Unfixing /\ Unfixing'
      /\ \A r : Plain(r)' = Plain(r)
  BY <1>1, SameObjects
<1>3. PICK slot \in Slots \ {0}, v \in Held : frames' = StoreRoot(slot, v)
  BY DEF RootStore
<1>4. PICK w : w = Plain(v)
  OBVIOUS
<1>5. w = Plain(v)'
  BY <1>2, <1>4
<1>6. RootGraph' = Abstract!StoreRoot(slot, w)
  BY <1>1, <1>2, <1>3, <1>5, StoreMeant
<1>7. w \in Abstract!Held /\ slot \in Abstract!Slots \ {0}
  BY <1>1, <1>3, <1>4, HeldMeant, SlotsMeant
<1> QED BY <1>2, <1>6, <1>7 DEF Abstract!RootStore

\* The mapping's shadow stack is as deep as the memory's.
LEMMA RootsSeq ==
  ASSUME TypeOK
  PROVE  RootGraph \in Seq({RootGraph[f] : f \in DOMAIN frames}) /\ Len(RootGraph) = Len(frames)
<1> DEFINE V == {RootGraph[f] : f \in DOMAIN frames}
<1>1. DOMAIN frames = 1 .. Len(frames) /\ Len(frames) \in Nat
  BY DEF TypeOK
<1>2. RootGraph \in [1 .. Len(frames) -> V]
  <2>1. RootGraph = [f \in DOMAIN frames |-> RootGraph[f]]
    BY DEF RootGraph
  <2> QED BY <1>1, <2>1
<1> HIDE DEF V
<1>3. RootGraph \in Seq(V)
  BY <1>1, <1>2, FunctionIsSeq
<1>4. Len(RootGraph) = Len(frames)
  <2>1. DOMAIN RootGraph = 1 .. Len(RootGraph) /\ Len(RootGraph) \in Nat
    BY <1>3
  <2>2. DOMAIN RootGraph = 1 .. Len(frames)
    BY <1>2
  <2>3. PICK m, n : m = Len(RootGraph) /\ n = Len(frames)
    OBVIOUS
  <2>4. m \in Nat /\ n \in Nat /\ \A i : i \in 1 .. m <=> i \in 1 .. n
    BY <1>1, <2>1, <2>2, <2>3
  <2>5. ~(m < n) /\ ~(n < m)
    <3>1. m \in 1 .. n \/ m = 0
      BY <2>4
    <3>2. n \in 1 .. m \/ n = 0
      BY <2>4
    <3> QED BY <2>4, <3>1, <3>2
  <2> QED BY <2>3, <2>4, <2>5
<1> QED BY <1>3, <1>4 DEF V

\* Entering a function pushes a frame of null roots.
LEMMA PushFrameGraph ==
  ASSUME MemoryInv, MemoryInv', GraphInv, EnoughPayloads, PushFrame
  PROVE  Abstract!PushFrame /\ GraphInv'
<1>1. /\ pc = "run" /\ UNCHANGED <<heap, pc>>
      /\ TypeOK /\ TypeOK' /\ PayloadsDistinct
  BY DEF PushFrame, MemoryInv, LayoutInv, GraphInv
<1>2. /\ UNCHANGED <<Graph, Status>> /\ GraphInv' /\ Unfixing /\ Unfixing'
      /\ \A r : Plain(r)' = Plain(r)
  BY <1>1, SameObjects
<1>3. PICK n \in FrameSizes : frames' = <<[i \in 1 .. n |-> Null]>> \o frames
  BY DEF PushFrame
<1>4. frames \in Seq(Seq(Ref)) /\ Len(frames) < MaxDepth /\ Len(frames) \in Nat
  BY <1>1 DEF TypeOK, PushFrame
<1>5. /\ RootGraph = [f \in DOMAIN frames |-> RootGraph[f]]
      /\ \A f \in DOMAIN frames :
           /\ RootGraph[f] = [i \in DOMAIN frames[f] |-> RootGraph[f][i]]
           /\ \A i \in DOMAIN frames[f] : \A r : r = frames[f][i] => RootGraph[f][i] = Plain(r)
  BY <1>1, <1>2, RootsMean
<1> DEFINE new == [i \in 1 .. n |-> Null]
           V == {RootGraph[f] : f \in DOMAIN frames}
           G == <<new>> \o RootGraph
<1>6. RootGraph \in Seq(V) /\ Len(RootGraph) = Len(frames)
  BY <1>1, RootsSeq
<1>7. /\ DOMAIN frames' = 1 .. (Len(frames) + 1)
      /\ frames'[1] = new
      /\ \A f \in 2 .. (Len(frames) + 1) : f - 1 \in DOMAIN frames /\ frames'[f] = frames[f - 1]
  <2> HIDE DEF new
  <2> QED BY <1>3, <1>4 DEF new
<1>8. /\ DOMAIN G = 1 .. (Len(frames) + 1)
      /\ G = [f \in DOMAIN G |-> G[f]]
      /\ G[1] = new
      /\ \A f \in 2 .. (Len(frames) + 1) : G[f] = RootGraph[f - 1]
  <2> HIDE DEF new, V
  <2> QED BY <1>4, <1>6
<1> HIDE DEF G, V
<1>9. Plain(Null) = Null
  BY <1>1, Immortals DEF Immortal
<1>10. ASSUME NEW f \in DOMAIN frames'
       PROVE  /\ G[f] = [i \in DOMAIN frames'[f] |-> G[f][i]]
              /\ \A i \in DOMAIN frames'[f] : \A r : r = frames'[f][i] => G[f][i] = Plain(r)'
  <2>1. CASE f = 1
    BY <1>2, <1>7, <1>8, <1>9, <2>1
  <2>2. CASE f # 1
    <3>1. f \in 2 .. (Len(frames) + 1)
      BY <1>4, <1>7, <2>2
    <3>2. PICK e \in DOMAIN frames : e = f - 1
      BY <1>7, <3>1
    <3>3. frames'[f] = frames[e] /\ G[f] = RootGraph[e]
      BY <1>7, <1>8, <3>1, <3>2
    <3> QED BY <1>2, <1>5, <3>3
  <2> QED BY <2>1, <2>2
<1>11. RootGraph' = G
  <2>1. G = [f \in DOMAIN frames' |-> G[f]]
    BY <1>7, <1>8
  <2> QED BY ONLY <1>1, <1>2, <1>10, <2>1, RootsBecome
<1> QED BY <1>2, <1>4, <1>6, <1>11 DEF Abstract!PushFrame, G

\* Leaving a function pops the frame's roots.
LEMMA PopFrameGraph ==
  ASSUME MemoryInv, MemoryInv', GraphInv, EnoughPayloads, PopFrame
  PROVE  Abstract!PopFrame /\ GraphInv'
<1>1. /\ pc = "run" /\ UNCHANGED <<heap, pc>>
      /\ TypeOK /\ TypeOK' /\ PayloadsDistinct
  BY DEF PopFrame, MemoryInv, LayoutInv, GraphInv
<1>2. /\ UNCHANGED <<Graph, Status>> /\ GraphInv' /\ Unfixing /\ Unfixing'
      /\ \A r : Plain(r)' = Plain(r)
  BY <1>1, SameObjects
<1>3. frames \in Seq(Seq(Ref)) /\ frames # <<>> /\ Len(frames) \in Nat /\ Len(frames) > 0
  <2>1. frames \in Seq(Seq(Ref)) /\ frames # <<>>
    BY <1>1 DEF TypeOK, PopFrame
  <2> QED BY <2>1
<1>4. /\ RootGraph = [f \in DOMAIN frames |-> RootGraph[f]]
      /\ \A f \in DOMAIN frames :
           /\ RootGraph[f] = [i \in DOMAIN frames[f] |-> RootGraph[f][i]]
           /\ \A i \in DOMAIN frames[f] : \A r : r = frames[f][i] => RootGraph[f][i] = Plain(r)
  BY <1>1, <1>2, RootsMean
<1> DEFINE V == {RootGraph[f] : f \in DOMAIN frames}
           G == Tail(RootGraph)
<1>5. RootGraph \in Seq(V) /\ Len(RootGraph) = Len(frames)
  BY <1>1, RootsSeq
<1>6. RootGraph # <<>>
  BY <1>3, <1>5
<1> DEFINE rest == Tail(frames)
<1>7. /\ DOMAIN rest = 1 .. (Len(frames) - 1)
      /\ \A f \in 1 .. (Len(frames) - 1) : f + 1 \in DOMAIN frames /\ rest[f] = frames[f + 1]
  BY <1>3
<1>8. /\ DOMAIN G = 1 .. (Len(frames) - 1)
      /\ G = [f \in DOMAIN G |-> G[f]]
      /\ \A f \in 1 .. (Len(frames) - 1) : G[f] = RootGraph[f + 1]
  <2> HIDE DEF V
  <2>1. /\ Tail(RootGraph) \in Seq(V) /\ Len(Tail(RootGraph)) = Len(RootGraph) - 1
        /\ \A f \in 1 .. Len(Tail(RootGraph)) : Tail(RootGraph)[f] = RootGraph[f + 1]
    BY <1>5, <1>6, HeadTailProperties
  <2>2. G \in Seq(V) /\ DOMAIN G = 1 .. Len(G)
    BY <2>1
  <2>3. DOMAIN G = 1 .. (Len(frames) - 1)
    BY <1>5, <2>1, <2>2
  <2>4. \A s \in Seq(V) : s = [f \in DOMAIN s |-> s[f]]
    OBVIOUS
  <2>5. G = [f \in DOMAIN G |-> G[f]]
    BY ONLY <2>2, <2>4
  <2>6. \A f \in 1 .. (Len(frames) - 1) : G[f] = RootGraph[f + 1]
    BY <1>5, <2>1
  <2> QED BY <2>3, <2>5, <2>6
<1> HIDE DEF G, V, rest
<1>9. ASSUME NEW f \in DOMAIN rest
      PROVE  /\ G[f] = [i \in DOMAIN rest[f] |-> G[f][i]]
             /\ \A i \in DOMAIN rest[f] : \A r : r = rest[f][i] => G[f][i] = Plain(r)'
  <2>1. PICK e \in DOMAIN frames : e = f + 1
    BY <1>7
  <2>2. rest[f] = frames[e] /\ G[f] = RootGraph[e]
    BY <1>7, <1>8, <2>1
  <2> QED BY <1>2, <1>4, <2>2
<1>10. CASE frames' = Tail(frames)
  <2>1. G = [f \in DOMAIN frames' |-> G[f]]
    BY <1>7, <1>8, <1>10 DEF rest
  <2>2. ASSUME NEW f \in DOMAIN frames'
        PROVE  /\ G[f] = [i \in DOMAIN frames'[f] |-> G[f][i]]
               /\ \A i \in DOMAIN frames'[f] : \A r : r = frames'[f][i] => G[f][i] = Plain(r)'
    BY <1>9, <1>10 DEF rest
  <2>3. RootGraph' = G
    BY ONLY <1>1, <1>2, <2>1, <2>2, RootsBecome
  <2> QED BY <1>2, <1>6, <2>3 DEF Abstract!PopFrame, G
<1>11. ASSUME Len(frames) > 1, NEW v \in Held, NEW k \in DOMAIN frames[2],
              frames' = [Tail(frames) EXCEPT ![1][k] = v]
       PROVE  Abstract!PopFrame /\ GraphInv'
  <2>1. 1 \in DOMAIN rest /\ rest[1] = frames[2] /\ 2 \in DOMAIN frames /\ G[1] = RootGraph[2]
    <3>1. 1 \in 1 .. (Len(frames) - 1) /\ 1 + 1 = 2
      BY <1>3, <1>11
    <3> QED BY <1>7, <1>8, <3>1
  <2>2. /\ DOMAIN frames' = DOMAIN rest
        /\ frames'[1] = [rest[1] EXCEPT ![k] = v]
        /\ \A f \in DOMAIN rest : f # 1 => frames'[f] = rest[f]
    BY <1>11, <2>1 DEF rest
  <2>3. /\ DOMAIN frames'[1] = DOMAIN rest[1] /\ frames'[1][k] = v
        /\ \A i \in DOMAIN rest[1] : i # k => frames'[1][i] = rest[1][i]
    BY <2>1, <2>2
  <2> DEFINE w == Plain(v)
             H == [G EXCEPT ![1][k] = w]
  <2>4. /\ H = [f \in DOMAIN rest |-> H[f]]
        /\ H[1] = [G[1] EXCEPT ![k] = w]
        /\ \A f \in DOMAIN rest : f # 1 => H[f] = G[f]
    BY <1>7, <1>8, <2>1
  <2>5. G[1] = [i \in DOMAIN rest[1] |-> G[1][i]] /\ k \in DOMAIN rest[1]
    BY <1>9, <2>1
  <2>6. /\ H[1] = [i \in DOMAIN rest[1] |-> H[1][i]]
        /\ H[1][k] = w
        /\ \A i \in DOMAIN rest[1] : i # k => H[1][i] = G[1][i]
    <3> HIDE DEF H, w
    <3> QED BY <2>4, <2>5
  <2> HIDE DEF H
  <2>7. ASSUME NEW f \in DOMAIN frames', NEW i \in DOMAIN frames'[f], NEW r, r = frames'[f][i]
        PROVE  H[f][i] = Plain(r)'
    <3>1. CASE f = 1 /\ i = k
      BY <1>2, <2>3, <2>6, <2>7, <3>1
    <3>2. CASE f # 1 \/ i # k
      <4>1. f \in DOMAIN rest /\ i \in DOMAIN rest[f] /\ r = rest[f][i]
        BY <2>2, <2>3, <2>7, <3>2
      <4>2. H[f][i] = G[f][i]
        BY <2>4, <2>6, <3>2, <4>1
      <4> QED BY <1>9, <4>1, <4>2, ZenonT(30)
    <3> QED BY <3>1, <3>2
  <2>8. ASSUME NEW f \in DOMAIN frames' PROVE H[f] = [i \in DOMAIN frames'[f] |-> H[f][i]]
    <3>1. CASE f = 1
      BY <2>3, <2>6, <3>1
    <3>2. CASE f # 1
      BY <1>9, <2>2, <2>4, <3>2
    <3> QED BY <3>1, <3>2
  <2>9. RootGraph' = H
    <3>1. H = [f \in DOMAIN frames' |-> H[f]]
      BY <2>2, <2>4
    <3> QED BY ONLY <1>1, <1>2, <2>7, <2>8, <3>1, RootsBecome, ZenonT(30)
  <2>10. w \in Abstract!Held
    BY <1>1, HeldMeant
  <2>11. k \in DOMAIN RootGraph[2]
    BY <1>4, <2>1
  <2>12. RootGraph' = [Tail(RootGraph) EXCEPT ![1][k] = w] /\ Len(RootGraph) > 1
    BY <1>5, <1>11, <2>9 DEF H, G
  <2> HIDE DEF w
  <2> QED BY <1>2, <1>6, <2>10, <2>11, <2>12 DEF Abstract!PopFrame
<1> QED BY <1>10, <1>11 DEF PopFrame

\* A store to a field is the abstract store of what it means.
LEMMA WriteBarrierGraph ==
  ASSUME MemoryInv, MemoryInv', GraphInv, EnoughPayloads, WriteBarrier
  PROVE  Abstract!FieldStore /\ GraphInv'
<1>1. /\ pc = "run" /\ UNCHANGED <<frames, pc>>
      /\ TypeOK /\ TypeOK' /\ PayloadsDistinct
  BY DEF WriteBarrier, MemoryInv, LayoutInv, GraphInv
<1>0. /\ (\A a : /\ FieldIdentities(a) = [i \in DOMAIN heap[a].fields |-> FieldIdentities(a)[i]]
                /\ \A i \in DOMAIN heap[a].fields : \A x : x = heap[a].fields[i] =>
                     FieldIdentities(a)[i] = Meaning(x, a))'
      /\ (PayloadsDistinct => /\ DOMAIN Graph = {heap[a].payload : a \in Extant}
                              /\ \A a \in Extant : Graph[heap[a].payload] = Content(a)
                              /\ Graph = [p \in DOMAIN Graph |-> Graph[p]])'
  <2>1. (\A a : /\ FieldIdentities(a) = [i \in DOMAIN heap[a].fields |-> FieldIdentities(a)[i]]
                /\ \A i \in DOMAIN heap[a].fields : \A x : x = heap[a].fields[i] =>
                     FieldIdentities(a)[i] = Meaning(x, a))'
    BY FieldIdentityIs, PTL
  <2>2. (PayloadsDistinct => /\ DOMAIN Graph = {heap[a].payload : a \in Extant}
                             /\ \A a \in Extant : Graph[heap[a].payload] = Content(a)
                             /\ Graph = [p \in DOMAIN Graph |-> Graph[p]])'
    BY GraphAt, PTL
  <2> QED BY <2>1, <2>2
<1>2. PICK a \in Held \cap DOMAIN heap, v \in Held :
        \E k \in DOMAIN heap[a].fields : heap' = [heap EXCEPT ![a].fields[k] = v]
  BY DEF WriteBarrier
<1>3. PICK k \in DOMAIN heap[a].fields : heap' = [heap EXCEPT ![a].fields[k] = v]
  BY <1>2
<1>4. /\ DOMAIN heap' = DOMAIN heap
      /\ \A b \in DOMAIN heap : b # a => heap'[b] = heap[b]
      /\ heap'[a].fields = [heap[a].fields EXCEPT ![k] = v]
      /\ \A b \in DOMAIN heap :
           /\ heap'[b].class = heap[b].class /\ heap'[b].len = heap[b].len
           /\ heap'[b].payload = heap[b].payload
  <2>1. \A b \in DOMAIN heap : heap[b] \in Object
    BY <1>1 DEF TypeOK
  <2>2. /\ DOMAIN heap' = DOMAIN heap
        /\ \A b \in DOMAIN heap : b # a => heap'[b] = heap[b]
        /\ heap'[a] = [heap[a] EXCEPT !.fields[k] = v]
    BY <1>3
  <2>3. /\ heap'[a].fields = [heap[a].fields EXCEPT ![k] = v]
        /\ heap'[a].class = heap[a].class /\ heap'[a].len = heap[a].len
        /\ heap'[a].payload = heap[a].payload
    BY <2>1, <2>2 DEF Object
  <2> QED BY <2>2, <2>3
<1>5. Extant = DOMAIN heap /\ Extant' = DOMAIN heap /\ Unfixing /\ Unfixing'
  BY <1>1, <1>4 DEF Extant, Unfixing
<1>6. PayloadsDistinct'
  <2> SUFFICES ASSUME NEW b \in DOMAIN heap, NEW c \in DOMAIN heap, heap'[b].payload = heap'[c].payload
               PROVE  b = c
    BY <1>5 DEF PayloadsDistinct
  <2>1. heap[b].payload = heap[c].payload
    BY <1>4
  <2> QED BY <1>1, <1>5, <2>1 DEF PayloadsDistinct
<1>7. \A r : Plain(r)' = Plain(r)
  BY <1>4 DEF Plain
<1>8. \A b : ~FieldsFixed(b) /\ ~FieldsFixed(b)'
  BY <1>1 DEF FieldsFixed
<1>9. PICK id, w : id = Plain(a) /\ w = Plain(v)
  OBVIOUS
<1>10. id = heap[a].payload /\ id \in Abstract!Held /\ w \in Abstract!Held
  BY <1>1, <1>9, HeldMeant DEF Plain
<1>11. /\ FieldIdentities(a) = [i \in DOMAIN heap[a].fields |-> FieldIdentities(a)[i]]
       /\ \A i \in DOMAIN heap[a].fields : \A x : x = heap[a].fields[i] =>
            FieldIdentities(a)[i] = Plain(x)
  BY <1>8, FieldIdentityIs DEF Meaning
<1>12. FieldIdentities(a)' = [FieldIdentities(a) EXCEPT ![k] = w]
  <2>1. /\ FieldIdentities(a)' = [i \in DOMAIN heap'[a].fields |-> FieldIdentities(a)'[i]]
        /\ \A i \in DOMAIN heap'[a].fields : \A y : y = heap'[a].fields[i] =>
             FieldIdentities(a)'[i] = Plain(y)'
    <3>1. /\ FieldIdentities(a)' = [i \in DOMAIN heap'[a].fields |-> FieldIdentities(a)'[i]]
          /\ \A i \in DOMAIN heap'[a].fields : \A y : y = heap'[a].fields[i] =>
               FieldIdentities(a)'[i] = Meaning(y, a)'
      BY <1>0
    <3>2. \A y : Meaning(y, a)' = Plain(y)'
      BY <1>8 DEF Meaning
    <3> QED BY <3>1, <3>2
  <2>2. /\ DOMAIN heap'[a].fields = DOMAIN heap[a].fields /\ heap'[a].fields[k] = v
        /\ \A i \in DOMAIN heap[a].fields : i # k => heap'[a].fields[i] = heap[a].fields[i]
    BY <1>3, <1>4
  <2>3. FieldIdentities(a)'[k] = w
    BY <1>3, <1>7, <1>9, <2>1, <2>2
  <2>4. \A i \in DOMAIN heap[a].fields : i # k => FieldIdentities(a)'[i] = FieldIdentities(a)[i]
    BY <1>7, <1>11, <2>1, <2>2
  <2>5. PICK F, F2 : F = FieldIdentities(a) /\ F2 = FieldIdentities(a)'
    OBVIOUS
  <2>6. F2 = [F EXCEPT ![k] = w]
    BY <1>11, <2>1, <2>2, <2>3, <2>4, <2>5
  <2> QED BY <2>5, <2>6
<1>13. \A b \in DOMAIN heap : b # a => Content(b)' = Content(b)
  <2> SUFFICES ASSUME NEW b \in DOMAIN heap, b # a PROVE Content(b)' = Content(b)
    OBVIOUS
  <2>1. FieldIdentities(b)' = FieldIdentities(b)
    BY <1>4, <1>7, <1>8, FieldIdentitiesKept DEF Meaning
  <2> QED BY <1>4, <2>1 DEF Content
<1>14. id \in DOMAIN Graph /\ k \in DOMAIN Graph[id].fields
       /\ Graph' = [Graph EXCEPT ![id].fields[k] = w]
  <2>1. /\ DOMAIN Graph = {heap[b].payload : b \in DOMAIN heap}
        /\ \A b \in DOMAIN heap : Graph[heap[b].payload] = Content(b)
        /\ Graph = [p \in DOMAIN Graph |-> Graph[p]]
    BY <1>1, <1>5, GraphAt
  <2>2. /\ DOMAIN Graph' = {heap'[b].payload : b \in DOMAIN heap}
        /\ \A b \in DOMAIN heap : Graph'[heap'[b].payload] = Content(b)'
        /\ Graph' = [p \in DOMAIN Graph' |-> Graph'[p]]
    BY <1>0, <1>5, <1>6
  <2>3. id \in DOMAIN Graph /\ Graph[id] = Content(a)
    BY <1>10, <2>1
  <2>4. Graph'[id] = [Graph[id] EXCEPT !.fields[k] = w]
    <3>1. Graph'[id] = Content(a)'
      BY <1>4, <1>10, <2>2
    <3>2. Content(a)' = [Content(a) EXCEPT !.fields = FieldIdentities(a)']
      BY <1>4 DEF Content
    <3>3. Content(a).fields = FieldIdentities(a)
      BY DEF Content
    <3>4. PICK F : F = FieldIdentities(a)
      OBVIOUS
    <3>5. Content(a)' = [Content(a) EXCEPT !.fields = [F EXCEPT ![k] = w]]
      BY <1>12, <3>2, <3>4
    <3> QED BY <2>3, <3>1, <3>3, <3>4, <3>5
  <2>5. \A p \in DOMAIN Graph : p # id => Graph'[p] = Graph[p]
    <3> SUFFICES ASSUME NEW p \in DOMAIN Graph, p # id PROVE Graph'[p] = Graph[p]
      OBVIOUS
    <3>1. PICK b \in DOMAIN heap : p = heap[b].payload
      BY <2>1
    <3>2. b # a
      BY <1>10, <3>1
    <3> QED BY <1>4, <1>13, <2>1, <2>2, <3>1, <3>2
  <2>6. DOMAIN Graph' = DOMAIN Graph
    BY <1>4, <2>1, <2>2
  <2>7. Graph' = [Graph EXCEPT ![id] = [Graph[id] EXCEPT !.fields[k] = w]]
    BY <2>1, <2>2, <2>3, <2>4, <2>5, <2>6
  <2>8. k \in DOMAIN Graph[id].fields
    <3>1. Graph[id].fields = FieldIdentities(a)
      BY <2>3 DEF Content
    <3> QED BY <1>3, <1>11, <3>1
  <2> QED BY <2>3, <2>7, <2>8
<1>15. RootGraph' = RootGraph
  <2>1. RootsFixed = FALSE /\ RootsFixed' = FALSE
    BY <1>1 DEF RootsFixed
  <2>2. \A r : Identity(r, FALSE)' = Identity(r, FALSE)
    BY <1>7, PlainIdentity DEF Identity, Target, Plain
  <2> QED BY <1>1, <2>1, <2>2, RootGraphKept
<1>16. Status' = Status
  BY <1>1 DEF Status
<1>17. GraphInv'
  BY <1>1, <1>6 DEF GraphInv, RequestKept, MarkedReachable, SurvivorsReachable, FixTable, Collecting
<1> QED BY <1>10, <1>14, <1>15, <1>16, <1>17 DEF Abstract!FieldStore

---------------------------------------------------------------------------
(*************************************************************************)
(* Every step                                                            *)
(*************************************************************************)
\* A stutter is a stutter.
LEMMA UnchangedGraph ==
  ASSUME TypeOK, GraphInv, UNCHANGED vars
  PROVE  Stutters /\ GraphInv'
<1>1. UNCHANGED <<heap, free, frames, pc, request, pending, relocs, cursor>>
  BY DEF vars, mutator, scratch
<1>2. \A i : At(i)' = At(i)
  BY <1>1 DEF At, Slid
<1>3. Extant' = Extant
  BY <1>1, <1>2 DEF Extant
<1>4. \A r : Target(r, TRUE)' = Target(r, TRUE) /\ Target(r, FALSE)' = Target(r, FALSE)
  <2>1. ASSUME NEW r PROVE Target(r, TRUE)' = Target(r, TRUE)
    <3>1. CASE \E i \in DOMAIN relocs : relocs[i].new = r
      <4>1. PICK c : c = CHOOSE i \in DOMAIN relocs : relocs[i].new = r
        OBVIOUS
      <4>2. Target(r, TRUE) = At(CHOOSE i \in DOMAIN relocs : relocs[i].new = r)
        BY <3>1 DEF Target
      <4>3. Target(r, TRUE)' = At(CHOOSE i \in DOMAIN relocs : relocs[i].new = r)'
        BY <1>1, <3>1 DEF Target
      <4>4. Target(r, TRUE) = At(c) /\ Target(r, TRUE)' = At(c)'
        BY <1>1, <4>1, <4>2, <4>3 DEF At, Slid
      <4> QED BY <1>2, <4>4
    <3>2. CASE ~ \E i \in DOMAIN relocs : relocs[i].new = r
      BY <1>1, <3>2 DEF Target
    <3> QED BY <3>1, <3>2
  <2>2. \A r : Target(r, FALSE)' = Target(r, FALSE)
    BY DEF Target
  <2> QED BY <2>1, <2>2
<1>5. /\ \A r : Identity(r, TRUE)' = Identity(r, TRUE) /\ Identity(r, FALSE)' = Identity(r, FALSE)
      /\ \A r : Plain(r)' = Plain(r)
  BY <1>1, <1>4 DEF Identity, Plain
<1>6. \A a : FieldsFixed(a)' <=> FieldsFixed(a)
  BY <1>1 DEF FieldsFixed
<1>7. \A a : FieldIdentities(a)' = FieldIdentities(a)
  BY <1>1, <1>5, <1>6, FieldIdentitiesKept DEF Meaning
<1>8. PayloadsDistinct /\ PayloadsDistinct'
  BY <1>1, <1>3 DEF GraphInv, PayloadsDistinct
<1>9. Graph' = Graph
  BY <1>1, <1>3, <1>7, <1>8, GraphStays DEF Content
<1>10. RootGraph' = RootGraph
  <2>1. RootsFixed \in BOOLEAN /\ RootsFixed' = RootsFixed
    BY <1>1 DEF RootsFixed
  <2>2. CASE RootsFixed = TRUE
    BY <1>1, <1>5, <2>1, <2>2, RootGraphKept
  <2>3. CASE RootsFixed = FALSE
    BY <1>1, <1>5, <2>1, <2>3, RootGraphKept
  <2> QED BY <2>1, <2>2, <2>3
<1>11. Status' = Status
  BY <1>1 DEF Status
<1>12. MarkedReachable' /\ SurvivorsReachable'
  <2>1. Abstract!Reachable' = Abstract!Reachable
    BY <1>9, <1>10, ReachableKept
  <2> QED BY <1>1, <1>9, <2>1 DEF GraphInv, MarkedReachable, SurvivorsReachable, ToVisit
<1>13. RequestKept' /\ FixTable'
  BY <1>1 DEF GraphInv, RequestKept, FixTable, Slots, Lengths
<1> QED BY <1>8, <1>9, <1>10, <1>11, <1>12, <1>13 DEF GraphInv, Stutters

\* Initially there are no objects and no frames.
LEMMA GraphInit == Init => Abstract!Init /\ GraphInv
<1> SUFFICES ASSUME Init PROVE Abstract!Init /\ GraphInv
  OBVIOUS
<1>1. Extant = {}
  BY DEF Init, Extant
<1>2. Graph = <<>>
  BY <1>1 DEF Graph
<1>3. RootGraph = <<>>
  BY DEF Init, RootGraph
<1>4. Status = "run"
  BY DEF Init, Status, Faults
<1>5. GraphInv
  BY <1>1 DEF Init, GraphInv, PayloadsDistinct, RequestKept, MarkedReachable, SurvivorsReachable,
              FixTable, Collecting
<1> QED BY <1>2, <1>3, <1>4, <1>5 DEF Abstract!Init

\* A collection the program asks for begins, unseen.
LEMMA LoGcCollectGraph ==
  ASSUME MemoryInv, MemoryInv', GraphInv, LoGcCollect
  PROVE  Stutters /\ GraphInv'
BY StartGraph DEF LoGcCollect

\* The memory's invariant is inductive.
LEMMA MemoryStep == MemoryInv /\ [Next]_vars => MemoryInv'
BY LayoutInvInductive, ReferenceInvInductive, WorklistOnceInductive DEF MemoryInv

\* Every step is a step of ManagedHeap or one it does not see.
LEMMA GraphStep ==
  ASSUME EnoughPayloads, MemoryInv, GraphInv, [Next]_vars
  PROVE  [Abstract!Next]_(Abstract!vars) /\ GraphInv'
<1>1. MemoryInv' /\ TypeOK
  BY MemoryStep DEF MemoryInv, LayoutInv
<1>2. Stutters <=> UNCHANGED Abstract!vars
  BY DEF Stutters, Abstract!vars
<1>3. pc \notin Faults => Status = "run"
  BY DEF Status
<1>4. CASE Mutator
  <2>1. Status = "run"
    BY <1>3, <1>4 DEF Mutator, PushFrame, PopFrame, RootStore, WriteBarrier, LoAlloc, LoGcCollect, Faults
  <2>2. CASE PushFrame
    BY <1>1, <2>1, <2>2, PushFrameGraph DEF Abstract!Next
  <2>3. CASE PopFrame
    BY <1>1, <2>1, <2>3, PopFrameGraph DEF Abstract!Next
  <2>4. CASE RootStore
    BY <1>1, <2>1, <2>4, RootStoreGraph DEF Abstract!Next
  <2>5. CASE WriteBarrier
    BY <1>1, <2>1, <2>5, WriteBarrierGraph DEF Abstract!Next
  <2>6. CASE LoAlloc
    BY <1>1, <1>2, <2>1, <2>6, LoAllocGraph DEF Abstract!Next
  <2>7. CASE LoGcCollect
    BY <1>1, <1>2, <2>7, LoGcCollectGraph
  <2> QED BY <1>4, <2>2, <2>3, <2>4, <2>5, <2>6, <2>7 DEF Mutator
<1>5. CASE Collector
  <2>1. CASE MarkDone
    <3>1. Status = "run"
      BY <1>3, <2>1 DEF MarkDone, Faults
    <3> QED BY <1>1, <2>1, <3>1, MarkDoneGraph DEF Abstract!Next
  <2>2. CASE AllocRetry
    <3>1. Status = "run"
      BY <1>3, <2>2 DEF AllocRetry, Faults
    <3> QED BY <1>1, <2>2, <3>1, AllocRetryGraph DEF Abstract!Next
  <2>3. CASE MarkNextFrame \/ MarkVisit \/ MarkPop
    BY <1>1, <1>2, <2>3, MarkNextFrameGraph, MarkVisitGraph, MarkPopGraph
  <2>4. CASE ForwardObject \/ ForwardDone
    BY <1>1, <1>2, <2>4, ForwardObjectGraph, ForwardDoneGraph
  <2>5. CASE FixRoots \/ FixFields \/ FixDone
    BY <1>1, <1>2, <2>5, FixRootsGraph, FixFieldsGraph, FixDoneGraph
  <2>6. CASE SlideObject \/ CollectDone
    BY <1>1, <1>2, <2>6, SlideObjectGraph, CollectDoneGraph
  <2> QED BY <1>5, <2>1, <2>2, <2>3, <2>4, <2>5, <2>6 DEF Collector
<1>6. CASE UNCHANGED vars
  BY <1>1, <1>2, <1>6, UnchangedGraph
<1> QED BY <1>4, <1>5, <1>6 DEF Next, Exited

\* Compiled code cannot tell that objects move (runtime-abi.md 3.3): every step of
\* allocator and collector is a step of ManagedHeap, or one it does not see.
THEOREM ManagedHeapImplemented ==
  ASSUME EnoughPayloads
  PROVE  Spec => ImplementsManagedHeap
<1>1. Init => MemoryInv /\ GraphInv /\ Abstract!Init
  <2>1. Init => WorklistOnce
    BY DEF Init, WorklistOnce
  <2> QED BY <2>1, GraphInit, LayoutInvInit, ReferenceInvInit DEF MemoryInv
<1>2. MemoryInv /\ GraphInv /\ [Next]_vars => MemoryInv' /\ GraphInv' /\ [Abstract!Next]_(Abstract!vars)
  BY MemoryStep, GraphStep
<1> QED BY <1>1, <1>2, PTL DEF Spec, ImplementsManagedHeap, Abstract!Spec
=============================================================================
