----------------------- MODULE MarkCompactProperties -----------------------
(***************************************************************************)
(* What MarkCompact must satisfy, and the mapping under which it           *)
(* implements ManagedHeap.                                                 *)
(***************************************************************************)
EXTENDS MarkCompact

\* Every variable stays within its type, in every phase of a collection and
\* after an abort.
TypeOK ==
  /\ DOMAIN heap \subseteq Addresses
  /\ heap \in [DOMAIN heap -> Object]
  /\ free \in 0 .. Region
  /\ frames \in Seq(Seq(Ref))
  /\ pc \in {"run", "retry"} \cup Collecting \cup Faults
  /\ request \in Request \cup {NoRequest}
  /\ pc = "retry" => request \in Request
  /\ nextFrame \in Nat \ {0} /\ cursor \in Nat
  /\ pending \in Seq(Ref)
  /\ worklist \in Seq(Addresses)
  /\ relocs \in Seq([old : Addresses, new : Nat, size : Nat])
  /\ walk \in Nat /\ dest \in Nat

\* The allocator and the collector's heap walk agree on every stride: until
\* survivors start to slide, objects tile [0, free) without gap or overlap, so a
\* walk from the base meets every object and ends exactly at `free`.
HeapTiled ==
  pc \in {"run", "mark", "forward", "fix", "retry"} =>
    /\ free > 0 => 0 \in DOMAIN heap
    /\ \A a \in DOMAIN heap :
         /\ SizeAt(a) >= HeaderSize
         /\ a + SizeAt(a) = free \/ a + SizeAt(a) \in DOMAIN heap
         /\ a + SizeAt(a) <= free
         /\ \A b \in DOMAIN heap : b # a => ~Overlap(a, SizeAt(a), b, SizeAt(b))

\* Outside the phases that rewrite references, every reference in a root slot
\* and in an allocated object, garbage included, is null, the static empty
\* string or the start of an allocated object: a collection leaves nothing that
\* points at where an object used to be.
NoStaleReference ==
  pc \in {"run", "mark", "forward", "retry"} =>
    \A r \in SlotValues \cup UNION {FieldValues(a) : a \in DOMAIN heap} :
      r \in DOMAIN heap \cup {Null, EmptyString}

\* No step reads memory where no intact object starts, and neither the assert on
\* object boundaries nor the `expect` on forwarding addresses ever fires: the
\* marked set is closed under references and no slide overwrites an object that
\* is still to be slid.
NoFault == pc \notin {"panic", "wild"}

\* A mark bit set by one collection never survives into the next, where it would
\* keep its object alive without visiting its fields.
NoLeftoverMarks ==
  pc \in {"run", "retry"} => \A a \in DOMAIN heap : ~heap[a].marked

\* The side tables reserved at heap_init never fill up: the only way to exit 137
\* is the retry of an allocation after a full collection.
OomOnlyAfterRetry == [][pc' = "oom" => pc \in {"retry", "oom"}]_vars

\* A collection ends, and an allocation that needed one is answered, with an
\* object or with exit 137.
CollectionEnds == (pc \in Collecting \cup {"retry"}) ~> (pc \in {"run", "oom"})

---------------------------------------------------------------------------
(***************************************************************************)
(* The inductive invariant behind TypeOK and HeapTiled.                    *)
(***************************************************************************)

\* An entry of the worklist is the start of an object.
WorklistInHeap ==
  pc = "mark" => \A i \in DOMAIN worklist : worklist[i] \in DOMAIN heap

\* The forwarding walk starts at the base and stands on an object or at the end.
WalkOnObject ==
  /\ dest <= walk /\ walk <= free
  /\ pc = "mark" => walk = 0 /\ relocs = <<>>
  /\ pc = "forward" => walk \in DOMAIN heap \cup {free}

\* The relocation table: old ranges ascend without overlap behind the walk, new
\* ranges are the old ones moved down, in the same order and without a gap.
TableOrdered ==
  /\ \A i \in DOMAIN relocs :
       /\ relocs[i].size >= HeaderSize
       /\ relocs[i].new <= relocs[i].old
       /\ relocs[i].old + relocs[i].size <= walk
       /\ relocs[i].new + relocs[i].size <= dest
       /\ \A j \in DOMAIN relocs : i < j =>
            /\ relocs[i].old + relocs[i].size <= relocs[j].old
            /\ relocs[i].new + relocs[i].size <= relocs[j].new
       /\ \/ relocs[i].new + relocs[i].size = dest
          \/ /\ i + 1 \in DOMAIN relocs
             /\ relocs[i + 1].new = relocs[i].new + relocs[i].size
  /\ IF relocs = <<>> THEN dest = 0 ELSE relocs[1].new = 0

\* A relocation that is still to be slid describes an object lying intact at its
\* old offset.
UnslidIntact ==
  pc \in {"forward", "fix", "slide"} =>
    \A i \in DOMAIN relocs : (pc = "slide" => cursor <= i) =>
      relocs[i].old \in DOMAIN heap /\ SizeAt(relocs[i].old) = relocs[i].size

\* Where the next survivor goes, and at the end of the slide, the new `free`.
SlideFront == IF cursor \in DOMAIN relocs THEN relocs[cursor].new ELSE dest

\* Below the front lie exactly the survivors slid so far.
SlidPrefix ==
  pc = "slide" =>
    /\ cursor >= 1
    /\ \A i \in DOMAIN relocs : i < cursor =>
         relocs[i].new \in DOMAIN heap /\ SizeAt(relocs[i].new) = relocs[i].size
    /\ \A a \in DOMAIN heap : a < SlideFront =>
         \E i \in DOMAIN relocs : i < cursor /\ relocs[i].new = a

LayoutInv ==
  /\ TypeOK /\ HeapTiled
  /\ WorklistInHeap /\ WalkOnObject /\ TableOrdered /\ UnslidIntact /\ SlidPrefix

---------------------------------------------------------------------------
(***************************************************************************)
(* The inductive invariant behind NoStaleReference, NoFault and            *)
(* NoLeftoverMarks: what each phase has established for the next.          *)
(***************************************************************************)
Immortal == {Null, EmptyString}

Live == Immortal \cup DOMAIN heap

Reached == Immortal \cup {a \in DOMAIN heap : heap[a].marked}

ToVisit == {pending[i] : i \in DOMAIN pending}

ToScan == {worklist[i] : i \in DOMAIN worklist}

\* Marking: what has been visited is marked or still pending; a marked object
\* waits on the worklist or its fields are marked or pending.
MarkFrontier ==
  pc = "mark" =>
    /\ ToVisit \subseteq Live
    /\ \A f \in DOMAIN frames : f < nextFrame =>
         \A i \in DOMAIN frames[f] : frames[f][i] \in Reached \cup ToVisit
    /\ \A a \in DOMAIN heap : heap[a].marked =>
         a \in ToScan \/ FieldValues(a) \subseteq Reached \cup ToVisit

\* When marking is done, the marked set holds the roots and is closed.
MarksClosed ==
  pc = "forward" =>
    /\ SlotValues \subseteq Reached
    /\ \A a \in DOMAIN heap : heap[a].marked => FieldValues(a) \subseteq Reached

\* The table has exactly the marked objects behind the walk.
TableExact ==
  pc = "forward" =>
    /\ \A i \in DOMAIN relocs : heap[relocs[i].old].marked
    /\ \A a \in DOMAIN heap : heap[a].marked /\ a < walk =>
         \E i \in DOMAIN relocs : relocs[i].old = a

Unmoved == Immortal \cup {relocs[i].old : i \in DOMAIN relocs}

Moved == Immortal \cup {relocs[i].new : i \in DOMAIN relocs}

\* The roots are rewritten first, then the survivors' fields in table order.
FixFront ==
  pc = "fix" =>
    /\ SlotValues \subseteq IF cursor = 0 THEN Unmoved ELSE Moved
    /\ \A i \in DOMAIN relocs :
         FieldValues(relocs[i].old) \subseteq IF i < cursor THEN Moved ELSE Unmoved

\* Survivors keep their rewritten fields wherever they lie, and lose their mark
\* when they are moved.
MovedIntact ==
  pc = "slide" =>
    /\ SlotValues \subseteq Moved
    /\ \A i \in DOMAIN relocs :
         /\ i < cursor => /\ FieldValues(relocs[i].new) \subseteq Moved
                          /\ ~heap[relocs[i].new].marked
         /\ cursor <= i => FieldValues(relocs[i].old) \subseteq Moved

\* Nothing has been fixed before the table is complete.
NotYetFixing == pc \in {"mark", "forward"} => cursor = 0

ReferenceInv ==
  /\ NoStaleReference /\ NoLeftoverMarks /\ NoFault /\ NotYetFixing
  /\ MarkFrontier /\ MarksClosed /\ TableExact /\ FixFront /\ MovedIntact

\* Why the worklist never fills up: an object is on it at most once, since it is
\* marked when it is pushed.
WorklistOnce ==
  pc = "mark" =>
    \A i \in DOMAIN worklist :
      /\ heap[worklist[i]].marked
      /\ \A j \in DOMAIN worklist : worklist[i] = worklist[j] => i = j

---------------------------------------------------------------------------
(***************************************************************************)
(* The object graph behind the memory, at every step of a collection.      *)
(* Objects are identified by their payload.  From the end of marking on,   *)
(* only marked objects exist.  Slots already fixed hold new addresses, and *)
(* a relocation before `cursor` has been slid to its new address.          *)
(***************************************************************************)
Slid(i) == pc = "slide" /\ i < cursor

At(i) == IF Slid(i) THEN relocs[i].new ELSE relocs[i].old

Extant ==
  {a \in DOMAIN heap :
     /\ pc \in {"forward", "fix"} => heap[a].marked
     /\ pc = "slide" => \E i \in DOMAIN relocs : At(i) = a}

RootsFixed == pc = "slide" \/ (pc = "fix" /\ cursor > 0)

FieldsFixed(a) ==
  pc = "slide" \/ (pc = "fix" /\ \E i \in DOMAIN relocs : i < cursor /\ relocs[i].old = a)

\* Where the object a slot refers to is now.
Target(r, fixed) ==
  IF fixed /\ \E i \in DOMAIN relocs : relocs[i].new = r
    THEN At(CHOOSE i \in DOMAIN relocs : relocs[i].new = r)
    ELSE r

Identity(r, fixed) ==
  IF Target(r, fixed) \in DOMAIN heap THEN heap[Target(r, fixed)].payload ELSE r

FieldIdentities(a) ==
  [i \in DOMAIN heap[a].fields |-> Identity(heap[a].fields[i], FieldsFixed(a))]

Holder(p) == CHOOSE a \in Extant : heap[a].payload = p

Graph ==
  [p \in {heap[a].payload : a \in Extant} |->
     [class |-> heap[Holder(p)].class, len |-> heap[Holder(p)].len,
      fields |-> FieldIdentities(Holder(p))]]

RootGraph ==
  [f \in DOMAIN frames |->
     [i \in DOMAIN frames[f] |-> Identity(frames[f][i], RootsFixed)]]

Status == IF pc \in Faults THEN pc ELSE "run"

Abstract == INSTANCE ManagedHeap WITH
  Id <- Payload, Capacity <- Region,
  objs <- Graph, frames <- RootGraph,
  status <- Status

\* Compiled code cannot tell that objects move: every step of the allocator and
\* of the collector, in the middle of fixing references and of sliding objects
\* too, is a step of ManagedHeap or changes nothing.
ImplementsManagedHeap == Abstract!Spec

\* What the mapping asks of Payload: it tells apart as many objects as the heap
\* can hold, and none from the references that are not to objects of the heap.
EnoughPayloads ==
  /\ Null \notin Payload /\ EmptyString \notin Payload
  /\ IsFiniteSet(Payload) => Cardinality(Payload) >= ScratchCapacity

---------------------------------------------------------------------------
(***************************************************************************)
(* The inductive invariant behind ImplementsManagedHeap, beside LayoutInv, *)
(* ReferenceInv and WorklistOnce.                                          *)
(***************************************************************************)
PayloadsDistinct ==
  \A a, b \in Extant : heap[a].payload = heap[b].payload => a = b

\* The allocation that is waiting for a collection is one the program could ask
\* for, and its slot is still there.
RequestKept ==
  pc \in Collecting \cup {"retry"} =>
    \/ request = NoRequest
    \/ request \in Request /\ request.slot \in Slots /\ request.len \in Lengths(request.class)

\* Marking reaches nothing a program cannot reach.
MarkedReachable ==
  pc = "mark" =>
    \A a \in DOMAIN heap :
      heap[a].marked \/ a \in ToVisit => heap[a].payload \in Abstract!Reachable

\* From the end of marking until the retry, what is left is what is reachable.
SurvivorsReachable ==
  pc \in {"forward", "fix", "slide", "retry"} => DOMAIN Graph = Abstract!Reachable

\* While references are fixed, the table still has exactly the marked objects.
FixTable ==
  pc = "fix" =>
    /\ \A i \in DOMAIN relocs : heap[relocs[i].old].marked
    /\ \A a \in DOMAIN heap : heap[a].marked => \E i \in DOMAIN relocs : relocs[i].old = a

GraphInv ==
  /\ PayloadsDistinct /\ RequestKept /\ MarkedReachable /\ SurvivorsReachable /\ FixTable
===========================================================================
