---------------------------- MODULE MarkCompact ----------------------------
(***************************************************************************)
(* The Rust runtime's allocator (rust/src/alloc.rs), shadow stack          *)
(* (rust/src/shadow_stack.rs) and Lisp-2 mark-compact collector            *)
(* (rust/src/gc.rs with the side tables of rust/src/compaction.rs), driven *)
(* by compiled code.                                                       *)
(*                                                                         *)
(* Addresses are byte offsets from the heap's base.  Memory is a partial   *)
(* function from the offsets at which an intact object starts to that      *)
(* object; writing bytes over an object removes it, so an object that is   *)
(* read after being overwritten is seen to be gone.  Collection is a       *)
(* sequence of steps, one per slot visited, object walked, relocation      *)
(* fixed and object slid.                                                  *)
(***************************************************************************)
EXTENDS HeapLayout, Sequences, FiniteSets, Functions

CONSTANTS
  HeapSize,       \* LO_HEAP_SIZE
  Null,
  EmptyString,    \* LO_EMPTY_STRING, a static outside the heap
  StringLengths,
  FrameSizes,     \* num_roots of the program's functions
  MaxDepth,       \* bound on the depth of the shadow stack
  Payload         \* what the bytes of an object that are not references can be

Region == AlignDown(HeapSize)

\* A plausible slip: reserving as if every object had a field.
ScratchCapacityHalved == Region \div (2 * HeaderSize)

\* Both side tables are reserved once, at heap_init, with this many entries.
ScratchCapacity == Region \div HeaderSize

Addresses == 0 .. (Region - 1)

Ref == Addresses \cup {Null, EmptyString}

ASSUME HeapAssumption ==
  /\ HeapSize \in Nat /\ Region >= ObjectAlign
  /\ Null \notin Int /\ EmptyString \notin Int /\ Null # EmptyString
  /\ StringLengths \subseteq Nat
  /\ FrameSizes \subseteq Nat
  /\ MaxDepth \in Nat
  /\ Payload # {}

VARIABLES
  heap,      \* offset |-> object, for every object intact in memory
  free,      \* FREE: end of the allocated prefix
  frames,    \* the frames from CURRENT_FRAME along parent, each its root slots
  pc,        \* what the runtime is doing
  request,   \* the allocation a collection was started for, or NoRequest
  nextFrame, \* mark: frames before this one have been visited
  pending,   \* mark: slots of the frame or object being visited, still to visit
  worklist,  \* Scratch.worklist, a stack
  relocs,    \* Scratch.relocations
  walk,      \* compute_forwarding: `offset`
  dest,      \* compute_forwarding: `destination`
  cursor     \* fix_references and slide: next entry of relocs (0: the roots)

mutator == <<heap, free, frames>>
scratch == <<nextFrame, pending, worklist, relocs, walk, dest, cursor>>
vars == <<mutator, pc, request, scratch>>

NoRequest == [class |-> StringClass, len |-> -1, slot |-> 0]

Request == [class : Classes, len : StringLengths \cup {0}, slot : Nat]

\* An exit with code 137, a Rust panic, and a read of memory where no intact
\* object starts.
Faults == {"oom", "panic", "wild"}

Collecting == {"mark", "forward", "fix", "slide"}

Object == [class : Classes, len : Nat, marked : BOOLEAN, fields : Seq(Ref),
           payload : Payload]

SizeAt(a) == SizeOf(heap[a].class, heap[a].len)

\* gc.rs `managed`: null and immortal objects lie outside [base, end).
Managed(r) == r \in 0 .. (free - 1)

Init ==
  /\ heap = <<>> /\ free = 0 /\ frames = <<>>
  /\ pc = "run" /\ request = NoRequest
  /\ nextFrame = 1 /\ pending = <<>> /\ worklist = <<>> /\ relocs = <<>>
  /\ walk = 0 /\ dest = 0 /\ cursor = 0

---------------------------------------------------------------------------
(***************************************************************************)
(* Compiled code.  It names objects through its root slots (it reloads     *)
(* every reference from its slot after a call), through fields of those,   *)
(* and as the static empty string.                                         *)
(***************************************************************************)
SlotValues == UNION {{frames[f][i] : i \in DOMAIN frames[f]} : f \in DOMAIN frames}

FieldValues(a) == {heap[a].fields[i] : i \in DOMAIN heap[a].fields}

Held ==
  {Null, EmptyString} \cup SlotValues
    \cup UNION {FieldValues(a) : a \in SlotValues \cap DOMAIN heap}

Slots == {0} \cup (IF frames = <<>> THEN {} ELSE DOMAIN frames[1])

StoreRoot(slot, v) ==
  IF slot = 0 THEN frames ELSE [frames EXCEPT ![1][slot] = v]

\* The prologue's null root slots, then lo_push_frame.
PushFrame ==
  /\ pc = "run"
  /\ Len(frames) < MaxDepth
  /\ \E n \in FrameSizes : frames' = <<[i \in 1 .. n |-> Null]>> \o frames
  /\ UNCHANGED <<heap, free, pc, request, scratch>>

\* lo_pop_frame; a reference the function returns is parked across the call and
\* stored by the caller.
PopFrame ==
  /\ pc = "run"
  /\ frames # <<>>
  /\ \/ frames' = Tail(frames)
     \/ /\ Len(frames) > 1
        /\ \E v \in Held, i \in DOMAIN frames[2] :
             frames' = [Tail(frames) EXCEPT ![1][i] = v]
  /\ UNCHANGED <<heap, free, pc, request, scratch>>

RootStore ==
  /\ pc = "run"
  /\ \E slot \in Slots \ {0}, v \in Held : frames' = StoreRoot(slot, v)
  /\ UNCHANGED <<heap, free, pc, request, scratch>>

\* lo_gc_write_barrier: a bare store.
WriteBarrier ==
  /\ pc = "run"
  /\ \E a \in Held \cap DOMAIN heap, v \in Held :
       \E i \in DOMAIN heap[a].fields : heap' = [heap EXCEPT ![a].fields[i] = v]
  /\ UNCHANGED <<free, frames, pc, request, scratch>>

---------------------------------------------------------------------------
(***************************************************************************)
(* Allocation: alloc_raw with bump_if_fits, reached through lo_alloc       *)
(* (len = 0) or bump_alloc_string.                                         *)
(***************************************************************************)
Lengths(class) == IF class = StringClass THEN StringLengths ELSE {0}

\* A plausible slip: testing the start of the new object against the limit.
FitsByStart(req) == free + 1 <= Region

Fits(req) == free + SizeOf(req.class, req.len) <= Region

Used == {heap[a].payload : a \in DOMAIN heap}

\* No other object's payload, as long as there are that many.
FreshPayload == CHOOSE p \in Payload : p \in Used => Payload \subseteq Used

\* Zeroed memory: every field null; the header stamped with a clear gc_bits.
Fresh(req) ==
  [class |-> req.class, len |-> req.len, marked |-> FALSE,
   fields |-> [i \in 1 .. PointerCount[req.class] |-> Null],
   payload |-> FreshPayload]

\* A plausible slip: bumping by the class's fixed size, whatever the length.
CarveFixedSize(req) ==
  /\ heap' = [a \in DOMAIN heap \cup {free} |->
                IF a = free THEN Fresh(req) ELSE heap[a]]
  /\ free' = free + AlignedSize(InstanceSize[req.class])
  /\ frames' = StoreRoot(req.slot, free)

Carve(req) ==
  /\ heap' = [a \in DOMAIN heap \cup {free} |->
                IF a = free THEN Fresh(req) ELSE heap[a]]
  /\ free' = free + SizeOf(req.class, req.len)
  /\ frames' = StoreRoot(req.slot, free)

\* lo_gc_collect up to its first phase: the side tables start empty.
StartCollection(req) ==
  /\ pc' = "mark"
  /\ request' = req
  /\ nextFrame' = 1 /\ pending' = <<>> /\ worklist' = <<>> /\ relocs' = <<>>
  /\ walk' = 0 /\ dest' = 0 /\ cursor' = 0
  /\ UNCHANGED mutator

LoAlloc ==
  /\ pc = "run"
  /\ \E class \in Classes, slot \in Slots : \E len \in Lengths(class) :
       LET req == [class |-> class, len |-> len, slot |-> slot] IN
       \/ /\ Fits(req)
          /\ Carve(req)
          /\ UNCHANGED <<pc, request, scratch>>
       \/ /\ ~Fits(req)
          /\ StartCollection(req)

\* The one retry after a collection.
AllocRetry ==
  /\ pc = "retry"
  /\ \/ /\ Fits(request)
        /\ Carve(request)
        /\ pc' = "run"
     \/ /\ ~Fits(request)
        /\ pc' = "oom"
        /\ UNCHANGED mutator
  /\ request' = NoRequest
  /\ UNCHANGED scratch

LoGcCollect ==
  /\ pc = "run"
  /\ StartCollection(NoRequest)

---------------------------------------------------------------------------
(***************************************************************************)
(* mark: visit every root slot from the current frame outwards, then the   *)
(* fields of each object popped off the worklist.                          *)
(***************************************************************************)
\* A plausible slip: not following `parent`.
MarkCurrentFrameOnly ==
  /\ pc = "mark" /\ pending = <<>> /\ nextFrame <= Len(frames)
  /\ pending' = frames[nextFrame]
  /\ nextFrame' = Len(frames) + 1
  /\ UNCHANGED <<mutator, pc, request, worklist, relocs, walk, dest, cursor>>

MarkNextFrame ==
  /\ pc = "mark" /\ pending = <<>> /\ nextFrame <= Len(frames)
  /\ pending' = frames[nextFrame]
  /\ nextFrame' = nextFrame + 1
  /\ UNCHANGED <<mutator, pc, request, worklist, relocs, walk, dest, cursor>>

\* A plausible slip: marking an object when it is popped, not when it is pushed.
EnqueueUnmarked(a) ==
  /\ UNCHANGED heap
  /\ IF Len(worklist) = ScratchCapacity
       THEN pc' = "oom" /\ UNCHANGED worklist
       ELSE worklist' = Append(worklist, a) /\ UNCHANGED pc

\* `enqueue`: mark before pushing, so an object enters the worklist once.
Enqueue(a) ==
  /\ heap' = [heap EXCEPT ![a].marked = TRUE]
  /\ IF Len(worklist) = ScratchCapacity
       THEN pc' = "oom" /\ UNCHANGED worklist
       ELSE worklist' = Append(worklist, a) /\ UNCHANGED pc

MarkVisit ==
  /\ pc = "mark" /\ pending # <<>>
  /\ LET r == Head(pending) IN
       \/ /\ Managed(r) /\ r \notin DOMAIN heap
          /\ pc' = "wild"
          /\ UNCHANGED <<heap, worklist>>
       \/ /\ Managed(r) /\ r \in DOMAIN heap
          /\ IF heap[r].marked THEN UNCHANGED <<heap, pc, worklist>> ELSE Enqueue(r)
       \/ /\ ~Managed(r)
          /\ UNCHANGED <<heap, pc, worklist>>
  /\ pending' = Tail(pending)
  /\ UNCHANGED <<free, frames, request, nextFrame, relocs, walk, dest, cursor>>

MarkPop ==
  /\ pc = "mark" /\ pending = <<>> /\ nextFrame > Len(frames)
  /\ worklist # <<>>
  /\ pending' = heap[worklist[Len(worklist)]].fields
  /\ worklist' = SubSeq(worklist, 1, Len(worklist) - 1)
  /\ UNCHANGED <<mutator, pc, request, nextFrame, relocs, walk, dest, cursor>>

MarkDone ==
  /\ pc = "mark" /\ pending = <<>> /\ nextFrame > Len(frames)
  /\ worklist = <<>>
  /\ pc' = "forward"
  /\ UNCHANGED <<mutator, request, scratch>>

---------------------------------------------------------------------------
(***************************************************************************)
(* compute_forwarding: walk the allocated prefix object by object, giving  *)
(* each marked one the next destination.                                   *)
(***************************************************************************)
PushRelocation(size) ==
  IF Len(relocs) = ScratchCapacity
    THEN pc' = "oom" /\ UNCHANGED <<relocs, dest>>
    ELSE /\ relocs' = Append(relocs, [old |-> walk, new |-> dest, size |-> size])
         /\ dest' = dest + size
         /\ UNCHANGED pc

ForwardObject ==
  /\ pc = "forward" /\ walk < free
  /\ \/ /\ walk \notin DOMAIN heap
        /\ pc' = "wild"
        /\ UNCHANGED <<relocs, dest, walk>>
     \/ /\ walk \in DOMAIN heap
        /\ SizeAt(walk) < HeaderSize \/ SizeAt(walk) > free - walk
        /\ pc' = "panic"
        /\ UNCHANGED <<relocs, dest, walk>>
     \/ /\ walk \in DOMAIN heap
        /\ SizeAt(walk) >= HeaderSize /\ SizeAt(walk) <= free - walk
        /\ walk' = walk + SizeAt(walk)
        /\ IF heap[walk].marked
             THEN PushRelocation(SizeAt(walk))
             ELSE UNCHANGED <<pc, relocs, dest>>
  /\ UNCHANGED <<mutator, request, nextFrame, pending, worklist, cursor>>

ForwardDone ==
  /\ pc = "forward" /\ walk >= free
  /\ pc' = "fix"
  /\ UNCHANGED <<mutator, request, scratch>>

---------------------------------------------------------------------------
(***************************************************************************)
(* fix_references: every root slot, then the fields of every relocated     *)
(* object where it still lies, is rewritten to the new address.            *)
(***************************************************************************)
HasDestination(r) == \E i \in DOMAIN relocs : relocs[i].old = r

\* Scratch::destination, a lookup by old offset.
Destination(r) == relocs[CHOOSE i \in DOMAIN relocs : relocs[i].old = r].new

Relocated(r) == IF Managed(r) THEN Destination(r) ELSE r

\* The `expect` in `relocated` holds of every slot visited.
AllForwarded(S) == \A r \in S : Managed(r) => HasDestination(r)

\* A plausible slip: fixing the slots of the current frame only.
FixCurrentFrameOnly ==
  /\ pc = "fix" /\ cursor = 0
  /\ frames' = [f \in DOMAIN frames |->
                  [i \in DOMAIN frames[f] |->
                     IF f = 1 THEN Relocated(frames[f][i]) ELSE frames[f][i]]]
  /\ cursor' = 1
  /\ UNCHANGED <<heap, free, pc, request, nextFrame, pending, worklist, relocs, walk, dest>>

FixRoots ==
  /\ pc = "fix" /\ cursor = 0
  /\ \/ /\ AllForwarded(SlotValues)
        /\ frames' = [f \in DOMAIN frames |->
                        [i \in DOMAIN frames[f] |-> Relocated(frames[f][i])]]
        /\ cursor' = 1
        /\ UNCHANGED pc
     \/ /\ ~AllForwarded(SlotValues)
        /\ pc' = "panic"
        /\ UNCHANGED <<frames, cursor>>
  /\ UNCHANGED <<heap, free, request, nextFrame, pending, worklist, relocs, walk, dest>>

\* A plausible slip: fixing the first field only.
FixFirstField ==
  /\ pc = "fix" /\ cursor \in DOMAIN relocs
  /\ heap' = [heap EXCEPT ![relocs[cursor].old].fields =
                [i \in DOMAIN @ |-> IF i = 1 THEN Relocated(@[i]) ELSE @[i]]]
  /\ cursor' = cursor + 1
  /\ UNCHANGED <<free, frames, pc, request, nextFrame, pending, worklist, relocs, walk, dest>>

FixFields ==
  /\ pc = "fix" /\ cursor \in DOMAIN relocs
  /\ LET a == relocs[cursor].old IN
       \/ /\ AllForwarded(FieldValues(a))
          /\ heap' = [heap EXCEPT ![a].fields =
                        [i \in DOMAIN @ |-> Relocated(@[i])]]
          /\ cursor' = cursor + 1
          /\ UNCHANGED pc
       \/ /\ ~AllForwarded(FieldValues(a))
          /\ pc' = "panic"
          /\ UNCHANGED <<heap, cursor>>
  /\ UNCHANGED <<free, frames, request, nextFrame, pending, worklist, relocs, walk, dest>>

FixDone ==
  /\ pc = "fix" /\ cursor > Len(relocs)
  /\ pc' = "slide"
  /\ cursor' = 1
  /\ UNCHANGED <<mutator, request, nextFrame, pending, worklist, relocs, walk, dest>>

---------------------------------------------------------------------------
(***************************************************************************)
(* slide: ptr::copy each relocated object down, in ascending order, and    *)
(* clear its mark.  Whatever the copied bytes cover is gone.               *)
(***************************************************************************)
Overlap(a, n, b, m) == a < b + m /\ b < a + n

Overwritten(at, size) == {a \in DOMAIN heap : Overlap(a, SizeAt(a), at, size)}

\* A plausible slip: copying the object with its mark.
SlideMarked ==
  /\ pc = "slide" /\ cursor \in DOMAIN relocs
  /\ LET r == relocs[cursor] IN
       heap' = [a \in (DOMAIN heap \ Overwritten(r.new, r.size)) \cup {r.new} |->
                  IF a = r.new THEN heap[r.old] ELSE heap[a]]
  /\ cursor' = cursor + 1
  /\ UNCHANGED <<free, frames, pc, request, nextFrame, pending, worklist, relocs, walk, dest>>

SlideObject ==
  /\ pc = "slide" /\ cursor \in DOMAIN relocs
  /\ LET r == relocs[cursor] IN
       \/ /\ r.old \notin DOMAIN heap
          /\ pc' = "wild"
          /\ UNCHANGED <<heap, cursor>>
       \/ /\ r.old \in DOMAIN heap
          /\ heap' = [a \in (DOMAIN heap \ Overwritten(r.new, r.size)) \cup {r.new} |->
                        IF a = r.new THEN [heap[r.old] EXCEPT !.marked = FALSE]
                                     ELSE heap[a]]
          /\ cursor' = cursor + 1
          /\ UNCHANGED pc
  /\ UNCHANGED <<free, frames, request, nextFrame, pending, worklist, relocs, walk, dest>>

\* set_free; bytes above it no longer hold objects (LO_GC_POISON scribbles on
\* them).  The side tables are cleared and the caller resumes.
CollectDone ==
  /\ pc = "slide" /\ cursor > Len(relocs)
  /\ free' = dest
  /\ heap' = Restrict(heap, {a \in DOMAIN heap : a < dest})
  /\ pc' = IF request = NoRequest THEN "run" ELSE "retry"
  /\ nextFrame' = 1 /\ pending' = <<>> /\ worklist' = <<>> /\ relocs' = <<>>
  /\ walk' = 0 /\ dest' = 0 /\ cursor' = 0
  /\ UNCHANGED <<frames, request>>

\* runtime_abort: the process has exited with status 137.
Exited == pc = "oom" /\ UNCHANGED vars

---------------------------------------------------------------------------
Mutator == PushFrame \/ PopFrame \/ RootStore \/ WriteBarrier \/ LoAlloc \/ LoGcCollect

Collector ==
  \/ MarkNextFrame \/ MarkVisit \/ MarkPop \/ MarkDone
  \/ ForwardObject \/ ForwardDone
  \/ FixRoots \/ FixFields \/ FixDone
  \/ SlideObject \/ CollectDone
  \/ AllocRetry

Next == Mutator \/ Collector \/ Exited

Spec == Init /\ [][Next]_vars

\* The runtime is straight-line code on one thread: once in a collection it
\* runs it.  Nothing is assumed of the program that calls it.
FairSpec == Spec /\ WF_vars(Collector)
===========================================================================
