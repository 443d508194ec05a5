---------------------------- MODULE ManagedHeap ----------------------------
(***************************************************************************)
(* What the runtime's memory manager promises to compiled code             *)
(* (runtime-abi.md sections 3.1, 3.3 and 3.4): objects have an identity    *)
(* that nothing ever changes, a reference read back from a root slot or a  *)
(* field is the reference that was stored there, only unreachable objects  *)
(* disappear, and an allocation is refused only when the reachable objects *)
(* leave no room for it.  There are no addresses here, so nothing can      *)
(* move: a moving collector implements this module when compiled code      *)
(* cannot tell that it moves anything.                                     *)
(***************************************************************************)
EXTENDS HeapLayout, Sequences, FiniteSets, FiniteSetsExt

CONSTANTS
  Id,             \* identities of managed objects
  Null,
  EmptyString,    \* LO_EMPTY_STRING, an object outside the managed heap
  Capacity,       \* bytes of managed heap
  StringLengths,  \* the lengths of the strings a program creates
  FrameSizes,     \* the num_roots of the functions of a program
  MaxDepth        \* bound on the shadow stack's depth

VARIABLES
  objs,     \* identity |-> [class, len, fields] of every object not reclaimed
  frames,   \* the shadow stack, current frame first; a frame is its root slots
  status    \* "run" or "oom"

vars == <<objs, frames, status>>

SlotValues == UNION {{frames[f][i] : i \in DOMAIN frames[f]} : f \in DOMAIN frames}

FieldValues(id) == {objs[id].fields[i] : i \in DOMAIN objs[id].fields}

Closed(S) == \A id \in S : FieldValues(id) \cap DOMAIN objs \subseteq S

\* The objects a program can still name: the least closed set holding the roots.
Reachable ==
  {id \in DOMAIN objs :
     \A S \in SUBSET DOMAIN objs :
       (SlotValues \cap DOMAIN objs \subseteq S /\ Closed(S)) => id \in S}

\* References compiled code may use next: what its slots hold, what it can load
\* through them, and the two constants.
Held ==
  {Null, EmptyString} \cup SlotValues
    \cup UNION {FieldValues(id) : id \in SlotValues \cap DOMAIN objs}

Bytes(S) == MapThenSumSet(LAMBDA id : SizeOf(objs[id].class, objs[id].len), S)

Lengths(class) == IF class = StringClass THEN StringLengths ELSE {0}

\* The current frame with `slot` holding v; slot 0 stands for a result compiled
\* code drops.
StoreRoot(slot, v) ==
  IF slot = 0 THEN frames ELSE [frames EXCEPT ![1][slot] = v]

Slots == {0} \cup (IF frames = <<>> THEN {} ELSE DOMAIN frames[1])

Init ==
  /\ objs = <<>>
  /\ frames = <<>>
  /\ status = "run"

PushFrame ==
  /\ Len(frames) < MaxDepth
  /\ \E n \in FrameSizes : frames' = <<[i \in 1 .. n |-> Null]>> \o frames
  /\ UNCHANGED <<objs, status>>

PopFrame ==
  /\ frames # <<>>
  /\ \/ frames' = Tail(frames)
     \/ /\ Len(frames) > 1
        /\ \E v \in Held, i \in DOMAIN frames[2] :
             frames' = [Tail(frames) EXCEPT ![1][i] = v]
  /\ UNCHANGED <<objs, status>>

RootStore ==
  /\ \E slot \in Slots \ {0}, v \in Held : frames' = StoreRoot(slot, v)
  /\ UNCHANGED <<objs, status>>

FieldStore ==
  /\ \E id \in Held \cap DOMAIN objs, v \in Held :
       \E i \in DOMAIN objs[id].fields : objs' = [objs EXCEPT ![id].fields[i] = v]
  /\ UNCHANGED <<frames, status>>

\* A new object has null fields and an identity no object has.
Alloc ==
  /\ \E class \in Classes, slot \in Slots : \E len \in Lengths(class) :
       /\ Bytes(DOMAIN objs) + SizeOf(class, len) <= Capacity
       /\ \E id \in Id \ DOMAIN objs :
            /\ objs' = [j \in DOMAIN objs \cup {id} |->
                          IF j = id
                            THEN [class |-> class, len |-> len,
                                  fields |-> [i \in 1 .. PointerCount[class] |-> Null]]
                            ELSE objs[j]]
            /\ frames' = StoreRoot(slot, id)
  /\ UNCHANGED status

\* A collection drops every unreachable object at once and nothing else.
Reclaim ==
  /\ objs' = [id \in Reachable |-> objs[id]]
  /\ UNCHANGED <<frames, status>>

\* Exit 137: a program stops for lack of memory only when what it can still
\* reach leaves too little room for the object it asked for.
OutOfMemory ==
  /\ \E class \in Classes : \E len \in Lengths(class) :
       Bytes(Reachable) + SizeOf(class, len) > Capacity
  /\ status' = "oom"
  /\ UNCHANGED <<objs, frames>>

Next ==
  /\ status = "run"
  /\ \/ PushFrame \/ PopFrame \/ RootStore \/ FieldStore
     \/ Alloc \/ Reclaim \/ OutOfMemory

Spec == Init /\ [][Next]_vars
===========================================================================
