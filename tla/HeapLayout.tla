---------------------------- MODULE HeapLayout ----------------------------
(***************************************************************************)
(* Object sizes of the Rust runtime (rust/src/heap_layout.rs and           *)
(* rust/src/object.rs).  The allocator and every heap walk of the          *)
(* collector take their stride from this one place.  Sizes are bytes; the  *)
(* target's header, alignment and string layout are parameters, so that    *)
(* x86_64 (16, 8, 20) and wasm32 (12, 4, 16) are two instances.            *)
(***************************************************************************)
EXTENDS Integers

CONSTANTS
  ObjectAlign,       \* align_of::<Object>()
  HeaderSize,        \* size_of::<Object>()
  StringDataOffset,  \* offset_of!(StringObject, data)
  Classes,           \* the class descriptors a program allocates, String included
  StringClass,       \* LO_STRING_CLASS
  InstanceSize,      \* descriptor.instance_size of each class
  PointerCount       \* descriptor.pointer_count of each class

ASSUME LayoutAssumption ==
  /\ ObjectAlign \in Nat \ {0}
  /\ HeaderSize \in Nat \ {0}
  /\ StringDataOffset \in Nat /\ StringDataOffset >= HeaderSize
  /\ StringClass \in Classes
  /\ InstanceSize \in [Classes -> Nat]
  /\ PointerCount \in [Classes -> Nat]
  /\ \A c \in Classes : InstanceSize[c] >= HeaderSize
  /\ PointerCount[StringClass] = 0

\* n & !(OBJECT_ALIGN - 1)
AlignDown(n) == (n \div ObjectAlign) * ObjectAlign

AlignedSize(n) == AlignDown(n + (ObjectAlign - 1))

StringSize(len) == AlignedSize(StringDataOffset + len)

\* What lo_alloc and bump_alloc_string ask the allocator for, and what
\* object_size recomputes from an object's descriptor and length.
SizeOf(class, len) ==
  IF class = StringClass THEN StringSize(len) ELSE AlignedSize(InstanceSize[class])
===========================================================================
