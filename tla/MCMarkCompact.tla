--------------------------- MODULE MCMarkCompact ---------------------------
(***************************************************************************)
(* Instances of MarkCompact.  A Node has one reference, a Pair two, a Leaf *)
(* none; references are one alignment unit wide on both targets.  The cfg  *)
(* files choose the classes and the target's layout: x86_64 (alignment 8,  *)
(* 16-byte header, string bytes from 20) or wasm32 (4, 12, 16).            *)
(***************************************************************************)
EXTENDS MarkCompactProperties

CONSTANTS Node, Pair, Leaf, String

PointersUsed ==
  [c \in Classes |-> CASE c = Node -> 1 [] c = Pair -> 2 [] OTHER -> 0]

SizesUsed ==
  [c \in Classes |->
     IF c = String THEN AlignedSize(StringDataOffset)
                   ELSE HeaderSize + ObjectAlign * PointersUsed[c]]
===========================================================================
