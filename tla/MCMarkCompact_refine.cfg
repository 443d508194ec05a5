SPECIFICATION Spec
CONSTANTS
  ObjectAlign = 4
  HeaderSize = 12
  StringDataOffset = 16
  Node = Node
  Pair = Pair
  Leaf = Leaf
  String = String
  Null = Null
  EmptyString = EmptyString
  Classes = {Pair, Leaf, String}
  StringClass = String
  InstanceSize <- SizesUsed
  PointerCount <- PointersUsed
  HeapSize = 49
  StringLengths = {}
  FrameSizes = {2}
  MaxDepth = 1
  Payload = {1, 2, 3, 4}

PROPERTIES ImplementsManagedHeap
