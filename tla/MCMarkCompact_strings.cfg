SPECIFICATION FairSpec
CONSTANTS
  ObjectAlign = 8
  HeaderSize = 16
  StringDataOffset = 20
  Node = Node
  Pair = Pair
  Leaf = Leaf
  String = String
  Null = Null
  EmptyString = EmptyString
  Classes = {Node, String}
  StringClass = String
  InstanceSize <- SizesUsed
  PointerCount <- PointersUsed
  HeapSize = 84
  StringLengths = {5}
  FrameSizes = {1}
  MaxDepth = 2
  Payload = {1}
INVARIANTS TypeOK HeapTiled NoStaleReference NoFault NoLeftoverMarks
PROPERTIES OomOnlyAfterRetry CollectionEnds
