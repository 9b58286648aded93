\* The bitmap has one position more than there are chunks.
SPECIFICATION Spec
CONSTANTS
  bits_per_block = 2
  count_ = 3
  Handles = {h1, h2, h3, h4, h5}
  Heap = Heap
  None = None
  NDEBUG = TRUE
INVARIANTS
  TypeOK
  BitmapMatchesUse
  Exclusive
  BitsetOperations
  BitsetPairs
PROPERTY
  ImplementsPool
