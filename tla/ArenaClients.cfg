SPECIFICATION Spec
CONSTANTS
  s1 = s1
  s2 = s2
  s3 = s3
  long = long
  NoPtr = NoPtr
  Strings <- MCStrings
  Errors <- MCErrors
  SizeOf <- MCSizeOf
  BucketOf <- MCBucketOf
  HeaderSize = 4
  ErrorSize = 4
  EntrySize = 4
  PointerSize = 2
  WordAlign = 4
  InitCap = 1
  MaxAdds = 3
  MaxStrings = 2
  Word = 256
  BlockSize = 11
  Sizes <- MCSizes
  Aligns <- MCAligns
  Heap <- MCHeap
  HeapEnd = 128
  MaxBlocks = 3
INVARIANTS
  RegionsApart
  NothingLeaks
  ErrorsKeptInOrder
  InternedOnce
