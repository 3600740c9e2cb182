SPECIFICATION Spec
CONSTANTS
  SeqMod = 4
  Counting = TRUE
  Both = TRUE
  Version = 2
  MaxDepth = 1
  MaxLost = 5
  NoSeq = NoSeq
INVARIANTS GapsAreDrops
