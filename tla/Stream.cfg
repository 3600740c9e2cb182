SPECIFICATION Spec
CONSTANTS
  SeqMod = 4
  Counting = TRUE
  Both = FALSE
  Version = 2
  MaxDepth = 1
  MaxLost = 5
  NoSeq = NoSeq
INVARIANTS TypeOK GapIsExact BootsAreSeparate
