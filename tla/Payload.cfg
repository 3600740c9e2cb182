SPECIFICATION Spec
CONSTANTS
  WordAlign = 8
  MaxPayload = 14
  LebBase = 2
  MaxDepth = 4
  MaxGuess = 2
  Types <- MCTypes
  Events <- MCEvents
INVARIANTS
  InterpreterTypeOK
  ReadsBack
  NothingElseReadsBack
  ConsumesPayload
  TextAgrees
