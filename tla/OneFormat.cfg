SPECIFICATION OutputSpec
CONSTANTS
  ByteBits = 3
  FieldMax = 14
  FracUnit = 4
  BufSize = 16
  LebBase = 6
  TagSize = 2
  HeaderSize = 2
  StartSize = 3
  MaxGuess = 3
  Ascii <- MCAscii
  Runs <- AlignedRuns
INVARIANT OneFormatOneText
