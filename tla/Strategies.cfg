SPECIFICATION Spec
CONSTANTS
  Runes <- FiveRunes
  Becomes <- Forms
  InputTexts <- FourLong
  Lexicons <- UpToTwo
INVARIANTS TypeOK  HighlightExact
CHECK_DEADLOCK FALSE
