SPECIFICATION Spec
CONSTANTS
  Runes <- TwoRunes
  Dictionary <- ShortWords
  SearchTexts <- FiveRunes
  MaxWords = 3
INVARIANTS TypeOK FailIsLongestSuffix OutputComplete SearchExact
