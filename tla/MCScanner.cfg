SPECIFICATION Spec
CONSTANTS
  MixedMax = 4
  LengthMax = 5
  Sources <- MCSources
  Letters = {"f", "n", "i", "_"}
  Digits = {"0", "1"}
  Keywords <- MCKeywords
  INT32_MAX = 9
INVARIANTS TypeOK GapsAreBlanks LongestMatch LinesAreRight
PROPERTIES ScanningEnds
