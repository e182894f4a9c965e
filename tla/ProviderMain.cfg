\* 5-bit integers, doubles of 3 significant bits, addresses 2 to 5; texts of any bytes.
SPECIFICATION MainSpec
CONSTANTS
  IntWidth = 5
  Precision = 3
  kI2cAddressMin = 2
  kI2cAddressMax = 5
  PatternTexts <- MCPatternTexts
  None = None
  Calls <- MCCalls
  Trees <- MCTrees
  Documents <- MCDocuments
  MaxCalls = 3
  Words <- MCWords
  Texts <- MCTexts
  Reports <- MCReports
  Speaks <- MCSpeaks
INVARIANTS
  SchemaAndValidatorAgree
  ExtractionCannotFail
  DeclarationsKeepPromises
  SchemaReadsBack
  HostCheckReadsBack
