SPECIFICATION Spec
CONSTANTS
  Worlds <- MCWorlds
  PackageOrder <- MCPackageOrder
  SkippedPackage = "libstatistics_collector"
  KeywordNames = {"int8_msgs"}
  UsedWorlds <- MCUsedWorlds
  Texts <- MCTexts
  BasicValues <- MCBasicValues
  MaxLen = 2
  Depths = {0, 3}
  Durations <- MCDurations
  MaxCalls = 2
  Second = 10
  SecMin <- MCSecMin
  SecMax = 3
  Nanos <- MCNanos
  NsecMax = 42
INVARIANTS TypeOK FirstPrefixWins ReferencesResolve GeneratorFaithful MessageRoundTrip HeapExact ConversionsFaithful
CHECK_DEADLOCK FALSE
