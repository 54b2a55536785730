CONSTANTS
  Psids = {"p", "q"}
  Confs <- MCConfs
  InfoLines <- MCInfoLines
  SampleLines <- MCSampleLines
  MergeLines <- MCMergeLines
  MaxInfos <- MCMaxInfos
  MaxSamples <- MCMaxSamples
  MaxMerge = 2
  None = None
SPECIFICATION Spec
INVARIANTS TypeOK BuiltFromFirstRun QueriesFindSamples MergeFindsUsers
