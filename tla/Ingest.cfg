SPECIFICATION Spec
CONSTANTS
  Configs <- MCConfigs
  Candidates <- MCCandidates
  Shards <- MCShards
  MaxDocs = 4
  PageSize = 2
  MaxRetries = 2
  MinRun = 2
  MaxCarry = 3
  MaxLimited = 1
CHECK_DEADLOCK FALSE
INVARIANTS RowsInOrder RunsWhole
PROPERTY StreamEnds
