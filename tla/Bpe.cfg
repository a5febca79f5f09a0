SPECIFICATION Spec
CONSTANTS
  Bytes = 2
  Longest = 11
  Threads = 2
  Samples <- MCSamples
  Merges = 4
CHECK_DEADLOCK FALSE
INVARIANTS BestPairFirst EncodesAsTrained
