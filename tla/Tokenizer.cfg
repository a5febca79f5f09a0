SPECIFICATION Spec
CONSTANTS
  k1 = k1  k2 = k2  NoKey = NoKey  Corrupt = Corrupt
  Keys <- TwoKeys
  Chunks = 3
  BatchRows = 2
  Faults = {"cancel", "throw", "crash"}
INVARIANTS IInv HitIsWholeUnlessTainted
PROPERTIES CompleteIsKept RunEnds
