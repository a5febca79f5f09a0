SPECIFICATION Spec
CONSTANTS
  None = None
  Configs <- MCConfigs
  Losses = {1, 2}
  PopulationSize = 2
  MaxRuns = 3
  MaxSteps = 2
CHECK_DEADLOCK FALSE
INVARIANTS IInv BestIsShipped ModelCoherent ExportsAddressTensors
