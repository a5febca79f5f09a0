SPECIFICATION Spec
CONSTANTS
  tab = tab  v1 = v1  v2 = v2  Default = Default  None = None
  Clients <- OneClient
  Variants <- TwoVariants
  Ops = {"run", "delete", "drop", "restart"}
  MaxEdits = 1
  MaxRuns = 1
  MaxQueue = 3
SYMMETRY VariantsAlike
CHECK_DEADLOCK FALSE
INVARIANTS IInv SavedUnderItsOwn ResultOfOwnCanvas
