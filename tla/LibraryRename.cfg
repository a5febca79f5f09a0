SPECIFICATION Spec
CONSTANTS
  x1 = x1  x2 = x2  c1 = c1  c2 = c2  small = small  large = large
  None = None  SharedTok = SharedTok
  Names <- TwoNames
  Clones <- TwoClones
  Shapes = {small, large}
  MaxVersion = 2
  Scenes <- RenameScene
CHECK_DEADLOCK FALSE
PROPERTY RenameKeepsWeights
