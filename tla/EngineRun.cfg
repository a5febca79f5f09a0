SPECIFICATION Spec
CONSTANTS
  data = data  fast = fast  slow = slow  eval = eval  in1 = in1
  NoNode = NoNode  NoRate = NoRate
  NodeIds <- RunNodes
  Ports = {in1}
  Connectable <- RunEdges
  Trainers = {fast, slow}
  Harnesses = {eval}
  Evaluators = {}
  Specs <- RunSpecs
  EditNodes = {}
  EditEdges = {}
  Rates = {r1}
  MaxSteps = 2
INVARIANTS IInv UpstreamDone IdleIsClean
PROPERTIES NoStepWhenHeld ControlsScoped LoopGivesBack RunDecidesEveryNode RunEnds ImplementsRunControl
