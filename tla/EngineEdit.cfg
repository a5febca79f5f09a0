SPECIFICATION Spec
CONSTANTS
  data = data  fast = fast  slow = slow  eval = eval  in1 = in1
  NoNode = NoNode  NoRate = NoRate
  NodeIds <- SmallNodes
  Ports = {in1}
  Connectable <- SmallConnectable
  Trainers = {slow}
  Harnesses = {}
  Evaluators = {eval}
  Specs <- SmallSpecs
  EditNodes <- SmallNodes
  EditEdges <- SmallEdges
  Rates = {}
  MaxSteps = 1
INVARIANTS EditsKeepGraphValid ShownIsCurrent
