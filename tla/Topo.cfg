SPECIFICATION Spec
CONSTANTS
  n1 = n1  n2 = n2  n3 = n3  in1 = in1  in2 = in2
  NodeIds <- ThreeNodes
  Ports = {in1, in2}
  Connectable = {}
  Arcs <- DrawnArcs
CHECK_DEADLOCK FALSE
INVARIANTS DecidesSortable
PROPERTIES UpstreamFirst
