------------------------------- MODULE MCTopo -------------------------------
(* Every graph on up to three nodes, with self loops, dangling edges and,  *)
(* from n1, parallel edges into two ports of one node.                     *)
EXTENDS Topo
CONSTANTS n1, n2, n3, in1, in2
ThreeNodes == {n1, n2, n3}
DrawnArcs == { e \in Edge : e.port = in1 \/ (e.from = n1 /\ e.to # n1) }
=============================================================================
