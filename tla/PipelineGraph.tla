---------------------------- MODULE PipelineGraph ----------------------------
(***************************************************************************)
(* The node graph an Engine holds: node ids, typed edges and the rules     *)
(* Engine.validate enforces.  An edge keeps its two nodes and its input    *)
(* port; the output port is folded into Connectable, the set of edges      *)
(* whose two ports exist on the nodes' descriptors with equal data types   *)
(* (an id stands for one node type throughout a model).                    *)
(***************************************************************************)
EXTENDS FiniteSets

CONSTANTS NodeIds,     (* ids a pipeline may use                            *)
          Ports,       (* names of input ports                              *)
          Connectable  (* edges whose ports exist and agree on the dataType *)

Edge == [from : NodeIds, to : NodeIds, port : Ports]

ASSUME ConnectableAssumption == Connectable \subseteq Edge

(* The nodes that feed an input of n. *)
Upstream(E, n) == { e.from : e \in { x \in E : x.to = n } }

(* No edge mentions a node the graph lacks. *)
Closed(N, E) == \A e \in E : e.from \in N /\ e.to \in N

(* Every nonempty set of nodes has a member that none of them feeds. *)
Acyclic(N, E) ==
  \A S \in SUBSET N : S # {} => \E n \in S : Upstream(E, n) \cap S = {}

(* The ids Kahn's algorithm never reaches, and those it orders: an unknown *)
(* id is reached through its edges only, a cycle is never entered.         *)
Unreached(N, E) ==
  UNION { S \in SUBSET NodeIds : \A n \in S :
            (n \notin N /\ Upstream(E, n) = {}) \/ Upstream(E, n) \cap S # {} }
Ordered(N, E) == NodeIds \ Unreached(N, E)

(* topoOrder returns an order when it has as many ids as there are nodes   *)
(* (module Topo), and throws otherwise.                                    *)
Sortable(N, E) == Cardinality(Ordered(N, E)) = Cardinality(N)

(* Engine.validate: known nodes, matching ports, an order.   *)
Valid(N, E) == Closed(N, E) /\ E \subseteq Connectable /\ Sortable(N, E)

(* Engine.addEdge refuses a second edge into one input port. *)
InputTaken(E, e) == \E x \in E : x.to = e.to /\ x.port = e.port
=============================================================================
