-------------------------------- MODULE Topo --------------------------------
(***************************************************************************)
(* Engine.topoOrder: Kahn's algorithm, one action per iteration of its     *)
(* while loop, on every graph drawn from Arcs.  Ids are counted whether or *)
(* not the graph has such a node, as the code's Map does.  The queue is a  *)
(* set: which of the ready ids is shifted first changes the order, not     *)
(* what is stated of it.                                                   *)
(***************************************************************************)
EXTENDS PipelineGraph, Integers, FiniteSets

CONSTANT Arcs  (* the edges a graph may have *)

ASSUME ArcsAssumption == Arcs \subseteq Edge /\ IsFiniteSet(NodeIds) /\ IsFiniteSet(Edge)

VARIABLES nodes,     (* keys of this.nodes                      *)
          arcs,      (* this.edges                              *)
          indegree,  (* the indegree map, 0 for ids it lacks    *)
          queue,     (* ids waiting in the queue                *)
          order,     (* the set of ids pushed on the order      *)
          length,    (* order.length                            *)
          result     (* "pending", "sorted" or "cycle" (throws) *)

vars == <<nodes, arcs, indegree, queue, order, length, result>>

Into(m)    == { e \in arcs : e.to = m }
Between(n, m) == { e \in arcs : e.from = n /\ e.to = m }

Init ==
  /\ nodes \in SUBSET NodeIds
  /\ arcs \in SUBSET Arcs
  /\ indegree = [m \in NodeIds |-> Cardinality(Into(m))]
  /\ queue = { n \in nodes : indegree[n] = 0 }
  /\ order = {} /\ length = 0 /\ result = "pending"

(* Mutant: an id is queued again by every edge into a node at zero. *)
ShiftEarly(id) ==
  /\ result = "pending" /\ id \in queue
  /\ order' = order \cup {id}
  /\ length' = length + 1
  /\ indegree' = [m \in NodeIds |-> indegree[m] - Cardinality(Between(id, m))]
  /\ queue' = (queue \ {id}) \cup { m \in NodeIds : Between(id, m) # {} }
  /\ UNCHANGED <<nodes, arcs, result>>

(* Mutant: parallel edges are counted on the way in and not on the way out. *)
ShiftOnce(id) ==
  /\ result = "pending" /\ id \in queue
  /\ order' = order \cup {id}
  /\ length' = length + 1
  /\ indegree' = [m \in NodeIds |-> IF Between(id, m) = {} THEN indegree[m] ELSE indegree[m] - 1]
  /\ queue' = (queue \ {id}) \cup { m \in NodeIds : Between(id, m) # {} /\ indegree'[m] = 0 }
  /\ UNCHANGED <<nodes, arcs, result>>

(* queue.shift(), order.push(id), and one decrement per outgoing edge; the *)
(* node whose count reaches zero is queued.                                *)
Shift(id) ==
  /\ result = "pending" /\ id \in queue
  /\ order' = order \cup {id}
  /\ length' = length + 1
  /\ indegree' = [m \in NodeIds |-> indegree[m] - Cardinality(Between(id, m))]
  /\ queue' = (queue \ {id}) \cup { m \in NodeIds : Between(id, m) # {} /\ indegree'[m] = 0 }
  /\ UNCHANGED <<nodes, arcs, result>>

(* order.length !== nodes.size decides between the order and the error. *)
Finish ==
  /\ result = "pending" /\ queue = {}
  /\ result' = IF length = Cardinality(nodes) THEN "sorted" ELSE "cycle"
  /\ UNCHANGED <<nodes, arcs, indegree, queue, order, length>>

Next == Finish \/ \E id \in NodeIds : Shift(id)

Spec == Init /\ [][Next]_vars /\ WF_vars(Next)

-----------------------------------------------------------------------------
(* topoOrder returns exactly for the graphs Sortable names, with the ids   *)
(* Ordered names; on a graph without dangling edges that is exactly when   *)
(* there is no cycle.  validate and run rely on it for both answers.       *)
DecidesSortable ==
  result # "pending" =>
    /\ result = "sorted" <=> Sortable(nodes, arcs)
    /\ order = Ordered(nodes, arcs)
    /\ Closed(nodes, arcs) => (result = "sorted" <=> Acyclic(nodes, arcs))

(* An id is pushed after everything that feeds it, so the executor meets   *)
(* no node before its upstream nodes (Engine!NextNode picks such a node).  *)
UpstreamFirst ==
  [][\A id \in order' \ order : Upstream(arcs, id) \subseteq order]_vars

(***************************************************************************)
(* The inductive invariant behind both (TopoProofs).                       *)
(***************************************************************************)
TypeOK ==
  /\ nodes \subseteq NodeIds /\ arcs \subseteq Arcs
  /\ indegree \in [NodeIds -> Nat]
  /\ queue \subseteq NodeIds /\ order \subseteq NodeIds /\ queue \cap order = {}
  /\ length \in Nat /\ result \in {"pending", "sorted", "cycle"}

(* The count of an id is the edges into it from ids not ordered yet.       *)
Waiting(m) == { e \in arcs : e.to = m /\ e.from \notin order }
CountsMatch == \A m \in NodeIds : indegree[m] = Cardinality(Waiting(m))

(* Ordered or queued are the ids that wait for nothing, but for an id that *)
(* is neither a node nor on an edge: every other was queued at zero.       *)
Ready == queue \cup order = { m \in NodeIds : Waiting(m) = {} /\ (m \in nodes \/ Into(m) # {}) }

(* No id that only a cycle or an unknown id leads to gets that far.        *)
ReachedOnly == (queue \cup order) \cap Unreached(nodes, arcs) = {}

Decided == result # "pending" => queue = {} /\ (result = "sorted" <=> length = Cardinality(nodes))

IInv == TypeOK /\ CountsMatch /\ Ready /\ ReachedOnly /\ length = Cardinality(order) /\ Decided
=============================================================================
