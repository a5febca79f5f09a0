------------------------------ MODULE TopoProofs ------------------------------
(***************************************************************************)
(* Proofs about Topo: on every finite graph, with cycles, parallel edges   *)
(* and edges of unknown nodes, Kahn's algorithm as Engine.topoOrder runs   *)
(* it orders what it should, and each id after what feeds it.              *)
(***************************************************************************)
EXTENDS Topo, FiniteSetTheorems, TLAPS

-----------------------------------------------------------------------------
(* Sets of edges are finite, and so are sets of ids.                         *)
LEMMA Finite ==
  ASSUME TypeOK
  PROVE  /\ IsFiniteSet(nodes) /\ IsFiniteSet(order) /\ IsFiniteSet(arcs)
         /\ \A S \in SUBSET arcs : IsFiniteSet(S) /\ Cardinality(S) \in Nat
         /\ Cardinality(nodes) \in Nat /\ Cardinality(order) \in Nat
<1>1. IsFiniteSet(nodes) /\ IsFiniteSet(order) /\ IsFiniteSet(arcs)
  BY ArcsAssumption, FS_Subset DEF TypeOK
<1>2. \A S \in SUBSET arcs : IsFiniteSet(S) /\ Cardinality(S) \in Nat
  BY <1>1, FS_Subset, FS_CardinalityType
<1>. QED
  BY <1>1, <1>2, FS_CardinalityType

(* An id waits for nothing when its count is zero.                           *)
LEMMA CountZero ==
  ASSUME TypeOK, CountsMatch, NEW m \in NodeIds
  PROVE  indegree[m] = 0 <=> Waiting(m) = {}
<1>1. Waiting(m) \in SUBSET arcs /\ indegree[m] = Cardinality(Waiting(m))
  BY DEF Waiting, CountsMatch
<1>2. IsFiniteSet(Waiting(m))
  BY <1>1, Finite
<1>. QED
  BY <1>1, <1>2, FS_EmptySet

(* What feeds an id: an edge into it from an id.                             *)
LEMMA UpstreamIs ==
  ASSUME NEW m
  PROVE  /\ \A n : n \in Upstream(arcs, m) <=> \E e \in arcs : e.to = m /\ e.from = n
         /\ Upstream(arcs, m) = {} <=> Into(m) = {}
         /\ Waiting(m) = {} <=> Upstream(arcs, m) \subseteq order
BY DEF Upstream, Into, Waiting

(* Arcs join ids. *)
LEMMA ArcsJoinIds == TypeOK => \A e \in arcs : e.from \in NodeIds /\ e.to \in NodeIds
BY ArcsAssumption DEF TypeOK, Edge

-----------------------------------------------------------------------------
(* The invariant holds at the start, *)
LEMMA InitInvariant == Init => IInv
<1>. SUFFICES ASSUME Init PROVE IInv
  OBVIOUS
<1>. USE DEF Init
<1>1. arcs \subseteq Edge /\ IsFiniteSet(arcs)
  BY ArcsAssumption, FS_Subset
<1>2. \A m \in NodeIds : /\ Into(m) = Waiting(m) /\ Cardinality(Into(m)) \in Nat
                         /\ Cardinality(Into(m)) = 0 <=> Into(m) = {}
  <2>. SUFFICES ASSUME NEW m \in NodeIds
                PROVE  /\ Into(m) = Waiting(m) /\ Cardinality(Into(m)) \in Nat
                       /\ Cardinality(Into(m)) = 0 <=> Into(m) = {}
    OBVIOUS
  <2>1. Into(m) = Waiting(m) /\ Into(m) \in SUBSET arcs
    BY DEF Into, Waiting
  <2>2. IsFiniteSet(Into(m))
    BY <1>1, <2>1, FS_Subset
  <2>. QED
    BY <2>1, <2>2, FS_CardinalityType, FS_EmptySet
<1>3. TypeOK
  BY <1>2 DEF TypeOK
<1>4. CountsMatch
  BY <1>2 DEF CountsMatch
<1>5. queue = { m \in nodes : Into(m) = {} } /\ nodes \subseteq NodeIds
  BY <1>2
<1>6. Ready
  BY <1>2, <1>5 DEF Ready
<1>7. ReachedOnly
  <2>1. ASSUME NEW n \in queue, NEW S \in SUBSET NodeIds, n \in S,
               \A m \in S : (m \notin nodes /\ Upstream(arcs, m) = {}) \/ Upstream(arcs, m) \cap S # {}
        PROVE  FALSE
    BY <1>5, <2>1, UpstreamIs
  <2>. QED
    BY <2>1 DEF ReachedOnly, Unreached
<1>8. length = Cardinality(order) /\ Decided
  BY FS_EmptySet DEF Decided
<1>. QED
  BY <1>3, <1>4, <1>6, <1>7, <1>8 DEF IInv

(* What a shift does to the edges an id waits for.                           *)
LEMMA ShiftCounts ==
  ASSUME TypeOK, CountsMatch, NEW id \in NodeIds, Shift(id), NEW m \in NodeIds
  PROVE  /\ Waiting(m)' = Waiting(m) \ Between(id, m)
         /\ Between(id, m) \subseteq Waiting(m)
         /\ indegree'[m] = Cardinality(Waiting(m)') /\ indegree'[m] \in Nat
<1>1. /\ id \notin order /\ order' = order \cup {id} /\ UNCHANGED arcs
      /\ indegree'[m] = indegree[m] - Cardinality(Between(id, m))
  BY DEF Shift, TypeOK
<1>2. Waiting(m)' = Waiting(m) \ Between(id, m) /\ Between(id, m) \subseteq Waiting(m)
  BY <1>1 DEF Waiting, Between
<1>3. /\ Waiting(m) \in SUBSET arcs /\ Between(id, m) \in SUBSET arcs
      /\ Waiting(m) \cap Between(id, m) = Between(id, m)
  BY <1>2 DEF Waiting, Between
<1>4. IsFiniteSet(Waiting(m)) /\ IsFiniteSet(Between(id, m))
  BY <1>3, Finite
<1>5. /\ Cardinality(Waiting(m) \ Between(id, m))
           = Cardinality(Waiting(m)) - Cardinality(Waiting(m) \cap Between(id, m))
      /\ IsFiniteSet(Waiting(m) \ Between(id, m))
  BY <1>4, FS_Difference
<1>6. Cardinality(Waiting(m) \ Between(id, m)) \in Nat
  BY <1>5, FS_CardinalityType
<1>. QED
  BY <1>1, <1>2, <1>3, <1>5, <1>6 DEF CountsMatch

(* Every shift keeps the invariant.                                          *)
LEMMA ShiftStep == ASSUME IInv, NEW id \in NodeIds, Shift(id) PROVE IInv'
<1>1. /\ TypeOK /\ CountsMatch /\ Ready /\ ReachedOnly /\ length = Cardinality(order)
      /\ id \in queue /\ id \notin order /\ result = "pending"
      /\ order' = order \cup {id} /\ length' = length + 1
      /\ indegree' = [m \in NodeIds |-> indegree[m] - Cardinality(Between(id, m))]
      /\ queue' = (queue \ {id}) \cup { m \in NodeIds : Between(id, m) # {} /\ indegree'[m] = 0 }
      /\ UNCHANGED <<nodes, arcs, result>>
  BY DEF IInv, Shift, TypeOK
<1>2. \A m \in NodeIds : /\ Waiting(m)' = Waiting(m) \ Between(id, m)
                         /\ Between(id, m) \subseteq Waiting(m)
                         /\ indegree'[m] = Cardinality(Waiting(m)') /\ indegree'[m] \in Nat
  BY <1>1, ShiftCounts
<1>3. CountsMatch'
  BY <1>2 DEF CountsMatch
<1>4. \A m \in NodeIds : indegree'[m] = 0 <=> Waiting(m)' = {}
  <2>. SUFFICES ASSUME NEW m \in NodeIds PROVE indegree'[m] = 0 <=> Waiting(m)' = {}
    OBVIOUS
  <2>1. Waiting(m)' \in SUBSET arcs
    BY <1>1 DEF Waiting
  <2>2. IsFiniteSet(Waiting(m)')
    BY <1>1, <2>1, Finite
  <2>. QED
    BY <1>2, <2>2, FS_EmptySet
<1>5. \A m \in queue \cup order : m \in NodeIds /\ Waiting(m) = {} /\ Between(id, m) = {}
  <2>1. \A m \in queue \cup order : m \in NodeIds /\ Waiting(m) = {}
    BY <1>1 DEF Ready
  <2>. QED
    BY <1>2, <2>1
<1>6. queue' \cup order' = (queue \cup order) \cup { m \in NodeIds : Between(id, m) # {} /\ Waiting(m)' = {} }
  BY <1>1, <1>4
<1>7. TypeOK'
  <2>1. indegree' \in [NodeIds -> Nat]
    BY <1>1, <1>2
  <2>2. queue' \cap order' = {} /\ queue' \subseteq NodeIds /\ order' \subseteq NodeIds
    BY <1>1, <1>5 DEF TypeOK
  <2>3. /\ nodes' \subseteq NodeIds /\ arcs' \subseteq Arcs
        /\ result' \in {"pending", "sorted", "cycle"}
    BY <1>1, Zenon DEF TypeOK
  <2>4. length' \in Nat
    <3>1. length \in Nat /\ length' = length + 1
      BY <1>1 DEF TypeOK
    <3>. QED
      BY <3>1, SMT
  <2>. QED
    BY <2>1, <2>2, <2>3, <2>4, Zenon DEF TypeOK
<1>8. Ready'
  <2>1. \A m : Into(m)' = Into(m) /\ Between(id, m) \subseteq Into(m)
    BY <1>1 DEF Into, Between
  <2>2. ASSUME NEW m \in NodeIds, Waiting(m)' = {}, m \in nodes \/ Into(m) # {}
        PROVE  m \in queue' \cup order'
    BY <1>1, <1>2, <1>6, <2>2 DEF Ready
  <2>3. ASSUME NEW m \in queue' \cup order'
        PROVE  m \in NodeIds /\ Waiting(m)' = {} /\ (m \in nodes \/ Into(m) # {})
    <3>1. CASE m \in queue \cup order
      BY <1>1, <1>2, <1>5, <3>1 DEF Ready
    <3>2. CASE m \in NodeIds /\ Between(id, m) # {} /\ Waiting(m)' = {}
      BY <2>1, <3>2
    <3>. QED
      BY <1>6, <2>3, <3>1, <3>2
  <2>. QED
    BY <1>1, <2>1, <2>2, <2>3 DEF Ready
<1>9. ReachedOnly'
  <2>1. ASSUME NEW S \in SUBSET NodeIds,
               \A n \in S : (n \notin nodes /\ Upstream(arcs, n) = {}) \/ Upstream(arcs, n) \cap S # {},
               NEW m \in S, m \in queue' \cup order'
        PROVE  FALSE
    <3>1. (queue \cup order) \cap S = {}
      BY <1>1, <2>1 DEF ReachedOnly, Unreached
    <3>2. m \in NodeIds /\ Between(id, m) # {} /\ Waiting(m)' = {}
      BY <1>6, <2>1, <3>1
    <3>3. Upstream(arcs, m) # {} /\ Upstream(arcs, m) \subseteq order \cup {id}
      BY <1>1, <3>2 DEF Upstream, Between, Waiting
    <3>. QED
      BY <1>1, <2>1, <3>1, <3>3
  <2>. QED
    BY <1>1, <2>1 DEF ReachedOnly, Unreached
<1>10. length' = Cardinality(order')
  <2>1. IsFiniteSet(order)
    BY <1>1, Finite
  <2>. QED
    BY <1>1, <2>1, FS_AddElement
<1>11. Decided'
  BY <1>1 DEF Decided
<1>. QED
  BY <1>3, <1>7, <1>8, <1>9, <1>10, <1>11 DEF IInv

(* Every iteration keeps the invariant. *)
LEMMA InductiveStep == IInv /\ [Next]_vars => IInv'
<1>. SUFFICES ASSUME IInv, [Next]_vars PROVE IInv'
  OBVIOUS
<1>1. ASSUME Finish PROVE IInv'
  <2>1. \A m : Waiting(m)' = Waiting(m) /\ Into(m)' = Into(m)
    BY <1>1 DEF Finish, Waiting, Into
  <2>. QED
    BY <1>1, <2>1 DEF Finish, IInv, TypeOK, CountsMatch, Ready, ReachedOnly, Decided
<1>2. ASSUME UNCHANGED vars PROVE IInv'
  <2>1. \A m : Waiting(m)' = Waiting(m) /\ Into(m)' = Into(m)
    BY <1>2 DEF vars, Waiting, Into
  <2>. QED
    BY <1>2, <2>1 DEF vars, IInv, TypeOK, CountsMatch, Ready, ReachedOnly, Decided
<1>. QED
  BY <1>1, <1>2, ShiftStep DEF Next

(* The invariant holds throughout: counts are those of the edges still to    *)
(* be walked, and the ids queued or ordered are those that wait for nothing. *)
THEOREM Invariance == Spec => []IInv
BY InitInvariant, InductiveStep, PTL DEF Spec

-----------------------------------------------------------------------------
(* What is ordered when the queue is empty.                                  *)
LEMMA OrderedAtEnd ==
  ASSUME IInv, queue = {}
  PROVE  /\ order = Ordered(nodes, arcs)
         /\ Closed(nodes, arcs) => (length = Cardinality(nodes) <=> Acyclic(nodes, arcs))
<1>1. /\ TypeOK /\ ReachedOnly /\ length = Cardinality(order)
      /\ \A m : m \in order <=> m \in NodeIds /\ Waiting(m) = {} /\ (m \in nodes \/ Into(m) # {})
  BY DEF IInv, Ready
<1>2. \A m \in NodeIds \ order :
        (m \notin nodes /\ Upstream(arcs, m) = {}) \/ Upstream(arcs, m) \cap (NodeIds \ order) # {}
  BY <1>1, UpstreamIs, ArcsJoinIds
<1>3. order = Ordered(nodes, arcs)
  <2>1. NodeIds \ order \subseteq Unreached(nodes, arcs)
    BY <1>2 DEF Unreached
  <2>2. order \cap Unreached(nodes, arcs) = {} /\ order \subseteq NodeIds
    BY <1>1 DEF ReachedOnly, TypeOK
  <2>. QED
    BY <2>1, <2>2 DEF Ordered
<1>4. ASSUME Closed(nodes, arcs)
      PROVE  length = Cardinality(nodes) <=> Acyclic(nodes, arcs)
  <2>1. order \subseteq nodes
    BY <1>1, <1>4 DEF Closed, Into
  <2>2. length = Cardinality(nodes) <=> order = nodes
    <3>1. IsFiniteSet(nodes) /\ order \in SUBSET nodes
      BY <1>1, <2>1, Finite
    <3>. QED
      BY <1>1, <3>1, FS_Subset
  <2>3. ASSUME order = nodes, NEW S \in SUBSET nodes, S # {}
        PROVE  \E n \in S : Upstream(arcs, n) \cap S = {}
    <3>1. S \in SUBSET NodeIds
      BY <1>1, <2>3 DEF TypeOK
    <3>. QED
      BY <1>1, <2>3, <3>1 DEF ReachedOnly, Unreached
  <2>4. ASSUME Acyclic(nodes, arcs) PROVE order = nodes
    <3>. SUFFICES ASSUME nodes \ order # {} PROVE FALSE
      BY <2>1
    <3>1. PICK n \in nodes \ order : Upstream(arcs, n) \cap (nodes \ order) = {}
      BY <2>4 DEF Acyclic
    <3>2. Upstream(arcs, n) \subseteq nodes
      BY <1>4, UpstreamIs DEF Closed
    <3>3. n \in NodeIds /\ Waiting(n) = {}
      BY <1>1, <3>1, <3>2, UpstreamIs DEF TypeOK
    <3>. QED
      BY <1>1, <3>1, <3>3
  <2>. QED
    BY <2>2, <2>3, <2>4 DEF Acyclic
<1>. QED
  BY <1>3, <1>4

(* topoOrder returns for exactly the graphs that Sortable names, with the    *)
(* ids that Ordered names; on a graph of known nodes, unless it has a cycle. *)
THEOREM DecidesSortableHolds == Spec => []DecidesSortable
<1>1. IInv => DecidesSortable
  <2>. SUFFICES ASSUME IInv, result # "pending"
                PROVE  /\ result = "sorted" <=> Sortable(nodes, arcs)
                       /\ order = Ordered(nodes, arcs)
                       /\ Closed(nodes, arcs) => (result = "sorted" <=> Acyclic(nodes, arcs))
    BY DEF DecidesSortable
  <2>1. /\ queue = {} /\ (result = "sorted" <=> length = Cardinality(nodes))
        /\ length = Cardinality(order)
    BY DEF IInv, Decided
  <2>. QED
    BY <2>1, OrderedAtEnd DEF Sortable
<1>. QED
  BY Invariance, <1>1, PTL

(* An id is ordered after everything that feeds it.                          *)
THEOREM UpstreamFirstHolds == Spec => UpstreamFirst
<1>. DEFINE Fed == \A id \in order' \ order : Upstream(arcs, id) \subseteq order
<1>1. IInv /\ [Next]_vars => [Fed]_vars
  <2>. SUFFICES ASSUME IInv, Next PROVE Fed
    BY DEF vars
  <2>1. ASSUME NEW id \in NodeIds, Shift(id) PROVE Fed
    <3>1. order' = order \cup {id} /\ id \in queue
      BY <2>1 DEF Shift
    <3>2. Waiting(id) = {}
      BY <3>1 DEF IInv, Ready
    <3>. QED
      BY <3>1, <3>2, UpstreamIs
  <2>. QED
    BY <2>1 DEF Next, Finish
<1>. QED
  BY Invariance, <1>1, PTL DEF Spec, UpstreamFirst
===============================================================================
