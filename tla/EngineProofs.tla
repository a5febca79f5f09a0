---------------------------- MODULE EngineProofs ----------------------------
(***************************************************************************)
(* Proofs about Engine, for every set of nodes, edges, pipelines and rates *)
(* and every number of steps.                                              *)
(***************************************************************************)
EXTENDS EngineRefinement, FiniteSetTheorems, TLAPS

(* A snapshot of well-typed fields is well typed. *)
LEMMA SnapshotType ==
  ASSUME NEW ru \in BOOLEAN, NEW pa \in BOOLEAN,
         NEW st \in [NodeIds -> NodeStatus \cup {"absent"}], NEW ed \in SUBSET Edge
  PROVE  [running |-> ru, paused |-> pa, status |-> st, edges |-> ed] \in Snapshots
  BY DEF Snapshots

(***************************************************************************)
(* What validate accepts, and what an edit makes of it.                    *)
(***************************************************************************)

(* A graph of known nodes has an order when it has no cycle, and the order *)
(* is then of all its nodes.                                               *)
LEMMA GraphOrder ==
  ASSUME NEW N \in SUBSET NodeIds, NEW E \in SUBSET Edge, Closed(N, E)
  PROVE  /\ Sortable(N, E) <=> Acyclic(N, E)
         /\ Sortable(N, E) => Ordered(N, E) = N
<1>1. \A n : Upstream(E, n) \subseteq N /\ (n \notin N => Upstream(E, n) = {})
  BY DEF Closed, Upstream
<1>2. Ordered(N, E) \subseteq N
  <2>. SUFFICES ASSUME NEW n \in NodeIds \ N PROVE n \in Unreached(N, E)
    BY DEF Ordered
  <2>1. {n} \in SUBSET NodeIds /\ \A m \in {n} : m \notin N /\ Upstream(E, m) = {}
    BY <1>1
  <2>. QED
    BY <2>1 DEF Unreached
<1>3. Sortable(N, E) <=> Ordered(N, E) = N
  <2>1. IsFiniteSet(N) /\ Ordered(N, E) \in SUBSET N
    BY <1>2, EngineAssumption, FS_Subset
  <2>2. Cardinality(N) = Cardinality(Ordered(N, E)) => N = Ordered(N, E)
    BY <2>1, FS_Subset
  <2>. QED
    BY <2>2 DEF Sortable
<1>4. ASSUME Ordered(N, E) = N, NEW S \in SUBSET N, S # {}
      PROVE  \E n \in S : Upstream(E, n) \cap S = {}
  <2>. SUFFICES ASSUME \A n \in S : Upstream(E, n) \cap S # {} PROVE FALSE
    OBVIOUS
  <2>1. S \subseteq Unreached(N, E)
    BY DEF Unreached
  <2>. QED
    BY <1>4, <2>1 DEF Ordered
<1>5. ASSUME Acyclic(N, E) PROVE Ordered(N, E) = N
  <2>. SUFFICES ASSUME NEW n \in N, n \in Unreached(N, E) PROVE FALSE
    BY <1>2 DEF Ordered
  <2>1. PICK S \in SUBSET NodeIds :
          /\ n \in S
          /\ \A m \in S : (m \notin N /\ Upstream(E, m) = {}) \/ Upstream(E, m) \cap S # {}
    BY DEF Unreached
  <2>2. \A m \in S \cap N : Upstream(E, m) \cap (S \cap N) # {}
    BY <1>1, <2>1
  <2>. QED
    BY <1>5, <2>1, <2>2 DEF Acyclic
<1>. QED
  BY <1>3, <1>4, <1>5 DEF Acyclic

(* The empty graph is valid.                                               *)
LEMMA EmptyValid == Valid({}, {})
<1>1. Closed({}, {}) /\ Acyclic({}, {})
  BY DEF Closed, Acyclic
<1>. QED
  BY <1>1, GraphOrder DEF Valid

(* A valid graph stays valid when an id without edges is added to it, and  *)
(* when nodes or edges are taken away but no node an edge still needs.     *)
LEMMA EditedValid ==
  ASSUME NEW N \in SUBSET NodeIds, NEW E \in SUBSET Edge, Valid(N, E),
         NEW M \in SUBSET NodeIds, NEW D \in SUBSET E, Closed(M, D),
         \A n \in M \ N : Upstream(D, n) = {}
  PROVE  Valid(M, D)
<1>1. Acyclic(N, E) /\ D \in SUBSET Edge /\ D \subseteq Connectable
  BY GraphOrder DEF Valid
<1>2. \A n : Upstream(D, n) \subseteq Upstream(E, n)
  BY DEF Upstream
<1>3. ASSUME NEW S \in SUBSET M, S # {}
      PROVE  \E n \in S : Upstream(D, n) \cap S = {}
  <2>1. CASE S \subseteq N
    <3>1. PICK n \in S : Upstream(E, n) \cap S = {}
      BY <1>1, <1>3, <2>1 DEF Acyclic
    <3>. QED
      BY <1>2, <3>1
  <2>2. CASE \E n \in S : n \notin N
    BY <2>2
  <2>. QED
    BY <2>1, <2>2
<1>. QED
  BY <1>1, <1>3, GraphOrder DEF Acyclic, Valid

(* The initial state satisfies the inductive invariant. *)
LEMMA InitInvariant == Init => IInv
<1>. SUFFICES ASSUME Init PROVE IInv
  OBVIOUS
<1>. USE EngineAssumption DEF Init
<1>1. TypeOK
  <2>1. status \in [NodeIds -> NodeStatus \cup {"absent"}]
    BY DEF FreshNodes, NodeStatus
  <2>2. Snapshot \in Snapshots
    BY <2>1, SnapshotType DEF Snapshot, Running
  <2>3. step \in 0..MaxSteps
    BY SMT
  <2>. QED
    BY <2>1, <2>2, <2>3 DEF TypeOK, Phase
<1>2. Control
  BY DEF Control, HoldsContext
<1>3. Walk
  BY DEF Walk, UpstreamDone, Running, FreshNodes
<1>4. Present = {}
  BY DEF Present, FreshNodes
<1>5. EditsKeepGraphValid
  BY <1>4, EmptyValid DEF EditsKeepGraphValid, GraphValid, FedTwiceOnLoad
<1>6. ShownIsCurrent /\ Verdicts
  BY DEF ShownIsCurrent, Verdicts
<1>. QED
  BY <1>1, <1>2, <1>3, <1>5, <1>6 DEF IInv

(* Every step keeps the fields well typed. *)
LEMMA TypeStep == IInv /\ [Next]_vars => TypeOK'
<1>. SUFFICES ASSUME TypeOK, Control, [Next]_vars PROVE TypeOK'
  BY DEF IInv
<1>. USE EngineAssumption DEF TypeOK, Control, Phase, NodeStatus, Snapshots, EmitState,
                              Snapshot, Running, Aborted, graphVars, controlVars, runVars
<1>1. ASSUME NEW s \in Specs, Load(s) PROVE TypeOK'
  BY <1>1 DEF Load, FreshNodes
<1>2. ASSUME NEW s \in Specs, LoadUnknownType(s) PROVE TypeOK'
  BY <1>2 DEF LoadUnknownType, FreshNodes
<1>3. ASSUME NEW n \in NodeIds, AddNode(n) PROVE TypeOK'
  BY <1>3 DEF AddNode, Editable
<1>4. ASSUME NEW n \in NodeIds, RemoveNode(n) PROVE TypeOK'
  BY <1>4 DEF RemoveNode, Editable
<1>5. ASSUME NEW e \in Edge, AddEdge(e) PROVE TypeOK'
  BY <1>5 DEF AddEdge, Editable
<1>6. ASSUME NEW e \in Edge, RemoveEdge(e) PROVE TypeOK'
  BY <1>6 DEF RemoveEdge, Editable
<1>7. CASE RefusedEdit
  BY <1>7 DEF RefusedEdit, Editable
<1>8. CASE BeginRun
  BY <1>8 DEF BeginRun, ResetNodes, Ordered
<1>9. CASE RefusedRun
  BY <1>9 DEF RefusedRun, ResetNodes
<1>10. CASE Pause
  BY <1>10 DEF Pause, Awaiting
<1>11. CASE Resume
  BY <1>11 DEF Resume, Awaiting, Unpause, WakeWaiters
<1>12. CASE Stop
  <2>1. Snapshot' \in Snapshots
    BY <1>12, SnapshotType DEF Stop, Unpause
  <2>2. shown' \in Snapshots
    BY <1>12, <2>1 DEF Stop, EmitIfPaused
  <2>. QED
    BY <1>12, <2>2 DEF Stop, Unpause, WakeWaiters
<1>13. CASE CommitEarly
  <2>1. Snapshot' \in Snapshots
    BY <1>13, SnapshotType DEF CommitEarly, Unpause
  <2>2. shown' \in Snapshots
    BY <1>13, <2>1 DEF CommitEarly, EmitIfPaused
  <2>. QED
    BY <1>13, <2>2 DEF CommitEarly, Unpause, WakeWaiters
<1>14. ASSUME NEW r \in Rates, SetLearningRate(r) PROVE TypeOK'
  BY <1>14 DEF SetLearningRate, Awaiting
<1>15. CASE EndRun
  BY <1>15 DEF EndRun, WakeWaiters
<1>16. ASSUME NEW n \in NodeIds, SkipNode(n) PROVE TypeOK'
  BY <1>16 DEF SkipNode, NextNode
<1>17. ASSUME NEW n \in NodeIds, StartNode(n) PROVE TypeOK'
  <2>1. status' \in [NodeIds -> NodeStatus \cup {"absent"}]
    BY <1>17 DEF StartNode
  <2>2. Snapshot' \in Snapshots
    BY <1>17, <2>1, SnapshotType DEF StartNode
  <2>3. shown' \in Snapshots
    BY <1>17, <2>2 DEF StartNode
  <2>4. phase' \in Phase /\ step' \in 0..MaxSteps
    BY <1>17 DEF StartNode
  <2>. QED
    BY <1>17, <2>1, <2>3, <2>4 DEF StartNode, NextNode, ClearCommit, ClearRate, BuildModel
<1>18. ASSUME NEW n \in NodeIds, MissingNode(n) PROVE TypeOK'
  BY <1>18 DEF MissingNode, NextNode, WakeWaiters
<1>19. CASE WorkEnds
  BY <1>19 DEF WorkEnds, NodeReturns, NodeThrows, ThenBroadcast, ClearCommit, DropModel
<1>20. CASE SetupFails
  BY <1>20 DEF SetupFails, NodeThrows, ThenBroadcast, ClearCommit, DropModel
<1>21. CASE SetupDone
  BY <1>21 DEF SetupDone
<1>22. CASE Park
  BY <1>22 DEF Park, AtGate, LoopOver, Held
<1>23. CASE TrainStep
  BY <1>23 DEF TrainStep, AtGate, LoopOver, Held
<1>24. CASE LeaveLoop
  BY <1>24 DEF LeaveLoop, AtGate, LoopOver, Held, Dispose
<1>25. CASE LoopThrows
  BY <1>25 DEF LoopThrows, NodeThrows, ThenBroadcast, ClearCommit, Dispose
<1>26. CASE FinalEnds
  BY <1>26 DEF FinalEnds, NodeReturns, NodeThrows, ThenBroadcast, ClearCommit, DropModel
<1>27. CASE HarnessEnds
  BY <1>27 DEF HarnessEnds, AtGate, Held, NodeReturns, NodeThrows, ThenBroadcast, ClearCommit, DropModel
<1>28. CASE UNCHANGED vars
  BY <1>28 DEF vars
<1>30. ASSUME NEW n \in NodeIds, Collect(n) PROVE TypeOK'
  BY <1>30 DEF Collect
<1>29. QED
  BY <1>1, <1>2, <1>3, <1>4, <1>5, <1>6, <1>7, <1>8, <1>9, <1>10, <1>11,
     <1>12, <1>13, <1>14, <1>15, <1>16, <1>17, <1>18, <1>19, <1>20, <1>21,
     <1>22, <1>23, <1>24, <1>25, <1>26, <1>27, <1>28, <1>30
  DEF Next, GraphOps, ControlOps, Scan, NodeStep

(* Every step keeps the program's place and its control state in accord. *)
LEMMA ControlStep == IInv /\ [Next]_vars => Control'
<1>. SUFFICES ASSUME TypeOK, Control, [Next]_vars PROVE Control'
  BY DEF IInv
<1>. USE EngineAssumption DEF TypeOK, Control, HoldsContext, Phase, Running, Aborted,
                              graphVars, controlVars, runVars
<1>1. ASSUME NEW s \in Specs, Load(s) PROVE Control'
  BY <1>1 DEF Load, FreshNodes
<1>2. ASSUME NEW s \in Specs, LoadUnknownType(s) PROVE Control'
  BY <1>2 DEF LoadUnknownType, FreshNodes
<1>3. ASSUME NEW n \in NodeIds, AddNode(n) PROVE Control'
  BY <1>3 DEF AddNode, Editable
<1>4. ASSUME NEW n \in NodeIds, RemoveNode(n) PROVE Control'
  BY <1>4 DEF RemoveNode, Editable
<1>5. ASSUME NEW e \in Edge, AddEdge(e) PROVE Control'
  BY <1>5 DEF AddEdge, Editable
<1>6. ASSUME NEW e \in Edge, RemoveEdge(e) PROVE Control'
  BY <1>6 DEF RemoveEdge, Editable
<1>7. CASE RefusedEdit
  BY <1>7 DEF RefusedEdit, Editable
<1>8. CASE BeginRun
  BY <1>8 DEF BeginRun, ResetNodes, Ordered
<1>9. CASE RefusedRun
  BY <1>9 DEF RefusedRun, ResetNodes
<1>10. CASE Pause
  BY <1>10 DEF Pause, Awaiting
<1>11. CASE Resume
  BY <1>11 DEF Resume, Awaiting, Unpause, WakeWaiters
<1>12. CASE Stop
  BY <1>12 DEF Stop, Awaiting, Unpause, WakeWaiters, EmitIfPaused
<1>13. CASE CommitEarly
  BY <1>13 DEF CommitEarly, Awaiting, Unpause, WakeWaiters, EmitIfPaused
<1>14. ASSUME NEW r \in Rates, SetLearningRate(r) PROVE Control'
  BY <1>14 DEF SetLearningRate, Awaiting
<1>15. CASE EndRun
  BY <1>15 DEF EndRun, WakeWaiters
<1>16. ASSUME NEW n \in NodeIds, SkipNode(n) PROVE Control'
  BY <1>16 DEF SkipNode, NextNode
<1>17. ASSUME NEW n \in NodeIds, StartNode(n) PROVE Control'
  BY <1>17 DEF StartNode, NextNode, ClearCommit, ClearRate, BuildModel
<1>18. ASSUME NEW n \in NodeIds, MissingNode(n) PROVE Control'
  BY <1>18 DEF MissingNode, NextNode, WakeWaiters
<1>19. CASE WorkEnds
  BY <1>19 DEF WorkEnds, NodeReturns, NodeThrows, ThenBroadcast, ClearCommit, DropModel
<1>20. CASE SetupFails
  BY <1>20 DEF SetupFails, NodeThrows, ThenBroadcast, ClearCommit, DropModel
<1>21. CASE SetupDone
  BY <1>21 DEF SetupDone
<1>22. CASE Park
  BY <1>22 DEF Park, AtGate, LoopOver, Held
<1>23. CASE TrainStep
  BY <1>23 DEF TrainStep, AtGate, LoopOver, Held
<1>24. CASE LeaveLoop
  BY <1>24 DEF LeaveLoop, AtGate, LoopOver, Held, Dispose
<1>25. CASE LoopThrows
  BY <1>25 DEF LoopThrows, NodeThrows, ThenBroadcast, ClearCommit, Dispose
<1>26. CASE FinalEnds
  BY <1>26 DEF FinalEnds, NodeReturns, NodeThrows, ThenBroadcast, ClearCommit, DropModel
<1>27. CASE HarnessEnds
  BY <1>27 DEF HarnessEnds, AtGate, Held, NodeReturns, NodeThrows, ThenBroadcast, ClearCommit, DropModel
<1>28. CASE UNCHANGED vars
  BY <1>28 DEF vars
<1>30. ASSUME NEW n \in NodeIds, Collect(n) PROVE Control'
  BY <1>30 DEF Collect
<1>29. QED
  BY <1>1, <1>2, <1>3, <1>4, <1>5, <1>6, <1>7, <1>8, <1>9, <1>10, <1>11,
     <1>12, <1>13, <1>14, <1>15, <1>16, <1>17, <1>18, <1>19, <1>20, <1>21,
     <1>22, <1>23, <1>24, <1>25, <1>26, <1>27, <1>28, <1>30
  DEF Next, GraphOps, ControlOps, Scan, NodeStep

(* Every step keeps the walk in order. *)
LEMMA WalkStep == IInv /\ [Next]_vars => Walk'
<1>. SUFFICES ASSUME TypeOK, Control, Walk, [Next]_vars PROVE Walk'
  BY DEF IInv
<1>. USE EngineAssumption DEF TypeOK, Control, Walk, UpstreamDone, Present, Running, Aborted,
                              graphVars, controlVars, runVars
<1>1. ASSUME NEW s \in Specs, Load(s) PROVE Walk'
  BY <1>1 DEF Load, FreshNodes
<1>2. ASSUME NEW s \in Specs, LoadUnknownType(s) PROVE Walk'
  BY <1>2 DEF LoadUnknownType, FreshNodes
<1>3. ASSUME NEW n \in NodeIds, AddNode(n) PROVE Walk'
  BY <1>3 DEF AddNode, Editable
<1>4. ASSUME NEW n \in NodeIds, RemoveNode(n) PROVE Walk'
  BY <1>4 DEF RemoveNode, Editable
<1>5. ASSUME NEW e \in Edge, AddEdge(e) PROVE Walk'
  BY <1>5 DEF AddEdge, Editable
<1>6. ASSUME NEW e \in Edge, RemoveEdge(e) PROVE Walk'
  BY <1>6 DEF RemoveEdge, Editable
<1>7. CASE RefusedEdit
  BY <1>7 DEF RefusedEdit, Editable
<1>8. CASE BeginRun
  BY <1>8 DEF BeginRun, ResetNodes, Ordered
<1>9. CASE RefusedRun
  BY <1>9 DEF RefusedRun, ResetNodes
<1>10. CASE Pause
  BY <1>10 DEF Pause, Awaiting
<1>11. CASE Resume
  BY <1>11 DEF Resume, Awaiting, Unpause, WakeWaiters
<1>12. CASE Stop
  BY <1>12 DEF Stop, Awaiting, Unpause, WakeWaiters, EmitIfPaused
<1>13. CASE CommitEarly
  BY <1>13 DEF CommitEarly, Awaiting, Unpause, WakeWaiters, EmitIfPaused
<1>14. ASSUME NEW r \in Rates, SetLearningRate(r) PROVE Walk'
  BY <1>14 DEF SetLearningRate, Awaiting
<1>15. CASE EndRun
  BY <1>15 DEF EndRun, WakeWaiters
<1>16. ASSUME NEW n \in NodeIds, SkipNode(n) PROVE Walk'
  BY <1>16 DEF SkipNode, NextNode
<1>17. ASSUME NEW n \in NodeIds, StartNode(n) PROVE Walk'
  BY <1>17 DEF StartNode, NextNode, ClearCommit, ClearRate, UpstreamReady
<1>18. ASSUME NEW n \in NodeIds, MissingNode(n) PROVE Walk'
  BY <1>18 DEF MissingNode, NextNode, WakeWaiters
<1>19. CASE WorkEnds
  BY <1>19 DEF WorkEnds, NodeReturns, NodeThrows, ThenBroadcast, ClearCommit
<1>20. CASE SetupFails
  BY <1>20 DEF SetupFails, NodeThrows, ThenBroadcast, ClearCommit
<1>21. CASE SetupDone
  BY <1>21 DEF SetupDone
<1>22. CASE Park
  BY <1>22 DEF Park, AtGate, LoopOver, Held
<1>23. CASE TrainStep
  BY <1>23 DEF TrainStep, AtGate, LoopOver, Held
<1>24. CASE LeaveLoop
  BY <1>24 DEF LeaveLoop, AtGate, LoopOver, Held
<1>25. CASE LoopThrows
  BY <1>25 DEF LoopThrows, NodeThrows, ThenBroadcast, ClearCommit
<1>26. CASE FinalEnds
  BY <1>26 DEF FinalEnds, NodeReturns, NodeThrows, ThenBroadcast, ClearCommit
<1>27. CASE HarnessEnds
  BY <1>27 DEF HarnessEnds, AtGate, Held, NodeReturns, NodeThrows, ThenBroadcast, ClearCommit
<1>28. CASE UNCHANGED vars
  BY <1>28 DEF vars
<1>30. ASSUME NEW n \in NodeIds, Collect(n) PROVE Walk'
  BY <1>30 DEF Collect
<1>29. QED
  BY <1>1, <1>2, <1>3, <1>4, <1>5, <1>6, <1>7, <1>8, <1>9, <1>10, <1>11,
     <1>12, <1>13, <1>14, <1>15, <1>16, <1>17, <1>18, <1>19, <1>20, <1>21,
     <1>22, <1>23, <1>24, <1>25, <1>26, <1>27, <1>28, <1>30
  DEF Next, GraphOps, ControlOps, Scan, NodeStep

(* Every edit keeps a valid graph valid, and a run leaves it alone. *)
LEMMA GraphStep == IInv /\ [Next]_vars => GraphValid'
<1>. SUFFICES ASSUME TypeOK, Control, Walk, GraphValid, [Next]_vars
              PROVE  GraphValid'
  BY DEF IInv, EditsKeepGraphValid
<1>a. /\ status \in [NodeIds -> NodeStatus \cup {"absent"}]
      /\ Present \in SUBSET NodeIds /\ edges \in SUBSET Edge
      /\ cur # NoNode => status[cur] = "running"
      /\ \A n \in todo : status[n] \in {"idle", "absent"}
      /\ todo \subseteq NodeIds
      /\ phase \notin {"idle", "scan"} => cur \in NodeIds
  BY DEF TypeOK, Control, Walk, Present
<1>b. ASSUME UNCHANGED <<edges, broken>>, Present' = Present
      PROVE  GraphValid'
  BY <1>b DEF GraphValid
<1>c. ASSUME cur \in NodeIds, status[cur] = "running", NodeReturns \/ NodeThrows
      PROVE  Present' = Present
  <2>1. PICK v \in {"skipped", "done", "error"} : status' = [status EXCEPT ![cur] = v]
    BY <1>c DEF NodeReturns, NodeThrows
  <2>. QED
    BY <1>a, <1>c, <2>1 DEF Present
<1>d. phase \notin {"idle", "scan"} => cur \in NodeIds /\ status[cur] = "running"
  BY <1>a, EngineAssumption
<1>. USE DEF graphVars
<1>1. ASSUME NEW s \in Specs, Load(s) PROVE GraphValid'
  <2>1. Present' = s.nodes /\ edges' = s.edges /\ broken' = ~Valid(s.nodes, s.edges)
    BY <1>1, EngineAssumption DEF Load, FreshNodes, Present
  <2>. QED
    BY <2>1 DEF GraphValid
<1>2. ASSUME NEW s \in Specs, LoadUnknownType(s) PROVE GraphValid'
  BY <1>2 DEF LoadUnknownType, GraphValid
<1>3. ASSUME NEW n \in NodeIds, AddNode(n) PROVE GraphValid'
  <2>1. /\ UNCHANGED <<edges, broken>> /\ n \notin Present
        /\ Present' = Present \cup {n}
    BY <1>3, <1>a DEF AddNode, Present
  <2>2. ASSUME Valid(Present, edges) PROVE Valid(Present \cup {n}, edges)
    <3>1. Closed(Present \cup {n}, edges) /\ Upstream(edges, n) = {}
      BY <2>1, <2>2 DEF Valid, Closed, Upstream
    <3>2. Present \cup {n} \in SUBSET NodeIds
      BY DEF Present
    <3>. QED
      BY <2>2, <3>1, <3>2, <1>a, EditedValid
  <2>. QED
    BY <2>1, <2>2 DEF GraphValid
<1>4. ASSUME NEW n \in NodeIds, RemoveNode(n) PROVE GraphValid'
  <2>1. /\ UNCHANGED broken
        /\ Present' = Present \ {n}
        /\ edges' = { e \in edges : e.from # n /\ e.to # n }
    BY <1>4, <1>a DEF RemoveNode, Present
  <2>2. ASSUME Valid(Present, edges) PROVE Valid(Present \ {n}, edges')
    <3>1. Closed(Present \ {n}, edges')
      BY <2>1, <2>2 DEF Valid, Closed
    <3>2. edges' \in SUBSET edges /\ Present \ {n} \in SUBSET NodeIds
      BY <2>1, <1>a
    <3>. QED
      BY <2>2, <3>1, <3>2, <1>a, EditedValid
  <2>. QED
    BY <2>1, <2>2 DEF GraphValid
<1>5. ASSUME NEW e \in Edge, AddEdge(e) PROVE GraphValid'
  <2>1. UNCHANGED broken /\ Present' = Present /\ Valid(Present, edges')
    BY <1>5 DEF AddEdge, Present
  <2>. QED
    BY <2>1 DEF GraphValid
<1>6. ASSUME NEW e \in Edge, RemoveEdge(e) PROVE GraphValid'
  <2>1. UNCHANGED broken /\ Present' = Present /\ edges' \in SUBSET edges
    BY <1>6 DEF RemoveEdge, Present
  <2>2. ASSUME Valid(Present, edges) PROVE Valid(Present, edges')
    <3>1. Closed(Present, edges')
      BY <2>1, <2>2 DEF Valid, Closed
    <3>. QED
      BY <2>1, <2>2, <3>1, <1>a, EditedValid
  <2>. QED
    BY <2>1, <2>2 DEF GraphValid
<1>7. CASE RefusedEdit
  <2>1. UNCHANGED <<edges, broken>> /\ Present' = Present
    BY <1>7, <1>a DEF Present, RefusedEdit
  <2>. QED
    BY <2>1, <1>b
<1>8. CASE BeginRun
  <2>1. UNCHANGED <<edges, broken>> /\ Present' = Present
    BY <1>8, <1>a DEF Present, BeginRun, ResetNodes
  <2>. QED
    BY <2>1, <1>b
<1>9. CASE RefusedRun
  <2>1. UNCHANGED <<edges, broken>> /\ Present' = Present
    BY <1>9, <1>a DEF Present, RefusedRun, ResetNodes
  <2>. QED
    BY <2>1, <1>b
<1>10. CASE Pause
  <2>1. UNCHANGED <<edges, broken>> /\ Present' = Present
    BY <1>10, <1>a DEF Present, Pause
  <2>. QED
    BY <2>1, <1>b
<1>11. CASE Resume
  <2>1. UNCHANGED <<edges, broken>> /\ Present' = Present
    BY <1>11, <1>a DEF Present, Resume
  <2>. QED
    BY <2>1, <1>b
<1>12. CASE Stop
  <2>1. UNCHANGED <<edges, broken>> /\ Present' = Present
    BY <1>12, <1>a DEF Present, Stop
  <2>. QED
    BY <2>1, <1>b
<1>13. CASE CommitEarly
  <2>1. UNCHANGED <<edges, broken>> /\ Present' = Present
    BY <1>13, <1>a DEF Present, CommitEarly
  <2>. QED
    BY <2>1, <1>b
<1>14. ASSUME NEW r \in Rates, SetLearningRate(r) PROVE GraphValid'
  <2>1. UNCHANGED <<edges, broken>> /\ Present' = Present
    BY <1>14, <1>a DEF Present, SetLearningRate
  <2>. QED
    BY <2>1, <1>b
<1>15. CASE EndRun
  <2>1. UNCHANGED <<edges, broken>> /\ Present' = Present
    BY <1>15, <1>a DEF Present, EndRun
  <2>. QED
    BY <2>1, <1>b
<1>16. ASSUME NEW n \in NodeIds, SkipNode(n) PROVE GraphValid'
  <2>1. UNCHANGED <<edges, broken>> /\ Present' = Present
    BY <1>16, <1>a DEF Present, SkipNode, NextNode
  <2>. QED
    BY <2>1, <1>b
<1>17. ASSUME NEW n \in NodeIds, StartNode(n) PROVE GraphValid'
  <2>1. UNCHANGED <<edges, broken>> /\ Present' = Present
    BY <1>17, <1>a DEF Present, StartNode, NextNode
  <2>. QED
    BY <2>1, <1>b
<1>18. ASSUME NEW n \in NodeIds, MissingNode(n) PROVE GraphValid'
  <2>1. UNCHANGED <<edges, broken>> /\ Present' = Present
    BY <1>18, <1>a DEF Present, MissingNode
  <2>. QED
    BY <2>1, <1>b
<1>19. CASE WorkEnds
  <2>1. /\ UNCHANGED <<edges, broken>>
        /\ NodeReturns \/ NodeThrows
        /\ phase \notin {"idle", "scan"}
    BY <1>19 DEF WorkEnds, ThenBroadcast
  <2>2. Present' = Present
    BY <1>c, <1>d, <2>1, Zenon
  <2>. QED
    BY <2>1, <2>2, <1>b
<1>20. CASE SetupFails
  <2>1. /\ UNCHANGED <<edges, broken>>
        /\ NodeReturns \/ NodeThrows
        /\ phase \notin {"idle", "scan"}
    BY <1>20 DEF SetupFails, ThenBroadcast
  <2>2. Present' = Present
    BY <1>c, <1>d, <2>1, Zenon
  <2>. QED
    BY <2>1, <2>2, <1>b
<1>21. CASE SetupDone
  <2>1. UNCHANGED <<edges, broken>> /\ Present' = Present
    BY <1>21, <1>a DEF Present, SetupDone
  <2>. QED
    BY <2>1, <1>b
<1>22. CASE Park
  <2>1. UNCHANGED <<edges, broken>> /\ Present' = Present
    BY <1>22, <1>a DEF Present, Park
  <2>. QED
    BY <2>1, <1>b
<1>23. CASE TrainStep
  <2>1. UNCHANGED <<edges, broken>> /\ Present' = Present
    BY <1>23, <1>a DEF Present, TrainStep
  <2>. QED
    BY <2>1, <1>b
<1>24. CASE LeaveLoop
  <2>1. UNCHANGED <<edges, broken>> /\ Present' = Present
    BY <1>24, <1>a DEF Present, LeaveLoop
  <2>. QED
    BY <2>1, <1>b
<1>25. CASE LoopThrows
  <2>1. /\ UNCHANGED <<edges, broken>>
        /\ NodeReturns \/ NodeThrows
        /\ phase \notin {"idle", "scan"}
    BY <1>25 DEF LoopThrows, ThenBroadcast
  <2>2. Present' = Present
    BY <1>c, <1>d, <2>1, Zenon
  <2>. QED
    BY <2>1, <2>2, <1>b
<1>26. CASE FinalEnds
  <2>1. /\ UNCHANGED <<edges, broken>>
        /\ NodeReturns \/ NodeThrows
        /\ phase \notin {"idle", "scan"}
    BY <1>26 DEF FinalEnds, ThenBroadcast
  <2>2. Present' = Present
    BY <1>c, <1>d, <2>1, Zenon
  <2>. QED
    BY <2>1, <2>2, <1>b
<1>27. CASE HarnessEnds
  <2>1. /\ UNCHANGED <<edges, broken>>
        /\ NodeReturns \/ NodeThrows
        /\ phase \notin {"idle", "scan"}
    BY <1>27 DEF HarnessEnds, AtGate, ThenBroadcast
  <2>2. Present' = Present
    BY <1>c, <1>d, <2>1, Zenon
  <2>. QED
    BY <2>1, <2>2, <1>b
<1>28. CASE UNCHANGED vars
  <2>1. UNCHANGED <<edges, broken>> /\ Present' = Present
    BY <1>28, <1>a DEF Present, vars
  <2>. QED
    BY <2>1, <1>b
<1>30. ASSUME NEW n \in NodeIds, Collect(n) PROVE GraphValid'
  <2>1. UNCHANGED <<edges, broken>> /\ Present' = Present
    BY <1>30, <1>a DEF Present, Collect
  <2>. QED
    BY <2>1, <1>b
<1>29. QED
  BY <1>1, <1>2, <1>3, <1>4, <1>5, <1>6, <1>7, <1>8, <1>9, <1>10, <1>11,
     <1>12, <1>13, <1>14, <1>15, <1>16, <1>17, <1>18, <1>19, <1>20, <1>21,
     <1>22, <1>23, <1>24, <1>25, <1>26, <1>27, <1>28, <1>30, EngineAssumption
  DEF Next, GraphOps, ControlOps, Scan, NodeStep

(* What a step that awaits leaves unshown is not in the snapshot. *)
LEMMA ShownStep == IInv /\ [Next]_vars => ShownIsCurrent'
<1>. SUFFICES ASSUME Control, ShownIsCurrent, [Next]_vars PROVE ShownIsCurrent'
  BY DEF IInv
<1>. USE DEF Control, ShownIsCurrent
<1>1. ASSUME NEW s \in Specs, Load(s) PROVE ShownIsCurrent'
  BY <1>1 DEF Load, EmitState, runVars, Awaiting
<1>2. ASSUME NEW s \in Specs, LoadUnknownType(s) PROVE ShownIsCurrent'
  BY <1>2 DEF LoadUnknownType
<1>3. ASSUME NEW n \in NodeIds, AddNode(n) PROVE ShownIsCurrent'
  BY <1>3 DEF AddNode, EmitState
<1>4. ASSUME NEW n \in NodeIds, RemoveNode(n) PROVE ShownIsCurrent'
  BY <1>4 DEF RemoveNode, EmitState
<1>5. ASSUME NEW e \in Edge, AddEdge(e) PROVE ShownIsCurrent'
  BY <1>5 DEF AddEdge, EmitState
<1>6. ASSUME NEW e \in Edge, RemoveEdge(e) PROVE ShownIsCurrent'
  BY <1>6 DEF RemoveEdge, EmitState
<1>7. CASE RefusedEdit
  BY <1>7 DEF RefusedEdit, Awaiting, Snapshot, Running, graphVars, controlVars, runVars
<1>8. CASE BeginRun
  BY <1>8 DEF BeginRun, EmitState
<1>9. CASE RefusedRun
  BY <1>9 DEF RefusedRun, EmitState
<1>10. CASE Pause
  BY <1>10 DEF Pause, EmitState
<1>11. CASE Resume
  BY <1>11 DEF Resume, EmitState
<1>12. CASE Stop
  BY <1>12 DEF Stop, EmitIfPaused, EmitState, Unpause, Awaiting, Snapshot, Running, graphVars, runVars
<1>13. CASE CommitEarly
  BY <1>13 DEF CommitEarly, EmitIfPaused, EmitState, Unpause, Awaiting, Snapshot, Running, graphVars, runVars
<1>14. ASSUME NEW r \in Rates, SetLearningRate(r) PROVE ShownIsCurrent'
  BY <1>14 DEF SetLearningRate, Awaiting, Snapshot, Running, graphVars, runVars
<1>15. CASE EndRun
  BY <1>15 DEF EndRun, EmitState
<1>16. ASSUME NEW n \in NodeIds, SkipNode(n) PROVE ShownIsCurrent'
  BY <1>16 DEF SkipNode, EmitState
<1>17. ASSUME NEW n \in NodeIds, StartNode(n) PROVE ShownIsCurrent'
  BY <1>17 DEF StartNode, EmitState
<1>18. ASSUME NEW n \in NodeIds, MissingNode(n) PROVE ShownIsCurrent'
  BY <1>18 DEF MissingNode, EmitState
<1>19. CASE WorkEnds
  BY <1>19 DEF WorkEnds, ThenBroadcast, EmitState
<1>20. CASE SetupFails
  BY <1>20 DEF SetupFails, ThenBroadcast, EmitState
<1>21. CASE SetupDone
  BY <1>21 DEF SetupDone, AtGate, Awaiting, Snapshot, Running, graphVars, controlVars
<1>22. CASE Park
  BY <1>22 DEF Park, AtGate, Awaiting, Snapshot, Running, graphVars, controlVars
<1>23. CASE TrainStep
  BY <1>23 DEF TrainStep, AtGate, Awaiting, Snapshot, Running, graphVars, controlVars
<1>24. CASE LeaveLoop
  BY <1>24 DEF LeaveLoop, AtGate, Awaiting, Snapshot, Running, graphVars, controlVars
<1>25. CASE LoopThrows
  BY <1>25 DEF LoopThrows, ThenBroadcast, EmitState
<1>26. CASE FinalEnds
  BY <1>26 DEF FinalEnds, ThenBroadcast, EmitState
<1>27. CASE HarnessEnds
  BY <1>27 DEF HarnessEnds, ThenBroadcast, EmitState
<1>28. CASE UNCHANGED vars
  BY <1>28 DEF vars, Awaiting, Snapshot, Running, graphVars, controlVars, runVars
<1>30. ASSUME NEW n \in NodeIds, Collect(n) PROVE ShownIsCurrent'
  BY <1>30 DEF Collect, Awaiting, Snapshot, Running, graphVars, controlVars
<1>29. QED
  BY <1>1, <1>2, <1>3, <1>4, <1>5, <1>6, <1>7, <1>8, <1>9, <1>10, <1>11,
     <1>12, <1>13, <1>14, <1>15, <1>16, <1>17, <1>18, <1>19, <1>20, <1>21,
     <1>22, <1>23, <1>24, <1>25, <1>26, <1>27, <1>28, <1>30, EngineAssumption
  DEF Next, GraphOps, ControlOps, Scan, NodeStep

(* A step takes edges away, replaces them by those of a pipeline, or adds  *)
(* one to an input nothing feeds.                                          *)
LEMMA EdgesChange ==
  [Next]_vars => \/ edges' \subseteq edges
                 \/ \E s \in Specs : edges' = s.edges
                 \/ \E e \in Edge : ~InputTaken(edges, e) /\ edges' = edges \cup {e}
<1>. DEFINE Changed == \/ edges' \subseteq edges
                       \/ \E s \in Specs : edges' = s.edges
                       \/ \E e \in Edge : ~InputTaken(edges, e) /\ edges' = edges \cup {e}
<1>. SUFFICES ASSUME [Next]_vars PROVE Changed
  OBVIOUS
<1>. USE DEF graphVars, ThenBroadcast
<1>1. ASSUME NEW s \in Specs, Load(s) PROVE Changed
  BY <1>1 DEF Load
<1>2. ASSUME NEW s \in Specs, LoadUnknownType(s) PROVE Changed
  BY <1>2 DEF LoadUnknownType
<1>3. ASSUME NEW n \in NodeIds, AddNode(n) PROVE Changed
  BY <1>3 DEF AddNode
<1>4. ASSUME NEW n \in NodeIds, RemoveNode(n) PROVE Changed
  BY <1>4 DEF RemoveNode
<1>5. ASSUME NEW e \in Edge, AddEdge(e) PROVE Changed
  BY <1>5 DEF AddEdge
<1>6. ASSUME NEW e \in Edge, RemoveEdge(e) PROVE Changed
  BY <1>6 DEF RemoveEdge
<1>7. CASE RefusedEdit
  BY <1>7 DEF RefusedEdit
<1>8. CASE BeginRun
  BY <1>8 DEF BeginRun
<1>9. CASE RefusedRun
  BY <1>9 DEF RefusedRun
<1>10. CASE Pause
  BY <1>10 DEF Pause
<1>11. CASE Resume
  BY <1>11 DEF Resume
<1>12. CASE Stop
  BY <1>12 DEF Stop
<1>13. CASE CommitEarly
  BY <1>13 DEF CommitEarly
<1>14. ASSUME NEW r \in Rates, SetLearningRate(r) PROVE Changed
  BY <1>14 DEF SetLearningRate
<1>15. CASE EndRun
  BY <1>15 DEF EndRun
<1>16. ASSUME NEW n \in NodeIds, SkipNode(n) PROVE Changed
  BY <1>16 DEF SkipNode
<1>17. ASSUME NEW n \in NodeIds, StartNode(n) PROVE Changed
  BY <1>17 DEF StartNode
<1>18. ASSUME NEW n \in NodeIds, MissingNode(n) PROVE Changed
  BY <1>18 DEF MissingNode
<1>19. CASE WorkEnds
  BY <1>19 DEF WorkEnds
<1>20. CASE SetupFails
  BY <1>20 DEF SetupFails
<1>21. CASE SetupDone
  BY <1>21 DEF SetupDone
<1>22. CASE Park
  BY <1>22 DEF Park
<1>23. CASE TrainStep
  BY <1>23 DEF TrainStep
<1>24. CASE LeaveLoop
  BY <1>24 DEF LeaveLoop
<1>25. CASE LoopThrows
  BY <1>25 DEF LoopThrows
<1>26. CASE FinalEnds
  BY <1>26 DEF FinalEnds
<1>27. CASE HarnessEnds
  BY <1>27 DEF HarnessEnds
<1>28. CASE UNCHANGED vars
  BY <1>28 DEF vars
<1>30. ASSUME NEW n \in NodeIds, Collect(n) PROVE Changed
  BY <1>30 DEF Collect
<1>29. QED
  BY <1>1, <1>2, <1>3, <1>4, <1>5, <1>6, <1>7, <1>8, <1>9, <1>10, <1>11,
     <1>12, <1>13, <1>14, <1>15, <1>16, <1>17, <1>18, <1>19, <1>20, <1>21,
     <1>22, <1>23, <1>24, <1>25, <1>26, <1>27, <1>28, <1>30,
     EngineAssumption
  DEF Next, GraphOps, ControlOps, Scan, NodeStep

(* Only a pipeline that was loaded feeds an input twice.                   *)
LEMMA FedStep == IInv /\ [Next]_vars => FedTwiceOnLoad'
<1>. SUFFICES ASSUME FedTwiceOnLoad, [Next]_vars, NEW e \in edges', NEW x \in edges',
                     e.to = x.to, e.port = x.port, e # x
              PROVE  \E s \in Specs : {e, x} \subseteq s.edges
  BY DEF IInv, EditsKeepGraphValid, FedTwiceOnLoad
<1>1. CASE edges' \subseteq edges
  BY <1>1 DEF FedTwiceOnLoad
<1>2. CASE \E s \in Specs : edges' = s.edges
  BY <1>2
<1>3. ASSUME NEW n \in Edge, ~InputTaken(edges, n), edges' = edges \cup {n}
      PROVE  e \in edges /\ x \in edges
  BY <1>3 DEF InputTaken
<1>. QED
  BY <1>1, <1>2, <1>3, EdgesChange DEF FedTwiceOnLoad

(* Every step of a walk leaves verdicts behind, and the verdicts stand.      *)
LEMMA VerdictStep == IInv /\ [Next]_vars => Verdicts'
<1>. SUFFICES ASSUME TypeOK, Control, Walk, EditsKeepGraphValid, Verdicts, [Next]_vars
              PROVE  Verdicts'
  BY DEF IInv
<1>. DEFINE Settled(n) ==
       \/ n = cur \/ status[n] = "error"
       \/ status[n] = "done" /\ n \in outputs
       \/ /\ status[n] = "skipped"
          /\ \E u \in Upstream(edges, n) : status[u] \in {"error", "skipped"}
<1>a. /\ status \in [NodeIds -> NodeStatus \cup {"absent"}]
      /\ Present \in SUBSET NodeIds /\ edges \in SUBSET Edge
      /\ cur # NoNode => status[cur] = "running"
      /\ \A n \in todo : status[n] \in {"idle", "absent"}
      /\ todo \subseteq NodeIds
      /\ phase \notin {"idle", "scan"} => cur \in NodeIds
      /\ phase = "scan" => cur = NoNode
      /\ phase = "idle" <=> abort = "none"
      /\ \A n : Upstream(edges, n) \subseteq NodeIds
  BY DEF TypeOK, Control, Walk, Present, Upstream, Edge
<1>d. phase \notin {"idle", "scan"} => cur \in NodeIds /\ status[cur] = "running"
  BY <1>a, EngineAssumption
<1>f. ~broken => \A n : Upstream(edges, n) \subseteq Present
  BY DEF EditsKeepGraphValid, GraphValid, Valid, Closed, Upstream
<1>s. Verdicts <=> (~broken /\ abort = "live" =>
                      /\ todo \subseteq Present
                      /\ \A n \in Present \ todo : Upstream(edges, n) \cap todo = {} /\ Settled(n))
  BY DEF Verdicts
<1>t. Verdicts' <=> (~broken' /\ abort' = "live" =>
                      /\ todo' \subseteq Present'
                      /\ \A n \in Present' \ todo' : Upstream(edges', n) \cap todo' = {} /\ Settled(n)')
  BY DEF Verdicts
<1>i. ASSUME ~Running, UNCHANGED abort PROVE Verdicts'
  BY <1>i DEF Running, Verdicts
<1>k. ASSUME UNCHANGED <<status, outputs, edges, broken, todo, cur>>, abort' = "live" => abort = "live"
      PROVE  Verdicts'
  BY <1>k DEF Verdicts, Present
<1>e. ASSUME UNCHANGED <<edges, broken, todo, abort>>, NodeReturns \/ NodeThrows,
             phase \notin {"idle", "scan"}
      PROVE  Verdicts'
  <2>. SUFFICES ASSUME ~broken, abort = "live"
                PROVE  /\ todo' \subseteq Present'
                       /\ \A m \in Present' \ todo' : Upstream(edges', m) \cap todo' = {} /\ Settled(m)'
    BY <1>e, <1>t
  <2>1. /\ todo \subseteq Present
        /\ \A m \in Present \ todo : Upstream(edges, m) \cap todo = {} /\ Settled(m)
    BY <1>s
  <2>2. PICK v \in {"done", "error"} :
          status' = [status EXCEPT ![cur] = v] /\ outputs' = outputs \cup (IF v = "done" THEN {cur} ELSE {})
    BY <1>e DEF NodeReturns, NodeThrows, Aborted
  <2>3. Present' = Present
    BY <2>2, <1>a, <1>d, <1>e DEF Present
  <2>4. ASSUME NEW m \in Present \ todo, m # cur PROVE Settled(m)'
    <3>1. m \in NodeIds /\ status'[m] = status[m] /\ Settled(m) /\ outputs \subseteq outputs'
      BY <2>1, <2>2, <2>4, <1>a
    <3>2. ASSUME NEW u \in Upstream(edges, m), status[u] \in {"error", "skipped"}
          PROVE  status'[u] \in {"error", "skipped"}
      BY <2>2, <3>2, <1>a, <1>d, <1>e
    <3>. QED
      BY <1>e, <2>4, <3>1, <3>2
  <2>5. ASSUME NEW m \in Present \ todo, m = cur PROVE Settled(m)'
    BY <2>2, <2>5, <1>a, <1>d, <1>e
  <2>6. \A m \in Present \ todo : Settled(m)'
    BY <2>4, <2>5
  <2>. HIDE DEF Settled
  <2>. QED
    BY <1>e, <2>1, <2>3, <2>6
<1>. USE DEF graphVars
<1>1. ASSUME NEW s \in Specs, Load(s) PROVE Verdicts'
  BY <1>1, <1>i DEF Load, controlVars
<1>2. ASSUME NEW s \in Specs, LoadUnknownType(s) PROVE Verdicts'
  BY <1>2, <1>i DEF LoadUnknownType, controlVars
<1>3. ASSUME NEW n \in NodeIds, AddNode(n) PROVE Verdicts'
  BY <1>3, <1>i DEF AddNode, Editable, controlVars
<1>4. ASSUME NEW n \in NodeIds, RemoveNode(n) PROVE Verdicts'
  BY <1>4, <1>i DEF RemoveNode, Editable, controlVars
<1>5. ASSUME NEW e \in Edge, AddEdge(e) PROVE Verdicts'
  BY <1>5, <1>i DEF AddEdge, Editable, controlVars
<1>6. ASSUME NEW e \in Edge, RemoveEdge(e) PROVE Verdicts'
  BY <1>6, <1>i DEF RemoveEdge, Editable, controlVars
<1>7. CASE RefusedEdit
  BY <1>7, <1>i DEF RefusedEdit, Editable, controlVars
<1>8. CASE BeginRun
  <2>1. /\ Present' = Present /\ todo' = Ordered(Present, edges) /\ UNCHANGED <<edges, broken>>
        /\ Sortable(Present, edges)
    BY <1>8, <1>a DEF BeginRun, ResetNodes, Present
  <2>2. ~broken => Ordered(Present, edges) = Present
    <3>1. ~broken => Closed(Present, edges)
      BY <1>a DEF EditsKeepGraphValid, GraphValid, Valid
    <3>. QED
      BY <2>1, <3>1, <1>a, GraphOrder
  <2>3. ~broken => todo' = Present' /\ Present' \ todo' = {}
    BY <2>1, <2>2
  <2>. QED
    BY <2>1, <2>3 DEF Verdicts
<1>9. CASE RefusedRun
  BY <1>9, <1>i DEF RefusedRun, controlVars
<1>10. CASE Pause
  <2>1. UNCHANGED <<status, outputs, edges, broken, todo, cur>> /\ (abort' = "live" => abort = "live")
    BY <1>10 DEF Pause, graphVars, controlVars, runVars
  <2>. QED
    BY <2>1, <1>k
<1>11. CASE Resume
  <2>1. UNCHANGED <<status, outputs, edges, broken, todo, cur>> /\ (abort' = "live" => abort = "live")
    BY <1>11 DEF Resume, graphVars, controlVars, runVars
  <2>. QED
    BY <2>1, <1>k
<1>12. CASE Stop
  <2>1. UNCHANGED <<status, outputs, edges, broken, todo, cur>> /\ (abort' = "live" => abort = "live")
    BY <1>12 DEF Stop, graphVars, controlVars, runVars
  <2>. QED
    BY <2>1, <1>k
<1>13. CASE CommitEarly
  <2>1. UNCHANGED <<status, outputs, edges, broken, todo, cur>> /\ (abort' = "live" => abort = "live")
    BY <1>13 DEF CommitEarly, graphVars, controlVars, runVars
  <2>. QED
    BY <2>1, <1>k
<1>14. ASSUME NEW r \in Rates, SetLearningRate(r) PROVE Verdicts'
  <2>1. UNCHANGED <<status, outputs, edges, broken, todo, cur>> /\ (abort' = "live" => abort = "live")
    BY <1>14 DEF SetLearningRate, graphVars, controlVars, runVars
  <2>. QED
    BY <2>1, <1>k
<1>15. CASE EndRun
  BY <1>15 DEF EndRun, Verdicts
<1>16. ASSUME NEW n \in NodeIds, SkipNode(n) PROVE Verdicts'
  <2>1. /\ NextNode(n) /\ n \in Present /\ ~UpstreamReady(n)
        /\ status' = [status EXCEPT ![n] = "skipped"] /\ todo' = todo \ {n} /\ n \in todo
        /\ Upstream(edges, n) \cap todo = {} /\ cur = NoNode
        /\ UNCHANGED <<outputs, edges, broken, cur, abort>>
    BY <1>16, <1>a DEF SkipNode, NextNode, controlVars
  <2>2. Present' = Present
    BY <2>1, <1>a DEF Present
  <2>. SUFFICES ASSUME ~broken, abort = "live"
                PROVE  /\ todo' \subseteq Present'
                       /\ \A m \in Present' \ todo' : Upstream(edges', m) \cap todo' = {} /\ Settled(m)'
    BY <2>1, <1>t
  <2>3. /\ todo \subseteq Present
        /\ \A m \in Present \ todo : Upstream(edges, m) \cap todo = {} /\ Settled(m)
    BY <1>s
  <2>4. \E u \in Upstream(edges, n) : status[u] \in {"error", "skipped"}
    <3>1. PICK u \in Upstream(edges, n) : ~(status[u] = "done" /\ u \in outputs)
      BY <2>1 DEF UpstreamReady
    <3>2. u \in Present \ todo /\ u # cur
      BY <2>1, <3>1, <1>a, <1>f, EngineAssumption
    <3>. QED
      BY <2>3, <3>1, <3>2
  <2>5. ASSUME NEW m \in Present \ todo PROVE Settled(m)'
    <3>1. m \in NodeIds /\ m # n /\ status'[m] = status[m] /\ Settled(m)
      BY <2>1, <2>3, <2>5, <1>a
    <3>2. ASSUME NEW u \in Upstream(edges, m), status[u] \in {"error", "skipped"}
          PROVE  status'[u] \in {"error", "skipped"}
      BY <2>1, <3>2, <1>a
    <3>. QED
      BY <2>1, <3>1, <3>2
  <2>6. Settled(n)'
    <3>1. PICK u \in Upstream(edges, n) : status[u] \in {"error", "skipped"}
      BY <2>4
    <3>2. status'[u] \in {"error", "skipped"} /\ status'[n] = "skipped"
      BY <2>1, <3>1, <1>a
    <3>. QED
      BY <2>1, <3>1, <3>2
  <2>. HIDE DEF Settled
  <2>. QED
    BY <2>1, <2>2, <2>3, <2>5, <2>6
<1>17. ASSUME NEW n \in NodeIds, StartNode(n) PROVE Verdicts'
  <2>1. /\ NextNode(n) /\ n \in Present
        /\ status' = [status EXCEPT ![n] = "running"] /\ todo' = todo \ {n} /\ n \in todo
        /\ Upstream(edges, n) \cap todo = {} /\ cur = NoNode /\ cur' = n
        /\ UNCHANGED <<outputs, edges, broken, abort>>
    BY <1>17, <1>a DEF StartNode, NextNode
  <2>2. Present' = Present
    BY <2>1, <1>a DEF Present
  <2>. SUFFICES ASSUME ~broken, abort = "live"
                PROVE  /\ todo' \subseteq Present'
                       /\ \A m \in Present' \ todo' : Upstream(edges', m) \cap todo' = {} /\ Settled(m)'
    BY <2>1, <1>t
  <2>3. /\ todo \subseteq Present
        /\ \A m \in Present \ todo : Upstream(edges, m) \cap todo = {} /\ Settled(m)
    BY <1>s
  <2>5. ASSUME NEW m \in Present \ todo PROVE Settled(m)'
    <3>1. m \in NodeIds /\ m # n /\ m # cur /\ status'[m] = status[m] /\ Settled(m)
      BY <2>1, <2>3, <2>5, <1>a, EngineAssumption
    <3>2. ASSUME NEW u \in Upstream(edges, m), status[u] \in {"error", "skipped"}
          PROVE  status'[u] \in {"error", "skipped"}
      BY <2>1, <3>2, <1>a
    <3>. QED
      BY <2>1, <3>1, <3>2
  <2>6. Settled(n)'
    BY <2>1
  <2>. HIDE DEF Settled
  <2>. QED
    BY <2>1, <2>2, <2>3, <2>5, <2>6
<1>18. ASSUME NEW n \in NodeIds, MissingNode(n) PROVE Verdicts'
  BY <1>18 DEF MissingNode, Verdicts
<1>19. CASE WorkEnds
  <2>1. /\ UNCHANGED <<edges, broken, todo, abort>>
        /\ NodeReturns \/ NodeThrows
        /\ phase \notin {"idle", "scan"}
    BY <1>19 DEF WorkEnds, ThenBroadcast
  <2>. QED
    BY <2>1, <1>e
<1>20. CASE SetupFails
  <2>1. /\ UNCHANGED <<edges, broken, todo, abort>>
        /\ NodeReturns \/ NodeThrows
        /\ phase \notin {"idle", "scan"}
    BY <1>20 DEF SetupFails, ThenBroadcast
  <2>. QED
    BY <2>1, <1>e
<1>21. CASE SetupDone
  <2>1. UNCHANGED <<status, outputs, edges, broken, todo, cur>> /\ (abort' = "live" => abort = "live")
    BY <1>21 DEF SetupDone, graphVars, controlVars, runVars
  <2>. QED
    BY <2>1, <1>k
<1>22. CASE Park
  <2>1. UNCHANGED <<status, outputs, edges, broken, todo, cur>> /\ (abort' = "live" => abort = "live")
    BY <1>22 DEF Park, graphVars, controlVars, runVars
  <2>. QED
    BY <2>1, <1>k
<1>23. CASE TrainStep
  <2>1. UNCHANGED <<status, outputs, edges, broken, todo, cur>> /\ (abort' = "live" => abort = "live")
    BY <1>23 DEF TrainStep, graphVars, controlVars, runVars
  <2>. QED
    BY <2>1, <1>k
<1>24. CASE LeaveLoop
  <2>1. UNCHANGED <<status, outputs, edges, broken, todo, cur>> /\ (abort' = "live" => abort = "live")
    BY <1>24 DEF LeaveLoop, graphVars, controlVars, runVars
  <2>. QED
    BY <2>1, <1>k
<1>25. CASE LoopThrows
  <2>1. /\ UNCHANGED <<edges, broken, todo, abort>>
        /\ NodeReturns \/ NodeThrows
        /\ phase \notin {"idle", "scan"}
    BY <1>25 DEF LoopThrows, ThenBroadcast
  <2>. QED
    BY <2>1, <1>e
<1>26. CASE FinalEnds
  <2>1. /\ UNCHANGED <<edges, broken, todo, abort>>
        /\ NodeReturns \/ NodeThrows
        /\ phase \notin {"idle", "scan"}
    BY <1>26 DEF FinalEnds, ThenBroadcast
  <2>. QED
    BY <2>1, <1>e
<1>27. CASE HarnessEnds
  <2>1. /\ UNCHANGED <<edges, broken, todo, abort>>
        /\ NodeReturns \/ NodeThrows
        /\ phase \notin {"idle", "scan"}
    BY <1>27 DEF HarnessEnds, AtGate, ThenBroadcast
  <2>. QED
    BY <2>1, <1>e
<1>28. CASE UNCHANGED vars
  <2>1. UNCHANGED <<status, outputs, edges, broken, todo, cur>> /\ (abort' = "live" => abort = "live")
    BY <1>28 DEF vars, graphVars, controlVars, runVars
  <2>. QED
    BY <2>1, <1>k
<1>30. ASSUME NEW n \in NodeIds, Collect(n) PROVE Verdicts'
  <2>1. UNCHANGED <<status, outputs, edges, broken, todo, cur>> /\ (abort' = "live" => abort = "live")
    BY <1>30 DEF Collect, graphVars, controlVars
  <2>. QED
    BY <2>1, <1>k
<1>29. QED
  BY <1>1, <1>2, <1>3, <1>4, <1>5, <1>6, <1>7, <1>8, <1>9, <1>10, <1>11,
     <1>12, <1>13, <1>14, <1>15, <1>16, <1>17, <1>18, <1>19, <1>20, <1>21,
     <1>22, <1>23, <1>24, <1>25, <1>26, <1>27, <1>28, <1>30, EngineAssumption
  DEF Next, GraphOps, ControlOps, Scan, NodeStep

(* The inductive invariant holds throughout. *)
THEOREM Invariance == Spec => []IInv
<1>1. IInv /\ [Next]_vars => IInv'
  BY TypeStep, ControlStep, WalkStep, GraphStep, FedStep, ShownStep, VerdictStep
  DEF IInv, EditsKeepGraphValid
<1>. QED
  BY InitInvariant, <1>1, PTL DEF Spec

(***************************************************************************)
(* The safety properties.                                                  *)
(***************************************************************************)

(* The executor's fields keep their types. *)
THEOREM TypeCorrect == Spec => []TypeOK
<1>1. IInv => TypeOK
  BY DEF IInv
<1>. QED
  BY Invariance, <1>1, PTL

(* Nothing runs or is done on an upstream that is not done. *)
THEOREM UpstreamDoneHolds == Spec => []UpstreamDone
<1>1. IInv => UpstreamDone
  BY DEF IInv, Walk
<1>. QED
  BY Invariance, <1>1, PTL

(* No wake-up is lost: whoever waits waits for a resume that can come. *)
THEOREM NoLostWakeupHolds == Spec => []NoLostWakeup
<1>1. IInv => NoLostWakeup
  BY DEF IInv, Control, NoLostWakeup
<1>. QED
  BY Invariance, <1>1, PTL

(* A run leaves nothing behind. *)
THEOREM IdleIsCleanHolds == Spec => []IdleIsClean
<1>1. ASSUME IInv, ~Running PROVE ~paused /\ ~commitFlag /\ cur = NoNode /\ phase = "idle"
  BY <1>1 DEF IInv, Control, Running
<1>2. ASSUME IInv, ~Running PROVE waiters = {}
  BY <1>1, <1>2 DEF IInv, Control
<1>3. ASSUME IInv, ~Running, NEW n \in NodeIds PROVE status[n] # "running"
  BY <1>1, <1>3, EngineAssumption DEF IInv, Walk
<1>4. IInv => IdleIsClean
  BY <1>1, <1>2, <1>3 DEF IdleIsClean
<1>. QED
  BY Invariance, <1>4, PTL

(* Edits leave no invalid graph behind, only a rejected load does; and they *)
(* feed no input twice, only a loaded pipeline does.                        *)
THEOREM EditsKeepGraphValidHolds == Spec => []EditsKeepGraphValid
<1>1. IInv => EditsKeepGraphValid
  BY DEF IInv
<1>. QED
  BY Invariance, <1>1, PTL

(* Whenever the program awaits, the state it is in has been shown. *)
THEOREM ShownIsCurrentHolds == Spec => []ShownIsCurrent
<1>1. IInv => ShownIsCurrent
  BY DEF IInv
<1>. QED
  BY Invariance, <1>1, PTL

(***************************************************************************)
(* The action properties.                                                  *)
(***************************************************************************)

(* Only an iteration of a training loop advances the step count. *)
LEMMA OnlyTrainStepCounts == IInv /\ [Next]_vars /\ step' > step => TrainStep
<1>. SUFFICES ASSUME step \in Nat, [Next]_vars, step' > step PROVE TrainStep
  BY EngineAssumption DEF IInv, TypeOK
<1>. USE DEF runVars, ThenBroadcast
<1>1. ASSUME NEW s \in Specs, Load(s) PROVE TrainStep
  BY <1>1 DEF Load
<1>2. ASSUME NEW s \in Specs, LoadUnknownType(s) PROVE TrainStep
  BY <1>2 DEF LoadUnknownType
<1>3. ASSUME NEW n \in NodeIds, AddNode(n) PROVE TrainStep
  BY <1>3 DEF AddNode
<1>4. ASSUME NEW n \in NodeIds, RemoveNode(n) PROVE TrainStep
  BY <1>4 DEF RemoveNode
<1>5. ASSUME NEW e \in Edge, AddEdge(e) PROVE TrainStep
  BY <1>5 DEF AddEdge
<1>6. ASSUME NEW e \in Edge, RemoveEdge(e) PROVE TrainStep
  BY <1>6 DEF RemoveEdge
<1>7. CASE RefusedEdit
  BY <1>7 DEF RefusedEdit
<1>8. CASE BeginRun
  BY <1>8 DEF BeginRun
<1>9. CASE RefusedRun
  BY <1>9 DEF RefusedRun
<1>10. CASE Pause
  BY <1>10 DEF Pause
<1>11. CASE Resume
  BY <1>11 DEF Resume
<1>12. CASE Stop
  BY <1>12 DEF Stop
<1>13. CASE CommitEarly
  BY <1>13 DEF CommitEarly
<1>14. ASSUME NEW r \in Rates, SetLearningRate(r) PROVE TrainStep
  BY <1>14 DEF SetLearningRate
<1>15. CASE EndRun
  BY <1>15 DEF EndRun
<1>16. ASSUME NEW n \in NodeIds, SkipNode(n) PROVE TrainStep
  BY <1>16 DEF SkipNode
<1>17. ASSUME NEW n \in NodeIds, StartNode(n) PROVE TrainStep
  BY <1>17 DEF StartNode
<1>18. ASSUME NEW n \in NodeIds, MissingNode(n) PROVE TrainStep
  BY <1>18 DEF MissingNode
<1>19. CASE WorkEnds
  BY <1>19 DEF WorkEnds
<1>20. CASE SetupFails
  BY <1>20 DEF SetupFails
<1>21. CASE SetupDone
  BY <1>21 DEF SetupDone
<1>22. CASE Park
  BY <1>22 DEF Park
<1>23. CASE TrainStep
  BY <1>23
<1>24. CASE LeaveLoop
  BY <1>24 DEF LeaveLoop
<1>25. CASE LoopThrows
  BY <1>25 DEF LoopThrows
<1>26. CASE FinalEnds
  BY <1>26 DEF FinalEnds
<1>27. CASE HarnessEnds
  BY <1>27 DEF HarnessEnds
<1>28. CASE UNCHANGED vars
  BY <1>28 DEF vars
<1>30. ASSUME NEW n \in NodeIds, Collect(n) PROVE TrainStep
  BY <1>30 DEF Collect
<1>29. QED
  BY <1>1, <1>2, <1>3, <1>4, <1>5, <1>6, <1>7, <1>8, <1>9, <1>10, <1>11,
     <1>12, <1>13, <1>14, <1>15, <1>16, <1>17, <1>18, <1>19, <1>20, <1>21,
     <1>22, <1>23, <1>24, <1>25, <1>26, <1>27, <1>28, <1>30,
     EngineAssumption
  DEF Next, GraphOps, ControlOps, Scan, NodeStep

(* A loop is left only by LeaveLoop. *)
LEMMA OnlyLeaveLoopFinishes ==
  IInv /\ [Next]_vars /\ phase' = "final" /\ phase # "final" => LeaveLoop
<1>. SUFFICES ASSUME [Next]_vars, phase' = "final", phase # "final" PROVE LeaveLoop
  OBVIOUS
<1>. USE DEF runVars
<1>1. ASSUME NEW s \in Specs, Load(s) PROVE LeaveLoop
  BY <1>1 DEF Load
<1>2. ASSUME NEW s \in Specs, LoadUnknownType(s) PROVE LeaveLoop
  BY <1>2 DEF LoadUnknownType
<1>3. ASSUME NEW n \in NodeIds, AddNode(n) PROVE LeaveLoop
  BY <1>3 DEF AddNode
<1>4. ASSUME NEW n \in NodeIds, RemoveNode(n) PROVE LeaveLoop
  BY <1>4 DEF RemoveNode
<1>5. ASSUME NEW e \in Edge, AddEdge(e) PROVE LeaveLoop
  BY <1>5 DEF AddEdge
<1>6. ASSUME NEW e \in Edge, RemoveEdge(e) PROVE LeaveLoop
  BY <1>6 DEF RemoveEdge
<1>7. CASE RefusedEdit
  BY <1>7 DEF RefusedEdit
<1>8. CASE BeginRun
  BY <1>8 DEF BeginRun
<1>9. CASE RefusedRun
  BY <1>9 DEF RefusedRun
<1>10. CASE Pause
  BY <1>10 DEF Pause
<1>11. CASE Resume
  BY <1>11 DEF Resume
<1>12. CASE Stop
  BY <1>12 DEF Stop
<1>13. CASE CommitEarly
  BY <1>13 DEF CommitEarly
<1>14. ASSUME NEW r \in Rates, SetLearningRate(r) PROVE LeaveLoop
  BY <1>14 DEF SetLearningRate
<1>15. CASE EndRun
  BY <1>15 DEF EndRun
<1>16. ASSUME NEW n \in NodeIds, SkipNode(n) PROVE LeaveLoop
  BY <1>16 DEF SkipNode
<1>17. ASSUME NEW n \in NodeIds, StartNode(n) PROVE LeaveLoop
  BY <1>17 DEF StartNode
<1>18. ASSUME NEW n \in NodeIds, MissingNode(n) PROVE LeaveLoop
  BY <1>18 DEF MissingNode
<1>19. CASE WorkEnds
  BY <1>19 DEF WorkEnds, NodeReturns, NodeThrows
<1>20. CASE SetupFails
  BY <1>20 DEF SetupFails, NodeThrows
<1>21. CASE SetupDone
  BY <1>21 DEF SetupDone
<1>22. CASE Park
  BY <1>22 DEF Park
<1>23. CASE TrainStep
  BY <1>23 DEF TrainStep
<1>24. CASE LeaveLoop
  BY <1>24
<1>25. CASE LoopThrows
  BY <1>25 DEF LoopThrows, NodeThrows
<1>26. CASE FinalEnds
  BY <1>26 DEF FinalEnds, NodeReturns, NodeThrows
<1>27. CASE HarnessEnds
  BY <1>27 DEF HarnessEnds, NodeReturns, NodeThrows
<1>28. CASE UNCHANGED vars
  BY <1>28 DEF vars
<1>30. ASSUME NEW n \in NodeIds, Collect(n) PROVE LeaveLoop
  BY <1>30 DEF Collect
<1>29. QED
  BY <1>1, <1>2, <1>3, <1>4, <1>5, <1>6, <1>7, <1>8, <1>9, <1>10, <1>11,
     <1>12, <1>13, <1>14, <1>15, <1>16, <1>17, <1>18, <1>19, <1>20, <1>21,
     <1>22, <1>23, <1>24, <1>25, <1>26, <1>27, <1>28, <1>30,
     EngineAssumption
  DEF Next, GraphOps, ControlOps, Scan, NodeStep

(* A trainer that has reached its loop adds no stray context to those the  *)
(* collector has still to find.                                            *)
LEMMA LoopStep ==
  IInv /\ [Next]_vars /\ cur \in Trainers /\ phase \in {"top", "parked", "final"}
    => stray' \subseteq stray
<1>. DEFINE Kept == stray' \subseteq stray
<1>. SUFFICES ASSUME TypeOK, Control, [Next]_vars, cur \in Trainers,
                     phase \in {"top", "parked", "final"}
              PROVE  Kept
  BY DEF IInv
<1>. USE EngineAssumption DEF runVars, ThenBroadcast
<1>1. ASSUME NEW s \in Specs, Load(s) PROVE Kept
  BY <1>1 DEF Load
<1>2. ASSUME NEW s \in Specs, LoadUnknownType(s) PROVE Kept
  BY <1>2 DEF LoadUnknownType
<1>3. ASSUME NEW n \in NodeIds, AddNode(n) PROVE Kept
  BY <1>3 DEF AddNode
<1>4. ASSUME NEW n \in NodeIds, RemoveNode(n) PROVE Kept
  BY <1>4 DEF RemoveNode
<1>5. ASSUME NEW e \in Edge, AddEdge(e) PROVE Kept
  BY <1>5 DEF AddEdge
<1>6. ASSUME NEW e \in Edge, RemoveEdge(e) PROVE Kept
  BY <1>6 DEF RemoveEdge
<1>7. CASE RefusedEdit
  BY <1>7 DEF RefusedEdit
<1>8. CASE BeginRun
  BY <1>8 DEF BeginRun
<1>9. CASE RefusedRun
  BY <1>9 DEF RefusedRun
<1>10. CASE Pause
  BY <1>10 DEF Pause
<1>11. CASE Resume
  BY <1>11 DEF Resume
<1>12. CASE Stop
  BY <1>12 DEF Stop
<1>13. CASE CommitEarly
  BY <1>13 DEF CommitEarly
<1>14. ASSUME NEW r \in Rates, SetLearningRate(r) PROVE Kept
  BY <1>14 DEF SetLearningRate
<1>15. CASE EndRun
  BY <1>15 DEF EndRun
<1>16. ASSUME NEW n \in NodeIds, SkipNode(n) PROVE Kept
  BY <1>16 DEF SkipNode
<1>17. ASSUME NEW n \in NodeIds, StartNode(n) PROVE Kept
  BY <1>17 DEF StartNode
<1>18. ASSUME NEW n \in NodeIds, MissingNode(n) PROVE Kept
  BY <1>18 DEF MissingNode
<1>19. CASE WorkEnds
  BY <1>19 DEF WorkEnds
<1>20. CASE SetupFails
  BY <1>20 DEF SetupFails
<1>21. CASE SetupDone
  BY <1>21 DEF SetupDone
<1>22. CASE Park
  BY <1>22 DEF Park
<1>23. CASE TrainStep
  BY <1>23 DEF TrainStep
<1>24. CASE LeaveLoop
  BY <1>24 DEF LeaveLoop, Dispose
<1>25. CASE LoopThrows
  BY <1>25 DEF LoopThrows, Dispose
<1>26. CASE FinalEnds
  BY <1>26 DEF Control, HoldsContext, FinalEnds, DropModel
<1>27. CASE HarnessEnds
  BY <1>27 DEF HarnessEnds
<1>28. CASE UNCHANGED vars
  BY <1>28 DEF vars
<1>30. ASSUME NEW n \in NodeIds, Collect(n) PROVE Kept
  BY <1>30 DEF Collect
<1>29. QED
  BY <1>1, <1>2, <1>3, <1>4, <1>5, <1>6, <1>7, <1>8, <1>9, <1>10, <1>11,
     <1>12, <1>13, <1>14, <1>15, <1>16, <1>17, <1>18, <1>19, <1>20, <1>21,
     <1>22, <1>23, <1>24, <1>25, <1>26, <1>27, <1>28, <1>30,
     EngineAssumption
  DEF Next, GraphOps, ControlOps, Scan, NodeStep

(* A training loop leaves no device context behind, whichever way it ends. *)
THEOREM LoopGivesBackHolds == Spec => LoopGivesBack
<1>1. IInv /\ [Next]_vars =>
        [(cur \in Trainers /\ phase \in {"top", "parked", "final"}) => stray' \subseteq stray]_vars
  BY LoopStep
<1>. QED
  BY Invariance, <1>1, PTL DEF Spec, LoopGivesBack

(* No optimizer step while paused, cancelled or committed. *)
THEOREM NoStepWhenHeldHolds == Spec => NoStepWhenHeld
<1>1. ASSUME IInv, [Next]_vars, step' > step
      PROVE  ~paused /\ abort = "live" /\ ~commitFlag
  <2>1. TrainStep
    BY <1>1, OnlyTrainStepCounts
  <2>. QED
    BY <1>1, <2>1 DEF TrainStep, AtGate, Held, Aborted, IInv, TypeOK, Control
<1>2. IInv /\ [Next]_vars => [step' > step => ~paused /\ abort = "live" /\ ~commitFlag]_vars
  BY <1>1
<1>. QED
  BY Invariance, <1>2, PTL DEF Spec, NoStepWhenHeld

(* A commit cuts short the node it was meant for and no other. *)
THEOREM CommitScopedHolds == Spec => CommitScoped
<1>1. ASSUME IInv, [Next]_vars, phase' = "final", phase # "final", ~Aborted, step < MaxSteps
      PROVE  commitFor = cur
  <2>1. LeaveLoop
    BY <1>1, OnlyLeaveLoopFinishes
  <2>2. ~LoopOver
    BY <1>1, EngineAssumption DEF LoopOver, IInv, TypeOK
  <2>. QED
    BY <1>1, <2>1, <2>2 DEF LeaveLoop, IInv, Control
<1>2. IInv /\ [Next]_vars =>
        [phase' = "final" /\ phase # "final" /\ ~Aborted /\ step < MaxSteps
           => commitFor = cur]_vars
  BY <1>1
<1>. QED
  BY Invariance, <1>2, PTL DEF Spec, CommitScoped

(* A rate override acts on the node it was set for and no other. *)
THEOREM RateScopedHolds == Spec => RateScoped
<1>1. ASSUME IInv, [Next]_vars, step' > step, lrOverride # NoRate
      PROVE  lrFor = cur
  <2>1. TrainStep
    BY <1>1, OnlyTrainStepCounts
  <2>2. cur # NoNode
    BY <2>1, EngineAssumption DEF TrainStep
  <2>. QED
    BY <1>1, <2>2 DEF IInv, Control
<1>2. IInv /\ [Next]_vars => [step' > step /\ lrOverride # NoRate => lrFor = cur]_vars
  BY <1>1
<1>. QED
  BY Invariance, <1>2, PTL DEF Spec, RateScoped

(* Together: a request acts on the node it was made for. *)
THEOREM ControlsScopedHolds == Spec => ControlsScoped
  BY CommitScopedHolds, RateScopedHolds DEF ControlsScoped

(* A run is ended by EndRun, or by the walk meeting a node that is missing. *)
LEMMA RunEndsBy ==
  IInv /\ [Next]_vars /\ abort = "live" /\ abort' = "none" =>
    EndRun \/ \E n \in NodeIds : MissingNode(n)
<1>. DEFINE Ended == EndRun \/ \E n \in NodeIds : MissingNode(n)
<1>. SUFFICES ASSUME [Next]_vars, abort = "live", abort' = "none" PROVE Ended
  OBVIOUS
<1>. USE DEF controlVars, Running
<1>1. ASSUME NEW s \in Specs, Load(s) PROVE Ended
  BY <1>1 DEF Load
<1>2. ASSUME NEW s \in Specs, LoadUnknownType(s) PROVE Ended
  BY <1>2 DEF LoadUnknownType
<1>3. ASSUME NEW n \in NodeIds, AddNode(n) PROVE Ended
  BY <1>3 DEF AddNode, Editable
<1>4. ASSUME NEW n \in NodeIds, RemoveNode(n) PROVE Ended
  BY <1>4 DEF RemoveNode, Editable
<1>5. ASSUME NEW e \in Edge, AddEdge(e) PROVE Ended
  BY <1>5 DEF AddEdge, Editable
<1>6. ASSUME NEW e \in Edge, RemoveEdge(e) PROVE Ended
  BY <1>6 DEF RemoveEdge, Editable
<1>7. CASE RefusedEdit
  BY <1>7 DEF RefusedEdit, Editable
<1>8. CASE BeginRun
  BY <1>8 DEF BeginRun
<1>9. CASE RefusedRun
  BY <1>9 DEF RefusedRun
<1>10. CASE Pause
  BY <1>10 DEF Pause
<1>11. CASE Resume
  BY <1>11 DEF Resume
<1>12. CASE Stop
  BY <1>12 DEF Stop
<1>13. CASE CommitEarly
  BY <1>13 DEF CommitEarly
<1>14. ASSUME NEW r \in Rates, SetLearningRate(r) PROVE Ended
  BY <1>14 DEF SetLearningRate
<1>15. CASE EndRun
  BY <1>15
<1>16. ASSUME NEW n \in NodeIds, SkipNode(n) PROVE Ended
  BY <1>16 DEF SkipNode
<1>17. ASSUME NEW n \in NodeIds, StartNode(n) PROVE Ended
  BY <1>17 DEF StartNode
<1>18. ASSUME NEW n \in NodeIds, MissingNode(n) PROVE Ended
  BY <1>18
<1>19. CASE WorkEnds
  BY <1>19 DEF WorkEnds, ThenBroadcast
<1>20. CASE SetupFails
  BY <1>20 DEF SetupFails, ThenBroadcast
<1>21. CASE SetupDone
  BY <1>21 DEF SetupDone
<1>22. CASE Park
  BY <1>22 DEF Park
<1>23. CASE TrainStep
  BY <1>23 DEF TrainStep
<1>24. CASE LeaveLoop
  BY <1>24 DEF LeaveLoop
<1>25. CASE LoopThrows
  BY <1>25 DEF LoopThrows, ThenBroadcast
<1>26. CASE FinalEnds
  BY <1>26 DEF FinalEnds, ThenBroadcast
<1>27. CASE HarnessEnds
  BY <1>27 DEF HarnessEnds, ThenBroadcast
<1>28. CASE UNCHANGED vars
  BY <1>28 DEF vars
<1>30. ASSUME NEW n \in NodeIds, Collect(n) PROVE Ended
  BY <1>30 DEF Collect
<1>29. QED
  BY <1>1, <1>2, <1>3, <1>4, <1>5, <1>6, <1>7, <1>8, <1>9, <1>10, <1>11,
     <1>12, <1>13, <1>14, <1>15, <1>16, <1>17, <1>18, <1>19, <1>20, <1>21,
     <1>22, <1>23, <1>24, <1>25, <1>26, <1>27, <1>28, <1>30, EngineAssumption
  DEF Next, GraphOps, ControlOps, Scan, NodeStep

(* A run that nobody cancelled decides every node of an accepted graph. *)
THEOREM RunDecidesEveryNodeHolds == Spec => RunDecidesEveryNode
<1>. DEFINE Decided ==
       \A n \in Present :
         \/ status[n] \in {"done", "error"}
         \/ /\ status[n] = "skipped"
            /\ \E u \in Upstream(edges, n) : status[u] \in {"error", "skipped"}
<1>1. ASSUME IInv, [Next]_vars, ~broken, abort = "live", abort' = "none" PROVE Decided
  <2>1. /\ todo \subseteq Present
        /\ \A n \in Present \ todo :
             \/ n = cur \/ status[n] \in {"done", "error"}
             \/ /\ status[n] = "skipped"
                /\ \E u \in Upstream(edges, n) : status[u] \in {"error", "skipped"}
    BY <1>1 DEF IInv, Verdicts
  <2>2. ASSUME NEW n \in NodeIds, MissingNode(n) PROVE FALSE
    BY <2>1, <2>2 DEF MissingNode, NextNode
  <2>3. EndRun
    BY <1>1, <2>2, RunEndsBy
  <2>4. todo = {} /\ cur = NoNode
    BY <1>1, <2>3 DEF EndRun, Aborted, IInv, Control
  <2>. QED
    BY <2>1, <2>4, EngineAssumption DEF Present
<1>2. IInv /\ [Next]_vars => [~broken /\ abort = "live" /\ abort' = "none" => Decided]_vars
  BY <1>1
<1>. QED
  BY Invariance, <1>2, PTL DEF Spec, RunDecidesEveryNode

(***************************************************************************)
(* The executor implements the abstract run.                               *)
(***************************************************************************)

(* Every step is a step of the abstract run or leaves it alone. *)
LEMMA RunSimulation == IInv /\ [Next]_vars => [AbstractRun!Next]_(AbstractRun!vars)
<1>. DEFINE Simulated == [AbstractRun!Next]_(AbstractRun!vars)
<1>. SUFFICES ASSUME TypeOK, Control, [Next]_vars PROVE Simulated
  BY DEF IInv
<1>. USE EngineAssumption DEF TypeOK, Control, Phase, Running, Aborted, Mode,
       graphVars, controlVars, runVars, AbstractRun!Next, AbstractRun!vars
<1>1. ASSUME NEW s \in Specs, Load(s) PROVE Simulated
  BY <1>1 DEF Load
<1>2. ASSUME NEW s \in Specs, LoadUnknownType(s) PROVE Simulated
  BY <1>2 DEF LoadUnknownType
<1>3. ASSUME NEW n \in NodeIds, AddNode(n) PROVE Simulated
  BY <1>3 DEF AddNode
<1>4. ASSUME NEW n \in NodeIds, RemoveNode(n) PROVE Simulated
  BY <1>4 DEF RemoveNode
<1>5. ASSUME NEW e \in Edge, AddEdge(e) PROVE Simulated
  BY <1>5 DEF AddEdge
<1>6. ASSUME NEW e \in Edge, RemoveEdge(e) PROVE Simulated
  BY <1>6 DEF RemoveEdge
<1>7. CASE RefusedEdit
  BY <1>7 DEF RefusedEdit
<1>8. CASE BeginRun
  BY <1>8 DEF BeginRun, AbstractRun!Begin
<1>9. CASE RefusedRun
  BY <1>9 DEF RefusedRun
<1>10. CASE Pause
  BY <1>10 DEF Pause, AbstractRun!Pause
<1>11. CASE Resume
  BY <1>11 DEF Resume, Unpause, AbstractRun!Resume
<1>12. CASE Stop
  BY <1>12 DEF Stop, Unpause, AbstractRun!Cancel
<1>13. CASE CommitEarly
  BY <1>13 DEF CommitEarly, Unpause, AbstractRun!Commit
<1>14. ASSUME NEW r \in Rates, SetLearningRate(r) PROVE Simulated
  BY <1>14 DEF SetLearningRate
<1>15. CASE EndRun
  BY <1>15 DEF EndRun, AbstractRun!End
<1>16. ASSUME NEW n \in NodeIds, SkipNode(n) PROVE Simulated
  BY <1>16 DEF SkipNode
<1>17. ASSUME NEW n \in NodeIds, StartNode(n) PROVE Simulated
  BY <1>17 DEF StartNode, NextNode, ClearCommit, AbstractRun!NodeStarts
<1>18. ASSUME NEW n \in NodeIds, MissingNode(n) PROVE Simulated
  BY <1>18 DEF MissingNode, NextNode, AbstractRun!End
<1>19. CASE WorkEnds
  BY <1>19 DEF WorkEnds, NodeReturns, NodeThrows, ThenBroadcast, ClearCommit, AbstractRun!NodeEnds
<1>20. CASE SetupFails
  BY <1>20 DEF SetupFails, NodeThrows, ThenBroadcast, ClearCommit, AbstractRun!NodeEnds
<1>21. CASE SetupDone
  BY <1>21 DEF SetupDone
<1>22. CASE Park
  BY <1>22 DEF Park
<1>23. CASE TrainStep
  BY <1>23 DEF TrainStep, AtGate, Held, AbstractRun!Train
<1>24. CASE LeaveLoop
  BY <1>24 DEF LeaveLoop
<1>25. CASE LoopThrows
  BY <1>25 DEF LoopThrows, NodeThrows, ThenBroadcast, ClearCommit, AbstractRun!NodeEnds
<1>26. CASE FinalEnds
  BY <1>26 DEF FinalEnds, NodeReturns, NodeThrows, ThenBroadcast, ClearCommit, AbstractRun!NodeEnds
<1>27. CASE HarnessEnds
  BY <1>27 DEF HarnessEnds, AtGate, NodeReturns, NodeThrows, ThenBroadcast, ClearCommit, AbstractRun!NodeEnds
<1>28. CASE UNCHANGED vars
  BY <1>28 DEF vars
<1>30. ASSUME NEW n \in NodeIds, Collect(n) PROVE Simulated
  BY <1>30 DEF Collect
<1>29. QED
  BY <1>1, <1>2, <1>3, <1>4, <1>5, <1>6, <1>7, <1>8, <1>9, <1>10, <1>11,
     <1>12, <1>13, <1>14, <1>15, <1>16, <1>17, <1>18, <1>19, <1>20, <1>21,
     <1>22, <1>23, <1>24, <1>25, <1>26, <1>27, <1>28, <1>30
  DEF Next, GraphOps, ControlOps, Scan, NodeStep

(* Engine implements the safety part of RunControl. *)
THEOREM ImplementsRunControlSafety == Spec => AbstractRun!Safety
<1>1. Init => AbstractRun!Init
  BY DEF Init, AbstractRun!Init, Mode, Running
<1>. QED
  BY <1>1, Invariance, RunSimulation, PTL DEF Spec, AbstractRun!Safety
=============================================================================
