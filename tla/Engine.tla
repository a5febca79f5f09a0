------------------------------- MODULE Engine -------------------------------
(***************************************************************************)
(* The pipeline executor: src/src/core/Engine.ts together with the await   *)
(* structure of the nodes it runs (PoCTrainer, EvaluationHarnessNode and   *)
(* the nodes without a pause gate).                                        *)
(*                                                                         *)
(* The program is one JavaScript thread.  An action is the code between    *)
(* two awaits, so the operations of a client (Load ... SetLearningRate)    *)
(* interleave with the running node at its awaits and nowhere else.  While *)
(* the executor walks from one node to the next (phase "scan") it does not *)
(* await, so no operation is enabled there.                                *)
(***************************************************************************)
EXTENDS PipelineGraph, Naturals

CONSTANTS NoNode,    (* no node is executing                               *)
          Trainers,  (* nodes with a training loop (PoCTrainer)            *)
          Harnesses, (* nodes that only wait at the pause gate             *)
          Evaluators,(* nodes that build a model and know no gate          *)
          Specs,     (* pipelines a client may load                        *)
          EditNodes, (* nodes a client may add or remove                   *)
          EditEdges, (* edges a client may add or remove                   *)
          Rates,     (* learning rates a client may set                    *)
          NoRate,    (* no override: the node's configured rate            *)
          MaxSteps   (* params.steps of every trainer                      *)

ASSUME EngineAssumption ==
  /\ IsFiniteSet(NodeIds)
  /\ NoNode \notin NodeIds
  /\ Trainers \subseteq NodeIds
  /\ Harnesses \subseteq NodeIds
  /\ Evaluators \subseteq NodeIds
  /\ Trainers \cap Harnesses = {}
  /\ Evaluators \cap (Trainers \cup Harnesses) = {}
  /\ EditNodes \subseteq NodeIds
  /\ EditEdges \subseteq Edge
  /\ NoRate \notin Rates
  /\ MaxSteps \in Nat
  /\ Specs \subseteq [nodes : SUBSET NodeIds, edges : SUBSET Edge,
                      unknown : SUBSET NodeIds]

VARIABLES
  loaded,      (* this.spec is not null                                     *)
  status,      (* rt.status of each node, "absent" when not in the map      *)
  outputs,     (* nodes whose rt.outputs is set                             *)
  edges,       (* this.edges                                                *)
  abort,       (* this.abort: "none", "live", or "aborted" once signalled   *)
  paused,      (* this._paused                                              *)
  waiters,     (* nodes with a resolver in this.pauseWaiters                *)
  commitFlag,  (* this.commitFlag                                           *)
  lrOverride,  (* this.lrOverride                                           *)
  todo,        (* nodes of the topological order the run has not reached    *)
  cur,         (* the node whose run() is awaited                           *)
  phase,       (* where the program stands, see Phase                       *)
  step,        (* optimizer steps the current trainer has completed         *)
  gpu,         (* the executing node's model holds a device context         *)
  stray,       (* nodes that have dropped a model without disposing of its  *)
               (* context, which the garbage collector did not find yet     *)
  shown,       (* the last snapshot broadcast by emitState                  *)
  commitFor,   (* history: node executing at the last commit request        *)
  lrFor,       (* history: node executing when lrOverride was last set      *)
  broken       (* history: the last load was rejected half way              *)

graphVars   == <<loaded, status, outputs, edges, broken>>
controlVars == <<abort, paused, waiters, commitFlag, lrOverride, commitFor, lrFor>>
runVars     == <<todo, cur, phase, step, gpu, stray>>
vars == <<graphVars, controlVars, runVars, shown>>

NodeStatus == {"idle", "running", "done", "error", "skipped"}

(***************************************************************************)
(* "idle": no run.  "scan": the executor is between two nodes.  "setup":   *)
(* a gated node prepares (reads its inputs).  "work": a node without a     *)
(* gate runs.  "top": the await before an iteration of a gated loop.       *)
(* "parked": the node awaits its resolver.  "final": a trainer past its    *)
(* loop is writing its checkpoint.                                         *)
(***************************************************************************)
Phase == {"idle", "scan", "setup", "work", "top", "parked", "final"}

Present == { n \in NodeIds : status[n] # "absent" }
Running == abort # "none"
Aborted == abort = "aborted"

(* this.snapshot(): what the user interface is shown. *)
Snapshot == [running |-> Running, paused |-> paused,
             status |-> status, edges |-> edges]

(* this.emitState(), written last in the actions that call it. *)
EmitState == shown' = Snapshot'

(* Idle runtime nodes for the ids in N, none elsewhere. *)
FreshNodes(N) == [n \in NodeIds |-> IF n \in N THEN "idle" ELSE "absent"]

Init ==
  /\ loaded = FALSE /\ broken = FALSE
  /\ status = FreshNodes({}) /\ outputs = {} /\ edges = {}
  /\ abort = "none" /\ paused = FALSE /\ waiters = {}
  /\ commitFlag = FALSE /\ commitFor = NoNode
  /\ lrOverride = NoRate /\ lrFor = NoNode
  /\ todo = {} /\ cur = NoNode /\ phase = "idle" /\ step = 0
  /\ gpu = FALSE /\ stray = {}
  /\ shown = Snapshot

-----------------------------------------------------------------------------
(* Loading and editing the graph; every operation refuses while running.   *)

(* load(spec): the nodes, the edges and the spec are replaced before       *)
(* validate() is called, so a rejected graph stays; only an accepted one   *)
(* is broadcast.                                                           *)
Load(s) ==
  /\ ~Running
  /\ s.unknown = {}
  /\ status' = FreshNodes(s.nodes)
  /\ outputs' = {}
  /\ edges' = s.edges
  /\ loaded' = TRUE
  /\ broken' = ~Valid(s.nodes, s.edges)
  /\ UNCHANGED <<controlVars, runVars>>
  /\ IF Valid(s.nodes, s.edges) THEN EmitState ELSE UNCHANGED shown

(* load(spec) when createNode throws on a type the registry lacks: the map *)
(* was cleared and holds the nodes before the unknown one; edges and spec  *)
(* are still the old ones.                                                 *)
LoadUnknownType(s) ==
  /\ ~Running
  /\ s.unknown # {}
  /\ \E prefix \in SUBSET (s.nodes \ s.unknown) : status' = FreshNodes(prefix)
  /\ outputs' = {}
  /\ broken' = TRUE
  /\ UNCHANGED <<loaded, edges, controlVars, runVars, shown>>

(* assertEditable(): the first edit creates the spec "untitled". *)
Editable == ~Running /\ loaded' = TRUE

AddNode(n) ==
  /\ Editable
  /\ n \notin Present
  /\ status' = [status EXCEPT ![n] = "idle"]
  /\ UNCHANGED <<outputs, edges, broken, controlVars, runVars>>
  /\ EmitState

(* Mutant: the removal is not broadcast. *)
RemoveNodeSilently(n) ==
  /\ Editable
  /\ n \in Present
  /\ status' = [status EXCEPT ![n] = "absent"]
  /\ outputs' = outputs \ {n}
  /\ edges' = { e \in edges : e.from # n /\ e.to # n }
  /\ UNCHANGED <<broken, controlVars, runVars, shown>>

RemoveNode(n) ==
  /\ Editable
  /\ n \in Present
  /\ status' = [status EXCEPT ![n] = "absent"]
  /\ outputs' = outputs \ {n}
  /\ edges' = { e \in edges : e.from # n /\ e.to # n }
  /\ UNCHANGED <<broken, controlVars, runVars>>
  /\ EmitState

(* Mutant: the new edge is checked for its ports only, not for a cycle. *)
AddEdgeUnchecked(e) ==
  /\ Editable
  /\ ~InputTaken(edges, e)
  /\ e \in Connectable /\ Closed(Present, {e})
  /\ edges' = edges \cup {e}
  /\ UNCHANGED <<status, outputs, broken, controlVars, runVars>>
  /\ EmitState

(* addEdge(edge): refused when the input is taken; pushed, validated and   *)
(* popped again when the whole graph does not validate.                    *)
AddEdge(e) ==
  /\ Editable
  /\ ~InputTaken(edges, e)
  /\ Valid(Present, edges \cup {e})
  /\ edges' = edges \cup {e}
  /\ UNCHANGED <<status, outputs, broken, controlVars, runVars>>
  /\ EmitState

RemoveEdge(e) ==
  /\ Editable
  /\ edges' = edges \ {e}
  /\ UNCHANGED <<status, outputs, broken, controlVars, runVars>>
  /\ EmitState

(* A refused edit (duplicate or missing node, bad edge) leaves only the    *)
(* spec that assertEditable created.                                       *)
RefusedEdit ==
  /\ Editable
  /\ UNCHANGED <<status, outputs, edges, broken, controlVars, runVars, shown>>

-----------------------------------------------------------------------------
(* Run control: what a client may send while the program awaits.           *)

Awaiting == phase # "scan"

(* this.pauseWaiters.splice(0): every resolver is called. *)
WakeWaiters == waiters' = {}

(* Mutant: the resolvers are forgotten. *)
UnpauseWithoutWake ==
  IF paused THEN paused' = FALSE /\ UNCHANGED waiters
            ELSE UNCHANGED <<paused, waiters>>

(* resume(): nothing when not paused. *)
Unpause ==
  IF paused THEN paused' = FALSE /\ WakeWaiters
            ELSE UNCHANGED <<paused, waiters>>

(* The snapshot that resume() broadcasts. *)
EmitIfPaused == IF paused THEN EmitState ELSE UNCHANGED shown

Pause ==
  /\ Awaiting /\ Running /\ ~paused
  /\ paused' = TRUE
  /\ UNCHANGED <<graphVars, abort, waiters, commitFlag, lrOverride, commitFor, lrFor, runVars>>
  /\ EmitState

Resume ==
  /\ Awaiting /\ paused
  /\ Unpause
  /\ UNCHANGED <<graphVars, abort, commitFlag, lrOverride, commitFor, lrFor, runVars>>
  /\ EmitState

(* Mutant: the paused node is not woken. *)
StopWithoutResume ==
  /\ Awaiting /\ Running
  /\ abort' = "aborted"
  /\ UNCHANGED <<paused, waiters>>
  /\ UNCHANGED <<graphVars, commitFlag, lrOverride, commitFor, lrFor, runVars>>
  /\ EmitIfPaused

(* stop(), also cancel_training: signal the run's controller, then resume. *)
Stop ==
  /\ Awaiting /\ Running
  /\ abort' = "aborted"
  /\ Unpause
  /\ UNCHANGED <<graphVars, commitFlag, lrOverride, commitFor, lrFor, runVars>>
  /\ EmitIfPaused

CommitEarly ==
  /\ Awaiting /\ Running
  /\ commitFlag' = TRUE
  /\ commitFor' = cur
  /\ Unpause
  /\ UNCHANGED <<graphVars, abort, lrOverride, lrFor, runVars>>
  /\ EmitIfPaused

(* setLearningRate(lr): not tied to a run at all. *)
SetLearningRate(r) ==
  /\ Awaiting
  /\ lrOverride' = r
  /\ lrFor' = cur
  /\ UNCHANGED <<graphVars, abort, paused, waiters, commitFlag, commitFor, runVars, shown>>

-----------------------------------------------------------------------------
(* run(): the walk over the topological order.                             *)

ResetNodes == [n \in NodeIds |-> IF n \in Present THEN "idle" ELSE "absent"]

BeginRun ==
  /\ loaded /\ ~Running
  /\ Sortable(Present, edges)
  /\ abort' = "live"
  /\ status' = ResetNodes
  /\ outputs' = {}
  /\ todo' = Ordered(Present, edges)
  /\ phase' = "scan"
  /\ UNCHANGED <<loaded, edges, broken, paused, waiters, commitFlag, lrOverride,
                 commitFor, lrFor, cur, step, gpu, stray>>
  /\ EmitState

(* topoOrder() throws inside the try: the statuses were already reset. *)
RefusedRun ==
  /\ loaded /\ ~Running
  /\ ~Sortable(Present, edges)
  /\ status' = ResetNodes
  /\ outputs' = {}
  /\ UNCHANGED <<loaded, edges, broken, controlVars, runVars>>
  /\ EmitState

(* The next node of the order: any that no unreached node feeds. *)
NextNode(n) ==
  /\ phase = "scan" /\ ~Aborted
  /\ n \in todo
  /\ Upstream(edges, n) \cap todo = {}

(* Mutant: only a failed upstream counts as not ready. *)
UpstreamNotFailed(n) == \A u \in Upstream(edges, n) : status[u] # "error"

(* Every input's source is done and has outputs. *)
UpstreamReady(n) ==
  \A u \in Upstream(edges, n) : status[u] = "done" /\ u \in outputs

(* Mutant: the first skipped node breaks out of the loop. *)
SkipNodeBreaks(n) ==
  /\ NextNode(n) /\ n \in Present
  /\ ~UpstreamReady(n)
  /\ status' = [status EXCEPT ![n] = "skipped"]
  /\ todo' = {}
  /\ UNCHANGED <<loaded, outputs, edges, broken, controlVars, cur, phase, step, gpu, stray>>
  /\ EmitState

SkipNode(n) ==
  /\ NextNode(n) /\ n \in Present
  /\ ~UpstreamReady(n)
  /\ status' = [status EXCEPT ![n] = "skipped"]
  /\ todo' = todo \ {n}
  /\ UNCHANGED <<loaded, outputs, edges, broken, controlVars, cur, phase, step, gpu, stray>>
  /\ EmitState

(* Mutant: the request is not cleared between nodes. *)
KeepCommit == UNCHANGED commitFlag

(* "commit control is scoped per node", "lr override is scoped per node    *)
(* run": the flags as they are cleared around every node.                  *)
ClearCommit == commitFlag' = FALSE
ClearRate   == lrOverride' = NoRate

(* A node that evaluates builds its model before its first await, or has   *)
(* thrown by then; a constructed TinyLM has a context on the device (the   *)
(* JavaScript backend has nothing to hold).                                *)
BuildModel(n) == gpu' \in IF n \in Harnesses \cup Evaluators THEN BOOLEAN ELSE {FALSE}

StartNode(n) ==
  /\ NextNode(n) /\ n \in Present
  /\ UpstreamReady(n)
  /\ status' = [status EXCEPT ![n] = "running"]
  /\ todo' = todo \ {n}
  /\ cur' = n
  /\ phase' = IF n \in Trainers \cup Harnesses THEN "setup" ELSE "work"
  /\ step' = 0
  /\ ClearCommit
  /\ ClearRate
  /\ BuildModel(n)
  /\ UNCHANGED <<loaded, outputs, edges, broken, abort, paused, waiters, commitFor, lrFor, stray>>
  /\ EmitState

(* Mutant: the run ends paused. *)
EndRunPaused ==
  /\ phase = "scan"
  /\ todo = {} \/ Aborted
  /\ abort' = "none"
  /\ UNCHANGED paused
  /\ WakeWaiters
  /\ todo' = {}
  /\ phase' = "idle"
  /\ UNCHANGED <<graphVars, commitFlag, lrOverride, commitFor, lrFor, cur, step, gpu, stray>>
  /\ EmitState

(* The loop is over or was broken by the abort: the finally block. *)
EndRun ==
  /\ phase = "scan"
  /\ todo = {} \/ Aborted
  /\ abort' = "none"
  /\ paused' = FALSE
  /\ WakeWaiters
  /\ todo' = {}
  /\ phase' = "idle"
  /\ UNCHANGED <<graphVars, commitFlag, lrOverride, commitFor, lrFor, cur, step, gpu, stray>>
  /\ EmitState

(* A rejected load can leave an edge to a node the map lacks: the walk     *)
(* throws when it gets there, and the finally block is the same.           *)
MissingNode(n) ==
  /\ NextNode(n)
  /\ n \notin Present
  /\ abort' = "none"
  /\ paused' = FALSE
  /\ WakeWaiters
  /\ todo' = {}
  /\ phase' = "idle"
  /\ UNCHANGED <<graphVars, commitFlag, lrOverride, commitFor, lrFor, cur, step, gpu, stray>>
  /\ EmitState

(* await node.run(...) resolved: the outputs are kept either way. *)
NodeReturns ==
  /\ status' = [status EXCEPT ![cur] = IF Aborted THEN "skipped" ELSE "done"]
  /\ outputs' = outputs \cup {cur}
  /\ phase' = "scan"
  /\ cur' = NoNode
  /\ ClearCommit

(* await node.run(...) rejected. *)
NodeThrows ==
  /\ status' = [status EXCEPT ![cur] = "error"]
  /\ outputs' = outputs
  /\ phase' = "scan"
  /\ cur' = NoNode
  /\ ClearCommit

(* The executor's continuation leaves the rest alone and broadcasts. *)
ThenBroadcast ==
  /\ UNCHANGED <<loaded, edges, broken, abort, paused, waiters, lrOverride, commitFor,
                 lrFor, todo, step>>
  /\ EmitState

-----------------------------------------------------------------------------
(* The nodes.                                                              *)

(* The model goes with the node's run; nobody disposes of a context it     *)
(* still holds.                                                            *)
DropModel == gpu' = FALSE /\ stray' = IF gpu THEN stray \cup {cur} ELSE stray

(* The finally block around the training loop. *)
Dispose == gpu' = FALSE /\ UNCHANGED stray

(* The finalizer of a dropped context.                                     *)
Collect(n) ==
  /\ n \in stray
  /\ stray' = stray \ {n}
  /\ UNCHANGED <<graphVars, controlVars, todo, cur, phase, step, gpu, shown>>

(* A node without a gate returns or throws in its own time. *)
WorkEnds ==
  /\ phase = "work"
  /\ (NodeReturns /\ (cur \in Evaluators => gpu)) \/ NodeThrows
  /\ DropModel
  /\ ThenBroadcast

(* The node throws before its gate: on its inputs, or, in a trainer, in    *)
(* the stretch between the new model and the try around its loop.          *)
SetupFails ==
  /\ phase = "setup"
  /\ NodeThrows
  /\ \/ DropModel
     \/ cur \in Trainers /\ gpu' = FALSE /\ stray' = stray \cup {cur}
  /\ ThenBroadcast

(* The inputs are read; a trainer builds its model now. *)
SetupDone ==
  /\ phase = "setup"
  /\ cur \in Harnesses => gpu
  /\ phase' = "top"
  /\ gpu' = TRUE
  /\ UNCHANGED <<graphVars, controlVars, todo, cur, step, stray, shown>>

(* The node's continuation is runnable: it awaits no resolver. *)
AtGate == phase \in {"top", "parked"} /\ cur \notin waiters

(* Mutants: a gate that does not look again after a wake-up, and one that  *)
(* does not look at the abort signal.                                      *)
HeldOnce == paused /\ ~Aborted /\ phase = "top"
HeldWhilePaused == paused

(* The condition waitIfPaused evaluates, again after every wake-up. *)
Held == paused /\ ~Aborted

(* A trainer whose loop is over does not come back to the gate. *)
LoopOver == cur \in Trainers /\ step = MaxSteps

Park ==
  /\ AtGate /\ ~LoopOver /\ Held
  /\ waiters' = waiters \cup {cur}
  /\ phase' = "parked"
  /\ UNCHANGED <<graphVars, abort, paused, commitFlag, lrOverride, commitFor, lrFor,
                 todo, cur, step, gpu, stray, shown>>

(* A trainer's iteration: the model takes one optimizer step. *)
TrainStep ==
  /\ AtGate /\ cur \in Trainers /\ ~LoopOver
  /\ ~Held /\ ~Aborted /\ ~commitFlag
  /\ step' = step + 1
  /\ phase' = "top"
  /\ UNCHANGED <<graphVars, controlVars, todo, cur, gpu, stray, shown>>

(* The loop ends by count, by cancel or by commit; the finally block       *)
(* disposes of the device context.                                         *)
LeaveLoop ==
  /\ AtGate /\ cur \in Trainers
  /\ LoopOver \/ (~Held /\ (Aborted \/ commitFlag))
  /\ phase' = "final"
  /\ Dispose
  /\ UNCHANGED <<graphVars, controlVars, todo, cur, step, shown>>

(* Mutant: no finally block around the loop. *)
LoopThrowsUndisposed ==
  /\ phase = "top" /\ cur \in Trainers
  /\ step = 0 => ~LoopOver /\ ~Held /\ ~Aborted /\ ~commitFlag
  /\ NodeThrows
  /\ DropModel
  /\ ThenBroadcast

(* The step itself, or a write of the best checkpoint after it, throws;    *)
(* before the first step there is nothing to write.                        *)
LoopThrows ==
  /\ phase = "top" /\ cur \in Trainers
  /\ step = 0 => ~LoopOver /\ ~Held /\ ~Aborted /\ ~commitFlag
  /\ NodeThrows
  /\ Dispose
  /\ ThenBroadcast

(* The checkpoint is written, or the write throws. *)
FinalEnds ==
  /\ phase = "final"
  /\ NodeReturns \/ NodeThrows
  /\ DropModel
  /\ ThenBroadcast

(* A harness past its gate never yields to the event loop again: the rest  *)
(* of its batches run in the same turn, whatever a client has sent.        *)
HarnessEnds ==
  /\ AtGate /\ cur \in Harnesses /\ ~Held
  /\ NodeReturns \/ NodeThrows
  /\ DropModel
  /\ ThenBroadcast

-----------------------------------------------------------------------------
GraphOps ==
  \/ \E s \in Specs : Load(s) \/ LoadUnknownType(s)
  \/ \E n \in EditNodes : AddNode(n) \/ RemoveNode(n)
  \/ \E e \in EditEdges : AddEdge(e) \/ RemoveEdge(e)
  \/ RefusedEdit

ControlOps ==
  \/ BeginRun \/ RefusedRun
  \/ Pause \/ Resume \/ Stop \/ CommitEarly
  \/ \E r \in Rates : SetLearningRate(r)

Scan == EndRun \/ \E n \in NodeIds : SkipNode(n) \/ StartNode(n) \/ MissingNode(n)

NodeStep ==
  \/ WorkEnds \/ SetupFails \/ SetupDone
  \/ Park \/ TrainStep \/ LeaveLoop \/ LoopThrows
  \/ FinalEnds \/ HarnessEnds

Next == GraphOps \/ ControlOps \/ Scan \/ NodeStep \/ \E n \in NodeIds : Collect(n)

(* The executor's turn runs to its next await, and a node whose await has  *)
(* resolved is eventually scheduled.  Nothing is assumed of the clients.   *)
Fairness == WF_vars(Scan) /\ WF_vars(NodeStep)

Spec == Init /\ [][Next]_vars /\ Fairness

-----------------------------------------------------------------------------
Snapshots ==
  [running : BOOLEAN, paused : BOOLEAN,
   status : [NodeIds -> NodeStatus \cup {"absent"}], edges : SUBSET Edge]

(* Type correctness of the executor's fields. *)
TypeOK ==
  /\ loaded \in BOOLEAN /\ broken \in BOOLEAN
  /\ status \in [NodeIds -> NodeStatus \cup {"absent"}]
  /\ outputs \subseteq NodeIds
  /\ edges \subseteq Edge
  /\ abort \in {"none", "live", "aborted"}
  /\ paused \in BOOLEAN /\ waiters \subseteq NodeIds
  /\ commitFlag \in BOOLEAN /\ commitFor \in NodeIds \cup {NoNode}
  /\ lrOverride \in Rates \cup {NoRate} /\ lrFor \in NodeIds \cup {NoNode}
  /\ todo \subseteq NodeIds
  /\ cur \in NodeIds \cup {NoNode}
  /\ phase \in Phase
  /\ step \in 0..MaxSteps
  /\ gpu \in BOOLEAN /\ stray \subseteq NodeIds
  /\ shown \in Snapshots

(* During a run a node is executing or done only if every node that feeds  *)
(* it is done and has its outputs: a failed, skipped or cancelled upstream *)
(* never leaks into a downstream result.  (Between runs an edit may well   *)
(* connect an idle node to a done one.)                                    *)
UpstreamDone ==
  Running => \A n \in Present :
    status[n] \in {"running", "done"} =>
      \A u \in Upstream(edges, n) : status[u] = "done" /\ u \in outputs

(* A node that waits at the pause gate waits for a resume that can still   *)
(* come: the run is paused and not cancelled, so no wake-up was lost.      *)
NoLostWakeup == waiters # {} => paused /\ abort = "live"

(* When no run is active none of its control is left: no pause, no waiter, no *)
(* commit request, no node shown as running.                               *)
IdleIsClean ==
  ~Running =>
    /\ ~paused /\ waiters = {} /\ ~commitFlag /\ cur = NoNode
    /\ \A n \in NodeIds : status[n] # "running"

(* A node at its gate has a model; a trainer has one there and nowhere     *)
(* else, so that it writes its checkpoint with the device given back.      *)
HoldsContext ==
  /\ gpu => cur \in Trainers \cup Harnesses \cup Evaluators
  /\ phase \in {"top", "parked"} => gpu
  /\ gpu /\ cur \in Trainers => phase \in {"top", "parked"}

(* A trainer that has reached its loop leaves no device context behind, by *)
(* whichever way it leaves the loop and however it ends after it.  (One    *)
(* that throws before its loop does, and so does every evaluation.)        *)
LoopGivesBack ==
  [][(cur \in Trainers /\ phase \in {"top", "parked", "final"}) => stray' \subseteq stray]_vars

(* Whenever the program awaits, the user interface has been shown the      *)
(* state it is in, unless the last load was rejected half way.             *)
ShownIsCurrent == Awaiting /\ ~broken => shown = Snapshot

(* The two parts: a graph that no rejected load left is valid; two edges   *)
(* that meet in one input are in a pipeline that may be loaded.            *)
GraphValid == ~broken => Valid(Present, edges)
FedTwiceOnLoad ==
  \A e \in edges, x \in edges :
    e.to = x.to /\ e.port = x.port /\ e # x => \E s \in Specs : {e, x} \subseteq s.edges

(* Edits keep a graph that was valid valid: only a rejected load leaves an *)
(* invalid one.  And they never feed an input twice: where two edges meet  *)
(* in one input, a pipeline that was loaded has them (validate lets it).   *)
EditsKeepGraphValid == GraphValid /\ FedTwiceOnLoad

(* No optimizer step is taken while the run is paused, after it was        *)
(* cancelled, or after the node was asked to commit, however the requests  *)
(* and the wake-ups interleave.                                            *)
NoStepWhenHeld ==
  [][step' > step => ~paused /\ abort = "live" /\ ~commitFlag]_vars

(* A trainer leaves its loop before its last step only if the run was      *)
(* cancelled or the commit was requested while this very trainer was the   *)
(* executing node: a commit meant for one node never cuts short another.   *)
CommitScoped ==
  [][(phase' = "final" /\ phase # "final" /\ ~Aborted /\ step < MaxSteps)
       => commitFor = cur]_vars

(* A trainer steps with an overridden rate only if the override was set    *)
(* while this very trainer was the executing node.                         *)
RateScoped == [][(step' > step /\ lrOverride # NoRate) => lrFor = cur]_vars

(* A request acts on the node that was executing when it was made, and on  *)
(* no later one.                                                           *)
ControlsScoped == CommitScoped /\ RateScoped

(* A run of an accepted graph that ends without being cancelled has        *)
(* decided every node, and has skipped one only because a node that feeds  *)
(* it failed or was skipped itself, not because it came too early.         *)
RunDecidesEveryNode ==
  [][(~broken /\ abort = "live" /\ abort' = "none")
       => \A n \in Present :
            \/ status[n] \in {"done", "error"}
            \/ /\ status[n] = "skipped"
               /\ \E u \in Upstream(edges, n) : status[u] \in {"error", "skipped"}]_vars

(* A run ends unless it is paused. *)
RunEnds == Running ~> (~Running \/ paused)

(***************************************************************************)
(* The inductive invariant behind the safety properties (EngineProofs).    *)
(***************************************************************************)

(* Where the program stands agrees with the controller, the executing      *)
(* node, the waiters, the requests and the device contexts.                *)
Control ==
  /\ phase = "idle" <=> abort = "none"
  /\ phase \in {"idle", "scan"} <=> cur = NoNode
  /\ phase = "idle" => todo = {} /\ ~paused
  /\ phase \in {"idle", "scan"} => ~commitFlag
  /\ waiters # {} => phase = "parked" /\ waiters = {cur} /\ paused /\ abort = "live"
  /\ phase \in {"setup", "top", "parked"} => cur \in Trainers \cup Harnesses
  /\ phase = "final" => cur \in Trainers
  /\ HoldsContext
  /\ commitFlag => commitFor = cur
  /\ cur # NoNode /\ lrOverride # NoRate => lrFor = cur

(* The walk over the order: only the executing node is running, unreached  *)
(* nodes are idle, and what is running or done stands on done nodes.       *)
Walk ==
  /\ \A n \in NodeIds : status[n] = "running" <=> n = cur
  /\ \A n \in todo : status[n] \in {"idle", "absent"}
  /\ UpstreamDone

(* What the walk has left behind, unless the run was cancelled or walks a  *)
(* graph that was never accepted: a reached node is executing or has its   *)
(* verdict, and a skipped one stands on a node that failed or was skipped. *)
Verdicts ==
  ~broken /\ abort = "live" =>
    /\ todo \subseteq Present
    /\ \A n \in Present \ todo :
         /\ Upstream(edges, n) \cap todo = {}
         /\ \/ n = cur \/ status[n] = "error"
            \/ status[n] = "done" /\ n \in outputs
            \/ /\ status[n] = "skipped"
               /\ \E u \in Upstream(edges, n) : status[u] \in {"error", "skipped"}

(* The executor's state hangs together at every await, whatever was asked  *)
(* of it and whichever node failed.                                        *)
IInv == TypeOK /\ Control /\ Walk /\ EditsKeepGraphValid /\ ShownIsCurrent /\ Verdicts
=============================================================================
