------------------------------ MODULE Workspace ------------------------------
(***************************************************************************)
(* Browser clients, the coordinator and the stored graphs: which project   *)
(* a canvas is saved under, and which variant a run's result is accepted   *)
(* into (webapp/src/stores/pipeline.ts, src/server/index.ts).              *)
(*                                                                         *)
(* Each client's frames reach the coordinator in order, through a socket   *)
(* that may drop; the coordinator handles one frame at a time on the one   *)
(* canvas of its engine, whatever client it is from. A canvas is known by  *)
(* the number of the last edit applied to it.                              *)
(***************************************************************************)
EXTENDS Naturals, Sequences, FiniteSets

CONSTANTS Clients, Variants,
          Default,   \* DEFAULT_PROJECT_ID, the project of no variant
          None,
          Ops,       \* the clients' operations and the faults that may happen
          MaxEdits, MaxRuns, MaxQueue

ASSUME WorkspaceAssumption ==
  /\ Default \notin Variants /\ None \notin Variants \cup {Default}
  /\ MaxEdits \in Nat /\ MaxRuns \in Nat /\ MaxQueue \in Nat \ {0}

Projects == Variants \cup {Default}
Canvases == 0..MaxEdits

VARIABLES
  active,    \* activeProjectId of each client
  timer,     \* the debounced save is pending
  up,        \* the client's socket is open
  offer,     \* pendingModelAcceptance: the last proposal the client was sent
  queue,     \* frames on their way from the client
  canvas,    \* the graph the engine holds
  run,       \* the run in progress, with the project it was started for
  store,     \* the graphs in the warehouse, by project
  variants,  \* the variants in the library
  pending,   \* pendingAcceptances
  models,    \* the run whose result was accepted into a variant, 0 for none
  edits, runs,   \* numbers given to edits and to runs
  home,      \* history: the project the canvas is the graph of
  astray,    \* history: clients whose active project is not on the canvas
  unsaved,   \* history: a connection was lost before a save, and none came since
  results    \* history: what each run was started on

clientVars == <<active, timer, up, offer>>
serverVars == <<canvas, run, store, variants, pending, models>>
history    == <<home, astray, unsaved, results>>
vars == <<clientVars, queue, serverVars, edits, runs, history>>

Init ==
  /\ active = [c \in Clients |-> Default]
  /\ timer = [c \in Clients |-> FALSE]
  /\ up = [c \in Clients |-> FALSE]
  /\ offer = [c \in Clients |-> 0]
  /\ queue = [c \in Clients |-> <<>>]
  /\ canvas = 0 /\ run = None
  /\ store = [p \in Projects |-> None]
  /\ variants = Variants
  /\ pending = {} /\ models = [v \in Variants |-> 0]
  /\ edits = 0 /\ runs = 0
  /\ home = Default /\ astray = {} /\ unsaved = FALSE
  /\ results = [r \in 1..MaxRuns |-> None]

-----------------------------------------------------------------------------
(* The client.                                                             *)

Frame(op, project, n) == [op |-> op, project |-> project, n |-> n]
SaveOf(c) == Frame("save", active[c], 0)

(* send: what is sent while the socket is not open is dropped. *)
Send(c, frames) ==
  /\ Len(queue[c]) + Len(frames) <= MaxQueue
  /\ queue' = IF up[c] THEN [queue EXCEPT ![c] = @ \o frames] ELSE queue

SavesIn(frames) == \E i \in DOMAIN frames : frames[i].op = "save"

(* connect: the socket opens and the active project is restored. *)
Connect(c) ==
  /\ ~up[c]
  /\ up' = [up EXCEPT ![c] = TRUE]
  /\ queue' = [queue EXCEPT ![c] = <<Frame("load", active[c], 0)>>]
  /\ UNCHANGED <<active, timer, offer, serverVars, edits, runs, history>>

(* onclose: the frames under way are lost, and the canvas is replaced when  *)
(* the client is back, before its debounced save.                          *)
Disconnect(c) ==
  /\ "drop" \in Ops /\ up[c]
  /\ up' = [up EXCEPT ![c] = FALSE]
  /\ queue' = [queue EXCEPT ![c] = <<>>]
  /\ unsaved' = (unsaved \/ timer[c] \/ SavesIn(queue[c]))
  /\ UNCHANGED <<active, timer, offer, serverVars, edits, runs, home, astray, results>>

(* addNode, removeNode, addEdge, removeEdge, updateParams, moveNode and     *)
(* applyTemplate: one frame, and the debounced save is scheduled anew.      *)
EditCanvas(c) ==
  /\ edits < MaxEdits
  /\ edits' = edits + 1
  /\ Send(c, <<Frame("edit", active[c], edits')>>)
  /\ timer' = [timer EXCEPT ![c] = TRUE]
  /\ UNCHANGED <<active, up, offer, serverVars, runs, history>>

(* scheduleGraphSave: the timer fires. *)
TimerFires(c) ==
  /\ timer[c]
  /\ timer' = [timer EXCEPT ![c] = FALSE]
  /\ Send(c, <<SaveOf(c)>>)
  /\ unsaved' = (unsaved \/ ~up[c])
  /\ UNCHANGED <<active, up, offer, serverVars, edits, runs, home, astray, results>>

(* Mutants: the pending save is left to fire, and it is flushed after the  *)
(* active project has changed.                                             *)
NoFlush(c, p) == <<>>
FlushLate(c, p) == IF timer[c] THEN <<Frame("save", p, 0)>> ELSE <<>>

(* The pending save is flushed under the project that is left. *)
Flush(c, p) == IF timer[c] THEN <<SaveOf(c)>> ELSE <<>>

(* switchGraphProject *)
Switch(c, p) ==
  /\ \/ /\ p = active[c]
        /\ UNCHANGED <<active, timer, queue, unsaved>>
     \/ /\ p # active[c]
        /\ Send(c, Append(Flush(c, p), Frame("load", p, 0)))
        /\ timer' = [timer EXCEPT ![c] = @ /\ Flush(c, p) = <<>>]
        /\ unsaved' = (unsaved \/ (timer[c] /\ ~up[c]))
        /\ active' = [active EXCEPT ![c] = p]

(* openVariant and confirmForceOpen: while the client's last snapshot shows *)
(* a run it is asked to confirm first and sends stop before it switches,   *)
(* which only brings the end of the run nearer. The server is not waited   *)
(* for, so that a switch may be sent whether or not a run is in progress.  *)
OpenVariant(c, p) ==
  /\ Switch(c, p)
  /\ UNCHANGED <<up, offer, serverVars, edits, runs, home, astray, results>>

(* deleteVariant: the canvas stays where it is. *)
DeleteVariant(c, p) ==
  /\ "delete" \in Ops
  /\ Send(c, <<Frame("delete", p, 0), Frame("dropGraph", p, 0)>>)
  /\ active' = [active EXCEPT ![c] = IF @ = p THEN Default ELSE @]
  /\ astray' = IF active[c] = p THEN astray \cup {c} ELSE astray
  /\ UNCHANGED <<timer, up, offer, serverVars, edits, runs, home, unsaved, results>>

(* run *)
AskToRun(c) ==
  /\ "run" \in Ops /\ runs < MaxRuns
  /\ Send(c, <<Frame("run", active[c], 0)>>)
  /\ UNCHANGED <<clientVars, serverVars, edits, runs, history>>

(* acceptModelResult and rejectModelResult *)
Answer(c) ==
  /\ offer[c] # 0
  /\ \E op \in {"accept", "reject"} : Send(c, <<Frame(op, None, offer[c])>>)
  /\ offer' = [offer EXCEPT ![c] = 0]
  /\ UNCHANGED <<active, timer, up, serverVars, edits, runs, history>>

-----------------------------------------------------------------------------
(* The coordinator: one frame of client c, f, at a time.                   *)

(* An edit is refused if the graph does not allow it or is running. *)
HandleEdit(c, f) ==
  /\ f.op = "edit"
  /\ canvas' \in {canvas, f.n}
  /\ UNCHANGED <<offer, run, store, variants, pending, models, runs, history>>

(* The warehouse: saveGraph replaces nodes and edges in one transaction, and *)
(* loadGraph reads a project's graph, or null.                              *)
SaveGraph(project, graph) == store' = [store EXCEPT ![project] = graph]
LoadGraph(project) == store[project]

(* persistGraph: the canvas, whatever it holds by now, under that project. *)
HandleSave(c, f) ==
  /\ f.op = "save"
  /\ SaveGraph(f.project, canvas)
  /\ unsaved' = (unsaved /\ f.project # home)
  /\ UNCHANGED <<offer, canvas, run, variants, pending, models, runs, home, astray, results>>

(* What a load leaves of the clients that are astray: client c is not, if  *)
(* that is where it still is and no deletion of its own is under way; the  *)
(* others are unless they are on the same project with nothing under way.  *)
Deletes(c) == \E i \in DOMAIN queue[c] : queue[c][i].op = "dropGraph"
LedAstray(c, p) ==
  (IF active[c] = p /\ ~Deletes(c) THEN astray \ {c} ELSE astray)
    \cup { d \in Clients \ {c} : up[d] /\ (active[d] # p \/ queue[d] # <<>>) }

(* restoreProject: the stored graph takes the place of the canvas. *)
Restore(c, f) ==
  /\ f.op = "load" /\ LoadGraph(f.project) # None /\ run = None
  /\ canvas' = LoadGraph(f.project)
  /\ home' = f.project
  /\ astray' = LedAstray(c, f.project)
  /\ unsaved' = FALSE
  /\ UNCHANGED <<offer, run, store, variants, pending, models, runs, results>>

(* load throws while a run is in progress; the client is not told apart    *)
(* from one whose load succeeded.                                          *)
RefuseRestore(c, f) ==
  /\ f.op = "load" /\ LoadGraph(f.project) # None /\ run # None
  /\ astray' = IF f.project = home THEN astray ELSE astray \cup {c}
  /\ UNCHANGED <<offer, serverVars, runs, home, unsaved, results>>

(* First open: the project adopts the canvas. *)
Adopt(c, f) ==
  /\ f.op = "load" /\ LoadGraph(f.project) = None
  /\ SaveGraph(f.project, canvas)
  /\ home' = f.project
  /\ astray' = LedAstray(c, f.project)
  /\ unsaved' = FALSE
  /\ UNCHANGED <<offer, canvas, run, variants, pending, models, runs, results>>

(* library.delete, which refuses a variant in training. *)
HandleDelete(c, f) ==
  /\ f.op = "delete"
  /\ \/ UNCHANGED variants
     \/ variants' = variants \ {f.project}
  /\ UNCHANGED <<offer, canvas, run, store, pending, models, runs, history>>

(* deleteProject *)
HandleDropGraph(c, f) ==
  /\ f.op = "dropGraph"
  /\ store' = [store EXCEPT ![f.project] = None]
  /\ astray' = astray \cup { d \in Clients : active[d] = f.project }
  /\ UNCHANGED <<offer, canvas, run, variants, pending, models, runs, home, unsaved, results>>

(* A run is started for the client's project, unless one is in progress or *)
(* no pipeline was ever loaded.                                            *)
HandleRun(c, f) ==
  /\ f.op = "run"
  /\ \/ UNCHANGED <<run, runs, results>>
     \/ /\ run = None /\ runs < MaxRuns
        /\ runs' = runs + 1
        /\ run' = [project |-> f.project, n |-> runs']
        /\ results' = [results EXCEPT ![runs'] = [home |-> home, astray |-> c \in astray]]
  /\ UNCHANGED <<offer, canvas, store, variants, pending, models, home, astray, unsaved>>

(* persistPipelineResult does nothing for a variant that is gone. *)
HandleAccept(c, f) ==
  /\ f.op = "accept"
  /\ models' = [v \in Variants |->
       IF \E p \in pending : p.n = f.n /\ p.project = v /\ v \in variants THEN f.n ELSE models[v]]
  /\ pending' = { p \in pending : p.n # f.n }
  /\ UNCHANGED <<offer, canvas, run, store, variants, runs, history>>

HandleReject(c, f) ==
  /\ f.op = "reject"
  /\ pending' = { p \in pending : p.n # f.n }
  /\ UNCHANGED <<offer, canvas, run, store, variants, models, runs, history>>

Handle(c) ==
  /\ queue[c] # <<>>
  /\ queue' = [queue EXCEPT ![c] = Tail(@)]
  /\ LET f == Head(queue[c]) IN
       \/ HandleEdit(c, f) \/ HandleSave(c, f)
       \/ Restore(c, f) \/ RefuseRestore(c, f) \/ Adopt(c, f)
       \/ HandleDelete(c, f) \/ HandleDropGraph(c, f)
       \/ HandleRun(c, f) \/ HandleAccept(c, f) \/ HandleReject(c, f)
  /\ UNCHANGED <<active, timer, up, edits>>

(* Mutant: the result goes to whatever project is on the canvas by now. *)
ProjectOnCanvas == home

(* createRunAcceptance: the project the run was started for. *)
ProposedFor == run.project

(* The run resolves, or rejects; a trainer's result is proposed to every   *)
(* client if the project is a variant.                                     *)
EndRun ==
  /\ run # None
  /\ run' = None
  /\ \/ UNCHANGED <<pending, offer>>
     \/ /\ ProposedFor \in variants
        /\ pending' = pending \cup {[project |-> ProposedFor, n |-> run.n]}
        /\ offer' = [c \in Clients |-> IF up[c] THEN run.n ELSE offer[c]]
  /\ UNCHANGED <<active, timer, up, queue, canvas, store, variants, models, edits, runs, history>>

(* The server dies and is started again: it restores the default project. *)
Restart ==
  /\ "restart" \in Ops
  /\ canvas' = IF LoadGraph(Default) = None THEN 0 ELSE LoadGraph(Default)
  /\ run' = None /\ pending' = {}
  /\ home' = Default /\ unsaved' = FALSE
  /\ up' = [c \in Clients |-> FALSE]
  /\ queue' = [c \in Clients |-> <<>>]
  /\ UNCHANGED <<active, timer, offer, store, variants, models, edits, runs, astray, results>>

Next ==
  \/ \E c \in Clients :
       \/ Connect(c) \/ Disconnect(c)
       \/ EditCanvas(c) \/ TimerFires(c)
       \/ \E p \in Variants : OpenVariant(c, p) \/ DeleteVariant(c, p)
       \/ AskToRun(c) \/ Answer(c)
       \/ Handle(c)
  \/ EndRun \/ Restart

Spec == Init /\ [][Next]_vars

-----------------------------------------------------------------------------
Frames ==
  [op : {"edit"}, project : Projects, n : Canvases]
    \cup [op : {"save", "load", "run", "delete", "dropGraph"}, project : Projects, n : {0}]
    \cup [op : {"accept", "reject"}, project : {None}, n : 0..MaxRuns]

(* Every field has its type. *)
TypeOK ==
  /\ active \in [Clients -> Projects]
  /\ timer \in [Clients -> BOOLEAN] /\ up \in [Clients -> BOOLEAN]
  /\ offer \in [Clients -> 0..MaxRuns]
  /\ queue \in [Clients -> Seq(Frames)] /\ \A c \in Clients : Len(queue[c]) <= MaxQueue
  /\ canvas \in Canvases /\ edits \in Canvases /\ runs \in 0..MaxRuns
  /\ run = None \/ run \in [project : Projects, n : 1..MaxRuns]
  /\ store \in [Projects -> Canvases \cup {None}]
  /\ variants \subseteq Variants
  /\ pending \subseteq [project : Variants, n : 1..MaxRuns]
  /\ models \in [Variants -> 0..MaxRuns]
  /\ home \in Projects /\ astray \subseteq Clients /\ unsaved \in BOOLEAN
  /\ results \in [1..MaxRuns -> [home : Projects, astray : BOOLEAN] \cup {None}]

(* A save frame that reaches the coordinator names a project the canvas is *)
(* the graph of, whatever edits, switches, lost connections and restarts   *)
(* came before: unless the client was led astray, that is its last load    *)
(* was refused, it deleted its active project, or another client loaded.   *)
SavedUnderItsOwn ==
  \A c \in Clients \ astray :
    queue[c] # <<>> /\ Head(queue[c]).op = "save" => Head(queue[c]).project = home

(* When nothing is under way the warehouse holds the canvas under the      *)
(* project every client is on: no edit waits for a save that never comes.  *)
QuietIsSaved ==
  /\ \A c \in Clients : up[c] /\ queue[c] = <<>> /\ ~timer[c]
  /\ astray = {} /\ ~unsaved
  => \A c \in Clients : store[active[c]] = canvas

(* A stored graph takes the place of a canvas only when that canvas is     *)
(* stored itself: no edit made in time for a save is lost in a switch or a *)
(* reconnection, but to another client, whose save is still to come.       *)
ReplacedIsSaved ==
  \A c \in Clients :
    /\ queue[c] # <<>> /\ Head(queue[c]).op = "load" /\ run = None
    /\ store[Head(queue[c]).project] # None
    /\ astray = {} /\ ~unsaved /\ canvas # 0
    => store[home] = canvas \/ \E d \in Clients \ {c} : timer[d] \/ SavesIn(queue[d])

(* No edit is lost between the canvas and the warehouse.                    *)
Inv == TypeOK /\ QuietIsSaved /\ ReplacedIsSaved

(* A result accepted into a variant comes from a run of the variant's own  *)
(* canvas, however long the proposal waited and whatever was opened, run   *)
(* or deleted since; unless the run was asked for by a client astray.      *)
ResultOfOwnCanvas ==
  \A v \in Variants : models[v] # 0 =>
    results[models[v]].astray \/ v = results[models[v]].home

(***************************************************************************)
(* The inductive invariant behind these properties (WorkspaceProofs).      *)
(***************************************************************************)
NoLoad(q, from, to) == \A k \in from..to : q[k].op # "load"
NoDrop(q, from)     == \A k \in from..Len(q) : q[k].op # "dropGraph"

(* In a queue q of a client that is on project a, the frames from a place  *)
(* to the next load are about project p: what is saved and run is p, p is  *)
(* what the client is on if no load follows, and other projects only are   *)
(* deleted.                                                                *)
About(q, a, from, p) ==
  /\ \A j \in from..Len(q) : NoLoad(q, from, j - 1) =>
       /\ q[j].op \in {"save", "run"} => q[j].project = p
       /\ q[j].op = "dropGraph" => q[j].project # p
  /\ NoLoad(q, from, Len(q)) => a = p

(* The frames behind a load are about the project it loads, unless the     *)
(* client is lost and one of its deletions is to come.                     *)
LoadsInOrder(q, a, lost) ==
  \A i \in 1..Len(q) :
    q[i].op = "load" /\ (~lost \/ NoDrop(q, i)) => About(q, a, i + 1, q[i].project)

(* The frames before the first load of a client that is not astray are     *)
(* about the project on the canvas.                                        *)
InOrder(c) ==
  /\ ~up[c] => queue[c] = <<>>
  /\ LoadsInOrder(queue[c], active[c], c \in astray)
  /\ up[c] /\ c \notin astray => About(queue[c], active[c], 1, home)
FramesInOrder == \A c \in Clients : InOrder(c)

(* A client with queue q, and a save pending if t, saves what it did up to *)
(* a place of its queue before it loads anything else.                     *)
SavesFrom(q, t, from) ==
  \/ t /\ NoLoad(q, from, Len(q))
  \/ \E j \in from..Len(q) : q[j].op = "save" /\ NoLoad(q, from, j)

EditsFollowed(q, t) == \A i \in 1..Len(q) : q[i].op = "edit" => SavesFrom(q, t, i)
EditsAreFollowed == \A c \in Clients : EditsFollowed(queue[c], timer[c])

(* Nobody has loaded anything since the coordinator was started.           *)
Untouched ==
  /\ canvas = 0 /\ run = None
  /\ \A c \in Clients : up[c] => queue[c] # <<>> /\ Head(queue[c]).op = "load"

(* A canvas that is not stored under its project is about to be.           *)
UnsavedHasCause ==
  astray = {} /\ ~unsaved /\ store[home] # canvas =>
    Untouched \/ \E c \in Clients : up[c] /\ SavesFrom(queue[c], timer[c], 1)

(* Run n was started on project p, or by a client astray.                  *)
StartedOn(p, n) ==
  n \in 1..runs /\ (results[n].astray \/ p = results[n].home)

ResultsFollowRuns ==
  /\ run # None => StartedOn(run.project, run.n)
  /\ \A p \in pending : StartedOn(p.project, p.n)
  /\ \A v \in Variants : models[v] # 0 => StartedOn(v, models[v])

(* Queues, canvas, store and results hang together after every frame.      *)
Core == TypeOK /\ FramesInOrder /\ EditsAreFollowed /\ UnsavedHasCause /\ ResultsFollowRuns
IInv == Core /\ Inv
=============================================================================
