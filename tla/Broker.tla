-------------------------------- MODULE Broker --------------------------------
(***************************************************************************)
(* MessageBroker (server/broker.ts): the sockets of the user interfaces,   *)
(* to which it broadcasts, and the sockets of remote workers, which enter  *)
(* and leave the workers map.  The coordinator behind it is another        *)
(* module; here are the transport's variables and the worker plane.        *)
(***************************************************************************)
EXTENDS Integers, Sequences

CONSTANTS Tabs,       (* user interface clients                           *)
          Machines,   (* worker sockets, each used for one connection     *)
          WorkerIds,  (* ids a worker may register under                  *)
          Nobody

ASSUME BrokerAssumption == Nobody \notin Machines \cup WorkerIds

VARIABLES pages,    (* tabs whose page is loaded                            *)
          ui,       (* uiClients: tabs whose socket is open                *)
          up,       (* ops on their way to the coordinator, per tab        *)
          down,     (* events on their way to a tab                        *)
          seen,     (* store.workers: the ids a tab shows                  *)
          line,     (* worker socket: "closed" (not yet), "open", "gone"   *)
          handle,   (* the id of acceptWorker's handle, or Nobody          *)
          workers,  (* the workers map: id -> socket or Nobody             *)
          left,     (* bound: inputs of each kind that may still come      *)
          (* history, read by the properties only *)
          taken     (* pairs of a socket and an id it registered           *)

workerVars == <<pages, line, handle, workers, taken>>

Use(kind) == left[kind] > 0 /\ left' = [left EXCEPT ![kind] = @ - 1]

(* broadcast: only open sockets get the event. *)
Broadcast(queues, event) ==
  [t \in Tabs |-> IF t \in ui THEN Append(queues[t], event) ELSE queues[t]]

(* listWorkers, as an event. *)
WorkersEvent(map) == [ev |-> "workers", ids |-> { i \in WorkerIds : map[i] # Nobody }]

(* Pages may be connected already, and have read what they were sent. *)
BrokerInit ==
  /\ pages \in SUBSET Tabs /\ ui \in {{}, pages} /\ up = [t \in Tabs |-> <<>>] /\ down = [t \in Tabs |-> <<>>]
  /\ seen = [t \in Tabs |-> {}]
  /\ line = [m \in Machines |-> "closed"] /\ handle = [m \in Machines |-> Nobody]
  /\ workers = [i \in WorkerIds |-> Nobody] /\ taken = {}

(* onUiConnect: of what a new tab is sent, the list of workers. *)
Greeting == <<WorkersEvent(workers)>>

(* acceptUi with onUiConnect, then ws.onopen of the tab: connect() asks for   *)
(* the session list; what it does for the canvas is in module Workspace.      *)
Connect(t) ==
  /\ t \in pages \ ui
  /\ ui' = ui \cup {t}
  /\ down' = [down EXCEPT ![t] = Greeting]
  /\ UNCHANGED <<up, seen, workerVars, left>>

(* The socket closes: what was on its way is lost. *)
Drop(t) ==
  /\ t \in ui /\ Use("drop")
  /\ ui' = ui \ {t}
  /\ up' = [up EXCEPT ![t] = <<>>] /\ down' = [down EXCEPT ![t] = <<>>]
  /\ UNCHANGED <<seen, workerVars>>

(* A worker connects and registers.  A machine that lost its connection comes *)
(* back on a new socket under the same id, often before the old one is known  *)
(* to be closed; one socket may register again under another id.              *)
Register(m, i) ==
  /\ line[m] # "gone" /\ Use("register")
  /\ line' = [line EXCEPT ![m] = "open"]
  /\ handle' = [handle EXCEPT ![m] = i]
  /\ workers' = [workers EXCEPT ![i] = m]
  /\ taken' = taken \cup {<<m, i>>}
  /\ down' = Broadcast(down, WorkersEvent(workers'))
  /\ UNCHANGED <<pages, ui, up, seen>>

(* An event of a registered worker is mirrored to every tab. *)
Report(m) ==
  /\ line[m] = "open" /\ handle[m] # Nobody /\ Use("report")
  /\ down' = Broadcast(down, [ev |-> "worker_event", id |-> handle[m]])
  /\ UNCHANGED <<ui, up, seen, workerVars>>

(* Mutant: the close handler forgets the entry. *)
HangUpQuietly(m) ==
  /\ line[m] = "open"
  /\ line' = [line EXCEPT ![m] = "gone"]
  /\ UNCHANGED <<pages, ui, up, down, seen, handle, workers, taken, left>>

(* The close handler deletes the handle's id, whoever holds it now. *)
HangUp(m) ==
  /\ line[m] = "open"
  /\ line' = [line EXCEPT ![m] = "gone"]
  /\ workers' = [workers EXCEPT ![handle[m]] = Nobody]
  /\ down' = Broadcast(down, WorkersEvent(workers'))
  /\ UNCHANGED <<pages, ui, up, seen, handle, taken, left>>

WorkerNext == \E m \in Machines : \/ \E i \in WorkerIds : Register(m, i)
                                  \/ Report(m) \/ HangUp(m)

-----------------------------------------------------------------------------
(* The workers map is the set of live workers: an entry's socket is open     *)
(* unless that socket registered again under another id, and an open         *)
(* socket's id is entered with it unless another socket took that id.        *)
WorkersAreLive ==
  /\ \A i \in WorkerIds : workers[i] # Nobody =>
       line[workers[i]] = "open" \/ handle[workers[i]] # i
  /\ \A m \in Machines : line[m] = "open" /\ workers[handle[m]] # m =>
       \E n \in Machines \ {m} : <<n, handle[m]>> \in taken

(* A connected tab that has read everything shows the workers there are.     *)
WorkersShown ==
  \A t \in ui : (\A j \in DOMAIN down[t] : down[t][j].ev # "workers")
                  => seen[t] = WorkersEvent(workers).ids

(* Both: the list of workers is right at the broker and in every tab.        *)
WorkersTable == WorkersAreLive /\ WorkersShown

(***************************************************************************)
(* Broker's part of the inductive invariant (ChatProofs).                  *)
(***************************************************************************)

(* Types of the worker plane; an open socket has a handle, and what a        *)
(* socket's handle names it did register.                                    *)
BrokerTypeOK ==
  /\ pages \subseteq Tabs /\ ui \subseteq Tabs
  /\ seen \in [Tabs -> SUBSET WorkerIds]
  /\ line \in [Machines -> {"closed", "open", "gone"}]
  /\ handle \in [Machines -> WorkerIds \cup {Nobody}]
  /\ workers \in [WorkerIds -> Machines \cup {Nobody}]
  /\ taken \subseteq Machines \X WorkerIds
  /\ \A m \in Machines : /\ handle[m] # Nobody => <<m, handle[m]>> \in taken
                         /\ line[m] = "open" => handle[m] # Nobody

(* The last list of workers on its way to a tab is the list there is, or    *)
(* none is on its way and the tab shows the list there is.                   *)
NoList(events) == \A i \in DOMAIN events : events[i].ev # "workers"
IsLast(list, events, i) ==
  /\ events[i] = list
  /\ \A j \in DOMAIN events : j > i => events[j].ev # "workers"
Told(t) ==
  \/ NoList(down[t]) /\ seen[t] = WorkersEvent(workers).ids
  \/ \E i \in DOMAIN down[t] : IsLast(WorkersEvent(workers), down[t], i)
=============================================================================
