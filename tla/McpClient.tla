------------------------------ MODULE McpClient ------------------------------
(***************************************************************************)
(* The MCP bridge of server/mcp.ts: the tool registry of createMcpHandler, *)
(* its map of connected servers and the StdioMcpClients behind it, each    *)
(* bound to one child process.  A connect is one asynchronous call: it     *)
(* closes the client the map holds, spawns, awaits the handshake, enters   *)
(* the new client in the map, awaits tools/list and replaces the server's  *)
(* tools; between two awaits anything else may run.                        *)
(*                                                                         *)
(* A frame counts from the moment its newline is read, so the buffer of    *)
(* partial lines is not modelled.  A child that was killed may go on       *)
(* answering (it may handle the signal), and what it wrote may be read     *)
(* after its exit was reported: the two events are not ordered.            *)
(***************************************************************************)
EXTENDS Integers, Sequences

CONSTANTS Servers,     (* names under which servers are connected       *)
          Tools,       (* names a server's tools/list may return        *)
          MaxConnects, (* bound: calls of connectToMcpServer            *)
          MaxCalls,    (* bound: tools/call requests                    *)
          MaxCloses,   (* bound: calls of disconnectMcpServer           *)
          None

ASSUME McpAssumption ==
  /\ MaxConnects \in Nat /\ MaxCalls \in Nat /\ MaxCloses \in Nat
  /\ None \notin Servers \cup 1..MaxConnects

Clients == 1..MaxConnects   (* a client is named by the connect that made it *)

VARIABLES stage,    (* where the connect stands: "unborn", "spawning",
                       "initializing", "listing", "done" or "failed"      *)
          owner,    (* client.name                                        *)
          held,     (* client.proc is not null                            *)
          child,    (* the process: "none", "running", "exited"           *)
          pending,  (* client.pending: ids with a promise and a timer     *)
          nextId,   (* client.nextId                                      *)
          asked,    (* ids of the requests the child has read             *)
          stdout,   (* frames the child wrote and that were not read yet  *)
          clients,  (* the map of the handler: name -> client or None     *)
          registry, (* external tools: name, server and the client whose
                       closure runs it                                    *)
          closes,   (* disconnects so far                                 *)
          (* history, read by the properties only *)
          settled,  (* ids whose promise was resolved or rejected         *)
          overlap   (* names with a connect or a disconnect that began
                       while a connect under the name was unfinished      *)

mcpVars == <<stage, owner, held, child, pending, nextId, asked, stdout,
             clients, registry, closes, settled, overlap>>
process == <<child, stdout>>

(* The ids of the two requests of a connect: no other can come before them. *)
InitializeId == 1
ListId == 2

Unfinished == {"spawning", "initializing", "listing"}
Frame == [id : Nat, ok : BOOLEAN, tools : SUBSET Tools]

TypeOK ==
  /\ stage \in [Clients -> {"unborn", "done", "failed"} \cup Unfinished]
  /\ owner \in [Clients -> Servers \cup {None}]
  /\ held \in [Clients -> BOOLEAN]
  /\ child \in [Clients -> {"none", "running", "exited"}]
  /\ pending \in [Clients -> SUBSET (1..MaxCalls+2)]
  /\ nextId \in [Clients -> 1..MaxCalls+3]
  /\ asked \in [Clients -> SUBSET (1..MaxCalls+2)]
  /\ stdout \in [Clients -> Seq(Frame)]
  /\ clients \in [Servers -> Clients \cup {None}]
  /\ registry \in SUBSET [name : Tools, server : Servers, client : Clients]
  /\ closes \in 0..MaxCloses
  /\ settled \in [Clients -> SUBSET (1..MaxCalls+2)]
  /\ overlap \in SUBSET Servers

Init ==
  /\ stage = [c \in Clients |-> "unborn"] /\ owner = [c \in Clients |-> None]
  /\ held = [c \in Clients |-> FALSE] /\ child = [c \in Clients |-> "none"]
  /\ pending = [c \in Clients |-> {}] /\ nextId = [c \in Clients |-> 1]
  /\ asked = [c \in Clients |-> {}] /\ stdout = [c \in Clients |-> <<>>]
  /\ clients = [s \in Servers |-> None] /\ registry = {} /\ closes = 0
  /\ settled = [c \in Clients |-> {}] /\ overlap = {}

(* get alive: the process is held and has no exit code. *)
Alive(c) == held[c] /\ child[c] = "running"

(* request, when the client is alive: a new id, a promise, a timer, a write. *)
Request(c, pend) ==
  /\ nextId' = [nextId EXCEPT ![c] = @ + 1]
  /\ pending' = [pending EXCEPT ![c] = pend \cup {nextId[c]}]
  /\ asked' = [asked EXCEPT ![c] = @ \cup {nextId[c]}]

NoRequest(c, pend) ==
  /\ pending' = [pending EXCEPT ![c] = pend]
  /\ UNCHANGED <<nextId, asked>>

(* Mutant: only the tools found again are replaced. *)
SyncToolsByName(c, found) ==
  registry' = { t \in registry : ~(t.server = owner[c] /\ t.name \in found) }
                \cup [name : found, server : {owner[c]}, client : {c}]

(* The part of syncServerTools after its await. *)
SyncTools(c, found) ==
  registry' = { t \in registry : t.server # owner[c] }
                \cup [name : found, server : {owner[c]}, client : {c}]

-----------------------------------------------------------------------------
(* What the code awaiting request id of client c does once it is resolved. *)
Resolved(c, id, found) ==
  /\ settled' = [settled EXCEPT ![c] = @ \cup {id}]
  /\ \/ /\ id = InitializeId  (* enter the client, ask for its tools *)
        /\ clients' = [clients EXCEPT ![owner[c]] = c]
        /\ UNCHANGED registry
        /\ IF Alive(c)
           THEN Request(c, pending[c] \ {id}) /\ stage' = [stage EXCEPT ![c] = "listing"]
           ELSE NoRequest(c, pending[c] \ {id}) /\ stage' = [stage EXCEPT ![c] = "failed"]
     \/ /\ id = ListId
        /\ SyncTools(c, found)
        /\ stage' = [stage EXCEPT ![c] = "done"]
        /\ NoRequest(c, pending[c] \ {id})
        /\ UNCHANGED clients
     \/ /\ id > ListId        (* a tools/call is answered *)
        /\ NoRequest(c, pending[c] \ {id})
        /\ UNCHANGED <<stage, clients, registry>>

(* Mutant: a rejected promise stays in the table of pending requests. *)
RejectedKept(c, ids) ==
  /\ settled' = [settled EXCEPT ![c] = @ \cup ids]
  /\ stage' = [stage EXCEPT ![c] =
       IF ids \cap {InitializeId, ListId} # {} THEN "failed" ELSE @]
  /\ UNCHANGED <<pending, nextId, asked, clients, registry>>

(* The same when requests ids are rejected: a connect whose initialize or    *)
(* tools/list fails throws, and leaves child, map and registry as they are.  *)
Rejected(c, ids) ==
  /\ settled' = [settled EXCEPT ![c] = @ \cup ids]
  /\ stage' = [stage EXCEPT ![c] =
       IF ids \cap {InitializeId, ListId} # {} THEN "failed" ELSE @]
  /\ NoRequest(c, pending[c] \ ids)
  /\ UNCHANGED <<clients, registry>>

-----------------------------------------------------------------------------
(* Requests under name s that begin now and find a connect unfinished. *)
Overlapping(s) ==
  IF \E c \in Clients : owner[c] = s /\ stage[c] \in Unfinished
  THEN overlap \cup {s} ELSE overlap

(* Mutant: the replaced client is left as it is. *)
ClosedNone(s) == {}

(* close of the client the map holds under s: the child is signalled and     *)
(* forgotten at once, what awaits its answers is not.                        *)
Closed(s) == { c \in Clients : clients[s] = c }

(* servers/connect, up to the first await. *)
Connect(c, s) ==
  /\ stage[c] = "unborn" /\ \A b \in 1..(c-1) : stage[b] # "unborn"
  /\ stage' = [stage EXCEPT ![c] = "spawning"]
  /\ owner' = [owner EXCEPT ![c] = s]
  /\ held' = [b \in Clients |-> IF b = c THEN TRUE
                                ELSE held[b] /\ b \notin Closed(s)]
  /\ overlap' = Overlapping(s)
  /\ UNCHANGED <<process, pending, nextId, asked, clients, registry, closes, settled>>

(* The "spawn" event: the child runs and is sent initialize. *)
Spawned(c) ==
  /\ stage[c] = "spawning"
  /\ child' = [child EXCEPT ![c] = "running"]
  /\ stage' = [stage EXCEPT ![c] = "initializing"]
  /\ Request(c, pending[c])
  /\ UNCHANGED <<owner, held, stdout, clients, registry, closes, settled, overlap>>

(* The "error" event: there is no such executable. *)
SpawnError(c) ==
  /\ stage[c] = "spawning"
  /\ child' = [child EXCEPT ![c] = "exited"]
  /\ stage' = [stage EXCEPT ![c] = "failed"]
  /\ UNCHANGED <<owner, held, pending, nextId, asked, stdout, clients, registry,
                 closes, settled, overlap>>

(* servers/disconnect. *)
Disconnect(s) ==
  /\ closes < MaxCloses
  /\ closes' = closes + 1
  /\ held' = [c \in Clients |-> held[c] /\ c \notin Closed(s)]
  /\ clients' = [clients EXCEPT ![s] = None]
  /\ registry' = { t \in registry : t.server # s }
  /\ overlap' = Overlapping(s)
  /\ UNCHANGED <<stage, owner, process, pending, nextId, asked, settled>>

(* tools/call of a registered tool.  A client that is not alive refuses.  *)
CallTool(t) ==
  /\ t \in registry
  /\ Alive(t.client) /\ nextId[t.client] <= MaxCalls + 2
  /\ Request(t.client, pending[t.client])
  /\ UNCHANGED <<stage, owner, held, process, clients, registry, closes, settled, overlap>>

-----------------------------------------------------------------------------
(* The child answers a request it has read, with any outcome. *)
ChildWrites(c, id, ok, found) ==
  /\ child[c] = "running" /\ id \in asked[c]
  /\ found # {} => id = ListId /\ ok
  /\ asked' = [asked EXCEPT ![c] = @ \ {id}]
  /\ stdout' = [stdout EXCEPT ![c] = Append(@, [id |-> id, ok |-> ok, tools |-> found])]
  /\ UNCHANGED <<stage, owner, held, child, pending, nextId, clients, registry,
                 closes, settled, overlap>>

(* onData, for one frame: the reply of a request that is no longer pending   *)
(* is dropped.                                                               *)
OnData(c) ==
  /\ stdout[c] # <<>>
  /\ stdout' = [stdout EXCEPT ![c] = Tail(@)]
  /\ LET frame == Head(stdout[c]) IN
     \/ /\ frame.id \notin pending[c]
        /\ UNCHANGED <<stage, pending, nextId, asked, clients, registry, settled>>
     \/ frame.id \in pending[c] /\ frame.ok /\ Resolved(c, frame.id, frame.tools)
     \/ frame.id \in pending[c] /\ ~frame.ok /\ Rejected(c, {frame.id})
  /\ UNCHANGED <<owner, held, child, closes, overlap>>

(* Mutant: a request that timed out is forgotten without a word. *)
TimesOutSilently(c, id) ==
  /\ id \in pending[c]
  /\ pending' = [pending EXCEPT ![c] = @ \ {id}]
  /\ UNCHANGED <<stage, owner, held, process, nextId, asked, clients, registry,
                 closes, settled, overlap>>

(* The timer of a request fires. *)
TimesOut(c, id) ==
  /\ id \in pending[c]
  /\ Rejected(c, {id})
  /\ UNCHANGED <<owner, held, process, closes, overlap>>

(* The child is gone and "exit" is handled. *)
Exits(c) ==
  /\ child[c] = "running"
  /\ child' = [child EXCEPT ![c] = "exited"]
  /\ held' = [held EXCEPT ![c] = FALSE]
  /\ Rejected(c, pending[c])
  /\ UNCHANGED <<owner, stdout, closes, overlap>>

-----------------------------------------------------------------------------
Next ==
  \/ \E c \in Clients, s \in Servers : Connect(c, s)
  \/ \E c \in Clients : Spawned(c) \/ SpawnError(c) \/ OnData(c) \/ Exits(c)
  \/ \E s \in Servers : Disconnect(s)
  \/ \E t \in registry : CallTool(t)
  \/ \E c \in Clients, id \in 1..(MaxCalls + 2), ok \in BOOLEAN, found \in SUBSET Tools :
       ChildWrites(c, id, ok, found)
  \/ \E c \in Clients, id \in 1..(MaxCalls + 2) : TimesOut(c, id)

(* A spawn is reported one way or the other and timers fire; a child need    *)
(* never answer and need not die of the signal.                              *)
Fairness ==
  /\ \A c \in Clients : WF_mcpVars(Spawned(c) \/ SpawnError(c))
  /\ \A c \in Clients, id \in 1..(MaxCalls + 2) : WF_mcpVars(TimesOut(c, id))

Spec == Init /\ [][Next]_mcpVars /\ Fairness

-----------------------------------------------------------------------------
(* Every request has exactly one fate: its promise is still pending, or it   *)
(* was settled, and never both, however its reply, its timer and the exit of *)
(* the child are ordered.                                                    *)
OneFate ==
  \A c \in Clients : /\ pending[c] \cap settled[c] = {}
                     /\ pending[c] \cup settled[c] = 1..(nextId[c] - 1)

(* The tools a server has in the registry are run by one client: those of an *)
(* earlier connection are gone once those of another are entered.            *)
OneRunner ==
  \A t, u \in registry : t.server = u.server => t.client = u.client

(* Requests and registered tools keep to one client and one fate.            *)
Inv == TypeOK /\ OneFate /\ OneRunner

(* A child that still runs, was never signalled and belongs to no unfinished *)
(* connect is the one the map holds, so that a disconnect can reach it; the  *)
(* exceptions are a handshake that failed after the spawn, which closes      *)
(* nothing, and operations that overlapped under the name.                   *)
Orphan(c) ==
  /\ Alive(c) /\ stage[c] \notin Unfinished /\ clients[owner[c]] # c
HandshakeFailed(c) == stage[c] = "failed" /\ ListId \notin settled[c]
OrphanHasCause ==
  \A c \in Clients : Orphan(c) => HandshakeFailed(c) \/ owner[c] \in overlap

(* A registered tool is run by the client the map holds for its server, as   *)
(* soon as the connect that entered that client has succeeded: while it is   *)
(* unfinished, and if it fails, the tools of the connection before it stay.  *)
(* Operations that overlap under the name are excepted (a tools/list that is *)
(* answered after a disconnect registers the tools of a server that is gone).*)
(* Nothing is said of the child: the tools of one that exited stay.          *)
ToolsFollowTheMap ==
  \A t \in registry :
    \/ clients[t.server] = t.client
    \/ clients[t.server] # None /\ stage[clients[t.server]] # "done"
    \/ t.server \in overlap

(* A connect ends, with success or an error, and so does every request,      *)
(* although the child may neither answer nor exit.                           *)
CallsSettle ==
  /\ \A c \in Clients : stage[c] \in Unfinished ~> stage[c] \notin Unfinished
  /\ \A c \in Clients, id \in 1..(MaxCalls + 2) : id \in pending[c] ~> id \in settled[c]

(***************************************************************************)
(* The inductive invariant behind the safety properties (McpClientProofs). *)
(***************************************************************************)

(* The stage of a connect says which of its two requests is pending, and so  *)
(* how far its ids have come; a connect that has not begun holds nothing.    *)
Handshake ==
  \A c \in Clients :
    /\ stage[c] = "unborn" <=> owner[c] = None
    /\ stage[c] = "unborn" => ~held[c]
    /\ InitializeId \in pending[c] <=> stage[c] = "initializing"
    /\ ListId \in pending[c] <=> stage[c] = "listing"
    /\ stage[c] \in {"unborn", "spawning"} => nextId[c] = 1
    /\ stage[c] = "initializing" => nextId[c] = 2
    /\ stage[c] = "listing" => nextId[c] = 3
    /\ stage[c] = "done" => nextId[c] >= 3

(* A client in the map and a client that runs a tool belong to the name they *)
(* are found under, and tools are registered by connects that succeeded.     *)
UnderOwnName ==
  /\ \A s \in Servers : clients[s] # None => owner[clients[s]] = s
  /\ \A t \in registry : stage[t.client] = "done" /\ owner[t.client] = t.server

(* The client was in the map at some time. *)
Entered(c) == stage[c] \in {"listing", "done"} \/ ListId \in settled[c]

(* Where no operations overlapped under a name: a client that was entered and*)
(* not signalled is still in the map, as is one whose tools are being listed;*)
(* and while a connect is unfinished it is the only one, every client that   *)
(* was entered before it having been signalled.                              *)
OneConnect ==
  \A c \in Clients : owner[c] # None /\ owner[c] \notin overlap =>
    /\ (Entered(c) /\ held[c]) \/ stage[c] = "listing" => clients[owner[c]] = c
    /\ stage[c] \in Unfinished => \A d \in Clients \ {c} : owner[d] = owner[c] =>
         stage[d] \notin Unfinished /\ ~(Entered(d) /\ held[d])

(* The client's table, the handler's map and the registry hang together at   *)
(* every await, whatever a child does and however operations overlap.        *)
IInv == Inv /\ Handshake /\ UnderOwnName /\ OneConnect /\ ToolsFollowTheMap
=============================================================================
