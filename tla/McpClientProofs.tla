---------------------------- MODULE McpClientProofs ----------------------------
(***************************************************************************)
(* Proofs about McpClient, for every set of server names and tools and any *)
(* number of connects, calls and disconnects.                              *)
(***************************************************************************)
EXTENDS McpClient, SequenceTheorems, TLAPS

(* The initial state satisfies the inductive invariant. *)
LEMMA InitInvariant == Init => IInv
<1>. SUFFICES ASSUME Init PROVE IInv
  OBVIOUS
<1>. USE McpAssumption DEF Init, Clients
<1>1. TypeOK
  BY DEF TypeOK, Unfinished, Frame
<1>2. OneFate /\ OneRunner
  BY DEF OneFate, OneRunner
<1>3. Handshake
  BY DEF Handshake, InitializeId, ListId
<1>4. UnderOwnName /\ OneConnect /\ ToolsFollowTheMap
  BY DEF UnderOwnName, OneConnect, ToolsFollowTheMap, Unfinished
<1>. QED
  BY <1>1, <1>2, <1>3, <1>4 DEF IInv, Inv

-----------------------------------------------------------------------------
(* What reads a frame: it is dropped, resolves a pending request or rejects one. *)
LEMMA FrameRead ==
  ASSUME TypeOK, NEW c \in Clients, OnData(c)
  PROVE  /\ stdout' \in [Clients -> Seq(Frame)]
         /\ UNCHANGED <<owner, held, child, closes, overlap>>
         /\ \/ UNCHANGED <<stage, pending, nextId, asked, clients, registry, settled>>
            \/ \E id \in pending[c], found \in SUBSET Tools : Resolved(c, id, found)
            \/ \E id \in pending[c] : Rejected(c, {id})
<1>0. Head(stdout[c]) \in Frame /\ Tail(stdout[c]) \in Seq(Frame)
  BY HeadTailProperties DEF OnData, TypeOK
<1>1. Head(stdout[c]).tools \in SUBSET Tools
  BY <1>0 DEF Frame
<1>2. stdout' \in [Clients -> Seq(Frame)]
  BY <1>0 DEF OnData, TypeOK
<1>. QED
  BY <1>1, <1>2 DEF OnData

(* A request takes the next id, if there is one. *)
LEMMA RequestType ==
  ASSUME TypeOK, NEW c \in Clients, NEW pend \in SUBSET (1..MaxCalls+2),
         nextId[c] <= MaxCalls + 2, Request(c, pend)
  PROVE  /\ nextId' \in [Clients -> 1..MaxCalls+3]
         /\ pending' \in [Clients -> SUBSET (1..MaxCalls+2)]
         /\ asked' \in [Clients -> SUBSET (1..MaxCalls+2)]
<1>1. nextId[c] \in 1..MaxCalls+2 /\ nextId[c] + 1 \in 1..MaxCalls+3
  BY McpAssumption DEF TypeOK
<1>. QED
  BY <1>1 DEF TypeOK, Request

(* The tools of one server are replaced by tools that it listed. *)
LEMMA SyncType ==
  ASSUME TypeOK, NEW c \in Clients, owner[c] \in Servers, NEW found \in SUBSET Tools,
         SyncTools(c, found)
  PROVE  registry' \in SUBSET [name : Tools, server : Servers, client : Clients]
  BY DEF TypeOK, SyncTools

(* Every step keeps the fields well typed. *)
LEMMA TypeStep == IInv /\ [Next]_mcpVars => TypeOK'
<1>. SUFFICES ASSUME TypeOK, Handshake, UnderOwnName, [Next]_mcpVars PROVE TypeOK'
  BY DEF IInv, Inv
<1>. USE McpAssumption DEF Unfinished, process
<1>1. ASSUME NEW c \in Clients, NEW s \in Servers, Connect(c, s) PROVE TypeOK'
  BY <1>1 DEF TypeOK, Connect, Overlapping
<1>2. ASSUME NEW c \in Clients, Spawned(c) PROVE TypeOK'
  <2>1. nextId[c] <= MaxCalls + 2 /\ pending[c] \in SUBSET (1..MaxCalls+2)
    BY <1>2 DEF TypeOK, Spawned, Handshake
  <2>. QED
    BY <1>2, <2>1, RequestType DEF TypeOK, Spawned
<1>3. ASSUME NEW c \in Clients, SpawnError(c) PROVE TypeOK'
  BY <1>3 DEF TypeOK, SpawnError
<1>4. ASSUME NEW s \in Servers, Disconnect(s) PROVE TypeOK'
  BY <1>4 DEF TypeOK, Disconnect, Overlapping
<1>5. ASSUME NEW t \in registry, CallTool(t) PROVE TypeOK'
  <2>1. t.client \in Clients /\ pending[t.client] \in SUBSET (1..MaxCalls+2)
    BY DEF TypeOK
  <2>. QED
    BY <1>5, <2>1, RequestType DEF TypeOK, CallTool
<1>6. ASSUME NEW c \in Clients, NEW id \in 1..(MaxCalls + 2), NEW ok \in BOOLEAN,
             NEW found \in SUBSET Tools, ChildWrites(c, id, ok, found)
      PROVE  TypeOK'
  <2>1. [id |-> id, ok |-> ok, tools |-> found] \in Frame
    BY DEF Frame
  <2>2. stdout' \in [Clients -> Seq(Frame)]
    BY <1>6, <2>1 DEF TypeOK, ChildWrites
  <2>. QED
    BY <1>6, <2>2 DEF TypeOK, ChildWrites
<1>7. ASSUME NEW c \in Clients, OnData(c) PROVE TypeOK'
  <2>0. /\ stdout' \in [Clients -> Seq(Frame)]
        /\ UNCHANGED <<owner, held, child, closes, overlap>>
    BY <1>7, FrameRead
  <2>1. CASE UNCHANGED <<stage, pending, nextId, asked, clients, registry, settled>>
    BY <2>0, <2>1 DEF TypeOK
  <2>2. ASSUME NEW id \in pending[c], NEW found \in SUBSET Tools, Resolved(c, id, found)
        PROVE  TypeOK'
    <3>1. pending[c] \ {id} \in SUBSET (1..MaxCalls+2) /\ id \in 1..MaxCalls+2
      BY DEF TypeOK
    <3>2. settled' \in [Clients -> SUBSET (1..MaxCalls+2)]
      BY <2>2, <3>1 DEF TypeOK, Resolved
    <3>3. owner[c] # None => owner[c] \in Servers
      BY DEF TypeOK
    <3>4. CASE id = InitializeId
      <4>1. nextId[c] <= MaxCalls + 2 /\ owner[c] \in Servers
        BY <3>4, <3>3 DEF TypeOK, Handshake
      <4>2. /\ clients' = [clients EXCEPT ![owner[c]] = c] /\ UNCHANGED registry
            /\ stage' \in {[stage EXCEPT ![c] = "listing"], [stage EXCEPT ![c] = "failed"]}
            /\ Request(c, pending[c] \ {id}) \/ NoRequest(c, pending[c] \ {id})
        BY <2>2, <3>4 DEF Resolved, InitializeId, ListId
      <4>3. /\ nextId' \in [Clients -> 1..MaxCalls+3]
            /\ pending' \in [Clients -> SUBSET (1..MaxCalls+2)]
            /\ asked' \in [Clients -> SUBSET (1..MaxCalls+2)]
        <5>1. CASE Request(c, pending[c] \ {id})
          BY <3>1, <4>1, <5>1, RequestType
        <5>2. CASE NoRequest(c, pending[c] \ {id})
          BY <3>1, <5>2 DEF TypeOK, NoRequest
        <5>. QED
          BY <4>2, <5>1, <5>2
      <4>4. stage' \in [Clients -> {"unborn", "done", "failed"} \cup Unfinished]
        BY <4>2 DEF TypeOK
      <4>5. /\ clients' \in [Servers -> Clients \cup {None}]
            /\ registry' \in SUBSET [name : Tools, server : Servers, client : Clients]
        BY <4>1, <4>2 DEF TypeOK
      <4>. QED
        BY <2>0, <3>2, <4>3, <4>4, <4>5 DEF TypeOK
    <3>5. CASE id = ListId
      <4>1. owner[c] \in Servers
        BY <3>5, <3>3 DEF TypeOK, Handshake
      <4>2. /\ SyncTools(c, found) /\ NoRequest(c, pending[c] \ {id}) /\ UNCHANGED clients
            /\ stage' = [stage EXCEPT ![c] = "done"]
        BY <2>2, <3>5 DEF Resolved, InitializeId, ListId
      <4>3. registry' \in SUBSET [name : Tools, server : Servers, client : Clients]
        BY <4>1, <4>2, SyncType
      <4>. QED
        BY <2>0, <3>1, <3>2, <4>2, <4>3 DEF TypeOK, NoRequest
    <3>6. CASE id > ListId
      <4>1. NoRequest(c, pending[c] \ {id}) /\ UNCHANGED <<stage, clients, registry>>
        BY <2>2, <3>6 DEF Resolved, InitializeId, ListId
      <4>. QED
        BY <2>0, <3>1, <3>2, <4>1 DEF TypeOK, NoRequest
    <3>. QED
      BY <3>1, <3>4, <3>5, <3>6 DEF InitializeId, ListId
  <2>3. ASSUME NEW id \in pending[c], Rejected(c, {id}) PROVE TypeOK'
    BY <2>0, <2>3 DEF TypeOK, Rejected, NoRequest
  <2>. QED
    BY <1>7, <2>1, <2>2, <2>3, FrameRead
<1>8. ASSUME NEW c \in Clients, NEW id \in 1..(MaxCalls + 2), TimesOut(c, id) PROVE TypeOK'
  BY <1>8 DEF TypeOK, TimesOut, Rejected, NoRequest
<1>9. ASSUME NEW c \in Clients, Exits(c) PROVE TypeOK'
  BY <1>9 DEF TypeOK, Exits, Rejected, NoRequest
<1>10. CASE UNCHANGED mcpVars
  BY <1>10 DEF TypeOK, mcpVars
<1>. QED
  BY <1>1, <1>2, <1>3, <1>4, <1>5, <1>6, <1>7, <1>8, <1>9, <1>10 DEF Next

-----------------------------------------------------------------------------
(* What resolving a request leaves: the three continuations, one by one. *)
LEMMA ResolvedInitialize ==
  ASSUME NEW c \in Clients, NEW id, NEW found, id = InitializeId, Resolved(c, id, found)
  PROVE  /\ settled' = [settled EXCEPT ![c] = @ \cup {id}]
         /\ clients' = [clients EXCEPT ![owner[c]] = c] /\ UNCHANGED registry
         /\ \/ Request(c, pending[c] \ {id}) /\ stage' = [stage EXCEPT ![c] = "listing"]
            \/ NoRequest(c, pending[c] \ {id}) /\ stage' = [stage EXCEPT ![c] = "failed"]
  BY DEF Resolved, InitializeId, ListId

(* The answer to tools/list ends a connect and enters the tools. *)
LEMMA ResolvedList ==
  ASSUME NEW c \in Clients, NEW id, NEW found, id = ListId, Resolved(c, id, found)
  PROVE  /\ settled' = [settled EXCEPT ![c] = @ \cup {id}]
         /\ SyncTools(c, found) /\ UNCHANGED clients
         /\ NoRequest(c, pending[c] \ {id}) /\ stage' = [stage EXCEPT ![c] = "done"]
  BY DEF Resolved, InitializeId, ListId

(* The answer to a call does neither. *)
LEMMA ResolvedCall ==
  ASSUME NEW c \in Clients, NEW id \in Nat, NEW found, id > ListId, Resolved(c, id, found)
  PROVE  /\ settled' = [settled EXCEPT ![c] = @ \cup {id}]
         /\ NoRequest(c, pending[c] \ {id}) /\ UNCHANGED <<stage, clients, registry>>
  BY DEF Resolved, InitializeId, ListId

(* A request gets a new id, which is then pending; settling moves ids over.  *)
LEMMA FateOfRequest ==
  ASSUME TypeOK, OneFate, NEW c \in Clients, NEW ids \in SUBSET pending[c],
         settled' = [settled EXCEPT ![c] = @ \cup ids],
         Request(c, pending[c] \ ids) \/ NoRequest(c, pending[c] \ ids)
  PROVE  OneFate'
<1>1. ASSUME NEW d \in Clients, d # c
      PROVE  /\ pending'[d] = pending[d] /\ settled'[d] = settled[d] /\ nextId'[d] = nextId[d]
  BY <1>1 DEF TypeOK, Request, NoRequest
<1>2. nextId[c] \in Nat \ {0} /\ ids \subseteq Nat /\ pending[c] \subseteq Nat
  BY McpAssumption DEF TypeOK
<1>3. settled'[c] = settled[c] \cup ids
  BY DEF TypeOK
<1>4. CASE Request(c, pending[c] \ ids)
  <2>1. pending'[c] = (pending[c] \ ids) \cup {nextId[c]} /\ nextId'[c] = nextId[c] + 1
    BY <1>4 DEF TypeOK, Request
  <2>2. pending'[c] \cap settled'[c] = {}
    BY <1>2, <1>3, <2>1 DEF OneFate
  <2>3. pending'[c] \cup settled'[c] = (1..(nextId[c] - 1)) \cup {nextId[c]}
    BY <1>3, <2>1 DEF OneFate
  <2>4. (1..(nextId[c] - 1)) \cup {nextId[c]} = 1..(nextId[c] + 1 - 1)
    BY <1>2
  <2>. QED
    BY <1>1, <2>1, <2>2, <2>3, <2>4 DEF OneFate
<1>5. CASE NoRequest(c, pending[c] \ ids)
  <2>1. pending'[c] = pending[c] \ ids /\ nextId'[c] = nextId[c]
    BY <1>5 DEF TypeOK, NoRequest
  <2>. QED
    BY <1>1, <1>3, <2>1 DEF OneFate
<1>. QED
  BY <1>4, <1>5

(* Every step keeps the fate of every request one. *)
LEMMA FateStep == IInv /\ [Next]_mcpVars => OneFate'
<1>. SUFFICES ASSUME TypeOK, OneFate, [Next]_mcpVars PROVE OneFate'
  BY DEF IInv, Inv
<1>0. ASSUME NEW c \in Clients, Request(c, pending[c]), UNCHANGED settled PROVE OneFate'
  <2>1. settled[c] \cup {} = settled[c] /\ pending[c] \ {} = pending[c]
    OBVIOUS
  <2>2. settled' = [settled EXCEPT ![c] = settled[c] \cup {}]
    BY <1>0, <2>1 DEF TypeOK
  <2>3. Request(c, pending[c] \ {}) /\ {} \in SUBSET pending[c]
    BY <1>0, <2>1 DEF Request
  <2>. QED
    BY <2>2, <2>3, FateOfRequest
<1>1. ASSUME NEW c \in Clients, NEW s \in Servers, Connect(c, s) PROVE OneFate'
  BY <1>1 DEF Connect, OneFate
<1>2. ASSUME NEW c \in Clients, Spawned(c) PROVE OneFate'
  BY <1>0, <1>2 DEF Spawned
<1>3. ASSUME NEW c \in Clients, SpawnError(c) PROVE OneFate'
  BY <1>3 DEF SpawnError, OneFate
<1>4. ASSUME NEW s \in Servers, Disconnect(s) PROVE OneFate'
  BY <1>4 DEF Disconnect, OneFate
<1>5. ASSUME NEW t \in registry, CallTool(t) PROVE OneFate'
  <2>1. t.client \in Clients
    BY DEF TypeOK
  <2>. QED
    BY <1>0, <1>5, <2>1 DEF CallTool
<1>6. ASSUME NEW c \in Clients, NEW id \in 1..(MaxCalls + 2), NEW ok \in BOOLEAN,
             NEW found \in SUBSET Tools, ChildWrites(c, id, ok, found)
      PROVE  OneFate'
  BY <1>6 DEF ChildWrites, OneFate
<1>7. ASSUME NEW c \in Clients, OnData(c) PROVE OneFate'
  <2>1. CASE UNCHANGED <<stage, pending, nextId, asked, clients, registry, settled>>
    BY <2>1 DEF OneFate
  <2>2. ASSUME NEW id \in pending[c], NEW found \in SUBSET Tools, Resolved(c, id, found)
        PROVE  OneFate'
    <3>1. /\ settled' = [settled EXCEPT ![c] = @ \cup {id}]
          /\ Request(c, pending[c] \ {id}) \/ NoRequest(c, pending[c] \ {id})
      BY <2>2 DEF Resolved
    <3>2. {id} \in SUBSET pending[c]
      OBVIOUS
    <3>. QED
      BY <3>1, <3>2, FateOfRequest
  <2>3. ASSUME NEW id \in pending[c], Rejected(c, {id}) PROVE OneFate'
    <3>1. {id} \in SUBSET pending[c]
      OBVIOUS
    <3>. QED
      BY <2>3, <3>1, FateOfRequest DEF Rejected
  <2>. QED
    BY <1>7, <2>1, <2>2, <2>3, FrameRead
<1>8. ASSUME NEW c \in Clients, NEW id \in 1..(MaxCalls + 2), TimesOut(c, id) PROVE OneFate'
  <2>1. {id} \in SUBSET pending[c]
    BY <1>8 DEF TimesOut
  <2>. QED
    BY <1>8, <2>1, FateOfRequest DEF TimesOut, Rejected
<1>9. ASSUME NEW c \in Clients, Exits(c) PROVE OneFate'
  BY <1>9, FateOfRequest DEF Exits, Rejected
<1>10. CASE UNCHANGED mcpVars
  BY <1>10 DEF mcpVars, OneFate
<1>. QED
  BY <1>1, <1>2, <1>3, <1>4, <1>5, <1>6, <1>7, <1>8, <1>9, <1>10 DEF Next
-----------------------------------------------------------------------------
(* A connect whose request is rejected has failed; other rejections leave it. *)
LEMMA HandshakeRejected ==
  ASSUME TypeOK, Handshake, NEW c \in Clients, NEW ids \in SUBSET pending[c],
         Rejected(c, ids), held' \in {held, [held EXCEPT ![c] = FALSE]}, UNCHANGED owner
  PROVE  Handshake'
<1>1. /\ pending' = [pending EXCEPT ![c] = @ \ ids] /\ UNCHANGED nextId
      /\ \A d \in Clients : held'[d] => held[d]
  BY DEF TypeOK, Rejected, NoRequest
<1>2. CASE InitializeId \notin ids /\ ListId \notin ids
  <2>1. UNCHANGED stage
    BY <1>2 DEF TypeOK, Rejected
  <2>. QED
    BY <1>1, <1>2, <2>1 DEF TypeOK, Handshake
<1>3. CASE InitializeId \in ids \/ ListId \in ids
  <2>1. stage' = [stage EXCEPT ![c] = "failed"]
    BY <1>3 DEF Rejected
  <2>2. stage[c] \in {"initializing", "listing"} /\ pending'[c] = pending[c] \ ids
    BY <1>1, <1>3 DEF TypeOK, Handshake
  <2>3. InitializeId \notin pending'[c] /\ ListId \notin pending'[c] /\ owner[c] # None
    BY <1>3, <2>2 DEF TypeOK, Handshake
  <2>. QED
    BY <1>1, <2>1, <2>3 DEF TypeOK, Handshake
<1>. QED
  BY <1>2, <1>3

(* Every step keeps the stages and the requests of the connects in accord. *)
LEMMA HandshakeStep == IInv /\ [Next]_mcpVars => Handshake'
<1>. SUFFICES ASSUME TypeOK, Handshake, UnderOwnName, [Next]_mcpVars PROVE Handshake'
  BY DEF IInv, Inv
<1>. USE McpAssumption
<1>1. ASSUME NEW c \in Clients, NEW s \in Servers, Connect(c, s) PROVE Handshake'
  BY <1>1 DEF TypeOK, Handshake, Unfinished, InitializeId, ListId, Connect
<1>2. ASSUME NEW c \in Clients, Spawned(c) PROVE Handshake'
  BY <1>2 DEF TypeOK, Handshake, Unfinished, InitializeId, ListId, Spawned, Request
<1>3. ASSUME NEW c \in Clients, SpawnError(c) PROVE Handshake'
  BY <1>3 DEF TypeOK, Handshake, Unfinished, InitializeId, ListId, SpawnError
<1>4. ASSUME NEW s \in Servers, Disconnect(s) PROVE Handshake'
  BY <1>4 DEF TypeOK, Handshake, Unfinished, InitializeId, ListId, Disconnect
<1>5. ASSUME NEW t \in registry, CallTool(t) PROVE Handshake'
  BY <1>5 DEF TypeOK, Handshake, Unfinished, InitializeId, ListId, CallTool, Request, UnderOwnName
<1>6. ASSUME NEW c \in Clients, NEW id \in 1..(MaxCalls + 2), NEW ok \in BOOLEAN,
             NEW found \in SUBSET Tools, ChildWrites(c, id, ok, found)
      PROVE  Handshake'
  BY <1>6 DEF TypeOK, Handshake, Unfinished, InitializeId, ListId, ChildWrites
<1>7. ASSUME NEW c \in Clients, OnData(c) PROVE Handshake'
  <2>0. UNCHANGED <<owner, held, child, closes, overlap>>
    BY <1>7, FrameRead
  <2>1. CASE UNCHANGED <<stage, pending, nextId, asked, clients, registry, settled>>
    BY <2>0, <2>1 DEF TypeOK, Handshake, Unfinished, InitializeId, ListId
  <2>2. ASSUME NEW id \in pending[c], NEW found \in SUBSET Tools, Resolved(c, id, found)
        PROVE  Handshake'
    <3>1. id \in Nat
      BY DEF TypeOK
    <3>2. CASE id = InitializeId
      <4>1. /\ settled' = [settled EXCEPT ![c] = @ \cup {id}]
            /\ clients' = [clients EXCEPT ![owner[c]] = c] /\ UNCHANGED registry
            /\ \/ Request(c, pending[c] \ {id}) /\ stage' = [stage EXCEPT ![c] = "listing"]
               \/ NoRequest(c, pending[c] \ {id}) /\ stage' = [stage EXCEPT ![c] = "failed"]
        BY <2>2, <3>2, ResolvedInitialize
      <4>. QED
        BY <2>0, <3>2, <4>1 DEF TypeOK, Handshake, Unfinished, InitializeId, ListId, Request, NoRequest
    <3>3. CASE id = ListId
      <4>1. /\ settled' = [settled EXCEPT ![c] = @ \cup {id}]
            /\ SyncTools(c, found) /\ UNCHANGED clients
            /\ NoRequest(c, pending[c] \ {id}) /\ stage' = [stage EXCEPT ![c] = "done"]
        BY <2>2, <3>3, ResolvedList
      <4>. QED
        BY <2>0, <3>3, <4>1 DEF TypeOK, Handshake, Unfinished, InitializeId, ListId, NoRequest
    <3>4. CASE id > ListId
      <4>1. /\ settled' = [settled EXCEPT ![c] = @ \cup {id}]
            /\ NoRequest(c, pending[c] \ {id}) /\ UNCHANGED <<stage, clients, registry>>
        BY <2>2, <3>1, <3>4, ResolvedCall
      <4>. QED
        BY <2>0, <3>1, <3>4, <4>1 DEF TypeOK, Handshake, Unfinished, InitializeId, ListId, NoRequest
    <3>. QED
      BY <2>2, <3>1, <3>2, <3>3, <3>4 DEF Resolved
  <2>3. ASSUME NEW id \in pending[c], Rejected(c, {id}) PROVE Handshake'
    <3>1. {id} \in SUBSET pending[c] /\ held' \in {held, [held EXCEPT ![c] = FALSE]}
      BY <2>0
    <3>. QED
      BY <2>0, <2>3, <3>1, HandshakeRejected
  <2>. QED
    BY <1>7, <2>1, <2>2, <2>3, FrameRead
<1>8. ASSUME NEW c \in Clients, NEW id \in 1..(MaxCalls + 2), TimesOut(c, id) PROVE Handshake'
  <2>1. {id} \in SUBSET pending[c] /\ held' \in {held, [held EXCEPT ![c] = FALSE]}
    BY <1>8 DEF TimesOut
  <2>. QED
    BY <1>8, <2>1, HandshakeRejected DEF TimesOut
<1>9. ASSUME NEW c \in Clients, Exits(c) PROVE Handshake'
  BY <1>9 DEF TypeOK, Handshake, Unfinished, InitializeId, ListId, Exits, Rejected, NoRequest
<1>10. CASE UNCHANGED mcpVars
  BY <1>10 DEF TypeOK, Handshake, Unfinished, InitializeId, ListId, mcpVars
<1>. QED
  BY <1>1, <1>2, <1>3, <1>4, <1>5, <1>6, <1>7, <1>8, <1>9, <1>10 DEF Next

(* Every step leaves clients and tools under the name they were connected by. *)
LEMMA UnderOwnNameStep == IInv /\ [Next]_mcpVars => UnderOwnName'
<1>. SUFFICES ASSUME TypeOK, Handshake, UnderOwnName, [Next]_mcpVars PROVE UnderOwnName'
  BY DEF IInv, Inv
<1>. USE McpAssumption
<1>1. ASSUME NEW c \in Clients, NEW s \in Servers, Connect(c, s) PROVE UnderOwnName'
  BY <1>1 DEF TypeOK, UnderOwnName, Unfinished, Connect, Handshake
<1>2. ASSUME NEW c \in Clients, Spawned(c) PROVE UnderOwnName'
  BY <1>2 DEF TypeOK, UnderOwnName, Unfinished, Spawned
<1>3. ASSUME NEW c \in Clients, SpawnError(c) PROVE UnderOwnName'
  BY <1>3 DEF TypeOK, UnderOwnName, Unfinished, SpawnError
<1>4. ASSUME NEW s \in Servers, Disconnect(s) PROVE UnderOwnName'
  BY <1>4 DEF TypeOK, UnderOwnName, Unfinished, Disconnect
<1>5. ASSUME NEW t \in registry, CallTool(t) PROVE UnderOwnName'
  BY <1>5 DEF TypeOK, UnderOwnName, Unfinished, CallTool
<1>6. ASSUME NEW c \in Clients, NEW id \in 1..(MaxCalls + 2), NEW ok \in BOOLEAN,
             NEW found \in SUBSET Tools, ChildWrites(c, id, ok, found)
      PROVE  UnderOwnName'
  BY <1>6 DEF TypeOK, UnderOwnName, Unfinished, ChildWrites
<1>7. ASSUME NEW c \in Clients, OnData(c) PROVE UnderOwnName'
  <2>0. UNCHANGED <<owner, held, child, closes, overlap>>
    BY <1>7, FrameRead
  <2>1. CASE UNCHANGED <<stage, pending, nextId, asked, clients, registry, settled>>
    BY <2>0, <2>1 DEF TypeOK, UnderOwnName, Unfinished
  <2>2. ASSUME NEW id \in pending[c], NEW found \in SUBSET Tools, Resolved(c, id, found)
        PROVE  UnderOwnName'
    <3>1. id \in Nat
      BY DEF TypeOK
    <3>2. CASE id = InitializeId
      <4>1. /\ settled' = [settled EXCEPT ![c] = @ \cup {id}]
            /\ clients' = [clients EXCEPT ![owner[c]] = c] /\ UNCHANGED registry
            /\ \/ Request(c, pending[c] \ {id}) /\ stage' = [stage EXCEPT ![c] = "listing"]
               \/ NoRequest(c, pending[c] \ {id}) /\ stage' = [stage EXCEPT ![c] = "failed"]
        BY <2>2, <3>2, ResolvedInitialize
      <4>. QED
        BY <2>0, <3>2, <4>1 DEF TypeOK, UnderOwnName, Unfinished, Handshake, InitializeId
    <3>3. CASE id = ListId
      <4>1. /\ settled' = [settled EXCEPT ![c] = @ \cup {id}]
            /\ SyncTools(c, found) /\ UNCHANGED clients
            /\ NoRequest(c, pending[c] \ {id}) /\ stage' = [stage EXCEPT ![c] = "done"]
        BY <2>2, <3>3, ResolvedList
      <4>. QED
        BY <2>0, <3>3, <4>1 DEF TypeOK, UnderOwnName, Unfinished, SyncTools, Handshake, ListId
    <3>4. CASE id > ListId
      <4>1. /\ settled' = [settled EXCEPT ![c] = @ \cup {id}]
            /\ NoRequest(c, pending[c] \ {id}) /\ UNCHANGED <<stage, clients, registry>>
        BY <2>2, <3>1, <3>4, ResolvedCall
      <4>. QED
        BY <2>0, <3>1, <3>4, <4>1 DEF TypeOK, UnderOwnName, Unfinished
    <3>. QED
      BY <2>2, <3>1, <3>2, <3>3, <3>4 DEF Resolved
  <2>3. ASSUME NEW id \in pending[c], Rejected(c, {id}) PROVE UnderOwnName'
    BY <2>0, <2>3 DEF TypeOK, UnderOwnName, Unfinished, Rejected, Handshake, InitializeId, ListId
  <2>. QED
    BY <1>7, <2>1, <2>2, <2>3, FrameRead
<1>8. ASSUME NEW c \in Clients, NEW id \in 1..(MaxCalls + 2), TimesOut(c, id) PROVE UnderOwnName'
  BY <1>8 DEF TypeOK, UnderOwnName, Unfinished, TimesOut, Rejected, Handshake, InitializeId, ListId
<1>9. ASSUME NEW c \in Clients, Exits(c) PROVE UnderOwnName'
  BY <1>9 DEF TypeOK, UnderOwnName, Unfinished, Exits, Rejected, Handshake, InitializeId, ListId
<1>10. CASE UNCHANGED mcpVars
  BY <1>10 DEF TypeOK, UnderOwnName, Unfinished, mcpVars
<1>. QED
  BY <1>1, <1>2, <1>3, <1>4, <1>5, <1>6, <1>7, <1>8, <1>9, <1>10 DEF Next

(* Every step leaves the tools of a server to one client. *)
LEMMA OneRunnerStep == IInv /\ [Next]_mcpVars => OneRunner'
<1>. SUFFICES ASSUME TypeOK, OneRunner, [Next]_mcpVars PROVE OneRunner'
  BY DEF IInv, Inv
<1>. USE McpAssumption
<1>1. ASSUME NEW c \in Clients, NEW s \in Servers, Connect(c, s) PROVE OneRunner'
  BY <1>1 DEF TypeOK, OneRunner, Connect
<1>2. ASSUME NEW c \in Clients, Spawned(c) PROVE OneRunner'
  BY <1>2 DEF TypeOK, OneRunner, Spawned
<1>3. ASSUME NEW c \in Clients, SpawnError(c) PROVE OneRunner'
  BY <1>3 DEF TypeOK, OneRunner, SpawnError
<1>4. ASSUME NEW s \in Servers, Disconnect(s) PROVE OneRunner'
  BY <1>4 DEF TypeOK, OneRunner, Disconnect
<1>5. ASSUME NEW t \in registry, CallTool(t) PROVE OneRunner'
  BY <1>5 DEF TypeOK, OneRunner, CallTool
<1>6. ASSUME NEW c \in Clients, NEW id \in 1..(MaxCalls + 2), NEW ok \in BOOLEAN,
             NEW found \in SUBSET Tools, ChildWrites(c, id, ok, found)
      PROVE  OneRunner'
  BY <1>6 DEF TypeOK, OneRunner, ChildWrites
<1>7. ASSUME NEW c \in Clients, OnData(c) PROVE OneRunner'
  <2>1. CASE UNCHANGED <<stage, pending, nextId, asked, clients, registry, settled>>
    BY <2>1 DEF TypeOK, OneRunner
  <2>2. ASSUME NEW id \in pending[c], NEW found \in SUBSET Tools, Resolved(c, id, found)
        PROVE  OneRunner'
    <3>1. id \in Nat
      BY DEF TypeOK
    <3>2. CASE id = InitializeId
      <4>1. /\ settled' = [settled EXCEPT ![c] = @ \cup {id}]
            /\ clients' = [clients EXCEPT ![owner[c]] = c] /\ UNCHANGED registry
            /\ \/ Request(c, pending[c] \ {id}) /\ stage' = [stage EXCEPT ![c] = "listing"]
               \/ NoRequest(c, pending[c] \ {id}) /\ stage' = [stage EXCEPT ![c] = "failed"]
        BY <2>2, <3>2, ResolvedInitialize
      <4>. QED
        BY <3>2, <4>1 DEF TypeOK, OneRunner
    <3>3. CASE id = ListId
      <4>1. /\ settled' = [settled EXCEPT ![c] = @ \cup {id}]
            /\ SyncTools(c, found) /\ UNCHANGED clients
            /\ NoRequest(c, pending[c] \ {id}) /\ stage' = [stage EXCEPT ![c] = "done"]
        BY <2>2, <3>3, ResolvedList
      <4>. QED
        BY <3>3, <4>1 DEF TypeOK, OneRunner, SyncTools
    <3>4. CASE id > ListId
      <4>1. /\ settled' = [settled EXCEPT ![c] = @ \cup {id}]
            /\ NoRequest(c, pending[c] \ {id}) /\ UNCHANGED <<stage, clients, registry>>
        BY <2>2, <3>1, <3>4, ResolvedCall
      <4>. QED
        BY <3>1, <3>4, <4>1 DEF TypeOK, OneRunner
    <3>. QED
      BY <2>2, <3>1, <3>2, <3>3, <3>4 DEF Resolved
  <2>3. ASSUME NEW id \in pending[c], Rejected(c, {id}) PROVE OneRunner'
    BY <2>3 DEF TypeOK, OneRunner, Rejected
  <2>. QED
    BY <1>7, <2>1, <2>2, <2>3, FrameRead
<1>8. ASSUME NEW c \in Clients, NEW id \in 1..(MaxCalls + 2), TimesOut(c, id) PROVE OneRunner'
  BY <1>8 DEF TypeOK, OneRunner, TimesOut, Rejected
<1>9. ASSUME NEW c \in Clients, Exits(c) PROVE OneRunner'
  BY <1>9 DEF TypeOK, OneRunner, Exits, Rejected
<1>10. CASE UNCHANGED mcpVars
  BY <1>10 DEF TypeOK, OneRunner, mcpVars
<1>. QED
  BY <1>1, <1>2, <1>3, <1>4, <1>5, <1>6, <1>7, <1>8, <1>9, <1>10 DEF Next

(* Every step keeps the connects under a name apart, unless operations overlap. *)
LEMMA OneConnectStep == IInv /\ [Next]_mcpVars => OneConnect'
<1>. SUFFICES ASSUME TypeOK, OneFate, Handshake, UnderOwnName, OneConnect, [Next]_mcpVars PROVE OneConnect'
  BY DEF IInv, Inv
<1>. USE McpAssumption
<1>1. ASSUME NEW c \in Clients, NEW s \in Servers, Connect(c, s) PROVE OneConnect'
  BY <1>1 DEF TypeOK, OneConnect, Entered, Unfinished, Connect, Overlapping, Closed, Handshake, OneFate, ListId
<1>2. ASSUME NEW c \in Clients, Spawned(c) PROVE OneConnect'
  BY <1>2 DEF TypeOK, OneConnect, Entered, Unfinished, Spawned
<1>3. ASSUME NEW c \in Clients, SpawnError(c) PROVE OneConnect'
  BY <1>3 DEF TypeOK, OneConnect, Entered, Unfinished, SpawnError
<1>4. ASSUME NEW s \in Servers, Disconnect(s) PROVE OneConnect'
  BY <1>4 DEF TypeOK, OneConnect, Entered, Unfinished, Disconnect, Overlapping, Closed
<1>5. ASSUME NEW t \in registry, CallTool(t) PROVE OneConnect'
  BY <1>5 DEF TypeOK, OneConnect, Entered, Unfinished, CallTool
<1>6. ASSUME NEW c \in Clients, NEW id \in 1..(MaxCalls + 2), NEW ok \in BOOLEAN,
             NEW found \in SUBSET Tools, ChildWrites(c, id, ok, found)
      PROVE  OneConnect'
  BY <1>6 DEF TypeOK, OneConnect, Entered, Unfinished, ChildWrites
<1>7. ASSUME NEW c \in Clients, OnData(c) PROVE OneConnect'
  <2>0. UNCHANGED <<owner, held, child, closes, overlap>>
    BY <1>7, FrameRead
  <2>1. CASE UNCHANGED <<stage, pending, nextId, asked, clients, registry, settled>>
    BY <2>0, <2>1 DEF TypeOK, OneConnect, Entered, Unfinished
  <2>2. ASSUME NEW id \in pending[c], NEW found \in SUBSET Tools, Resolved(c, id, found)
        PROVE  OneConnect'
    <3>1. id \in Nat
      BY DEF TypeOK
    <3>2. CASE id = InitializeId
      <4>1. /\ settled' = [settled EXCEPT ![c] = @ \cup {id}]
            /\ clients' = [clients EXCEPT ![owner[c]] = c] /\ UNCHANGED registry
            /\ \/ Request(c, pending[c] \ {id}) /\ stage' = [stage EXCEPT ![c] = "listing"]
               \/ NoRequest(c, pending[c] \ {id}) /\ stage' = [stage EXCEPT ![c] = "failed"]
        BY <2>2, <3>2, ResolvedInitialize
      <4>. QED
        BY SMTT(30), <2>0, <3>2, <4>1 DEF TypeOK, OneConnect, Entered, Unfinished, Handshake, InitializeId, ListId
    <3>3. CASE id = ListId
      <4>1. /\ settled' = [settled EXCEPT ![c] = @ \cup {id}]
            /\ SyncTools(c, found) /\ UNCHANGED clients
            /\ NoRequest(c, pending[c] \ {id}) /\ stage' = [stage EXCEPT ![c] = "done"]
        BY <2>2, <3>3, ResolvedList
      <4>. QED
        BY <2>0, <3>3, <4>1 DEF TypeOK, OneConnect, Entered, Unfinished, Handshake, ListId
    <3>4. CASE id > ListId
      <4>1. /\ settled' = [settled EXCEPT ![c] = @ \cup {id}]
            /\ NoRequest(c, pending[c] \ {id}) /\ UNCHANGED <<stage, clients, registry>>
        BY <2>2, <3>1, <3>4, ResolvedCall
      <4>. QED
        BY <2>0, <3>1, <3>4, <4>1 DEF TypeOK, OneConnect, Entered, Unfinished, ListId
    <3>. QED
      BY <2>2, <3>1, <3>2, <3>3, <3>4 DEF Resolved
  <2>3. ASSUME NEW id \in pending[c], Rejected(c, {id}) PROVE OneConnect'
    BY <2>0, <2>3 DEF TypeOK, OneConnect, Entered, Unfinished, Rejected, Handshake, InitializeId, ListId
  <2>. QED
    BY <1>7, <2>1, <2>2, <2>3, FrameRead
<1>8. ASSUME NEW c \in Clients, NEW id \in 1..(MaxCalls + 2), TimesOut(c, id) PROVE OneConnect'
  BY <1>8 DEF TypeOK, OneConnect, Entered, Unfinished, TimesOut, Rejected, Handshake, InitializeId, ListId
<1>9. ASSUME NEW c \in Clients, Exits(c) PROVE OneConnect'
  BY <1>9 DEF TypeOK, OneConnect, Entered, Unfinished, Exits, Rejected, Handshake, InitializeId, ListId
<1>10. CASE UNCHANGED mcpVars
  BY <1>10 DEF TypeOK, OneConnect, Entered, Unfinished, mcpVars
<1>. QED
  BY <1>1, <1>2, <1>3, <1>4, <1>5, <1>6, <1>7, <1>8, <1>9, <1>10 DEF Next

(* Every step leaves the tools of a name to the client in the map, unless operations overlap. *)
LEMMA ToolsStep == IInv /\ [Next]_mcpVars => ToolsFollowTheMap'
<1>. SUFFICES ASSUME TypeOK, Handshake, UnderOwnName, OneConnect, ToolsFollowTheMap, [Next]_mcpVars PROVE ToolsFollowTheMap'
  BY DEF IInv, Inv
<1>. USE McpAssumption
<1>1. ASSUME NEW c \in Clients, NEW s \in Servers, Connect(c, s) PROVE ToolsFollowTheMap'
  BY <1>1 DEF TypeOK, ToolsFollowTheMap, Unfinished, Connect, Overlapping
<1>2. ASSUME NEW c \in Clients, Spawned(c) PROVE ToolsFollowTheMap'
  BY <1>2 DEF TypeOK, ToolsFollowTheMap, Unfinished, Spawned
<1>3. ASSUME NEW c \in Clients, SpawnError(c) PROVE ToolsFollowTheMap'
  BY <1>3 DEF TypeOK, ToolsFollowTheMap, Unfinished, SpawnError
<1>4. ASSUME NEW s \in Servers, Disconnect(s) PROVE ToolsFollowTheMap'
  BY <1>4 DEF TypeOK, ToolsFollowTheMap, Unfinished, Disconnect, Overlapping
<1>5. ASSUME NEW t \in registry, CallTool(t) PROVE ToolsFollowTheMap'
  BY <1>5 DEF TypeOK, ToolsFollowTheMap, Unfinished, CallTool
<1>6. ASSUME NEW c \in Clients, NEW id \in 1..(MaxCalls + 2), NEW ok \in BOOLEAN,
             NEW found \in SUBSET Tools, ChildWrites(c, id, ok, found)
      PROVE  ToolsFollowTheMap'
  BY <1>6 DEF TypeOK, ToolsFollowTheMap, Unfinished, ChildWrites
<1>7. ASSUME NEW c \in Clients, OnData(c) PROVE ToolsFollowTheMap'
  <2>0. UNCHANGED <<owner, held, child, closes, overlap>>
    BY <1>7, FrameRead
  <2>1. CASE UNCHANGED <<stage, pending, nextId, asked, clients, registry, settled>>
    BY <2>0, <2>1 DEF TypeOK, ToolsFollowTheMap, Unfinished
  <2>2. ASSUME NEW id \in pending[c], NEW found \in SUBSET Tools, Resolved(c, id, found)
        PROVE  ToolsFollowTheMap'
    <3>1. id \in Nat
      BY DEF TypeOK
    <3>2. CASE id = InitializeId
      <4>1. /\ settled' = [settled EXCEPT ![c] = @ \cup {id}]
            /\ clients' = [clients EXCEPT ![owner[c]] = c] /\ UNCHANGED registry
            /\ \/ Request(c, pending[c] \ {id}) /\ stage' = [stage EXCEPT ![c] = "listing"]
               \/ NoRequest(c, pending[c] \ {id}) /\ stage' = [stage EXCEPT ![c] = "failed"]
        BY <2>2, <3>2, ResolvedInitialize
      <4>2. stage[c] = "initializing" /\ stage'[c] # "done"
        BY <3>2, <4>1 DEF TypeOK, Handshake
      <4>3. \A t \in registry : t.server # owner[c] => clients'[t.server] = clients[t.server]
        BY <4>1 DEF TypeOK
      <4>4. owner[c] \in Servers => clients'[owner[c]] = c
        BY <4>1 DEF TypeOK
      <4>5. \A d \in Clients \ {c} : stage'[d] = stage[d]
        BY <4>1 DEF TypeOK
      <4>6. ASSUME NEW t \in registry, t.server # owner[c], clients[t.server] # None
            PROVE  clients[t.server] # c /\ clients[t.server] \in Clients
        BY <4>6 DEF TypeOK, UnderOwnName
      <4>7. c # None
        BY McpAssumption DEF Clients
      <4>. QED
        BY <2>0, <4>1, <4>2, <4>3, <4>4, <4>5, <4>6, <4>7 DEF TypeOK, ToolsFollowTheMap
    <3>3. CASE id = ListId
      <4>1. /\ settled' = [settled EXCEPT ![c] = @ \cup {id}]
            /\ SyncTools(c, found) /\ UNCHANGED clients
            /\ NoRequest(c, pending[c] \ {id}) /\ stage' = [stage EXCEPT ![c] = "done"]
        BY <2>2, <3>3, ResolvedList
      <4>. QED
        BY <2>0, <3>3, <4>1 DEF TypeOK, ToolsFollowTheMap, Unfinished, Handshake, SyncTools, OneConnect, UnderOwnName, ListId
    <3>4. CASE id > ListId
      <4>1. /\ settled' = [settled EXCEPT ![c] = @ \cup {id}]
            /\ NoRequest(c, pending[c] \ {id}) /\ UNCHANGED <<stage, clients, registry>>
        BY <2>2, <3>1, <3>4, ResolvedCall
      <4>. QED
        BY <2>0, <3>1, <3>4, <4>1 DEF TypeOK, ToolsFollowTheMap, Unfinished
    <3>. QED
      BY <2>2, <3>1, <3>2, <3>3, <3>4 DEF Resolved
  <2>3. ASSUME NEW id \in pending[c], Rejected(c, {id}) PROVE ToolsFollowTheMap'
    BY <2>0, <2>3 DEF TypeOK, ToolsFollowTheMap, Unfinished, Rejected
  <2>. QED
    BY <1>7, <2>1, <2>2, <2>3, FrameRead
<1>8. ASSUME NEW c \in Clients, NEW id \in 1..(MaxCalls + 2), TimesOut(c, id) PROVE ToolsFollowTheMap'
  BY <1>8 DEF TypeOK, ToolsFollowTheMap, Unfinished, TimesOut, Rejected
<1>9. ASSUME NEW c \in Clients, Exits(c) PROVE ToolsFollowTheMap'
  BY <1>9 DEF TypeOK, ToolsFollowTheMap, Unfinished, Exits, Rejected
<1>10. CASE UNCHANGED mcpVars
  BY <1>10 DEF TypeOK, ToolsFollowTheMap, Unfinished, mcpVars
<1>. QED
  BY <1>1, <1>2, <1>3, <1>4, <1>5, <1>6, <1>7, <1>8, <1>9, <1>10 DEF Next

-----------------------------------------------------------------------------
(* The inductive invariant holds throughout: every request has one fate, and *)
(* the tools of a server one runner.                                         *)
THEOREM Invariance == Spec => []IInv
<1>1. IInv /\ [Next]_mcpVars => IInv'
  BY TypeStep, FateStep, OneRunnerStep, HandshakeStep, UnderOwnNameStep, OneConnectStep, ToolsStep
  DEF IInv, Inv
<1>. QED
  BY InitInvariant, <1>1, PTL DEF Spec

(* Requests are settled once and tools have one runner. *)
THEOREM InvHolds == Spec => []Inv
<1>1. IInv => Inv
  BY DEF IInv
<1>. QED
  BY Invariance, <1>1, PTL

(* A running child that nobody can reach is one whose handshake failed, or   *)
(* one of operations that overlapped.                                        *)
THEOREM OrphanHasCauseHolds == Spec => []OrphanHasCause
<1>1. ASSUME IInv, NEW c \in Clients, Orphan(c), ~HandshakeFailed(c), owner[c] \notin overlap
      PROVE  FALSE
  <2>1. stage[c] \in {"done", "failed"} /\ held[c] /\ owner[c] # None
    BY <1>1 DEF IInv, Inv, TypeOK, Handshake, Orphan, Alive, Unfinished
  <2>2. Entered(c)
    BY <1>1, <2>1 DEF Entered, HandshakeFailed
  <2>. QED
    BY <1>1, <2>1, <2>2 DEF IInv, OneConnect, Orphan
<1>2. IInv => OrphanHasCause
  BY <1>1 DEF OrphanHasCause
<1>. QED
  BY Invariance, <1>2, PTL

(* Registered tools follow the map, unless operations overlapped. *)
THEOREM ToolsFollowTheMapHolds == Spec => []ToolsFollowTheMap
<1>1. IInv => ToolsFollowTheMap
  BY DEF IInv
<1>. QED
  BY Invariance, <1>1, PTL
=============================================================================
