------------------------------ MODULE ChatProofs ------------------------------
(***************************************************************************)
(* Proofs about Chat and the transport it stands on (Broker), for every    *)
(* set of tabs, sessions, machines and worker ids and any number of        *)
(* generations and tokens.                                                 *)
(***************************************************************************)
EXTENDS Chat, SequenceTheorems, FiniteSetTheorems, TLAPS

-----------------------------------------------------------------------------
(* Queues and transcripts.                                                   *)

(* What appending to a queue does to its places. *)
LEMMA AppendIs ==
  ASSUME NEW T, NEW q \in Seq(T), NEW x \in T
  PROVE  /\ Append(q, x) \in Seq(T)
         /\ Len(q) \in Nat /\ DOMAIN q = 1..Len(q) /\ DOMAIN Append(q, x) = 1..(Len(q) + 1)
         /\ Append(q, x)[Len(q) + 1] = x /\ \A i \in DOMAIN q : Append(q, x)[i] = q[i]
         /\ \A i \in DOMAIN Append(q, x) : i \in DOMAIN q \/ i = Len(q) + 1
<1>1. Append(q, x) \in Seq(T) /\ Len(q) \in Nat /\ DOMAIN q = 1..Len(q)
  BY AppendProperties, LenProperties
<1>2. /\ Len(Append(q, x)) = Len(q) + 1 /\ DOMAIN Append(q, x) = 1..Len(Append(q, x))
      /\ Append(q, x)[Len(q) + 1] = x /\ \A i \in 1..Len(q) : Append(q, x)[i] = q[i]
  BY <1>1, AppendProperties, LenProperties
<1>. QED
  BY <1>1, <1>2

(* What reading the head of a queue does to its places. *)
LEMMA TailIs ==
  ASSUME NEW T, NEW q \in Seq(T), q # <<>>
  PROVE  /\ Tail(q) \in Seq(T) /\ Head(q) = q[1] /\ Head(q) \in T /\ 1 \in DOMAIN q
         /\ \A i \in DOMAIN Tail(q) : i \in Nat \ {0} /\ i + 1 \in DOMAIN q /\ Tail(q)[i] = q[i + 1]
         /\ \A i \in DOMAIN q : i = 1 \/ (i - 1 \in DOMAIN Tail(q) /\ Tail(q)[i - 1] = q[i])
<1>1. /\ Tail(q) \in Seq(T) /\ Head(q) = q[1] /\ Head(q) \in T
      /\ Len(Tail(q)) = Len(q) - 1 /\ \A i \in 1..Len(Tail(q)) : Tail(q)[i] = q[i + 1]
  BY HeadTailProperties
<1>2. DOMAIN q = 1..Len(q) /\ Len(q) \in Nat /\ Len(q) # 0 /\ DOMAIN Tail(q) = 1..Len(Tail(q))
  BY <1>1, LenProperties, EmptySeq
<1>. QED
  BY <1>1, <1>2

(* A queue of nothing. *)
LEMMA NoneIs == ASSUME NEW T PROVE <<>> \in Seq(T) /\ DOMAIN <<>> = {}
BY EmptySeq

(* A queue of one thing. *)
LEMMA OneIs == ASSUME NEW T, NEW x \in T PROVE <<x>> \in Seq(T) /\ DOMAIN <<x>> = {1} /\ <<x>>[1] = x
OBVIOUS

(* What the code sends at once is appended one by one.                       *)
LEMMA ConcatIs ==
  ASSUME NEW T, NEW q \in Seq(T), NEW x \in T, NEW y \in T
  PROVE  /\ q \o <<x>> = Append(q, x)
         /\ q \o <<x, y>> = Append(Append(q, x), y)
         /\ q \o <<>> \o <<y>> = Append(q, y)
         /\ q \o <<x>> \o <<y>> = Append(Append(q, x), y)
         /\ <<>> \o <<x, y>> = Append(Append(<<>>, x), y)
OBVIOUS

(* Messages, operations and events are what their names say.                 *)
LEMMA MessageIs ==
  ASSUME NEW r \in {"user", "assistant", "system", "tool"}, NEW k \in Chats \cup {None},
         NEW n \in Nat, NEW b \in BOOLEAN
  PROVE  /\ Message(r, k, n, b) \in Messages
         /\ Message(r, k, n, b).role = r /\ Message(r, k, n, b).chat = k
BY DEF Message, Messages

(* What a tab sends are operations. *)
LEMMA OperationIs ==
  /\ \A s \in Sessions : /\ [op |-> "create_chat", session |-> s] \in Operations
                         /\ [op |-> "load_chat", session |-> s] \in Operations
                         /\ [op |-> "delete_chat", session |-> s] \in Operations
  /\ \A k \in Chats : /\ [op |-> "chat_send", chat |-> k] \in Operations
                      /\ [op |-> "chat_stop", chat |-> k] \in Operations
  /\ [op |-> "mcp"] \in Operations
BY DEF Operations

(* What an operation carries. *)
LEMMA OperationHas ==
  ASSUME NEW o \in Operations
  PROVE  /\ o.op \in {"chat_send", "chat_stop"} => o.chat \in Chats
         /\ o.op \in {"create_chat", "load_chat", "delete_chat"} => o.session \in Sessions
BY DEF Operations

(* What the coordinator and the broker send are events. *)
LEMMA EventIs ==
  /\ \A S \in SUBSET WorkerIds : [ev |-> "workers", ids |-> S] \in Events
  /\ \A i \in WorkerIds : [ev |-> "worker_event", id |-> i] \in Events
  /\ \A s \in Sessions, q \in Seq(Messages) : [ev |-> "chat_session", session |-> s, messages |-> q] \in Events
  /\ \A k \in Chats : [ev |-> "chat_token", chat |-> k] \in Events
  /\ \A k \in Chats, r \in {"complete", "stopped", "error"} : Done(k, r) \in Events
  /\ [ev |-> "error"] \in Events /\ [ev |-> "mcp_result"] \in Events
BY DEF Events, Done

(* What an event carries. *)
LEMMA EventHas ==
  ASSUME NEW e \in Events
  PROVE  /\ e.ev = "workers" => e.ids \in SUBSET WorkerIds
         /\ e.ev = "chat_session" => e.session \in Sessions /\ e.messages \in Seq(Messages)
BY DEF Events

(* A list of workers is an event. *)
LEMMA ListIs ==
  ASSUME NEW map
  PROVE  /\ WorkersEvent(map) \in Events /\ WorkersEvent(map).ev = "workers"
         /\ WorkersEvent(map).ids \in SUBSET WorkerIds
BY EventIs DEF WorkersEvent

(* What an operation, an event or an answer does to the queues.              *)
LEMMA OpRead ==
  ASSUME TypeOK, NEW t \in Tabs, NEW w, OpFrom(t, w)
  PROVE  /\ Head(up[t]) \in Operations /\ Head(up[t]).op = w /\ up[t] # <<>> /\ t \in ui
         /\ up' \in [Tabs -> Seq(Operations)] /\ up' = [up EXCEPT ![t] = Tail(up[t])]
<1>1. up \in [Tabs -> Seq(Operations)] /\ up[t] # <<>> /\ t \in ui /\ up' = [up EXCEPT ![t] = Tail(up[t])]
  BY DEF TypeOK, OpFrom
<1>2. Tail(up[t]) \in Seq(Operations) /\ Head(up[t]) \in Operations
  BY <1>1, TailIs
<1>. QED
  BY <1>1, <1>2 DEF OpFrom

(* A tab reads the head of what is under way to it. *)
LEMMA EventRead ==
  ASSUME TypeOK, NEW t \in Tabs, NEW w, Event(t, w)
  PROVE  /\ Head(down[t]) \in Events /\ Head(down[t]).ev = w /\ down[t] # <<>>
         /\ down' \in [Tabs -> Seq(Events)] /\ down' = [down EXCEPT ![t] = Tail(down[t])]
<1>1. down \in [Tabs -> Seq(Events)] /\ down[t] # <<>> /\ down' = [down EXCEPT ![t] = Tail(down[t])]
  BY DEF TypeOK, Event
<1>2. Tail(down[t]) \in Seq(Events) /\ Head(down[t]) \in Events
  BY <1>1, TailIs
<1>. QED
  BY <1>1, <1>2 DEF Event

(* An event about a generation goes to its tab, if that is still connected. *)
LEMMA TellSends ==
  ASSUME TypeOK, NEW k \in Chats, gen[k].state # "unsent", NEW e \in Events, Tell(k, e)
  PROVE  /\ down' \in [Tabs -> Seq(Events)] /\ gen[k].tab \in Tabs
         /\ \A t \in Tabs : down'[t] = down[t] \/ (t \in ui /\ down'[t] = Append(down[t], e))
<1>1. down \in [Tabs -> Seq(Events)] /\ gen[k].tab \in Tabs
  BY DEF TypeOK
<1>2. Append(down[gen[k].tab], e) \in Seq(Events)
  BY <1>1, AppendIs
<1>. QED
  BY <1>1, <1>2 DEF Tell

(* An operation goes to the end of what a tab has under way. *)
LEMMA SendSends ==
  ASSUME TypeOK, NEW t \in Tabs, NEW o \in Operations, Send(t, o)
  PROVE  /\ up' \in [Tabs -> Seq(Operations)]
         /\ \A u \in Tabs : up'[u] = up[u] \/ (u = t /\ up'[u] = Append(up[u], o))
<1>1. up \in [Tabs -> Seq(Operations)]
  BY DEF TypeOK
<1>2. Append(up[t], o) \in Seq(Operations)
  BY <1>1, AppendIs
<1>. QED
  BY <1>1, <1>2 DEF Send

(* A broadcast reaches the open tabs.                                        *)
LEMMA BroadcastSends ==
  ASSUME TypeOK, NEW e \in Events, down' = Broadcast(down, e)
  PROVE  /\ down' \in [Tabs -> Seq(Events)]
         /\ \A t \in Tabs : down'[t] = IF t \in ui THEN Append(down[t], e) ELSE down[t]
<1>1. down \in [Tabs -> Seq(Events)]
  BY DEF TypeOK
<1>2. \A t \in Tabs : Append(down[t], e) \in Seq(Events)
  BY <1>1, AppendIs
<1>. QED
  BY <1>1, <1>2 DEF Broadcast

(* A generation whose state changes keeps its tab and its session.           *)
LEMMA StateChanges ==
  ASSUME TypeOK, NEW k \in Chats, gen[k].state # "unsent",
         NEW e \in {"loading", "running", "complete", "stopped", "error"}, gen' = [gen EXCEPT ![k].state = e]
  PROVE  /\ gen' \in [Chats -> Generations]
         /\ \A c \in Chats : /\ gen'[c].tab = gen[c].tab /\ gen'[c].session = gen[c].session
                            /\ gen'[c].state = (IF c = k THEN e ELSE gen[c].state) /\ gen'[c].len = gen[c].len
         /\ \A c \in Chats : gen'[c].state # "unsent" => gen'[c].tab \in Tabs /\ gen'[c].session \in Sessions
<1>1. gen \in [Chats -> Generations]
  BY DEF TypeOK
<1>2. PICK r \in Generations : /\ r = [gen[k] EXCEPT !.state = e] /\ r.tab = gen[k].tab
                               /\ r.session = gen[k].session /\ r.state = e /\ r.len = gen[k].len
  <2>1. gen[k] \in Generations
    BY <1>1
  <2>2. /\ [gen[k] EXCEPT !.state = e] \in Generations /\ [gen[k] EXCEPT !.state = e].tab = gen[k].tab
        /\ [gen[k] EXCEPT !.state = e].session = gen[k].session /\ [gen[k] EXCEPT !.state = e].state = e
        /\ [gen[k] EXCEPT !.state = e].len = gen[k].len
    BY <2>1 DEF Generations
  <2>. QED
    BY <2>2
<1>3. gen' = [gen EXCEPT ![k] = r]
  BY <1>1, <1>2
<1>4. \A c \in Chats : gen'[c] = IF c = k THEN r ELSE gen[c]
  BY <1>1, <1>3
<1>5. gen' \in [Chats -> Generations]
  BY <1>1, <1>2, <1>3
<1>6. \A c \in Chats : /\ gen'[c].tab = gen[c].tab /\ gen'[c].session = gen[c].session
                       /\ gen'[c].state = (IF c = k THEN e ELSE gen[c].state) /\ gen'[c].len = gen[c].len
  <2>. TAKE c \in Chats
  <2>1. CASE c = k
    <3>1. gen'[c] = r /\ gen[c] = gen[k]
      BY <1>4, <2>1
    <3>. QED
      BY <1>2, <2>1, <3>1
  <2>2. CASE c # k
    <3>1. gen'[c] = gen[c]
      BY <1>4, <2>2
    <3>. QED
      BY <2>2, <3>1
  <2>. QED
    BY <2>1, <2>2
<1>. QED
  BY <1>5, <1>6 DEF TypeOK

(* One that makes a token, and one that is told to stop.                      *)
LEMMA LengthChanges ==
  ASSUME TypeOK, NEW k \in Chats, NEW v \in 0..MaxTokens, gen' = [gen EXCEPT ![k].len = v]
  PROVE  /\ gen' \in [Chats -> Generations]
         /\ \A c \in Chats : /\ gen'[c].tab = gen[c].tab /\ gen'[c].session = gen[c].session
                            /\ gen'[c].state = gen[c].state /\ gen'[c].len = IF c = k THEN v ELSE gen[c].len
         /\ \A c \in Chats : gen'[c].state # "unsent" => gen'[c].tab \in Tabs /\ gen'[c].session \in Sessions
<1>1. gen \in [Chats -> Generations] /\ gen[k] \in Generations
  BY DEF TypeOK
<1>2. PICK r \in Generations : /\ r = [gen[k] EXCEPT !.len = v] /\ r.tab = gen[k].tab
                               /\ r.session = gen[k].session /\ r.state = gen[k].state /\ r.len = v
  BY <1>1 DEF Generations
<1>3. gen' = [gen EXCEPT ![k] = r]
  BY <1>1, <1>2
<1>4. \A c \in Chats : gen'[c] = IF c = k THEN r ELSE gen[c]
  BY <1>1, <1>3
<1>5. /\ gen' \in [Chats -> Generations]
      /\ \A c \in Chats : /\ gen'[c].tab = gen[c].tab /\ gen'[c].session = gen[c].session
                         /\ gen'[c].state = gen[c].state /\ gen'[c].len = IF c = k THEN v ELSE gen[c].len
  BY <1>1, <1>2, <1>3, <1>4
<1>. QED
  BY <1>5 DEF TypeOK

(* A signal changes nothing else of a generation. *)
LEMMA AbortChanges ==
  ASSUME TypeOK, NEW k \in Chats, NEW v \in BOOLEAN, gen' = [gen EXCEPT ![k].abort = v]
  PROVE  /\ gen' \in [Chats -> Generations]
         /\ \A c \in Chats : /\ gen'[c].tab = gen[c].tab /\ gen'[c].session = gen[c].session
                            /\ gen'[c].state = gen[c].state /\ gen'[c].len = gen[c].len
         /\ \A c \in Chats : gen'[c].state # "unsent" => gen'[c].tab \in Tabs /\ gen'[c].session \in Sessions
<1>1. gen \in [Chats -> Generations] /\ gen[k] \in Generations
  BY DEF TypeOK
<1>2. PICK r \in Generations : /\ r = [gen[k] EXCEPT !.abort = v] /\ r.tab = gen[k].tab
                               /\ r.session = gen[k].session /\ r.state = gen[k].state /\ r.len = gen[k].len
  BY <1>1 DEF Generations
<1>3. gen' = [gen EXCEPT ![k] = r]
  BY <1>1, <1>2
<1>4. \A c \in Chats : gen'[c] = IF c = k THEN r ELSE gen[c]
  BY <1>1, <1>3
<1>5. /\ gen' \in [Chats -> Generations]
      /\ \A c \in Chats : /\ gen'[c].tab = gen[c].tab /\ gen'[c].session = gen[c].session
                         /\ gen'[c].state = gen[c].state /\ gen'[c].len = gen[c].len
  BY <1>1, <1>2, <1>3, <1>4
<1>. QED
  BY <1>5 DEF TypeOK

(* A message is put at the end of a session there is.                        *)
LEMMA TableIs ==
  ASSUME TypeOK, NEW s \in Sessions
  PROVE  /\ DOMAIN Created(s) = DOMAIN stored \cup {s} /\ Created(s) \in [DOMAIN Created(s) -> Seq(Messages)]
         /\ \A r \in DOMAIN stored : Created(s)[r] = stored[r]
         /\ s \notin DOMAIN stored => Created(s)[s] = <<>>
  BY NoneIs DEF TypeOK, Created, Exists

(* A message that is stored goes to the end of its session. *)
LEMMA AppendedIs ==
  ASSUME NEW D, NEW table \in [D -> Seq(Messages)], NEW s \in D, NEW m \in Messages
  PROVE  /\ Appended(table, s, m) \in [D -> Seq(Messages)]
         /\ \A r \in D : Appended(table, s, m)[r] = IF r = s THEN Append(table[s], m) ELSE table[r]
<1>1. Append(table[s], m) \in Seq(Messages)
  BY AppendIs
<1>. QED
  BY <1>1 DEF Appended

(* A running generation that is over stores its reply, or finds its session  *)
(* gone.                                                                     *)
LEMMA StoreReplyIs ==
  ASSUME TypeOK, NEW k \in Chats, gen[k].state = "running", NEW how \in {"complete", "stopped"},
         StoreReply(k, how)
  PROVE  /\ gen[k].session \in Sessions /\ gen[k].len \in Nat
         /\ \E e \in {how, "error"} : gen' = [gen EXCEPT ![k].state = e] /\ Tell(k, Done(k, e))
                                      /\ (e = "error" => UNCHANGED stored)
         /\ \/ UNCHANGED stored
            \/ /\ gen[k].session \in DOMAIN stored /\ gen' = [gen EXCEPT ![k].state = how]
               /\ stored' = Appended(stored, gen[k].session, Message("assistant", k, gen[k].len, FALSE))
<1>1. gen[k].session \in Sessions /\ gen[k].len \in Nat
  BY ChatAssumption DEF TypeOK, Generations
<1>2. CASE Exists(gen[k].session)
  BY <1>1, <1>2 DEF StoreReply, Ended, Exists
<1>3. CASE ~Exists(gen[k].session)
  BY <1>1, <1>3 DEF StoreReply, Ended
<1>. QED
  BY <1>2, <1>3

-----------------------------------------------------------------------------
(* Types.                                                                    *)

(* Every step keeps the types. *)
LEMMA TypeStep == TypeOK /\ SentInOrder /\ QueuedOnce /\ [Next]_chatVars => TypeOK'
<1>. SUFFICES ASSUME TypeOK, SentInOrder, QueuedOnce, [Next]_chatVars PROVE TypeOK'
  OBVIOUS
<1>a. /\ \A q \in Seq(Events), e \in Events : Append(q, e) \in Seq(Events)
      /\ \A q \in Seq(Operations), o \in Operations : Append(q, o) \in Seq(Operations)
      /\ \A q \in Seq(Messages), m \in Messages : Append(q, m) \in Seq(Messages)
      /\ \A q \in Seq(Events) : q # <<>> => Tail(q) \in Seq(Events) /\ Head(q) \in Events
      /\ \A q \in Seq(Operations) : q # <<>> => Tail(q) \in Seq(Operations) /\ Head(q) \in Operations
      /\ <<>> \in Seq(Events) /\ <<>> \in Seq(Operations) /\ <<>> \in Seq(Messages)
  BY AppendIs, TailIs, NoneIs
<1>b. \A map : WorkersEvent(map) \in Events /\ <<WorkersEvent(map)>> \in Seq(Events)
  BY ListIs, OneIs
<1>p. pages \subseteq Tabs
  BY DEF TypeOK, BrokerTypeOK
<1>. DEFINE Ups == up \in [Tabs -> Seq(Operations)]
            Downs == down \in [Tabs -> Seq(Events)]
            Table == DOMAIN stored \subseteq Sessions /\ stored \in [DOMAIN stored -> Seq(Messages)]
            Gens == /\ gen \in [Chats -> Generations]
                    /\ \A c \in Chats : gen[c].state # "unsent" => gen[c].tab \in Tabs /\ gen[c].session \in Sessions
            Views == /\ asking \subseteq Tabs /\ active \in [Tabs -> Chats \cup {None}]
                     /\ session \in [Tabs -> Sessions \cup {None}] /\ shown \in [Tabs -> Seq(Messages)]
<1>c. TypeOK = (BrokerTypeOK /\ Ups /\ Downs /\ Table /\ Gens /\ Views)
  BY DEF TypeOK
<1>d. TypeOK' = (BrokerTypeOK' /\ Ups' /\ Downs' /\ Table' /\ Gens' /\ Views')
  BY DEF TypeOK
<1>e. /\ (UNCHANGED <<workerVars, ui, seen>> => BrokerTypeOK')
      /\ (UNCHANGED up => Ups') /\ (UNCHANGED down => Downs') /\ (UNCHANGED stored => Table') /\ (UNCHANGED gen => Gens')
      /\ (UNCHANGED <<asking, active, session, shown>> => Views')
  BY <1>c DEF BrokerTypeOK, workerVars
<1>1. ASSUME NEW t \in Tabs, Connect(t), UNCHANGED <<serverVars, tabVars, historyVars>>
      PROVE  TypeOK'
  BY <1>1, <1>a, <1>b, OperationIs, OperationHas, EventIs, EventHas, MessageIs DEF TypeOK, BrokerTypeOK, Connect, Greeting, serverVars, tabVars, workerVars
<1>2. ASSUME NEW t \in Tabs, Drop(t), UNCHANGED <<serverVars, tabVars, missed, deleted>>
      PROVE  TypeOK'
  BY <1>2, <1>a, <1>b, OperationIs, OperationHas, EventIs, EventHas, MessageIs DEF TypeOK, BrokerTypeOK, Drop, Use, serverVars, tabVars, workerVars
<1>3. ASSUME NEW m \in Machines, NEW i \in WorkerIds, Register(m, i), UNCHANGED <<serverVars, tabVars, historyVars>>
      PROVE  TypeOK'
  <2>1. BrokerTypeOK'
    <3>1. /\ line' = [line EXCEPT ![m] = "open"] /\ handle' = [handle EXCEPT ![m] = i]
          /\ workers' = [workers EXCEPT ![i] = m] /\ taken' = taken \cup {<<m, i>>}
          /\ UNCHANGED <<pages, ui, seen>>
      BY <1>3 DEF Register
    <3>2. /\ handle' \in [Machines -> WorkerIds \cup {Nobody}]
          /\ workers' \in [WorkerIds -> Machines \cup {Nobody}]
          /\ line' \in [Machines -> {"closed", "open", "gone"}]
          /\ taken' \subseteq Machines \X WorkerIds
      <4>1. /\ handle \in [Machines -> WorkerIds \cup {Nobody}]
            /\ workers \in [WorkerIds -> Machines \cup {Nobody}]
            /\ line \in [Machines -> {"closed", "open", "gone"}]
            /\ taken \subseteq Machines \X WorkerIds
        BY <1>c DEF BrokerTypeOK
      <4>2. handle' \in [Machines -> WorkerIds \cup {Nobody}] /\ workers' \in [WorkerIds -> Machines \cup {Nobody}]
        BY <3>1, <4>1
      <4>3. line' \in [Machines -> {"closed", "open", "gone"}]
        BY <3>1, <4>1
      <4>4. taken' \subseteq Machines \X WorkerIds
        BY <3>1, <4>1
      <4>. QED
        BY <4>2, <4>3, <4>4
    <3>3. ASSUME NEW n \in Machines
          PROVE  /\ handle'[n] # Nobody => <<n, handle'[n]>> \in taken'
                 /\ line'[n] = "open" => handle'[n] # Nobody
      <4>1. CASE n = m
        <5>1. handle'[n] = i /\ i # Nobody
          BY <3>1, <4>1, <1>c, BrokerAssumption DEF BrokerTypeOK
        <5>. QED
          BY <3>1, <4>1, <5>1
      <4>2. CASE n # m
        <5>1. handle'[n] = handle[n] /\ line'[n] = line[n] /\ taken \subseteq taken'
          BY <3>1, <4>2, <1>c DEF BrokerTypeOK
        <5>. QED
          BY <5>1, <1>c DEF BrokerTypeOK
      <4>. QED
        BY <4>1, <4>2
    <3>. QED
      BY <3>1, <3>2, <3>3, <1>c DEF BrokerTypeOK
  <2>2. Downs'
    BY <1>3, <1>b, BroadcastSends DEF Register
  <2>3. UNCHANGED <<up, stored, gen, asking, active, session, shown>>
    BY <1>3 DEF Register, serverVars, tabVars
  <2>. QED
    BY <2>1, <2>2, <2>3, <1>c, <1>d
<1>4. ASSUME NEW m \in Machines, Report(m), UNCHANGED <<serverVars, tabVars, historyVars>>
      PROVE  TypeOK'
  BY <1>4, <1>a, <1>b, OperationIs, OperationHas, EventIs, EventHas, MessageIs DEF TypeOK, BrokerTypeOK, Report, Broadcast, serverVars, tabVars, workerVars
<1>5. ASSUME NEW m \in Machines, HangUp(m), UNCHANGED <<serverVars, tabVars, historyVars>>
      PROVE  TypeOK'
  BY ZenonT(60), <1>5, <1>a, <1>b, OperationIs, OperationHas, EventIs, EventHas, MessageIs DEF TypeOK, BrokerTypeOK, HangUp, Broadcast, serverVars, tabVars
<1>6. ASSUME NEW t \in Tabs, NEW s \in Sessions, NewChat(t, s)
      PROVE  TypeOK'
  BY ZenonT(60), <1>6, <1>a, <1>b, OperationIs, OperationHas, EventIs, EventHas, MessageIs DEF TypeOK, BrokerTypeOK, NewChat, Send, Quiet, serverVars, workerVars
<1>7. ASSUME NEW t \in Tabs, NEW s \in Sessions, SendChat(t, s)
      PROVE  TypeOK'
  <2>. DEFINE n == Cardinality({ j \in Chats : gen[j].state # "unsent" }) + 1
              o == [op |-> "chat_send", chat |-> n]
              c == [op |-> "create_chat", session |-> s]
              u == Message("user", n, 0, FALSE)
              a == Message("assistant", n, 0, TRUE)
  <2>1. n \in Chats
    BY <1>7 DEF SendChat
  <2>2. o \in Operations /\ c \in Operations /\ u \in Messages /\ a \in Messages
    BY <2>1, OperationIs, MessageIs
  <2>3. /\ gen' = [gen EXCEPT ![n] = [@ EXCEPT !.tab = t, !.session = s, !.state = "sent"]]
        /\ session' = [session EXCEPT ![t] = s] /\ active' = [active EXCEPT ![t] = n]
        /\ shown' = [shown EXCEPT ![t] = (IF session[t] = None THEN <<>> ELSE @) \o <<u, a>>]
        /\ up' = IF t \in ui
                 THEN [up EXCEPT ![t] = @ \o (IF session[t] = None THEN <<c>> ELSE <<>>) \o <<o>>]
                 ELSE up
        /\ UNCHANGED <<workerVars, ui, seen, down, stored, asking>>
    BY <1>7 DEF SendChat
  <2>. HIDE DEF n, o, c, u, a
  <2>4. /\ up[t] \o <<c>> \o <<o>> \in Seq(Operations) /\ up[t] \o <<>> \o <<o>> \in Seq(Operations)
        /\ <<>> \o <<u, a>> \in Seq(Messages) /\ shown[t] \o <<u, a>> \in Seq(Messages)
    <3>1. up[t] \in Seq(Operations) /\ shown[t] \in Seq(Messages)
      BY <1>c
    <3>. QED
      BY <2>2, <3>1
  <2>5. Ups'
    BY <1>c, <2>3, <2>4
  <2>6. Gens'
    <3>1. PICK r : r = [gen[n] EXCEPT !.tab = t, !.session = s, !.state = "sent"]
      OBVIOUS
    <3>2. gen[n] \in Generations /\ gen \in [Chats -> Generations]
      BY <1>c, <2>1
    <3>3. r \in Generations /\ r.tab = t /\ r.session = s
      BY <3>1, <3>2 DEF Generations
    <3>4. gen' = [gen EXCEPT ![n] = r]
      BY <2>3, <3>1
    <3>. QED
      BY <1>c, <2>1, <3>2, <3>3, <3>4
  <2>7. Views'
    BY <1>c, <2>1, <2>3, <2>4
  <2>. QED
    BY <1>c, <1>d, <1>e, <2>3, <2>5, <2>6, <2>7
<1>8. ASSUME NEW t \in Tabs, NEW s \in Sessions, LoadChatSession(t, s)
      PROVE  TypeOK'
  BY ZenonT(60), <1>8, <1>a, <1>b, OperationIs, OperationHas, EventIs, EventHas, MessageIs DEF TypeOK, BrokerTypeOK, LoadChatSession, Send, Quiet, serverVars, tabVars, workerVars
<1>9. ASSUME NEW t \in Tabs, NEW s \in Sessions, DeleteChatSession(t, s)
      PROVE  TypeOK'
  <2>1. Ups'
    BY <1>9, SendSends, OperationIs DEF DeleteChatSession
  <2>2. Views'
    <3>1. UNCHANGED asking
      BY <1>9 DEF DeleteChatSession, Quiet, serverVars
    <3>2. <<>> \in Seq(Messages)
      BY <1>a
    <3>. QED
      BY <1>9, <1>c, <3>1, <3>2 DEF DeleteChatSession
  <2>3. UNCHANGED <<workerVars, ui, seen, down, stored, gen>>
    BY <1>9 DEF DeleteChatSession, Quiet, serverVars, workerVars
  <2>. QED
    BY <1>c, <1>d, <1>e, <2>1, <2>2, <2>3
<1>10. ASSUME NEW t \in Tabs, StopChat(t)
       PROVE  TypeOK'
  <2>1. CASE active[t] \in Chats
    <3>1. [op |-> "chat_stop", chat |-> active[t]] \in Operations
      BY <2>1, OperationIs
    <3>2. Ups'
      BY <1>10, <3>1, SendSends DEF StopChat
    <3>3. UNCHANGED <<workerVars, ui, seen, down, stored, gen, asking, active, session, shown>>
      BY <1>10 DEF StopChat, Quiet, serverVars, tabVars
    <3>. QED
      BY <1>c, <1>d, <1>e, <3>2, <3>3
  <2>. QED
    BY <1>10, <1>c, <2>1 DEF StopChat
<1>11. ASSUME NEW t \in Tabs, NEW silent \in BOOLEAN, DispatchRpc(t, silent)
       PROVE  TypeOK'
  BY <1>11, <1>a, <1>b, OperationIs, OperationHas, EventIs, EventHas, MessageIs DEF TypeOK, BrokerTypeOK, DispatchRpc, Send, Quiet, serverVars, workerVars
<1>12. ASSUME NEW t \in Tabs, OpCreateChat(t)
       PROVE  TypeOK'
  <2>1. OpFrom(t, "create_chat")
    BY <1>12 DEF OpCreateChat
  <2>2. Head(up[t]) \in Operations /\ Head(up[t]).op = "create_chat" /\ Ups'
    BY <2>1, OpRead, Zenon
  <2>3. UNCHANGED <<workerVars, ui, seen, down, gen, asking, active, session, shown>>
    BY <1>12 DEF OpCreateChat, serverVars, tabVars
  <2>4. Table'
    <3>1. Head(up[t]).session \in Sessions
      BY <2>2, OperationHas
    <3>2. stored' = Created(Head(up[t]).session)
      BY <1>12 DEF OpCreateChat
    <3>. QED
      <4>1. /\ DOMAIN stored' = DOMAIN stored \cup {Head(up[t]).session}
            /\ stored' \in [DOMAIN stored' -> Seq(Messages)]
        BY <3>1, <3>2, TableIs
      <4>2. DOMAIN stored \subseteq Sessions
        BY <1>c
      <4>. QED
        BY <3>1, <4>1, <4>2
  <2>. QED
    BY <2>2, <2>3, <2>4, <1>c, <1>d, <1>e
<1>13. ASSUME NEW t \in Tabs, OpChatSend(t)
       PROVE  TypeOK'
  <2>1. OpFrom(t, "chat_send")
    BY <1>13 DEF OpChatSend
  <2>2. Head(up[t]) \in Operations /\ Head(up[t]).op = "chat_send" /\ Ups'
    BY <2>1, OpRead, Zenon
  <2>3. UNCHANGED <<workerVars, ui, seen, down, asking, active, session, shown>>
    BY <1>13 DEF OpChatSend, serverVars, tabVars
  <2>. DEFINE c == Head(up[t]).chat
              s == gen[c].session
  <2>4. /\ c \in Chats /\ gen[c].state = "sent" /\ s \in Sessions /\ gen[c].tab \in Tabs
        /\ stored' = Appended(Created(s), s, Message("user", c, 0, FALSE))
        /\ gen' = [gen EXCEPT ![c].state = "loading"]
    <3>1. c \in Chats
      BY <2>2, OperationHas
    <3>2. up[t] \in Seq(Operations) /\ up[t] # <<>>
      BY <1>c, <2>1 DEF OpFrom
    <3>3. Head(up[t]) = up[t][1] /\ 1 \in DOMAIN up[t]
      BY <3>2, TailIs
    <3>4. gen[c].state = "sent"
      BY <2>2, <3>3 DEF QueuedOnce, SentOnce
    <3>. QED
      BY <1>13, <1>c, <3>1, <3>4 DEF OpChatSend
  <2>. HIDE DEF c, s
  <2>5. Table'
    <3>1. Message("user", c, 0, FALSE) \in Messages
      BY <2>4, MessageIs
    <3>2. s \in DOMAIN Created(s) /\ DOMAIN Created(s) \subseteq Sessions
          /\ Created(s) \in [DOMAIN Created(s) -> Seq(Messages)]
      <4>1. DOMAIN stored \subseteq Sessions
        BY <1>c
      <4>. QED
        BY <2>4, <4>1, TableIs
    <3>3. stored' \in [DOMAIN Created(s) -> Seq(Messages)]
      BY <2>4, <3>1, <3>2, AppendedIs
    <3>. QED
      BY <3>2, <3>3
  <2>6. Gens'
    <3>1. gen[c].state # "unsent"
      BY <2>4
    <3>. QED
      BY <2>4, <3>1, StateChanges
  <2>. QED
    BY <2>2, <2>3, <2>5, <2>6, <1>c, <1>d, <1>e
<1>14. ASSUME NEW t \in Tabs, OpChatStop(t)
       PROVE  TypeOK'
  <2>1. OpFrom(t, "chat_stop")
    BY <1>14 DEF OpChatStop
  <2>2. Head(up[t]) \in Operations /\ Head(up[t]).op = "chat_stop" /\ Ups'
    BY <2>1, OpRead, Zenon
  <2>3. UNCHANGED <<workerVars, ui, seen, down, stored, asking, active, session, shown>>
    BY <1>14 DEF OpChatStop, serverVars, tabVars
  <2>4. Gens'
    <3>1. Head(up[t]).chat \in Chats
      BY <2>2, OperationHas
    <3>2. CASE gen' = gen
      BY <1>c, <3>2
    <3>3. CASE gen' = [gen EXCEPT ![Head(up[t]).chat].abort = TRUE]
      BY <3>1, <3>3, AbortChanges
    <3>. QED
      BY <1>14, <3>2, <3>3 DEF OpChatStop
  <2>. QED
    BY <2>2, <2>3, <2>4, <1>c, <1>d, <1>e
<1>15. ASSUME NEW t \in Tabs, OpLoadChat(t)
       PROVE  TypeOK'
  <2>1. OpFrom(t, "load_chat")
    BY <1>15 DEF OpLoadChat
  <2>2. Head(up[t]) \in Operations /\ Head(up[t]).op = "load_chat" /\ Ups'
    BY <2>1, OpRead, Zenon
  <2>3. UNCHANGED <<workerVars, ui, seen, stored, gen, asking, active, session, shown>>
    BY <1>15 DEF OpLoadChat, serverVars, tabVars
  <2>4. Downs'
    <3>1. Head(up[t]).session \in Sessions
      BY <2>2, OperationHas
    <3>2. PICK e \in Events : down' = [down EXCEPT ![t] = Append(@, e)]
      BY <1>15, <1>c, <3>1, EventIs DEF OpLoadChat, Refuse, Exists
    <3>3. Append(down[t], e) \in Seq(Events)
      BY <1>a, <1>c
    <3>. QED
      BY <1>c, <3>2, <3>3
  <2>. QED
    BY <2>2, <2>3, <2>4, <1>c, <1>d, <1>e
<1>16. ASSUME NEW t \in Tabs, OpDeleteChat(t)
       PROVE  TypeOK'
  BY <1>16, <1>a, <1>b, OperationIs, OperationHas, EventIs, EventHas, MessageIs DEF TypeOK, BrokerTypeOK, OpDeleteChat, OpFrom, tabVars, workerVars
<1>17. ASSUME NEW t \in Tabs, OpMcp(t)
       PROVE  TypeOK'
  BY <1>17, <1>a, <1>b, OperationIs, OperationHas, EventIs, EventHas, MessageIs DEF TypeOK, BrokerTypeOK, OpMcp, OpFrom, tabVars, workerVars
<1>18. ASSUME NEW t \in Tabs, McpAnswers(t)
       PROVE  TypeOK'
  BY <1>18, <1>a, <1>b, OperationIs, OperationHas, EventIs, EventHas, MessageIs DEF TypeOK, BrokerTypeOK, McpAnswers, tabVars, workerVars
<1>19. ASSUME NEW t \in Tabs, OnWorkers(t)
       PROVE  TypeOK'
  BY <1>19, <1>a, <1>b, OperationIs, OperationHas, EventIs, EventHas, MessageIs DEF TypeOK, BrokerTypeOK, OnWorkers, Event, TabKeeps, serverVars, workerVars
<1>20. ASSUME NEW t \in Tabs, OnOther(t)
       PROVE  TypeOK'
  <2>1. down[t] # <<>> /\ down' = [down EXCEPT ![t] = Tail(@)]
    BY <1>20 DEF OnOther, Event
  <2>2. Downs'
    BY <1>a, <1>c, <2>1
  <2>3. UNCHANGED <<workerVars, ui, seen, up, stored, gen, asking, active, session, shown>>
    BY <1>20 DEF OnOther, TabKeeps, serverVars
  <2>. QED
    BY <1>c, <1>d, <1>e, <2>2, <2>3
<1>21. ASSUME NEW t \in Tabs, OnChatSession(t)
       PROVE  TypeOK'
  BY <1>21, <1>a, <1>b, OperationIs, OperationHas, EventIs, EventHas, MessageIs DEF TypeOK, BrokerTypeOK, OnChatSession, Event, TabKeeps, serverVars, workerVars
<1>22. ASSUME NEW t \in Tabs, OnChatToken(t)
       PROVE  TypeOK'
  <2>1. Event(t, "chat_token") /\ UNCHANGED <<workerVars, ui, seen, up, stored, gen, asking, session>>
    BY <1>22 DEF OnChatToken, TabKeeps, serverVars
  <2>2. Downs'
    BY <2>1, EventRead
  <2>3. \A m \in Messages, b \in BOOLEAN :
          [m EXCEPT !.len = @ + 1] \in Messages /\ [m EXCEPT !.streaming = b] \in Messages
    BY DEF Messages
  <2>4. ASSUME Streaming(t), NEW m \in Messages
        PROVE  [shown[t] EXCEPT ![Len(shown[t])] = m] \in Seq(Messages)
    <3>1. shown[t] \in Seq(Messages) /\ shown[t] # <<>>
      BY <1>c, <2>4 DEF Streaming
    <3>2. Len(shown[t]) \in 1..Len(shown[t])
      BY <3>1, EmptySeq, LenProperties
    <3>. QED
      BY <3>1, <3>2, ExceptSeq
  <2>5. ASSUME Streaming(t) PROVE shown[t][Len(shown[t])] \in Messages
    <3>1. shown[t] \in Seq(Messages) /\ shown[t] # <<>>
      BY <1>c, <2>5 DEF Streaming
    <3>2. Len(shown[t]) \in 1..Len(shown[t])
      BY <3>1, EmptySeq, LenProperties
    <3>. QED
      BY <3>1, <3>2, ElementOfSeq
  <2>6. shown' \in [Tabs -> Seq(Messages)]
    <3>1. CASE shown' = shown
      BY <1>c, <3>1
    <3>2. CASE Streaming(t) /\ shown' # shown
      <4>1. PICK m \in Messages : shown' = [shown EXCEPT ![t] = [shown[t] EXCEPT ![Len(shown[t])] = m]]
        BY <1>22, <1>c, <2>3, <2>5, <3>2 DEF OnChatToken
      <4>. QED
        BY <1>c, <2>4, <3>2, <4>1
    <3>. QED
      BY <1>22, <3>1, <3>2 DEF OnChatToken
  <2>7. active' \in [Tabs -> Chats \cup {None}]
    BY <1>22, <1>c DEF OnChatToken
  <2>. QED
    BY <1>c, <1>d, <1>e, <2>1, <2>2, <2>6, <2>7
<1>23. ASSUME NEW t \in Tabs, OnChatDone(t)
       PROVE  TypeOK'
  <2>1. Event(t, "chat_done") /\ UNCHANGED <<workerVars, ui, seen, up, stored, gen, asking, session>>
    BY <1>23 DEF OnChatDone, TabKeeps, serverVars
  <2>2. Downs'
    BY <2>1, EventRead
  <2>3. \A m \in Messages, b \in BOOLEAN :
          [m EXCEPT !.len = @ + 1] \in Messages /\ [m EXCEPT !.streaming = b] \in Messages
    BY DEF Messages
  <2>4. ASSUME Streaming(t), NEW m \in Messages
        PROVE  [shown[t] EXCEPT ![Len(shown[t])] = m] \in Seq(Messages)
    <3>1. shown[t] \in Seq(Messages) /\ shown[t] # <<>>
      BY <1>c, <2>4 DEF Streaming
    <3>2. Len(shown[t]) \in 1..Len(shown[t])
      BY <3>1, EmptySeq, LenProperties
    <3>. QED
      BY <3>1, <3>2, ExceptSeq
  <2>5. ASSUME Streaming(t) PROVE shown[t][Len(shown[t])] \in Messages
    <3>1. shown[t] \in Seq(Messages) /\ shown[t] # <<>>
      BY <1>c, <2>5 DEF Streaming
    <3>2. Len(shown[t]) \in 1..Len(shown[t])
      BY <3>1, EmptySeq, LenProperties
    <3>. QED
      BY <3>1, <3>2, ElementOfSeq
  <2>6. shown' \in [Tabs -> Seq(Messages)]
    <3>1. CASE shown' = shown
      BY <1>c, <3>1
    <3>2. CASE Streaming(t) /\ shown' # shown
      <4>1. PICK m \in Messages : shown' = [shown EXCEPT ![t] = [shown[t] EXCEPT ![Len(shown[t])] = m]]
        BY <1>23, <1>c, <2>3, <2>5, <3>2 DEF OnChatDone
      <4>. QED
        BY <1>c, <2>4, <3>2, <4>1
    <3>. QED
      BY <1>23, <3>1, <3>2 DEF OnChatDone
  <2>7. active' \in [Tabs -> Chats \cup {None}]
    BY <1>23, <1>c DEF OnChatDone
  <2>. QED
    BY <1>c, <1>d, <1>e, <2>1, <2>2, <2>6, <2>7
<1>24. ASSUME NEW t \in Tabs, OnMcpResult(t)
       PROVE  TypeOK'
  BY <1>24, <1>a, <1>b, OperationIs, OperationHas, EventIs, EventHas, MessageIs DEF TypeOK, BrokerTypeOK, OnMcpResult, Event, TabKeeps, serverVars, workerVars
<1>25. ASSUME NEW k \in Chats, ModelLoads(k)
       PROVE  TypeOK'
  <2>1. k \in Chats /\ gen[k] \in Generations /\ UNCHANGED <<workerVars, ui, seen, up, asking, active, session, shown>>
    BY <1>25, <1>c DEF ModelLoads, RunKeeps, tabVars
  <2>2. UNCHANGED <<down, stored>> /\ gen[k].state # "unsent" /\ gen' = [gen EXCEPT ![k].state = "running"]
    BY <1>25 DEF ModelLoads
  <2>3. Gens'
    BY <2>2, StateChanges
  <2>. QED
    BY <1>c, <1>d, <1>e, <2>1, <2>2, <2>3
<1>26. ASSUME NEW k \in Chats, ModelFails(k)
       PROVE  TypeOK'
  <2>1. k \in Chats /\ gen[k] \in Generations /\ UNCHANGED <<workerVars, ui, seen, up, asking, active, session, shown>>
    BY <1>26, <1>c DEF ModelFails, RunKeeps, tabVars
  <2>2. /\ UNCHANGED stored /\ gen[k].state # "unsent" /\ gen' = [gen EXCEPT ![k].state = "error"]
        /\ Tell(k, Done(k, "error"))
    BY <1>26 DEF ModelFails, Ended
  <2>3. Gens'
    BY <2>2, StateChanges
  <2>4. Downs'
    BY <2>2, EventIs, TellSends
  <2>. QED
    BY <1>c, <1>d, <1>e, <2>1, <2>2, <2>3, <2>4
<1>27. ASSUME NEW k \in Chats, Token(k)
       PROVE  TypeOK'
  <2>1. k \in Chats /\ gen[k] \in Generations /\ UNCHANGED <<workerVars, ui, seen, up, asking, active, session, shown>>
    BY <1>27, <1>c DEF Token, RunKeeps, tabVars
  <2>2. /\ UNCHANGED stored /\ gen[k].state # "unsent" /\ gen[k].len < MaxTokens
        /\ gen' = [gen EXCEPT ![k].len = @ + 1] /\ Tell(k, [ev |-> "chat_token", chat |-> k])
    BY <1>27 DEF Token
  <2>3. Gens'
    <3>1. gen[k].len \in 0..MaxTokens
      BY <2>1 DEF Generations
    <3>2. PICK n \in 0..MaxTokens : n = gen[k].len + 1
      BY <2>2, <3>1, ChatAssumption
    <3>3. gen' = [gen EXCEPT ![k].len = n]
      BY <2>2, <3>2
    <3>. QED
      BY <3>3, LengthChanges
  <2>4. Downs'
    BY <2>2, EventIs, TellSends
  <2>. QED
    BY <1>c, <1>d, <1>e, <2>1, <2>2, <2>3, <2>4
<1>28. ASSUME NEW k \in Chats, Stopped(k)
       PROVE  TypeOK'
  <2>1. k \in Chats /\ gen[k] \in Generations /\ UNCHANGED <<workerVars, ui, seen, up, asking, active, session, shown>>
    BY <1>28, <1>c DEF Stopped, RunKeeps, tabVars
  <2>2. /\ Gens' /\ Downs' /\ Table'
    <3>1. ASSUME NEW how \in {"complete", "stopped"}, StoreReply(k, how) PROVE Gens' /\ Downs' /\ Table'
      <4>1. gen[k].state = "running"
        BY <1>28 DEF Stopped
      <4>2. /\ gen[k].session \in Sessions /\ gen[k].len \in Nat
            /\ \E e \in {how, "error"} : gen' = [gen EXCEPT ![k].state = e] /\ Tell(k, Done(k, e))
            /\ \/ UNCHANGED stored
               \/ /\ gen[k].session \in DOMAIN stored
                  /\ stored' = Appended(stored, gen[k].session, Message("assistant", k, gen[k].len, FALSE))
        BY <3>1, <4>1, StoreReplyIs
      <4>3. PICK e \in {"complete", "stopped", "error"} : gen' = [gen EXCEPT ![k].state = e] /\ Tell(k, Done(k, e))
        BY <4>2
      <4>4. Gens'
        BY <4>1, <4>3, StateChanges
      <4>5. Downs'
        BY <4>1, <4>3, EventIs, TellSends
      <4>6. Table'
        <5>1. Message("assistant", k, gen[k].len, FALSE) \in Messages
          BY <4>2, MessageIs
        <5>. QED
          <6>1. DOMAIN stored \subseteq Sessions /\ stored \in [DOMAIN stored -> Seq(Messages)]
            BY <1>c
          <6>2. CASE gen[k].session \in DOMAIN stored
            <7>1. Appended(stored, gen[k].session, Message("assistant", k, gen[k].len, FALSE))
                    \in [DOMAIN stored -> Seq(Messages)]
              BY <5>1, <6>1, <6>2, AppendedIs
            <7>. QED
              BY <4>2, <6>1, <7>1
          <6>. QED
            BY <4>2, <6>1, <6>2
      <4>. QED
        BY <4>4, <4>5, <4>6
    <3>2. CASE /\ gen[k].state = "running" /\ gen' = [gen EXCEPT ![k].state = "stopped"]
               /\ Tell(k, Done(k, "stopped")) /\ UNCHANGED stored
      <4>1. Gens'
        BY <3>2, StateChanges
      <4>2. Downs'
        BY <3>2, EventIs, TellSends
      <4>. QED
        BY <1>c, <3>2, <4>1, <4>2
    <3>. QED
      BY <1>28, <3>1, <3>2 DEF Stopped, Ended
  <2>. QED
    BY <1>c, <1>d, <1>e, <2>1, <2>2
<1>29. ASSUME NEW k \in Chats, Completed(k)
       PROVE  TypeOK'
  <2>1. k \in Chats /\ gen[k] \in Generations /\ UNCHANGED <<workerVars, ui, seen, up, asking, active, session, shown>>
    BY <1>29, <1>c DEF Completed, RunKeeps, tabVars
  <2>2. /\ Gens' /\ Downs' /\ Table'
    <3>1. ASSUME NEW how \in {"complete", "stopped"}, StoreReply(k, how) PROVE Gens' /\ Downs' /\ Table'
      <4>1. gen[k].state = "running"
        BY <1>29 DEF Completed
      <4>2. /\ gen[k].session \in Sessions /\ gen[k].len \in Nat
            /\ \E e \in {how, "error"} : gen' = [gen EXCEPT ![k].state = e] /\ Tell(k, Done(k, e))
            /\ \/ UNCHANGED stored
               \/ /\ gen[k].session \in DOMAIN stored
                  /\ stored' = Appended(stored, gen[k].session, Message("assistant", k, gen[k].len, FALSE))
        BY <3>1, <4>1, StoreReplyIs
      <4>3. PICK e \in {"complete", "stopped", "error"} : gen' = [gen EXCEPT ![k].state = e] /\ Tell(k, Done(k, e))
        BY <4>2
      <4>4. Gens'
        BY <4>1, <4>3, StateChanges
      <4>5. Downs'
        BY <4>1, <4>3, EventIs, TellSends
      <4>6. Table'
        <5>1. Message("assistant", k, gen[k].len, FALSE) \in Messages
          BY <4>2, MessageIs
        <5>. QED
          <6>1. DOMAIN stored \subseteq Sessions /\ stored \in [DOMAIN stored -> Seq(Messages)]
            BY <1>c
          <6>2. CASE gen[k].session \in DOMAIN stored
            <7>1. Appended(stored, gen[k].session, Message("assistant", k, gen[k].len, FALSE))
                    \in [DOMAIN stored -> Seq(Messages)]
              BY <5>1, <6>1, <6>2, AppendedIs
            <7>. QED
              BY <4>2, <6>1, <7>1
          <6>. QED
            BY <4>2, <6>1, <6>2
      <4>. QED
        BY <4>4, <4>5, <4>6
    <3>. QED
      BY <1>29, <3>1 DEF Completed
  <2>. QED
    BY <1>c, <1>d, <1>e, <2>1, <2>2
<1>30. ASSUME UNCHANGED chatVars
       PROVE  TypeOK'
  BY <1>30, <1>a, <1>b, OperationIs, OperationHas, EventIs, EventHas, MessageIs DEF TypeOK, BrokerTypeOK, chatVars, serverVars, tabVars, workerVars
<1>. QED
  BY <1>p, <1>1, <1>2, <1>3, <1>4, <1>5, <1>6, <1>7, <1>8, <1>9, <1>10, <1>11, 
     <1>12, <1>13, <1>14, <1>15, <1>16, <1>17, <1>18, <1>19, <1>20, <1>21, <1>22, 
     <1>23, <1>24, <1>25, <1>26, <1>27, <1>28, <1>29, <1>30
  DEF Next, SocketNext, WorkerNext, UserNext, HandleOp, Receive, RunChat

-----------------------------------------------------------------------------
(* The list of workers.                                                      *)

(* A list that is sent now is the last one; other events change nothing, and *)
(* the last list is not lost when an earlier event is read.                  *)
LEMMA LastAppend ==
  ASSUME NEW q \in Seq(Events), NEW e \in Events, NEW list
  PROVE  /\ e = list => \E i \in DOMAIN Append(q, e) : IsLast(list, Append(q, e), i)
         /\ e.ev # "workers" => /\ NoList(q) => NoList(Append(q, e))
                                /\ (\E i \in DOMAIN q : IsLast(list, q, i))
                                     => \E i \in DOMAIN Append(q, e) : IsLast(list, Append(q, e), i)
<1>1. /\ Len(q) \in Nat /\ DOMAIN q = 1..Len(q) /\ DOMAIN Append(q, e) = 1..(Len(q) + 1)
      /\ Append(q, e)[Len(q) + 1] = e /\ \A i \in DOMAIN q : Append(q, e)[i] = q[i]
  BY AppendIs
<1>2. ASSUME e = list PROVE IsLast(list, Append(q, e), Len(q) + 1)
  BY <1>1, <1>2 DEF IsLast
<1>3. ASSUME e.ev # "workers", NoList(q) PROVE NoList(Append(q, e))
  <2>. SUFFICES ASSUME NEW i \in DOMAIN Append(q, e) PROVE Append(q, e)[i].ev # "workers"
    BY DEF NoList
  <2>. QED
    BY <1>1, <1>3 DEF NoList
<1>4. ASSUME e.ev # "workers", NEW i \in DOMAIN q, IsLast(list, q, i) PROVE IsLast(list, Append(q, e), i)
  <2>. SUFFICES ASSUME NEW j \in DOMAIN Append(q, e), j > i PROVE Append(q, e)[j].ev # "workers"
    BY <1>1, <1>4 DEF IsLast
  <2>. QED
    BY <1>1, <1>4 DEF IsLast
<1>. QED
  BY <1>1, <1>2, <1>3, <1>4

(* The last list of workers in a queue, when its head is read. *)
LEMMA LastTail ==
  ASSUME NEW q \in Seq(Events), q # <<>>, NEW list
  PROVE  /\ NoList(q) => NoList(Tail(q)) /\ Head(q).ev # "workers"
         /\ (\E i \in DOMAIN q : IsLast(list, q, i)) =>
              \/ \E i \in DOMAIN Tail(q) : IsLast(list, Tail(q), i)
              \/ Head(q) = list /\ NoList(Tail(q))
<1>1. /\ Head(q) = q[1] /\ 1 \in DOMAIN q
      /\ \A i \in DOMAIN Tail(q) : i \in Nat \ {0} /\ i + 1 \in DOMAIN q /\ Tail(q)[i] = q[i + 1]
      /\ \A i \in DOMAIN q : i = 1 \/ (i - 1 \in DOMAIN Tail(q) /\ Tail(q)[i - 1] = q[i])
      /\ \A i \in DOMAIN q : i \in Nat
  <2>1. DOMAIN q = 1..Len(q) /\ Len(q) \in Nat
    BY LenProperties
  <2>. QED
    BY <2>1, TailIs
<1>2. NoList(q) => NoList(Tail(q)) /\ Head(q).ev # "workers"
  BY <1>1 DEF NoList
<1>3. ASSUME NEW i \in DOMAIN q, IsLast(list, q, i), i # 1
      PROVE  i - 1 \in DOMAIN Tail(q) /\ IsLast(list, Tail(q), i - 1)
  <2>1. i - 1 \in DOMAIN Tail(q) /\ Tail(q)[i - 1] = list
    BY <1>1, <1>3 DEF IsLast
  <2>2. ASSUME NEW j \in DOMAIN Tail(q), j > i - 1 PROVE Tail(q)[j].ev # "workers"
    <3>1. j + 1 \in DOMAIN q /\ Tail(q)[j] = q[j + 1] /\ j \in Nat /\ i \in Nat
      BY <1>1, <2>2
    <3>2. j + 1 > i
      BY <2>2, <3>1
    <3>. QED
      BY <1>3, <3>1, <3>2 DEF IsLast
  <2>. QED
    BY <2>1, <2>2 DEF IsLast
<1>4. ASSUME IsLast(list, q, 1) PROVE Head(q) = list /\ NoList(Tail(q))
  <2>1. ASSUME NEW j \in DOMAIN Tail(q) PROVE Tail(q)[j].ev # "workers"
    <3>1. j + 1 \in DOMAIN q /\ Tail(q)[j] = q[j + 1] /\ j + 1 > 1
      BY <1>1
    <3>. QED
      BY <1>4, <3>1 DEF IsLast
  <2>. QED
    BY <1>1, <1>4, <2>1 DEF IsLast, NoList
<1>. QED
  BY <1>2, <1>3, <1>4

(* What a step of the transport does to a connected tab, when no worker comes *)
(* or goes.                                                                  *)
Heard(t) ==
  \/ /\ t \in ui /\ UNCHANGED <<down[t], seen[t]>>
  \/ /\ t \in ui /\ seen'[t] = seen[t]
     /\ \E e \in Events : e.ev # "workers" /\ down'[t] = Append(down[t], e)
  \/ /\ t \in ui /\ down[t] # <<>> /\ down'[t] = Tail(down[t])
     /\ seen'[t] = IF Head(down[t]).ev = "workers" THEN Head(down[t]).ids ELSE seen[t]
  \/ down'[t] = <<WorkersEvent(workers)>>

(* A tab that has heard what a step sent still knows the workers. *)
LEMMA HeardTold ==
  ASSUME TypeOK, NEW t \in Tabs, t \in ui => Told(t), UNCHANGED workers, Heard(t)
  PROVE  Told(t)'
<1>. DEFINE list == WorkersEvent(workers)
<1>1. /\ down \in [Tabs -> Seq(Events)] /\ down[t] \in Seq(Events) /\ WorkersEvent(workers)' = list
      /\ list \in Events /\ list.ev = "workers"
  BY ListIs DEF TypeOK
<1>. HIDE DEF list
<1>2. Told(t) <=> \/ NoList(down[t]) /\ seen[t] = list.ids
                  \/ \E i \in DOMAIN down[t] : IsLast(list, down[t], i)
  BY DEF Told, list
<1>3. Told(t)' <=> \/ NoList(down'[t]) /\ seen'[t] = list.ids
                   \/ \E i \in DOMAIN down'[t] : IsLast(list, down'[t], i)
  BY <1>1 DEF Told, NoList, IsLast
<1>4. CASE t \in ui /\ UNCHANGED <<down[t], seen[t]>>
  BY <1>2, <1>3, <1>4
<1>5. ASSUME t \in ui, seen'[t] = seen[t],
             NEW e \in Events, e.ev # "workers", down'[t] = Append(down[t], e)
      PROVE  Told(t)'
  BY <1>1, <1>2, <1>3, <1>5, LastAppend
<1>6. CASE /\ t \in ui /\ down[t] # <<>> /\ down'[t] = Tail(down[t])
           /\ seen'[t] = IF Head(down[t]).ev = "workers" THEN Head(down[t]).ids ELSE seen[t]
  BY <1>1, <1>2, <1>3, <1>6, LastTail
<1>7. CASE down'[t] = <<WorkersEvent(workers)>>
  <2>1. DOMAIN <<list>> = {1} /\ <<list>>[1] = list
    BY OneIs
  <2>2. IsLast(list, <<list>>, 1)
    BY <2>1 DEF IsLast
  <2>. QED
    BY <1>3, <1>7, <2>1, <2>2 DEF list
<1>. QED
  BY <1>4, <1>5, <1>6, <1>7 DEF Heard

(* After a broadcast of the workers every tab knows them. *)
LEMMA BroadcastTold ==
  ASSUME TypeOK, NEW t \in ui, down' = Broadcast(down, WorkersEvent(workers'))
  PROVE  Told(t)'
<1>1. down \in [Tabs -> Seq(Events)] /\ t \in Tabs
  BY DEF TypeOK, BrokerTypeOK
<1>2. PICK list : list = WorkersEvent(workers')
  OBVIOUS
<1>3. list \in Events /\ WorkersEvent(workers)' = list
  BY <1>2, ListIs DEF WorkersEvent
<1>4. down'[t] = Append(down[t], list)
  BY <1>1, <1>2 DEF Broadcast
<1>5. \E i \in DOMAIN down'[t] : IsLast(list, down'[t], i)
  <2>1. down[t] \in Seq(Events) /\ list \in Events
    BY <1>1, <1>3
  <2>2. \E i \in DOMAIN Append(down[t], list) : IsLast(list, Append(down[t], list), i)
    BY <2>1, LastAppend
  <2>. QED
    BY <1>4, <2>2
<1>. QED
  BY <1>3, <1>5 DEF Told, IsLast

(* Every step keeps every connected tab told.                                *)
LEMMA ToldStep ==
  TypeOK /\ SentInOrder /\ QueuedOnce /\ (\A t \in ui : Told(t)) /\ [Next]_chatVars => (\A t \in ui : Told(t))'
<1>. DEFINE Goal == (\A t \in ui : Told(t))'
<1>. SUFFICES ASSUME TypeOK, SentInOrder, QueuedOnce, \A t \in ui : Told(t), [Next]_chatVars
              PROVE  Goal
  OBVIOUS
<1>p. pages \subseteq Tabs /\ ui \subseteq Tabs /\ down \in [Tabs -> Seq(Events)] /\ seen \in [Tabs -> SUBSET WorkerIds]
  BY DEF TypeOK, BrokerTypeOK
<1>q. ASSUME UNCHANGED workers, \A t \in ui' : t \in Tabs /\ Heard(t) PROVE Goal
  BY <1>q, HeardTold
<1>r. ASSUME UNCHANGED <<workers, ui, down, seen>> PROVE Goal
  BY <1>p, <1>q, <1>r DEF Heard
<1>1. ASSUME NEW t \in Tabs, Connect(t), UNCHANGED <<serverVars, tabVars, historyVars>>
      PROVE  Goal
  <2>1. /\ ui' = ui \cup {t} /\ UNCHANGED <<workers, seen>>
        /\ down' = [down EXCEPT ![t] = <<WorkersEvent(workers)>>]
    BY <1>1 DEF Connect, Greeting, workerVars
  <2>. QED
    BY <2>1, <1>p, <1>q DEF Heard
<1>2. ASSUME NEW t \in Tabs, Drop(t), UNCHANGED <<serverVars, tabVars, missed, deleted>>
      PROVE  Goal
  <2>1. /\ ui' = ui \ {t} /\ UNCHANGED <<workers, seen>> /\ down' = [down EXCEPT ![t] = <<>>]
    BY <1>2 DEF Drop, workerVars
  <2>. QED
    BY <2>1, <1>p, <1>q DEF Heard
<1>3. ASSUME NEW m \in Machines, NEW i \in WorkerIds, Register(m, i), UNCHANGED <<serverVars, tabVars, historyVars>>
      PROVE  Goal
  <2>1. down' = Broadcast(down, WorkersEvent(workers')) /\ UNCHANGED ui
    BY <1>3 DEF Register
  <2>. QED
    BY <2>1, BroadcastTold
<1>4. ASSUME NEW m \in Machines, Report(m), UNCHANGED <<serverVars, tabVars, historyVars>>
      PROVE  Goal
  <2>1. /\ UNCHANGED <<ui, seen, workers>> /\ handle[m] \in WorkerIds
        /\ down' = Broadcast(down, [ev |-> "worker_event", id |-> handle[m]])
    BY <1>4 DEF Report, workerVars, TypeOK, BrokerTypeOK
  <2>2. PICK e \in Events : e = [ev |-> "worker_event", id |-> handle[m]] /\ e.ev # "workers"
    BY <2>1, EventIs
  <2>3. \A t \in ui : down'[t] = Append(down[t], e)
    BY <1>p, <2>1, <2>2, BroadcastSends
  <2>. QED
    BY <1>p, <1>q, <2>1, <2>2, <2>3 DEF Heard
<1>5. ASSUME NEW m \in Machines, HangUp(m), UNCHANGED <<serverVars, tabVars, historyVars>>
      PROVE  Goal
  <2>1. down' = Broadcast(down, WorkersEvent(workers')) /\ UNCHANGED ui
    BY <1>5 DEF HangUp
  <2>. QED
    BY <2>1, BroadcastTold
<1>6. ASSUME NEW t \in Tabs, NEW s \in Sessions, NewChat(t, s)
      PROVE  Goal
  <2>1. UNCHANGED <<workers, ui, down, seen>>
    BY <1>6 DEF NewChat, Quiet, workerVars
  <2>. QED
    BY <2>1, <1>r
<1>7. ASSUME NEW t \in Tabs, NEW s \in Sessions, SendChat(t, s)
      PROVE  Goal
  <2>1. UNCHANGED <<workers, ui, down, seen>>
    BY <1>7 DEF SendChat, workerVars
  <2>. QED
    BY <2>1, <1>r
<1>8. ASSUME NEW t \in Tabs, NEW s \in Sessions, LoadChatSession(t, s)
      PROVE  Goal
  <2>1. UNCHANGED <<workers, ui, down, seen>>
    BY <1>8 DEF LoadChatSession, Quiet, workerVars
  <2>. QED
    BY <2>1, <1>r
<1>9. ASSUME NEW t \in Tabs, NEW s \in Sessions, DeleteChatSession(t, s)
      PROVE  Goal
  <2>1. UNCHANGED <<workers, ui, down, seen>>
    BY <1>9 DEF DeleteChatSession, Quiet, workerVars
  <2>. QED
    BY <2>1, <1>r
<1>10. ASSUME NEW t \in Tabs, StopChat(t)
       PROVE  Goal
  <2>1. UNCHANGED <<workers, ui, down, seen>>
    BY <1>10 DEF StopChat, Quiet, workerVars
  <2>. QED
    BY <2>1, <1>r
<1>11. ASSUME NEW t \in Tabs, NEW silent \in BOOLEAN, DispatchRpc(t, silent)
       PROVE  Goal
  <2>1. UNCHANGED <<workers, ui, down, seen>>
    BY <1>11 DEF DispatchRpc, Quiet, workerVars
  <2>. QED
    BY <2>1, <1>r
<1>12. ASSUME NEW t \in Tabs, OpCreateChat(t)
       PROVE  Goal
  <2>1. UNCHANGED <<workers, ui, down, seen>>
    BY <1>12 DEF OpCreateChat, workerVars
  <2>. QED
    BY <2>1, <1>r
<1>13. ASSUME NEW t \in Tabs, OpChatSend(t)
       PROVE  Goal
  <2>1. UNCHANGED <<workers, ui, down, seen>>
    BY <1>13 DEF OpChatSend, workerVars
  <2>. QED
    BY <2>1, <1>r
<1>14. ASSUME NEW t \in Tabs, OpChatStop(t)
       PROVE  Goal
  <2>1. UNCHANGED <<workers, ui, down, seen>>
    BY <1>14 DEF OpChatStop, workerVars
  <2>. QED
    BY <2>1, <1>r
<1>15. ASSUME NEW t \in Tabs, OpLoadChat(t)
       PROVE  Goal
  <2>1. UNCHANGED <<ui, seen, workers>> /\ OpFrom(t, "load_chat")
    BY <1>15 DEF OpLoadChat, workerVars
  <2>2. PICK e \in Events : e.ev # "workers" /\ down' = [down EXCEPT ![t] = Append(@, e)]
    <3>1. Head(up[t]).session \in Sessions
      BY <2>1, OpRead, OperationHas
    <3>2. \A s \in DOMAIN stored : stored[s] \in Seq(Messages)
      BY DEF TypeOK
    <3>. QED
      BY <1>15, <3>1, <3>2, EventIs DEF OpLoadChat, Refuse, Exists
  <2>3. \A u \in Tabs : down'[u] = IF u = t THEN Append(down[t], e) ELSE down[u]
    BY <1>p, <2>2
  <2>. QED
    BY <1>p, <1>q, <2>1, <2>2, <2>3 DEF Heard
<1>16. ASSUME NEW t \in Tabs, OpDeleteChat(t)
       PROVE  Goal
  <2>1. UNCHANGED <<workers, ui, down, seen>>
    BY <1>16 DEF OpDeleteChat, workerVars
  <2>. QED
    BY <2>1, <1>r
<1>17. ASSUME NEW t \in Tabs, OpMcp(t)
       PROVE  Goal
  <2>1. UNCHANGED <<workers, ui, down, seen>>
    BY <1>17 DEF OpMcp, workerVars
  <2>. QED
    BY <2>1, <1>r
<1>18. ASSUME NEW t \in Tabs, McpAnswers(t)
       PROVE  Goal
  <2>1. UNCHANGED <<ui, seen, workers>>
    BY <1>18 DEF McpAnswers, workerVars
  <2>2. PICK e \in Events : e = [ev |-> "mcp_result"] /\ e.ev # "workers"
    BY EventIs
  <2>3. \A u \in Tabs : down'[u] = down[u] \/ down'[u] = Append(down[u], e)
    BY <1>18, <1>p, <2>2 DEF McpAnswers
  <2>. QED
    BY <1>p, <1>q, <2>1, <2>2, <2>3 DEF Heard
<1>19. ASSUME NEW t \in Tabs, OnWorkers(t)
       PROVE  Goal
  <2>1. UNCHANGED <<ui, workers>> /\ Event(t, "workers") /\ seen' = [seen EXCEPT ![t] = Head(down[t]).ids]
    BY <1>19 DEF OnWorkers, TabKeeps, workerVars
  <2>2. Head(down[t]).ev = "workers" /\ down[t] # <<>> /\ down' = [down EXCEPT ![t] = Tail(down[t])]
    BY <2>1, EventRead
  <2>. QED
    BY <1>p, <1>q, <2>1, <2>2 DEF Heard
<1>20. ASSUME NEW t \in Tabs, OnOther(t)
       PROVE  Goal
  <2>1. UNCHANGED <<ui, seen, workers>>
    BY <1>20 DEF OnOther, TabKeeps, workerVars
  <2>2. Head(down[t]).ev # "workers" /\ down[t] # <<>> /\ down' = [down EXCEPT ![t] = Tail(down[t])]
    BY <1>20 DEF OnOther, Event
  <2>. QED
    BY <1>p, <1>q, <2>1, <2>2 DEF Heard
<1>21. ASSUME NEW t \in Tabs, OnChatSession(t)
       PROVE  Goal
  <2>1. UNCHANGED <<ui, seen, workers>> /\ Event(t, "chat_session")
    BY <1>21 DEF OnChatSession, TabKeeps, workerVars
  <2>2. Head(down[t]).ev # "workers" /\ down[t] # <<>> /\ down' = [down EXCEPT ![t] = Tail(down[t])]
    BY <2>1, EventRead
  <2>. QED
    BY <1>p, <1>q, <2>1, <2>2 DEF Heard
<1>22. ASSUME NEW t \in Tabs, OnChatToken(t)
       PROVE  Goal
  <2>1. UNCHANGED <<ui, seen, workers>> /\ Event(t, "chat_token")
    BY <1>22 DEF OnChatToken, TabKeeps, workerVars
  <2>2. Head(down[t]).ev # "workers" /\ down[t] # <<>> /\ down' = [down EXCEPT ![t] = Tail(down[t])]
    BY <2>1, EventRead
  <2>. QED
    BY <1>p, <1>q, <2>1, <2>2 DEF Heard
<1>23. ASSUME NEW t \in Tabs, OnChatDone(t)
       PROVE  Goal
  <2>1. UNCHANGED <<ui, seen, workers>> /\ Event(t, "chat_done")
    BY <1>23 DEF OnChatDone, TabKeeps, workerVars
  <2>2. Head(down[t]).ev # "workers" /\ down[t] # <<>> /\ down' = [down EXCEPT ![t] = Tail(down[t])]
    BY <2>1, EventRead
  <2>. QED
    BY <1>p, <1>q, <2>1, <2>2 DEF Heard
<1>24. ASSUME NEW t \in Tabs, OnMcpResult(t)
       PROVE  Goal
  <2>1. UNCHANGED <<ui, seen, workers>> /\ Event(t, "mcp_result")
    BY <1>24 DEF OnMcpResult, TabKeeps, workerVars
  <2>2. Head(down[t]).ev # "workers" /\ down[t] # <<>> /\ down' = [down EXCEPT ![t] = Tail(down[t])]
    BY <2>1, EventRead
  <2>. QED
    BY <1>p, <1>q, <2>1, <2>2 DEF Heard
<1>25. ASSUME NEW k \in Chats, ModelLoads(k)
       PROVE  Goal
  <2>1. UNCHANGED <<workers, ui, down, seen>>
    BY <1>25 DEF ModelLoads, RunKeeps, workerVars
  <2>. QED
    BY <2>1, <1>r
<1>26. ASSUME NEW k \in Chats, ModelFails(k)
       PROVE  Goal
  <2>1. UNCHANGED <<ui, seen, workers>>
    BY <1>26 DEF ModelFails, RunKeeps, workerVars
  <2>2. PICK e \in Events : e.ev # "workers" /\ Tell(k, e) /\ gen[k].state # "unsent"
    BY <1>26, EventIs DEF ModelFails, Done
  <2>3. \A u \in Tabs : down'[u] = down[u] \/ (u \in ui /\ down'[u] = Append(down[u], e))
    BY <2>2, TellSends
  <2>. QED
    BY <1>p, <1>q, <2>1, <2>2, <2>3 DEF Heard
<1>27. ASSUME NEW k \in Chats, Token(k)
       PROVE  Goal
  <2>1. UNCHANGED <<ui, seen, workers>>
    BY <1>27 DEF Token, RunKeeps, workerVars
  <2>2. PICK e \in Events : e.ev # "workers" /\ Tell(k, e) /\ gen[k].state # "unsent"
    BY <1>27, EventIs DEF Token
  <2>3. \A u \in Tabs : down'[u] = down[u] \/ (u \in ui /\ down'[u] = Append(down[u], e))
    BY <2>2, TellSends
  <2>. QED
    BY <1>p, <1>q, <2>1, <2>2, <2>3 DEF Heard
<1>28. ASSUME NEW k \in Chats, Stopped(k)
       PROVE  Goal
  <2>1. UNCHANGED <<ui, seen, workers>>
    BY <1>28 DEF Stopped, RunKeeps, workerVars
  <2>2. PICK e \in Events : e.ev # "workers" /\ Tell(k, e) /\ gen[k].state # "unsent"
    <3>1. ASSUME NEW how \in {"complete", "stopped"}, StoreReply(k, how)
          PROVE  \E r \in {"complete", "stopped", "error"} : Tell(k, Done(k, r))
      BY <1>28, <3>1 DEF StoreReply
    <3>2. PICK r \in {"complete", "stopped", "error"} : Tell(k, Done(k, r))
      BY <1>28, <3>1 DEF Stopped
    <3>3. Done(k, r) \in Events /\ Done(k, r).ev # "workers"
      BY EventIs DEF Done
    <3>. QED
      BY <1>28, <3>2, <3>3 DEF Stopped
  <2>3. \A u \in Tabs : down'[u] = down[u] \/ (u \in ui /\ down'[u] = Append(down[u], e))
    BY <2>2, TellSends
  <2>. QED
    BY <1>p, <1>q, <2>1, <2>2, <2>3 DEF Heard
<1>29. ASSUME NEW k \in Chats, Completed(k)
       PROVE  Goal
  <2>1. UNCHANGED <<ui, seen, workers>>
    BY <1>29 DEF Completed, RunKeeps, workerVars
  <2>2. PICK e \in Events : e.ev # "workers" /\ Tell(k, e) /\ gen[k].state # "unsent"
    <3>1. ASSUME NEW how \in {"complete", "stopped"}, StoreReply(k, how)
          PROVE  \E r \in {"complete", "stopped", "error"} : Tell(k, Done(k, r))
      BY <1>29, <3>1 DEF StoreReply
    <3>2. PICK r \in {"complete", "stopped", "error"} : Tell(k, Done(k, r))
      BY <1>29, <3>1 DEF Completed
    <3>3. Done(k, r) \in Events /\ Done(k, r).ev # "workers"
      BY EventIs DEF Done
    <3>. QED
      BY <1>29, <3>2, <3>3 DEF Completed
  <2>3. \A u \in Tabs : down'[u] = down[u] \/ (u \in ui /\ down'[u] = Append(down[u], e))
    BY <2>2, TellSends
  <2>. QED
    BY <1>p, <1>q, <2>1, <2>2, <2>3 DEF Heard
<1>30. ASSUME UNCHANGED chatVars
       PROVE  Goal
  <2>1. UNCHANGED <<workers, ui, down, seen>>
    BY <1>30 DEF chatVars, workerVars
  <2>. QED
    BY <2>1, <1>r
<1>. QED
  BY <1>p, <1>1, <1>2, <1>3, <1>4, <1>5, <1>6, <1>7, <1>8, <1>9, <1>10, <1>11, 
     <1>12, <1>13, <1>14, <1>15, <1>16, <1>17, <1>18, <1>19, <1>20, <1>21, <1>22, 
     <1>23, <1>24, <1>25, <1>26, <1>27, <1>28, <1>29, <1>30
  DEF Next, SocketNext, WorkerNext, UserNext, HandleOp, Receive, RunChat

(* Every step keeps the workers map the set of the live workers.             *)
LEMMA LiveStep == TypeOK /\ WorkersAreLive /\ [Next]_chatVars => WorkersAreLive'
<1>. SUFFICES ASSUME TypeOK, WorkersAreLive, [Next]_chatVars PROVE WorkersAreLive'
  OBVIOUS
<1>p. /\ pages \subseteq Tabs
      /\ line \in [Machines -> {"closed", "open", "gone"}]
      /\ handle \in [Machines -> WorkerIds \cup {Nobody}]
      /\ workers \in [WorkerIds -> Machines \cup {Nobody}]
      /\ \A m \in Machines : /\ handle[m] # Nobody => <<m, handle[m]>> \in taken
                             /\ line[m] = "open" => handle[m] # Nobody
      /\ \A i \in WorkerIds : workers[i] # Nobody =>
           line[workers[i]] = "open" \/ handle[workers[i]] # i
      /\ \A m \in Machines : line[m] = "open" /\ workers[handle[m]] # m =>
           \E n \in Machines \ {m} : <<n, handle[m]>> \in taken
  BY DEF TypeOK, BrokerTypeOK, WorkersAreLive
<1>q. ASSUME UNCHANGED workerVars PROVE WorkersAreLive'
  BY <1>q DEF workerVars, WorkersAreLive
<1>1. ASSUME NEW t \in Tabs, Connect(t), UNCHANGED <<serverVars, tabVars, historyVars>>
      PROVE  WorkersAreLive'
  BY <1>1, <1>q DEF Connect
<1>2. ASSUME NEW t \in Tabs, Drop(t), UNCHANGED <<serverVars, tabVars, missed, deleted>>
      PROVE  WorkersAreLive'
  BY <1>2, <1>q DEF Drop
<1>3. ASSUME NEW m \in Machines, NEW i \in WorkerIds, Register(m, i), UNCHANGED <<serverVars, tabVars, historyVars>>
      PROVE  WorkersAreLive'
  <2>1. /\ line' = [line EXCEPT ![m] = "open"] /\ handle' = [handle EXCEPT ![m] = i]
        /\ workers' = [workers EXCEPT ![i] = m] /\ taken' = taken \cup {<<m, i>>}
    BY <1>3 DEF Register
  <2>2. ASSUME NEW j \in WorkerIds, workers'[j] # Nobody
        PROVE  line'[workers'[j]] = "open" \/ handle'[workers'[j]] # j
    BY <1>p, <2>1, <2>2
  <2>3. ASSUME NEW n \in Machines, line'[n] = "open", workers'[handle'[n]] # n
        PROVE  \E o \in Machines \ {n} : <<o, handle'[n]>> \in taken'
    <3>1. n # m /\ handle'[n] = handle[n] /\ line[n] = "open" /\ handle[n] \in WorkerIds
      BY <1>p, <2>1, <2>3
    <3>2. CASE handle[n] = i
      BY <2>1, <3>1, <3>2
    <3>3. CASE handle[n] # i
      BY <1>p, <2>1, <2>3, <3>1, <3>3
    <3>. QED
      BY <3>2, <3>3
  <2>. QED
    BY <2>2, <2>3 DEF WorkersAreLive
<1>4. ASSUME NEW m \in Machines, Report(m), UNCHANGED <<serverVars, tabVars, historyVars>>
      PROVE  WorkersAreLive'
  BY <1>4, <1>q DEF Report
<1>5. ASSUME NEW m \in Machines, HangUp(m), UNCHANGED <<serverVars, tabVars, historyVars>>
      PROVE  WorkersAreLive'
  <2>1. /\ line[m] = "open" /\ line' = [line EXCEPT ![m] = "gone"]
        /\ workers' = [workers EXCEPT ![handle[m]] = Nobody] /\ UNCHANGED <<handle, taken>>
    BY <1>5 DEF HangUp
  <2>2. ASSUME NEW j \in WorkerIds, workers'[j] # Nobody
        PROVE  line'[workers'[j]] = "open" \/ handle'[workers'[j]] # j
    <3>1. j # handle[m] /\ workers'[j] = workers[j]
      BY <1>p, <2>1, <2>2
    <3>. QED
      BY <1>p, <2>1, <2>2, <3>1
  <2>3. ASSUME NEW n \in Machines, line'[n] = "open", workers'[handle'[n]] # n
        PROVE  \E o \in Machines \ {n} : <<o, handle'[n]>> \in taken'
    <3>1. n # m /\ handle'[n] = handle[n] /\ line[n] = "open" /\ handle[n] \in WorkerIds
      BY <1>p, <2>1, <2>3
    <3>2. CASE handle[n] = handle[m]
      <4>1. <<m, handle[m]>> \in taken
        BY <1>p, <2>1
      <4>. QED
        BY <2>1, <3>1, <3>2, <4>1
    <3>3. CASE handle[n] # handle[m]
      BY <1>p, <2>1, <2>3, <3>1, <3>3
    <3>. QED
      BY <3>2, <3>3
  <2>. QED
    BY <2>2, <2>3 DEF WorkersAreLive
<1>6. ASSUME NEW t \in Tabs, NEW s \in Sessions, NewChat(t, s)
      PROVE  WorkersAreLive'
  BY <1>6, <1>q DEF NewChat, Quiet
<1>7. ASSUME NEW t \in Tabs, NEW s \in Sessions, SendChat(t, s)
      PROVE  WorkersAreLive'
  BY <1>7, <1>q DEF SendChat
<1>8. ASSUME NEW t \in Tabs, NEW s \in Sessions, LoadChatSession(t, s)
      PROVE  WorkersAreLive'
  BY <1>8, <1>q DEF LoadChatSession, Quiet
<1>9. ASSUME NEW t \in Tabs, NEW s \in Sessions, DeleteChatSession(t, s)
      PROVE  WorkersAreLive'
  BY <1>9, <1>q DEF DeleteChatSession, Quiet
<1>10. ASSUME NEW t \in Tabs, StopChat(t)
       PROVE  WorkersAreLive'
  BY <1>10, <1>q DEF StopChat, Quiet
<1>11. ASSUME NEW t \in Tabs, NEW silent \in BOOLEAN, DispatchRpc(t, silent)
       PROVE  WorkersAreLive'
  BY <1>11, <1>q DEF DispatchRpc, Quiet
<1>12. ASSUME NEW t \in Tabs, OpCreateChat(t)
       PROVE  WorkersAreLive'
  BY <1>12, <1>q DEF OpCreateChat
<1>13. ASSUME NEW t \in Tabs, OpChatSend(t)
       PROVE  WorkersAreLive'
  BY <1>13, <1>q DEF OpChatSend
<1>14. ASSUME NEW t \in Tabs, OpChatStop(t)
       PROVE  WorkersAreLive'
  BY <1>14, <1>q DEF OpChatStop
<1>15. ASSUME NEW t \in Tabs, OpLoadChat(t)
       PROVE  WorkersAreLive'
  BY <1>15, <1>q DEF OpLoadChat
<1>16. ASSUME NEW t \in Tabs, OpDeleteChat(t)
       PROVE  WorkersAreLive'
  BY <1>16, <1>q DEF OpDeleteChat
<1>17. ASSUME NEW t \in Tabs, OpMcp(t)
       PROVE  WorkersAreLive'
  BY <1>17, <1>q DEF OpMcp
<1>18. ASSUME NEW t \in Tabs, McpAnswers(t)
       PROVE  WorkersAreLive'
  BY <1>18, <1>q DEF McpAnswers
<1>19. ASSUME NEW t \in Tabs, OnWorkers(t)
       PROVE  WorkersAreLive'
  BY <1>19, <1>q DEF OnWorkers, TabKeeps
<1>20. ASSUME NEW t \in Tabs, OnOther(t)
       PROVE  WorkersAreLive'
  BY <1>20, <1>q DEF OnOther, TabKeeps
<1>21. ASSUME NEW t \in Tabs, OnChatSession(t)
       PROVE  WorkersAreLive'
  BY <1>21, <1>q DEF OnChatSession, TabKeeps
<1>22. ASSUME NEW t \in Tabs, OnChatToken(t)
       PROVE  WorkersAreLive'
  BY <1>22, <1>q DEF OnChatToken, TabKeeps
<1>23. ASSUME NEW t \in Tabs, OnChatDone(t)
       PROVE  WorkersAreLive'
  BY <1>23, <1>q DEF OnChatDone, TabKeeps
<1>24. ASSUME NEW t \in Tabs, OnMcpResult(t)
       PROVE  WorkersAreLive'
  BY <1>24, <1>q DEF OnMcpResult, TabKeeps
<1>25. ASSUME NEW k \in Chats, ModelLoads(k)
       PROVE  WorkersAreLive'
  BY <1>25, <1>q DEF ModelLoads, RunKeeps
<1>26. ASSUME NEW k \in Chats, ModelFails(k)
       PROVE  WorkersAreLive'
  BY <1>26, <1>q DEF ModelFails, RunKeeps
<1>27. ASSUME NEW k \in Chats, Token(k)
       PROVE  WorkersAreLive'
  BY <1>27, <1>q DEF Token, RunKeeps
<1>28. ASSUME NEW k \in Chats, Stopped(k)
       PROVE  WorkersAreLive'
  BY <1>28, <1>q DEF Stopped, RunKeeps
<1>29. ASSUME NEW k \in Chats, Completed(k)
       PROVE  WorkersAreLive'
  BY <1>29, <1>q DEF Completed, RunKeeps
<1>30. ASSUME UNCHANGED chatVars
       PROVE  WorkersAreLive'
  BY <1>30, <1>q DEF chatVars
<1>. QED
  BY <1>p, <1>1, <1>2, <1>3, <1>4, <1>5, <1>6, <1>7, <1>8, <1>9, <1>10, <1>11, 
     <1>12, <1>13, <1>14, <1>15, <1>16, <1>17, <1>18, <1>19, <1>20, <1>21, <1>22, 
     <1>23, <1>24, <1>25, <1>26, <1>27, <1>28, <1>29, <1>30
  DEF Next, SocketNext, WorkerNext, UserNext, HandleOp, Receive, RunChat

-----------------------------------------------------------------------------
(* Prompts and replies.                                                      *)

(* A queue in which every prompt is on its way once stays one when it is     *)
(* read, when something else is sent, and when the generations it does not   *)
(* speak of change.                                                          *)
LEMMA OnceRead ==
  ASSUME NEW q \in Seq(Operations), q # <<>>, NEW t, NEW g, SentOnce(q, t, g)
  PROVE  /\ SentOnce(Tail(q), t, g)
         /\ Head(q).op = "chat_send" =>
              /\ g[Head(q).chat].state = "sent" /\ g[Head(q).chat].tab = t
              /\ \A i \in DOMAIN Tail(q) : Tail(q)[i].op = "chat_send" => Tail(q)[i].chat # Head(q).chat
<1>1. /\ Head(q) = q[1] /\ 1 \in DOMAIN q
      /\ \A i \in DOMAIN Tail(q) : i \in Nat \ {0} /\ i + 1 \in DOMAIN q /\ Tail(q)[i] = q[i + 1]
  BY TailIs
<1>2. ASSUME NEW i \in DOMAIN Tail(q), Tail(q)[i].op = "chat_send"
      PROVE  /\ g[Tail(q)[i].chat].state = "sent" /\ g[Tail(q)[i].chat].tab = t
             /\ \A j \in DOMAIN Tail(q) : Tail(q)[j].op = "chat_send" /\ Tail(q)[j].chat = Tail(q)[i].chat => j = i
  <2>1. i + 1 \in DOMAIN q /\ Tail(q)[i] = q[i + 1]
    BY <1>1
  <2>2. ASSUME NEW j \in DOMAIN Tail(q), Tail(q)[j].op = "chat_send", Tail(q)[j].chat = Tail(q)[i].chat
        PROVE  j = i
    <3>1. j + 1 \in DOMAIN q /\ Tail(q)[j] = q[j + 1] /\ i \in Nat /\ j \in Nat
      BY <1>1
    <3>2. j + 1 = i + 1
      BY <1>2, <2>1, <2>2, <3>1 DEF SentOnce
    <3>. QED
      BY <3>1, <3>2
  <2>. QED
    BY <1>2, <2>1, <2>2 DEF SentOnce
<1>3. ASSUME Head(q).op = "chat_send", NEW i \in DOMAIN Tail(q), Tail(q)[i].op = "chat_send"
      PROVE  Tail(q)[i].chat # Head(q).chat
  <2>1. i + 1 \in DOMAIN q /\ Tail(q)[i] = q[i + 1] /\ i + 1 # 1
    BY <1>1
  <2>. QED
    BY <1>1, <1>3, <2>1 DEF SentOnce
<1>. QED
  BY <1>1, <1>2, <1>3 DEF SentOnce

(* A prompt is under way once, also when one more is sent. *)
LEMMA OnceSent ==
  ASSUME NEW q \in Seq(Operations), NEW o \in Operations, NEW t, NEW g, SentOnce(q, t, g),
         o.op = "chat_send" => /\ g[o.chat].state = "sent" /\ g[o.chat].tab = t
                               /\ \A i \in DOMAIN q : q[i].op = "chat_send" => q[i].chat # o.chat
  PROVE  SentOnce(Append(q, o), t, g)
<1>1. /\ DOMAIN q = 1..Len(q) /\ Len(q) \in Nat
      /\ Append(q, o)[Len(q) + 1] = o /\ \A i \in DOMAIN q : Append(q, o)[i] = q[i]
      /\ \A i \in DOMAIN Append(q, o) : i \in DOMAIN q \/ i = Len(q) + 1
  BY AppendIs
<1>. SUFFICES ASSUME NEW i \in DOMAIN Append(q, o), Append(q, o)[i].op = "chat_send"
              PROVE  /\ g[Append(q, o)[i].chat].state = "sent" /\ g[Append(q, o)[i].chat].tab = t
                     /\ \A j \in DOMAIN Append(q, o) :
                          Append(q, o)[j].op = "chat_send" /\ Append(q, o)[j].chat = Append(q, o)[i].chat => j = i
  BY DEF SentOnce
<1>2. CASE i \in DOMAIN q
  BY <1>1, <1>2 DEF SentOnce
<1>3. CASE i = Len(q) + 1
  BY <1>1, <1>3 DEF SentOnce
<1>. QED
  BY <1>1, <1>2, <1>3

(* It stays so when generations go on. *)
LEMMA OnceKept ==
  ASSUME NEW q \in Seq(Operations), NEW t, NEW g, NEW h, SentOnce(q, t, g),
         \A i \in DOMAIN q : q[i].op = "chat_send" /\ g[q[i].chat].state = "sent" =>
            h[q[i].chat].state = "sent" /\ h[q[i].chat].tab = g[q[i].chat].tab
  PROVE  SentOnce(q, t, h)
BY DEF SentOnce

(* A prompt disturbs no reply; a reply comes after its prompt and once.      *)
LEMMA PromptAdded ==
  ASSUME NEW q \in Seq(Messages), NEW m \in Messages, m.role = "user", NEW gone, Once(q), Answers(q, gone)
  PROVE  /\ Once(Append(q, m)) /\ Answers(Append(q, m), gone)
         /\ Prompted(Append(q, m), m.chat) /\ \A k : Prompted(q, k) => Prompted(Append(q, m), k)
<1>1. /\ DOMAIN q = 1..Len(q) /\ Len(q) \in Nat /\ DOMAIN Append(q, m) = 1..(Len(q) + 1)
      /\ Append(q, m)[Len(q) + 1] = m /\ \A i \in DOMAIN q : Append(q, m)[i] = q[i]
      /\ \A i \in DOMAIN Append(q, m) : i \in DOMAIN q \/ i = Len(q) + 1
  BY AppendIs
<1>2. \A i \in DOMAIN Append(q, m) : IsReply(Append(q, m)[i]) => i \in DOMAIN q /\ IsReply(q[i])
  BY <1>1 DEF IsReply
<1>3. Once(Append(q, m))
  BY <1>1, <1>2 DEF Once
<1>4. ASSUME NEW i \in DOMAIN Append(q, m), IsReply(Append(q, m)[i]), Append(q, m)[i].chat \notin gone
      PROVE  \E j \in 1..(i - 1) : IsPrompt(Append(q, m)[j], Append(q, m)[i].chat)
  <2>1. i \in DOMAIN q /\ IsReply(q[i]) /\ Append(q, m)[i] = q[i]
    BY <1>1, <1>2, <1>4
  <2>2. PICK j \in 1..(i - 1) : IsPrompt(q[j], q[i].chat)
    BY <1>4, <2>1 DEF Answers
  <2>3. j \in DOMAIN q
    BY <1>1, <2>1, <2>2
  <2>. QED
    BY <1>1, <2>1, <2>2, <2>3
<1>5. Prompted(Append(q, m), m.chat)
  <2>1. Len(q) + 1 \in DOMAIN Append(q, m)
    BY <1>1
  <2>. QED
    BY <1>1, <2>1 DEF Prompted, IsPrompt
<1>6. DOMAIN q \subseteq DOMAIN Append(q, m)
  BY <1>1
<1>. QED
  BY <1>1, <1>3, <1>4, <1>5, <1>6 DEF Answers, Prompted

(* A reply that comes after its prompt, and is the first, keeps a transcript in order. *)
LEMMA ReplyAdded ==
  ASSUME NEW q \in Seq(Messages), NEW m \in Messages, m.role = "assistant", NEW gone, Once(q), Answers(q, gone),
         \A i \in DOMAIN q : IsReply(q[i]) => q[i].chat # m.chat,
         m.chat \notin gone => Prompted(q, m.chat)
  PROVE  /\ Once(Append(q, m)) /\ Answers(Append(q, m), gone)
         /\ \A k : Prompted(q, k) => Prompted(Append(q, m), k)
<1>1. /\ DOMAIN q = 1..Len(q) /\ Len(q) \in Nat /\ DOMAIN Append(q, m) = 1..(Len(q) + 1)
      /\ Append(q, m)[Len(q) + 1] = m /\ \A i \in DOMAIN q : Append(q, m)[i] = q[i]
      /\ \A i \in DOMAIN Append(q, m) : i \in DOMAIN q \/ i = Len(q) + 1
  BY AppendIs
<1>2. Once(Append(q, m))
  BY <1>1 DEF Once
<1>3. ASSUME NEW i \in DOMAIN Append(q, m), IsReply(Append(q, m)[i]), Append(q, m)[i].chat \notin gone
      PROVE  \E j \in 1..(i - 1) : IsPrompt(Append(q, m)[j], Append(q, m)[i].chat)
  <2>1. CASE i \in DOMAIN q
    <3>1. Append(q, m)[i] = q[i]
      BY <1>1, <2>1
    <3>2. PICK j \in 1..(i - 1) : IsPrompt(q[j], q[i].chat)
      BY <1>3, <2>1, <3>1 DEF Answers
    <3>3. j \in DOMAIN q
      BY <1>1, <2>1, <3>2
    <3>. QED
      BY <1>1, <3>1, <3>2, <3>3
  <2>2. CASE i = Len(q) + 1
    <3>1. Append(q, m)[i] = m
      BY <1>1, <2>2
    <3>2. PICK j \in DOMAIN q : IsPrompt(q[j], m.chat)
      BY <1>3, <3>1 DEF Prompted
    <3>3. j \in 1..(i - 1) /\ Append(q, m)[j] = q[j]
      BY <1>1, <2>2, <3>2
    <3>. QED
      BY <3>1, <3>2, <3>3
  <2>. QED
    BY <1>1, <2>1, <2>2
<1>4. DOMAIN q \subseteq DOMAIN Append(q, m)
  BY <1>1
<1>. QED
  BY <1>1, <1>2, <1>3, <1>4 DEF Answers, Prompted

(* An empty session is in order. *)
LEMMA NothingAnswers == ASSUME NEW gone PROVE Once(<<>>) /\ Answers(<<>>, gone)
BY DEF Once, Answers

Book == SentInOrder /\ QueuedOnce /\ RepliesAreOver /\ Transcripts /\ PromptStored

(* How a generation changes where no prompt is sent or read and no reply is  *)
(* stored.                                                                   *)
GoesOn(c) ==
  /\ gen'[c].tab = gen[c].tab /\ gen'[c].session = gen[c].session
  /\ \/ gen'[c].state = gen[c].state
     \/ /\ gen[c].state \in {"loading", "running"}
        /\ gen'[c].state \in {"running", "complete", "stopped", "error"}

(* Steps that store nothing keep what is said of sessions. *)
LEMMA TableKept ==
  ASSUME Book, UNCHANGED <<stored, deleted>>, \A c \in Chats : GoesOn(c)
  PROVE  SentInOrder' /\ RepliesAreOver' /\ Transcripts' /\ PromptStored'
<1>1. \A c \in Chats : gen'[c].state # "unsent" <=> gen[c].state # "unsent"
  BY DEF GoesOn
<1>2. SentInOrder'
  BY <1>1 DEF Book, SentInOrder
<1>3. Transcripts'
  BY DEF Book, Transcripts
<1>4. RepliesAreOver'
  BY DEF Book, RepliesAreOver, GoesOn
<1>5. PromptStored'
  BY DEF Book, PromptStored, GoesOn, Exists
<1>. QED
  BY <1>2, <1>3, <1>4, <1>5

(* The queues, where no prompt is sent.                                      *)
Moves(t) ==
  \/ up'[t] = up[t] \/ up'[t] = <<>>
  \/ up[t] # <<>> /\ up'[t] = Tail(up[t])
  \/ \E o \in Operations : o.op # "chat_send" /\ up'[t] = Append(up[t], o)

(* Steps that start nothing keep what is said of queues. *)
LEMMA QueuesKept ==
  ASSUME TypeOK, Book, \A t \in Tabs : Moves(t),
         \A c \in Chats : gen'[c].tab = gen[c].tab /\ (gen[c].state = "sent" => gen'[c].state = "sent")
  PROVE  QueuedOnce'
<1>1. ASSUME NEW t \in Tabs PROVE SentOnce(up'[t], t, gen')
  <2>1. up[t] \in Seq(Operations) /\ SentOnce(up[t], t, gen)
    BY DEF TypeOK, Book, QueuedOnce
  <2>2. \A i \in DOMAIN up[t] : up[t][i] \in Operations
    BY <2>1, ElementOfSeq, LenProperties
  <2>3. SentOnce(up[t], t, gen')
    <3>1. ASSUME NEW i \in DOMAIN up[t], up[t][i].op = "chat_send", gen[up[t][i].chat].state = "sent"
          PROVE  gen'[up[t][i].chat].state = "sent" /\ gen'[up[t][i].chat].tab = gen[up[t][i].chat].tab
      <4>1. up[t][i].chat \in Chats
        BY <2>2, <3>1, OperationHas
      <4>. QED
        BY <3>1, <4>1
    <3>2. PICK h : h = gen'
      OBVIOUS
    <3>3. SentOnce(up[t], t, h)
      BY <2>1, <3>1, <3>2 DEF SentOnce
    <3>. QED
      BY <3>2, <3>3
  <2>4. CASE up'[t] = up[t]
    BY <2>3, <2>4
  <2>5. CASE up'[t] = <<>>
    BY <2>5 DEF SentOnce
  <2>6. CASE up[t] # <<>> /\ up'[t] = Tail(up[t])
    BY <2>1, <2>3, <2>6, OnceRead
  <2>7. ASSUME NEW o \in Operations, o.op # "chat_send", up'[t] = Append(up[t], o)
        PROVE  SentOnce(up'[t], t, gen')
    BY <2>1, <2>3, <2>7, OnceSent
  <2>. QED
    BY <2>4, <2>5, <2>6, <2>7 DEF Moves
<1>. QED
  BY <1>1 DEF QueuedOnce, SentOnce

(* Steps that neither store nor start anything keep the book. *)
LEMMA Quietly ==
  ASSUME TypeOK, Book, UNCHANGED <<stored, deleted>>, \A c \in Chats : GoesOn(c), \A t \in Tabs : Moves(t)
  PROVE  Book'
<1>1. SentInOrder' /\ RepliesAreOver' /\ Transcripts' /\ PromptStored'
  BY TableKept
<1>2. \A c \in Chats : gen'[c].tab = gen[c].tab /\ (gen[c].state = "sent" => gen'[c].state = "sent")
  BY DEF GoesOn
<1>3. QueuedOnce'
  BY <1>2, QueuesKept
<1>. QED
  BY <1>1, <1>3 DEF Book

(* Reading an operation moves the queues on. *)
LEMMA ReadMoves == ASSUME TypeOK, NEW t \in Tabs, NEW w, OpFrom(t, w) PROVE \A u \in Tabs : Moves(u)
<1>1. up \in [Tabs -> Seq(Operations)] /\ up[t] # <<>> /\ up' = [up EXCEPT ![t] = Tail(up[t])]
  BY DEF TypeOK, OpFrom
<1>. QED
  BY <1>1 DEF Moves

(* Sending one that starts nothing does so too. *)
LEMMA SentMoves ==
  ASSUME TypeOK, NEW t \in Tabs, NEW o \in Operations, o.op # "chat_send", Send(t, o)
  PROVE  \A u \in Tabs : Moves(u)
BY SendSends DEF Moves

(* The next chat is the first that was not sent.                             *)
LEMMA NextChat ==
  ASSUME SentInOrder, NEW n \in Chats, n = Cardinality({ j \in Chats : gen[j].state # "unsent" }) + 1
  PROVE  gen[n].state = "unsent" /\ \A c \in Chats : gen[c].state # "unsent" <=> c \in 1..(n - 1)
<1>1. PICK m \in 0..MaxSends : { j \in Chats : gen[j].state # "unsent" } = 1..m
  BY DEF SentInOrder
<1>2. Cardinality(1..m) = m /\ m \in Nat
  <2>1. m \in Nat
    BY <1>1, ChatAssumption
  <2>. QED
    BY <2>1, FS_Interval
<1>3. n = m + 1
  BY <1>1, <1>2
<1>4. \A c \in Chats : gen[c].state # "unsent" <=> c \in 1..m
  BY <1>1
<1>5. n - 1 = m /\ n \notin 1..m
  BY <1>2, <1>3
<1>. QED
  BY <1>4, <1>5

(* sendChat.                                                                 *)
LEMMA PromptSent ==
  ASSUME TypeOK, Book, NEW t \in Tabs, NEW s \in Sessions, SendChat(t, s)
  PROVE  Book'
<1>. DEFINE n == Cardinality({ j \in Chats : gen[j].state # "unsent" }) + 1
            o == [op |-> "chat_send", chat |-> n]
            c == [op |-> "create_chat", session |-> s]
<1>1. n \in Chats
  BY DEF SendChat
<1>2. gen[n].state = "unsent" /\ \A k \in Chats : gen[k].state # "unsent" <=> k \in 1..(n - 1)
  BY <1>1, NextChat DEF Book
<1>3. /\ o \in Operations /\ o.op = "chat_send" /\ o.chat = n /\ c \in Operations /\ c.op # "chat_send"
  BY <1>1, OperationIs
<1>4. /\ gen' = [gen EXCEPT ![n] = [@ EXCEPT !.tab = t, !.session = s, !.state = "sent"]]
      /\ up' = IF t \in ui
               THEN [up EXCEPT ![t] = @ \o (IF session[t] = None THEN <<c>> ELSE <<>>) \o <<o>>]
               ELSE up
      /\ UNCHANGED <<stored, deleted>>
  BY DEF SendChat
<1>. HIDE DEF n, o, c
<1>5. /\ \A k \in Chats : k # n => gen'[k] = gen[k]
      /\ gen'[n].tab = t /\ gen'[n].session = s /\ gen'[n].state = "sent"
  <2>1. PICK r : r = [gen[n] EXCEPT !.tab = t, !.session = s, !.state = "sent"]
    OBVIOUS
  <2>2. gen[n] \in Generations /\ gen \in [Chats -> Generations]
    BY <1>1 DEF TypeOK
  <2>3. r.tab = t /\ r.session = s /\ r.state = "sent"
    BY <2>1, <2>2 DEF Generations
  <2>4. gen' = [gen EXCEPT ![n] = r]
    BY <1>4, <2>1
  <2>. QED
    BY <1>1, <2>2, <2>3, <2>4
<1>6. SentInOrder'
  <2>1. n \in Nat \ {0} /\ n \in 0..MaxSends /\ 1..n \subseteq Chats
    BY <1>1, ChatAssumption DEF Chats
  <2>2. ASSUME NEW k \in Chats PROVE gen'[k].state # "unsent" <=> k \in 1..n
    <3>1. CASE k = n
      BY <1>5, <2>1, <3>1
    <3>2. CASE k # n
      <4>1. k \in 1..n <=> k \in 1..(n - 1)
        BY <2>1, <3>2 DEF Chats
      <4>. QED
        BY <1>2, <1>5, <3>2, <4>1
    <3>. QED
      BY <3>1, <3>2
  <2>3. { k \in Chats : gen'[k].state # "unsent" } = 1..n
    BY <2>1, <2>2
  <2>. QED
    BY <2>1, <2>3 DEF SentInOrder
<1>7. QueuedOnce'
  <2>1. PICK g : g = gen'
    OBVIOUS
  <2>2. ASSUME NEW u \in Tabs
        PROVE  /\ SentOnce(up[u], u, g) /\ up[u] \in Seq(Operations)
               /\ \A i \in DOMAIN up[u] : up[u][i].op = "chat_send" => up[u][i].chat # n
    <3>1. up[u] \in Seq(Operations) /\ SentOnce(up[u], u, gen)
      BY DEF TypeOK, Book, QueuedOnce
    <3>2. ASSUME NEW i \in DOMAIN up[u], up[u][i].op = "chat_send"
          PROVE  up[u][i].chat # n /\ g[up[u][i].chat] = gen[up[u][i].chat]
      <4>1. up[u][i] \in Operations
        BY <3>1, ElementOfSeq, LenProperties
      <4>2. up[u][i].chat \in Chats /\ gen[up[u][i].chat].state = "sent"
        BY <3>1, <3>2, <4>1, OperationHas DEF SentOnce
      <4>. QED
        BY <1>2, <1>5, <2>1, <4>2
    <3>3. SentOnce(up[u], u, g)
      BY <3>1, <3>2 DEF SentOnce
    <3>. QED
      BY <3>1, <3>2, <3>3
  <2>3. g[n].state = "sent" /\ g[n].tab = t
    BY <1>5, <2>1
  <2>4. SentOnce(Append(up[t], o), t, g)
    BY <1>3, <2>2, <2>3, OnceSent
  <2>5. SentOnce(Append(Append(up[t], c), o), t, g)
    <3>1. PICK q : q = Append(up[t], c)
      OBVIOUS
    <3>2. q \in Seq(Operations) /\ SentOnce(q, t, g)
      BY <1>3, <2>2, <3>1, OnceSent, AppendIs
    <3>3. \A i \in DOMAIN q : q[i].op = "chat_send" => q[i].chat # n
      <4>1. \A i \in DOMAIN q : (i \in DOMAIN up[t] /\ q[i] = up[t][i]) \/ q[i] = c
        BY <1>3, <2>2, <3>1, AppendIs
      <4>. QED
        BY <1>3, <2>2, <4>1
    <3>4. SentOnce(Append(q, o), t, g)
      BY <1>3, <2>3, <3>2, <3>3, OnceSent
    <3>. QED
      BY <3>1, <3>4
  <2>6. /\ up[t] \o <<c>> \o <<o>> = Append(Append(up[t], c), o)
        /\ up[t] \o <<>> \o <<o>> = Append(up[t], o)
    BY <1>3, <2>2, ConcatIs
  <2>7. ASSUME NEW u \in Tabs PROVE SentOnce(up'[u], u, g)
    <3>1. up \in [Tabs -> Seq(Operations)]
      BY DEF TypeOK
    <3>2. CASE u = t /\ t \in ui
      <4>1. up'[u] \in {Append(Append(up[t], c), o), Append(up[t], o)}
        BY <1>4, <2>6, <3>1, <3>2
      <4>. QED
        BY <2>4, <2>5, <3>2, <4>1
    <3>3. CASE ~(u = t /\ t \in ui)
      <4>1. up'[u] = up[u]
        BY <1>4, <3>1, <3>3
      <4>. QED
        BY <2>2, <4>1
    <3>. QED
      BY <3>2, <3>3
  <2>. QED
    BY <2>1, <2>7 DEF QueuedOnce, SentOnce
<1>8. RepliesAreOver'
  BY <1>2, <1>4, <1>5 DEF Book, RepliesAreOver
<1>9. Transcripts'
  BY <1>4 DEF Book, Transcripts
<1>10. PromptStored'
  BY <1>4, <1>5 DEF Book, PromptStored, Exists
<1>. QED
  BY <1>6, <1>7, <1>8, <1>9, <1>10 DEF Book

(* create_chat adds an empty session.                                        *)
LEMMA CreateKept ==
  ASSUME TypeOK, Book, NEW s \in Sessions
  PROVE  LET table == Created(s) IN
         /\ table \in [DOMAIN table -> Seq(Messages)] /\ DOMAIN table = DOMAIN stored \cup {s}
         /\ \A r \in DOMAIN table : Once(table[r]) /\ Answers(table[r], deleted)
         /\ \A r \in DOMAIN table : \A i \in DOMAIN table[r] : r \in DOMAIN stored /\ table[r][i] = stored[r][i] /\ i \in DOMAIN stored[r]
         /\ \A r \in DOMAIN stored : table[r] = stored[r]
<1>1. /\ DOMAIN Created(s) = DOMAIN stored \cup {s} /\ Created(s) \in [DOMAIN Created(s) -> Seq(Messages)]
      /\ \A r \in DOMAIN stored : Created(s)[r] = stored[r]
      /\ s \notin DOMAIN stored => Created(s)[s] = <<>>
  BY TableIs
<1>2. Once(<<>>) /\ Answers(<<>>, deleted) /\ DOMAIN <<>> = {}
  BY NothingAnswers
<1>3. \A r \in DOMAIN stored : Once(stored[r]) /\ Answers(stored[r], deleted)
  BY DEF Book, Transcripts
<1>. QED
  BY <1>1, <1>2, <1>3

(* A session that is created keeps the book. *)
LEMMA CreateRead == ASSUME TypeOK, Book, NEW t \in Tabs, OpCreateChat(t) PROVE Book'
<1>1. OpFrom(t, "create_chat") /\ stored' = Created(Head(up[t]).session) /\ UNCHANGED <<gen, deleted>>
  BY DEF OpCreateChat, historyVars
<1>2. PICK s \in Sessions : s = Head(up[t]).session
  BY <1>1, OpRead, OperationHas
<1>3. PICK table : table = Created(s)
  OBVIOUS
<1>4. /\ table \in [DOMAIN table -> Seq(Messages)] /\ DOMAIN table = DOMAIN stored \cup {s}
      /\ \A r \in DOMAIN table : Once(table[r]) /\ Answers(table[r], deleted)
      /\ \A r \in DOMAIN table : \A i \in DOMAIN table[r] : r \in DOMAIN stored /\ table[r][i] = stored[r][i] /\ i \in DOMAIN stored[r]
      /\ \A r \in DOMAIN stored : table[r] = stored[r]
  BY <1>3, CreateKept
<1>5. stored' = table
  BY <1>1, <1>2, <1>3
<1>6. SentInOrder'
  BY <1>1 DEF Book, SentInOrder
<1>7. QueuedOnce'
  <2>1. \A u \in Tabs : Moves(u)
    BY <1>1, ReadMoves
  <2>. QED
    BY <1>1, <2>1, QueuesKept
<1>8. RepliesAreOver'
  BY <1>1, <1>4, <1>5 DEF Book, RepliesAreOver
<1>9. Transcripts'
  BY <1>1, <1>4, <1>5 DEF Transcripts, Once, Answers
<1>10. PromptStored'
  BY <1>1, <1>4, <1>5 DEF Book, PromptStored, Exists, Prompted
<1>. QED
  BY <1>6, <1>7, <1>8, <1>9, <1>10 DEF Book

(* chat_send stores the prompt of a generation whose prompt no queue holds   *)
(* any more.                                                                 *)
LEMMA SendRead == ASSUME TypeOK, Book, NEW t \in Tabs, OpChatSend(t) PROVE Book'
<1>1. OpFrom(t, "chat_send") /\ UNCHANGED deleted
  BY DEF OpChatSend, historyVars
<1>2. /\ Head(up[t]) \in Operations /\ Head(up[t]).op = "chat_send" /\ up[t] # <<>>
      /\ up' = [up EXCEPT ![t] = Tail(up[t])]
  BY <1>1, OpRead
<1>3. up \in [Tabs -> Seq(Operations)] /\ \A u \in Tabs : SentOnce(up[u], u, gen)
  BY DEF TypeOK, Book, QueuedOnce
<1>4. PICK c \in Chats : c = Head(up[t]).chat
  BY <1>2, OperationHas
<1>5. /\ SentOnce(Tail(up[t]), t, gen) /\ gen[c].state = "sent" /\ gen[c].tab = t
      /\ \A i \in DOMAIN Tail(up[t]) : Tail(up[t])[i].op = "chat_send" => Tail(up[t])[i].chat # c
  BY <1>2, <1>3, <1>4, OnceRead
<1>6. PICK s \in Sessions : s = gen[c].session
  BY <1>5 DEF TypeOK
<1>7. PICK table : table = Created(s)
  OBVIOUS
<1>8. PICK m : m = Message("user", c, 0, FALSE)
  OBVIOUS
<1>9. stored' = Appended(table, s, m) /\ gen' = [gen EXCEPT ![c].state = "loading"]
  BY <1>4, <1>6, <1>7, <1>8 DEF OpChatSend
<1>10. /\ table \in [DOMAIN table -> Seq(Messages)] /\ DOMAIN table = DOMAIN stored \cup {s}
       /\ \A r \in DOMAIN table : Once(table[r]) /\ Answers(table[r], deleted)
       /\ \A r \in DOMAIN table : \A i \in DOMAIN table[r] : r \in DOMAIN stored /\ table[r][i] = stored[r][i] /\ i \in DOMAIN stored[r]
       /\ \A r \in DOMAIN stored : table[r] = stored[r]
  BY <1>7, CreateKept
<1>11. m \in Messages /\ m.role = "user" /\ m.chat = c
  <2>1. /\ Message("user", c, 0, FALSE) \in Messages /\ Message("user", c, 0, FALSE).role = "user"
        /\ Message("user", c, 0, FALSE).chat = c
    BY DEF Message, Messages
  <2>. QED
    BY <1>8, <2>1
<1>12. \A k \in Chats : /\ gen'[k].tab = gen[k].tab /\ gen'[k].session = gen[k].session
                       /\ gen'[k].state = IF k = c THEN "loading" ELSE gen[k].state
  BY <1>5, <1>9, StateChanges
<1>13. /\ stored' \in [DOMAIN table -> Seq(Messages)]
       /\ \A r \in DOMAIN table : stored'[r] = IF r = s THEN Append(table[s], m) ELSE table[r]
  <2>. PICK D : D = DOMAIN table
    OBVIOUS
  <2>1. s \in D /\ table \in [D -> Seq(Messages)] /\ m \in Messages
    BY <1>10, <1>11
  <2>2. /\ Appended(table, s, m) \in [D -> Seq(Messages)]
        /\ \A r \in D : Appended(table, s, m)[r] = IF r = s THEN Append(table[s], m) ELSE table[r]
    BY <2>1, AppendedIs
  <2>. QED
    BY <1>9, <2>2
<1>14. /\ Once(Append(table[s], m)) /\ Answers(Append(table[s], m), deleted)
       /\ Prompted(Append(table[s], m), c) /\ \A k : Prompted(table[s], k) => Prompted(Append(table[s], m), k)
  BY <1>10, <1>11, PromptAdded
<1>15. SentInOrder'
  <2>1. \A k \in Chats : gen'[k].state # "unsent" <=> gen[k].state # "unsent"
    BY <1>5, <1>12
  <2>. QED
    BY <2>1 DEF Book, SentInOrder
<1>16. QueuedOnce'
  <2>1. PICK g : g = gen'
    OBVIOUS
  <2>2. \A k \in Chats : k # c => g[k].state = gen[k].state /\ g[k].tab = gen[k].tab
    BY <1>12, <2>1
  <2>3. ASSUME NEW u \in Tabs, NEW q \in Seq(Operations), SentOnce(q, u, gen),
               \A i \in DOMAIN q : q[i].op = "chat_send" => q[i].chat # c
        PROVE  SentOnce(q, u, g)
    <3>1. ASSUME NEW i \in DOMAIN q, q[i].op = "chat_send"
          PROVE  g[q[i].chat].state = gen[q[i].chat].state /\ g[q[i].chat].tab = gen[q[i].chat].tab
      <4>1. q[i] \in Operations
        BY ElementOfSeq, LenProperties
      <4>2. q[i].chat \in Chats
        BY <3>1, <4>1, OperationHas
      <4>. QED
        BY <2>2, <2>3, <3>1, <4>2
    <3>. QED
      BY <2>3, <3>1 DEF SentOnce
  <2>4. ASSUME NEW u \in Tabs PROVE SentOnce(up'[u], u, g)
    <3>1. CASE u = t
      <4>1. up'[u] = Tail(up[t]) /\ Tail(up[t]) \in Seq(Operations)
        BY <1>2, <1>3, <3>1, TailIs
      <4>. QED
        BY <1>5, <2>3, <3>1, <4>1
    <3>2. CASE u # t
      <4>1. up'[u] = up[u] /\ up[u] \in Seq(Operations) /\ SentOnce(up[u], u, gen)
        BY <1>2, <1>3, <3>2
      <4>2. \A i \in DOMAIN up[u] : up[u][i].op = "chat_send" => up[u][i].chat # c
        BY <1>5, <3>2, <4>1 DEF SentOnce
      <4>. QED
        BY <2>3, <4>1, <4>2
    <3>. QED
      BY <3>1, <3>2
  <2>. QED
    BY <2>1, <2>4 DEF QueuedOnce, SentOnce
<1>17. RepliesAreOver'
  <2>. SUFFICES ASSUME NEW r \in DOMAIN stored', NEW i \in DOMAIN stored'[r], IsReply(stored'[r][i])
                PROVE  LET k == stored'[r][i].chat IN
                       k \in Chats /\ r = gen'[k].session /\ gen'[k].state \in {"complete", "stopped"}
    BY DEF RepliesAreOver, IsReply
  <2>1. r \in DOMAIN table
    BY <1>13
  <2>2. r \in DOMAIN stored /\ i \in DOMAIN stored[r] /\ stored'[r][i] = stored[r][i]
    <3>1. CASE r # s
      BY <1>10, <1>13, <2>1, <3>1
    <3>2. CASE r = s
      <4>1. stored'[r] = Append(table[s], m) /\ table[s] \in Seq(Messages)
        BY <1>10, <1>13, <2>1, <3>2
      <4>2. (i \in DOMAIN table[s] /\ stored'[r][i] = table[s][i]) \/ stored'[r][i] = m
        BY <1>11, <4>1, AppendIs
      <4>3. stored'[r][i] # m
        BY <1>11 DEF IsReply
      <4>. QED
        BY <1>10, <2>1, <3>2, <4>2, <4>3
    <3>. QED
      BY <3>1, <3>2
  <2>3. LET k == stored[r][i].chat IN
        k \in Chats /\ r = gen[k].session /\ gen[k].state \in {"complete", "stopped"}
    BY <2>2 DEF Book, RepliesAreOver
  <2>. QED
    BY <1>5, <1>12, <2>2, <2>3
<1>18. Transcripts'
  <2>1. \A r \in DOMAIN stored' : Once(stored'[r]) /\ Answers(stored'[r], deleted')
    BY <1>1, <1>10, <1>13, <1>14
  <2>. QED
    BY <2>1 DEF Transcripts, Once, Answers
<1>19. PromptStored'
  <2>1. ASSUME NEW k \in Chats \ deleted, gen'[k].state \notin {"unsent", "sent"}
        PROVE  gen'[k].session \in DOMAIN stored' /\ Prompted(stored'[gen'[k].session], k)
    <3>1. CASE k = c
      BY <1>6, <1>10, <1>12, <1>13, <1>14, <3>1
    <3>2. CASE k # c
      <4>1. gen[k].session \in DOMAIN stored /\ Prompted(stored[gen[k].session], k) /\ gen'[k].session = gen[k].session
        BY <1>12, <2>1, <3>2 DEF Book, PromptStored, Exists
      <4>. QED
        BY <1>10, <1>13, <1>14, <4>1
    <3>. QED
      BY <3>1, <3>2
  <2>. QED
    BY <1>1, <2>1 DEF PromptStored, Exists, Prompted
<1>. QED
  BY <1>15, <1>16, <1>17, <1>18, <1>19 DEF Book

(* delete_chat.                                                              *)
LEMMA DeleteRead == ASSUME TypeOK, Book, NEW t \in Tabs, OpDeleteChat(t) PROVE Book'
<1>1. OpFrom(t, "delete_chat") /\ UNCHANGED gen
  BY DEF OpDeleteChat
<1>2. PICK s : s = Head(up[t]).session
  OBVIOUS
<1>3. /\ stored' = [r \in DOMAIN stored \ {s} |-> stored[r]]
      /\ deleted' = deleted \cup { k \in Chats : gen[k].session = s }
  BY <1>2 DEF OpDeleteChat
<1>4. DOMAIN stored' = DOMAIN stored \ {s} /\ \A r \in DOMAIN stored \ {s} : stored'[r] = stored[r]
  BY <1>3
<1>5. SentInOrder'
  BY <1>1 DEF Book, SentInOrder
<1>6. QueuedOnce'
  <2>1. \A u \in Tabs : Moves(u)
    BY <1>1, ReadMoves
  <2>. QED
    BY <1>1, <2>1, QueuesKept
<1>7. RepliesAreOver'
  BY <1>1, <1>4 DEF Book, RepliesAreOver
<1>8. Transcripts'
  <2>1. ASSUME NEW r \in DOMAIN stored' PROVE Once(stored[r]) /\ Answers(stored[r], deleted')
    BY <1>3, <1>4 DEF Book, Transcripts, Answers
  <2>2. \A r \in DOMAIN stored' : stored'[r] = stored[r]
    BY <1>4
  <2>. QED
    BY <2>1, <2>2 DEF Transcripts, Once, Answers
<1>9. PromptStored'
  BY <1>1, <1>3, <1>4 DEF Book, PromptStored, Exists, Prompted
<1>. QED
  BY <1>5, <1>6, <1>7, <1>8, <1>9 DEF Book

(* A generation that is over: its reply is the first of its own.             *)
LEMMA ReplyStored ==
  ASSUME TypeOK, Book, NEW k \in Chats, gen[k].state = "running", NEW how \in {"complete", "stopped"},
         StoreReply(k, how), UNCHANGED <<up, deleted>>
  PROVE  Book'
<1>1. /\ gen[k].session \in Sessions /\ gen[k].len \in Nat
      /\ \E e \in {how, "error"} : gen' = [gen EXCEPT ![k].state = e] /\ Tell(k, Done(k, e))
                                   /\ (e = "error" => UNCHANGED stored)
      /\ \/ UNCHANGED stored
         \/ /\ gen[k].session \in DOMAIN stored /\ gen' = [gen EXCEPT ![k].state = how]
            /\ stored' = Appended(stored, gen[k].session, Message("assistant", k, gen[k].len, FALSE))
  BY StoreReplyIs
<1>2. PICK e \in {"complete", "stopped", "error"} : gen' = [gen EXCEPT ![k].state = e]
  BY <1>1
<1>3. \A c \in Chats : /\ gen'[c].tab = gen[c].tab /\ gen'[c].session = gen[c].session
                      /\ gen'[c].state = IF c = k THEN e ELSE gen[c].state
  <2>1. gen[k].state # "unsent"
    OBVIOUS
  <2>2. CASE e = "complete"
    <3>1. gen' = [gen EXCEPT ![k].state = "complete"]
      BY <1>2, <2>2
    <3>2. \A c \in Chats : /\ gen'[c].tab = gen[c].tab /\ gen'[c].session = gen[c].session
                          /\ gen'[c].state = IF c = k THEN "complete" ELSE gen[c].state
      BY <2>1, <3>1, StateChanges
    <3>. QED
      BY <2>2, <3>2
  <2>3. CASE e = "stopped"
    <3>1. gen' = [gen EXCEPT ![k].state = "stopped"]
      BY <1>2, <2>3
    <3>2. \A c \in Chats : /\ gen'[c].tab = gen[c].tab /\ gen'[c].session = gen[c].session
                          /\ gen'[c].state = IF c = k THEN "stopped" ELSE gen[c].state
      BY <2>1, <3>1, StateChanges
    <3>. QED
      BY <2>3, <3>2
  <2>4. CASE e = "error"
    <3>1. gen' = [gen EXCEPT ![k].state = "error"]
      BY <1>2, <2>4
    <3>2. \A c \in Chats : /\ gen'[c].tab = gen[c].tab /\ gen'[c].session = gen[c].session
                          /\ gen'[c].state = IF c = k THEN "error" ELSE gen[c].state
      BY <2>1, <3>1, StateChanges
    <3>. QED
      BY <2>4, <3>2
  <2>. QED
    BY <2>2, <2>3, <2>4
<1>4. \A t \in Tabs : Moves(t)
  BY DEF Moves
<1>5. CASE UNCHANGED stored
  <2>1. \A c \in Chats : GoesOn(c)
    BY <1>2, <1>3 DEF GoesOn
  <2>. QED
    BY <1>4, <1>5, <2>1, Quietly
<1>6. ASSUME gen[k].session \in DOMAIN stored, gen' = [gen EXCEPT ![k].state = how],
             stored' = Appended(stored, gen[k].session, Message("assistant", k, gen[k].len, FALSE))
      PROVE  Book'
  <2>1. PICK s : s = gen[k].session
    OBVIOUS
  <2>2. PICK m : m = Message("assistant", k, gen[k].len, FALSE)
    OBVIOUS
  <2>3. m \in Messages /\ m.role = "assistant" /\ m.chat = k
    <3>1. /\ Message("assistant", k, gen[k].len, FALSE) \in Messages
          /\ Message("assistant", k, gen[k].len, FALSE).role = "assistant"
          /\ Message("assistant", k, gen[k].len, FALSE).chat = k
      BY <1>1 DEF Message, Messages
    <3>. QED
      BY <2>2, <3>1
  <2>4. stored \in [DOMAIN stored -> Seq(Messages)] /\ s \in DOMAIN stored /\ stored[s] \in Seq(Messages)
    BY <1>6, <2>1 DEF TypeOK
  <2>5. /\ stored' \in [DOMAIN stored -> Seq(Messages)]
        /\ \A r \in DOMAIN stored : stored'[r] = IF r = s THEN Append(stored[s], m) ELSE stored[r]
    <3>1. stored' = Appended(stored, s, m)
      BY <1>6, <2>1, <2>2
    <3>. QED
      BY <2>3, <2>4, <3>1, AppendedIs
  <2>6. \A c \in Chats : gen'[c].state = IF c = k THEN how ELSE gen[c].state
    <3>1. gen[k].state # "unsent"
      OBVIOUS
    <3>2. CASE how = "complete"
      <4>1. gen' = [gen EXCEPT ![k].state = "complete"]
        BY <1>6, <3>2
      <4>2. \A c \in Chats : /\ gen'[c].tab = gen[c].tab /\ gen'[c].session = gen[c].session
                            /\ gen'[c].state = IF c = k THEN "complete" ELSE gen[c].state
        BY <3>1, <4>1, StateChanges
      <4>. QED
        BY <3>2, <4>2
    <3>3. CASE how = "stopped"
      <4>1. gen' = [gen EXCEPT ![k].state = "stopped"]
        BY <1>6, <3>3
      <4>2. \A c \in Chats : /\ gen'[c].tab = gen[c].tab /\ gen'[c].session = gen[c].session
                            /\ gen'[c].state = IF c = k THEN "stopped" ELSE gen[c].state
        BY <3>1, <4>1, StateChanges
      <4>. QED
        BY <3>3, <4>2
    <3>. QED
      BY <3>2, <3>3
  <2>7. \A i \in DOMAIN stored[s] : IsReply(stored[s][i]) => stored[s][i].chat # k
    BY <2>4 DEF Book, RepliesAreOver
  <2>8. k \notin deleted => Prompted(stored[s], k)
    BY <2>1 DEF Book, PromptStored
  <2>9. /\ Once(Append(stored[s], m)) /\ Answers(Append(stored[s], m), deleted)
        /\ \A c : Prompted(stored[s], c) => Prompted(Append(stored[s], m), c)
    <3>1. Once(stored[s]) /\ Answers(stored[s], deleted)
      BY <2>4 DEF Book, Transcripts
    <3>. QED
      BY <2>3, <2>4, <2>7, <2>8, <3>1, ReplyAdded
  <2>10. SentInOrder'
    <3>1. \A c \in Chats : gen'[c].state # "unsent" <=> gen[c].state # "unsent"
      BY <2>6
    <3>. QED
      BY <3>1 DEF Book, SentInOrder
  <2>11. QueuedOnce'
    <3>1. \A c \in Chats : gen'[c].tab = gen[c].tab /\ (gen[c].state = "sent" => gen'[c].state = "sent")
      BY <1>3, <2>6
    <3>. QED
      BY <1>4, <3>1, QueuesKept
  <2>12. RepliesAreOver'
    <3>. SUFFICES ASSUME NEW r \in DOMAIN stored', NEW i \in DOMAIN stored'[r], IsReply(stored'[r][i])
                  PROVE  LET c == stored'[r][i].chat IN
                         c \in Chats /\ r = gen'[c].session /\ gen'[c].state \in {"complete", "stopped"}
      BY DEF RepliesAreOver, IsReply
    <3>1. r \in DOMAIN stored
      BY <2>5
    <3>2. (stored'[r][i] = m /\ r = s) \/ (i \in DOMAIN stored[r] /\ stored'[r][i] = stored[r][i])
      <4>1. CASE r # s
        BY <2>5, <3>1, <4>1
      <4>2. CASE r = s
        <5>1. stored'[r] = Append(stored[s], m)
          BY <2>5, <3>1, <4>2
        <5>2. /\ i \in DOMAIN stored[s] \/ i = Len(stored[s]) + 1
              /\ Append(stored[s], m)[Len(stored[s]) + 1] = m
              /\ \A j \in DOMAIN stored[s] : Append(stored[s], m)[j] = stored[s][j]
          BY <2>3, <2>4, <5>1, AppendIs
        <5>. QED
          BY <4>2, <5>1, <5>2
      <4>. QED
        BY <4>1, <4>2
    <3>3. CASE stored'[r][i] = m /\ r = s
      BY <1>3, <2>1, <2>3, <2>6, <3>3
    <3>4. CASE i \in DOMAIN stored[r] /\ stored'[r][i] = stored[r][i]
      <4>1. LET c == stored[r][i].chat IN
            c \in Chats /\ r = gen[c].session /\ gen[c].state \in {"complete", "stopped"}
        BY <3>1, <3>4 DEF Book, RepliesAreOver
      <4>. QED
        BY <1>3, <2>6, <3>4, <4>1
    <3>. QED
      BY <3>2, <3>3, <3>4
  <2>13. Transcripts'
    <3>1. \A r \in DOMAIN stored' : Once(stored'[r]) /\ Answers(stored'[r], deleted')
      BY <2>5, <2>9 DEF Book, Transcripts
    <3>. QED
      BY <3>1 DEF Transcripts, Once, Answers
  <2>14. PromptStored'
    <3>1. ASSUME NEW c \in Chats \ deleted, gen'[c].state \notin {"unsent", "sent"}
          PROVE  gen'[c].session \in DOMAIN stored' /\ Prompted(stored'[gen'[c].session], c)
      <4>1. gen[c].session \in DOMAIN stored /\ Prompted(stored[gen[c].session], c) /\ gen'[c].session = gen[c].session
        BY <1>3, <2>6, <3>1 DEF Book, PromptStored, Exists
      <4>. QED
        BY <2>5, <2>9, <4>1
    <3>. QED
      BY <3>1 DEF PromptStored, Exists, Prompted
  <2>. QED
    BY <2>10, <2>11, <2>12, <2>13, <2>14 DEF Book
<1>. QED
  BY <1>1, <1>5, <1>6

(* Every step keeps what is said of queues, generations and sessions. *)
LEMMA BookStep == TypeOK /\ Book /\ [Next]_chatVars => Book'
<1>. SUFFICES ASSUME TypeOK, Book, [Next]_chatVars PROVE Book'
  OBVIOUS
<1>p. pages \subseteq Tabs
  BY DEF TypeOK, BrokerTypeOK
<1>1. ASSUME NEW t \in Tabs, Connect(t), UNCHANGED <<serverVars, tabVars, historyVars>>
      PROVE  Book'
  <2>1. UNCHANGED <<stored, deleted, gen>>
    BY <1>1 DEF Connect, serverVars, historyVars
  <2>2. \A c \in Chats : GoesOn(c)
    BY <2>1 DEF GoesOn
  <2>3. \A u \in Tabs : Moves(u)
    BY <1>1 DEF Connect, Moves
  <2>. QED
    BY <2>1, <2>2, <2>3, Quietly
<1>2. ASSUME NEW t \in Tabs, Drop(t), UNCHANGED <<serverVars, tabVars, missed, deleted>>
      PROVE  Book'
  <2>1. UNCHANGED <<stored, deleted, gen>>
    BY <1>2 DEF Drop, serverVars
  <2>2. \A c \in Chats : GoesOn(c)
    BY <2>1 DEF GoesOn
  <2>3. \A u \in Tabs : Moves(u)
    <3>1. up \in [Tabs -> Seq(Operations)]
      BY DEF TypeOK
    <3>. QED
      BY <1>2, <3>1 DEF Drop, Moves
  <2>. QED
    BY <2>1, <2>2, <2>3, Quietly
<1>3. ASSUME NEW m \in Machines, NEW i \in WorkerIds, Register(m, i), UNCHANGED <<serverVars, tabVars, historyVars>>
      PROVE  Book'
  <2>1. UNCHANGED <<stored, deleted, gen>>
    BY <1>3 DEF Register, serverVars, historyVars
  <2>2. \A c \in Chats : GoesOn(c)
    BY <2>1 DEF GoesOn
  <2>3. \A u \in Tabs : Moves(u)
    BY <1>3 DEF Register, Moves
  <2>. QED
    BY <2>1, <2>2, <2>3, Quietly
<1>4. ASSUME NEW m \in Machines, Report(m), UNCHANGED <<serverVars, tabVars, historyVars>>
      PROVE  Book'
  <2>1. UNCHANGED <<stored, deleted, gen>>
    BY <1>4 DEF Report, serverVars, historyVars
  <2>2. \A c \in Chats : GoesOn(c)
    BY <2>1 DEF GoesOn
  <2>3. \A u \in Tabs : Moves(u)
    BY <1>4 DEF Report, Moves
  <2>. QED
    BY <2>1, <2>2, <2>3, Quietly
<1>5. ASSUME NEW m \in Machines, HangUp(m), UNCHANGED <<serverVars, tabVars, historyVars>>
      PROVE  Book'
  <2>1. UNCHANGED <<stored, deleted, gen>>
    BY <1>5 DEF HangUp, serverVars, historyVars
  <2>2. \A c \in Chats : GoesOn(c)
    BY <2>1 DEF GoesOn
  <2>3. \A u \in Tabs : Moves(u)
    BY <1>5 DEF HangUp, Moves
  <2>. QED
    BY <2>1, <2>2, <2>3, Quietly
<1>6. ASSUME NEW t \in Tabs, NEW s \in Sessions, NewChat(t, s)
      PROVE  Book'
  <2>1. UNCHANGED <<stored, deleted, gen>>
    BY <1>6 DEF NewChat, Quiet, serverVars
  <2>2. \A c \in Chats : GoesOn(c)
    BY <2>1 DEF GoesOn
  <2>3. \A u \in Tabs : Moves(u)
    <3>1. [op |-> "create_chat", session |-> s] \in Operations /\ [op |-> "create_chat", session |-> s].op # "chat_send"
      BY OperationIs
    <3>. QED
      BY <1>6, <3>1, SentMoves DEF NewChat
  <2>. QED
    BY <2>1, <2>2, <2>3, Quietly
<1>7. ASSUME NEW t \in Tabs, NEW s \in Sessions, SendChat(t, s)
      PROVE  Book'
  BY <1>7, PromptSent
<1>8. ASSUME NEW t \in Tabs, NEW s \in Sessions, LoadChatSession(t, s)
      PROVE  Book'
  <2>1. UNCHANGED <<stored, deleted, gen>>
    BY <1>8 DEF LoadChatSession, Quiet, serverVars, historyVars
  <2>2. \A c \in Chats : GoesOn(c)
    BY <2>1 DEF GoesOn
  <2>3. \A u \in Tabs : Moves(u)
    <3>1. [op |-> "load_chat", session |-> s] \in Operations /\ [op |-> "load_chat", session |-> s].op # "chat_send"
      BY OperationIs
    <3>. QED
      BY <1>8, <3>1, SentMoves DEF LoadChatSession
  <2>. QED
    BY <2>1, <2>2, <2>3, Quietly
<1>9. ASSUME NEW t \in Tabs, NEW s \in Sessions, DeleteChatSession(t, s)
      PROVE  Book'
  <2>1. UNCHANGED <<stored, deleted, gen>>
    BY <1>9 DEF DeleteChatSession, Quiet, serverVars, historyVars
  <2>2. \A c \in Chats : GoesOn(c)
    BY <2>1 DEF GoesOn
  <2>3. \A u \in Tabs : Moves(u)
    <3>1. [op |-> "delete_chat", session |-> s] \in Operations /\ [op |-> "delete_chat", session |-> s].op # "chat_send"
      BY OperationIs
    <3>. QED
      BY <1>9, <3>1, SentMoves DEF DeleteChatSession
  <2>. QED
    BY <2>1, <2>2, <2>3, Quietly
<1>10. ASSUME NEW t \in Tabs, StopChat(t)
       PROVE  Book'
  <2>1. UNCHANGED <<stored, deleted, gen>>
    BY <1>10 DEF StopChat, Quiet, serverVars, historyVars
  <2>2. \A c \in Chats : GoesOn(c)
    BY <2>1 DEF GoesOn
  <2>3. \A u \in Tabs : Moves(u)
    <3>1. active[t] \in Chats
      BY <1>10 DEF StopChat, TypeOK
    <3>2. [op |-> "chat_stop", chat |-> active[t]] \in Operations
      BY <3>1, OperationIs
    <3>. QED
      BY <1>10, <3>2, SentMoves DEF StopChat
  <2>. QED
    BY <2>1, <2>2, <2>3, Quietly
<1>11. ASSUME NEW t \in Tabs, NEW silent \in BOOLEAN, DispatchRpc(t, silent)
       PROVE  Book'
  <2>1. UNCHANGED <<stored, deleted, gen>>
    BY <1>11 DEF DispatchRpc, Quiet, serverVars, historyVars
  <2>2. \A c \in Chats : GoesOn(c)
    BY <2>1 DEF GoesOn
  <2>3. \A u \in Tabs : Moves(u)
    <3>1. [op |-> "mcp"] \in Operations /\ [op |-> "mcp"].op # "chat_send"
      BY OperationIs
    <3>. QED
      BY <1>11, <3>1, SentMoves DEF DispatchRpc
  <2>. QED
    BY <2>1, <2>2, <2>3, Quietly
<1>12. ASSUME NEW t \in Tabs, OpCreateChat(t)
       PROVE  Book'
  BY <1>12, CreateRead
<1>13. ASSUME NEW t \in Tabs, OpChatSend(t)
       PROVE  Book'
  BY <1>13, SendRead
<1>14. ASSUME NEW t \in Tabs, OpChatStop(t)
       PROVE  Book'
  <2>1. OpFrom(t, "chat_stop") /\ UNCHANGED <<stored, deleted>>
    BY <1>14 DEF OpChatStop, historyVars
  <2>2. Head(up[t]).chat \in Chats
    BY <2>1, OpRead, OperationHas
  <2>3. \A c \in Chats : GoesOn(c)
    <3>1. CASE gen' = gen
      BY <3>1 DEF GoesOn
    <3>2. CASE gen' = [gen EXCEPT ![Head(up[t]).chat].abort = TRUE]
      <4>1. \A c \in Chats : /\ gen'[c].tab = gen[c].tab /\ gen'[c].session = gen[c].session
                              /\ gen'[c].state = gen[c].state
        BY <2>2, <3>2, AbortChanges
      <4>. QED
        BY <4>1 DEF GoesOn
    <3>. QED
      BY <1>14, <3>1, <3>2 DEF OpChatStop
  <2>4. \A u \in Tabs : Moves(u)
    BY <2>1, ReadMoves
  <2>. QED
    BY <2>1, <2>3, <2>4, Quietly
<1>15. ASSUME NEW t \in Tabs, OpLoadChat(t)
       PROVE  Book'
  <2>1. UNCHANGED <<stored, deleted, gen>>
    BY <1>15 DEF OpLoadChat, serverVars, historyVars
  <2>2. \A c \in Chats : GoesOn(c)
    BY <2>1 DEF GoesOn
  <2>3. \A u \in Tabs : Moves(u)
    <3>1. OpFrom(t, "load_chat")
      BY <1>15 DEF OpLoadChat
    <3>. QED
      BY <3>1, ReadMoves
  <2>. QED
    BY <2>1, <2>2, <2>3, Quietly
<1>16. ASSUME NEW t \in Tabs, OpDeleteChat(t)
       PROVE  Book'
  BY <1>16, DeleteRead
<1>17. ASSUME NEW t \in Tabs, OpMcp(t)
       PROVE  Book'
  <2>1. UNCHANGED <<stored, deleted, gen>>
    BY <1>17 DEF OpMcp, serverVars, historyVars
  <2>2. \A c \in Chats : GoesOn(c)
    BY <2>1 DEF GoesOn
  <2>3. \A u \in Tabs : Moves(u)
    <3>1. OpFrom(t, "mcp")
      BY <1>17 DEF OpMcp
    <3>. QED
      BY <3>1, ReadMoves
  <2>. QED
    BY <2>1, <2>2, <2>3, Quietly
<1>18. ASSUME NEW t \in Tabs, McpAnswers(t)
       PROVE  Book'
  <2>1. UNCHANGED <<stored, deleted, gen>>
    BY <1>18 DEF McpAnswers, historyVars
  <2>2. \A c \in Chats : GoesOn(c)
    BY <2>1 DEF GoesOn
  <2>3. \A u \in Tabs : Moves(u)
    BY <1>18 DEF McpAnswers, Moves
  <2>. QED
    BY <2>1, <2>2, <2>3, Quietly
<1>19. ASSUME NEW t \in Tabs, OnWorkers(t)
       PROVE  Book'
  <2>1. UNCHANGED <<stored, deleted, gen>>
    BY <1>19 DEF OnWorkers, TabKeeps, serverVars
  <2>2. \A c \in Chats : GoesOn(c)
    BY <2>1 DEF GoesOn
  <2>3. \A u \in Tabs : Moves(u)
    BY <1>19 DEF OnWorkers, TabKeeps, Moves
  <2>. QED
    BY <2>1, <2>2, <2>3, Quietly
<1>20. ASSUME NEW t \in Tabs, OnOther(t)
       PROVE  Book'
  <2>1. UNCHANGED <<stored, deleted, gen>>
    BY <1>20 DEF OnOther, TabKeeps, serverVars
  <2>2. \A c \in Chats : GoesOn(c)
    BY <2>1 DEF GoesOn
  <2>3. \A u \in Tabs : Moves(u)
    BY <1>20 DEF OnOther, TabKeeps, Moves
  <2>. QED
    BY <2>1, <2>2, <2>3, Quietly
<1>21. ASSUME NEW t \in Tabs, OnChatSession(t)
       PROVE  Book'
  <2>1. UNCHANGED <<stored, deleted, gen>>
    BY <1>21 DEF OnChatSession, TabKeeps, serverVars
  <2>2. \A c \in Chats : GoesOn(c)
    BY <2>1 DEF GoesOn
  <2>3. \A u \in Tabs : Moves(u)
    BY <1>21 DEF OnChatSession, TabKeeps, Moves
  <2>. QED
    BY <2>1, <2>2, <2>3, Quietly
<1>22. ASSUME NEW t \in Tabs, OnChatToken(t)
       PROVE  Book'
  <2>1. UNCHANGED <<stored, deleted, gen>>
    BY <1>22 DEF OnChatToken, TabKeeps, serverVars
  <2>2. \A c \in Chats : GoesOn(c)
    BY <2>1 DEF GoesOn
  <2>3. \A u \in Tabs : Moves(u)
    BY <1>22 DEF OnChatToken, TabKeeps, Moves
  <2>. QED
    BY <2>1, <2>2, <2>3, Quietly
<1>23. ASSUME NEW t \in Tabs, OnChatDone(t)
       PROVE  Book'
  <2>1. UNCHANGED <<stored, deleted, gen>>
    BY <1>23 DEF OnChatDone, TabKeeps, serverVars
  <2>2. \A c \in Chats : GoesOn(c)
    BY <2>1 DEF GoesOn
  <2>3. \A u \in Tabs : Moves(u)
    BY <1>23 DEF OnChatDone, TabKeeps, Moves
  <2>. QED
    BY <2>1, <2>2, <2>3, Quietly
<1>24. ASSUME NEW t \in Tabs, OnMcpResult(t)
       PROVE  Book'
  <2>1. UNCHANGED <<stored, deleted, gen>>
    BY <1>24 DEF OnMcpResult, TabKeeps, serverVars
  <2>2. \A c \in Chats : GoesOn(c)
    BY <2>1 DEF GoesOn
  <2>3. \A u \in Tabs : Moves(u)
    BY <1>24 DEF OnMcpResult, TabKeeps, Moves
  <2>. QED
    BY <2>1, <2>2, <2>3, Quietly
<1>25. ASSUME NEW k \in Chats, ModelLoads(k)
       PROVE  Book'
  <2>1. /\ UNCHANGED <<stored, deleted, up>> /\ gen[k].state = "loading"
        /\ gen' = [gen EXCEPT ![k].state = "running"]
    BY <1>25 DEF ModelLoads, Ended, RunKeeps, historyVars
  <2>2. \A c \in Chats : /\ gen'[c].tab = gen[c].tab /\ gen'[c].session = gen[c].session
                          /\ gen'[c].state = IF c = k THEN "running" ELSE gen[c].state
    BY <2>1, StateChanges
  <2>3. \A c \in Chats : GoesOn(c)
    BY <2>1, <2>2 DEF GoesOn
  <2>4. \A u \in Tabs : Moves(u)
    BY <2>1 DEF Moves
  <2>. QED
    BY <2>1, <2>3, <2>4, Quietly
<1>26. ASSUME NEW k \in Chats, ModelFails(k)
       PROVE  Book'
  <2>1. /\ UNCHANGED <<stored, deleted, up>> /\ gen[k].state \in {"loading", "running"}
        /\ gen' = [gen EXCEPT ![k].state = "error"]
    BY <1>26 DEF ModelFails, Ended, RunKeeps, historyVars
  <2>2. \A c \in Chats : /\ gen'[c].tab = gen[c].tab /\ gen'[c].session = gen[c].session
                          /\ gen'[c].state = IF c = k THEN "error" ELSE gen[c].state
    BY <2>1, StateChanges
  <2>3. \A c \in Chats : GoesOn(c)
    BY <2>1, <2>2 DEF GoesOn
  <2>4. \A u \in Tabs : Moves(u)
    BY <2>1 DEF Moves
  <2>. QED
    BY <2>1, <2>3, <2>4, Quietly
<1>27. ASSUME NEW k \in Chats, Token(k)
       PROVE  Book'
  <2>1. /\ UNCHANGED <<stored, deleted, up>> /\ gen[k].len < MaxTokens
        /\ gen' = [gen EXCEPT ![k].len = @ + 1]
    BY <1>27 DEF Token, RunKeeps, historyVars
  <2>2. PICK n \in 0..MaxTokens : n = gen[k].len + 1
    <3>1. gen[k].len \in 0..MaxTokens
      BY DEF TypeOK, Generations
    <3>. QED
      BY <2>1, <3>1, ChatAssumption
  <2>3. gen' = [gen EXCEPT ![k].len = n]
    BY <2>1, <2>2
  <2>4. \A c \in Chats : /\ gen'[c].tab = gen[c].tab /\ gen'[c].session = gen[c].session
                          /\ gen'[c].state = gen[c].state
    BY <2>3, LengthChanges
  <2>5. \A c \in Chats : GoesOn(c)
    BY <2>4 DEF GoesOn
  <2>6. \A u \in Tabs : Moves(u)
    BY <2>1 DEF Moves
  <2>. QED
    BY <2>1, <2>5, <2>6, Quietly
<1>28. ASSUME NEW k \in Chats, Stopped(k)
       PROVE  Book'
  <2>1. gen[k].state = "running" /\ UNCHANGED <<up, deleted>>
    BY <1>28 DEF Stopped, RunKeeps, historyVars
  <2>2. CASE StoreReply(k, "stopped")
    BY <2>1, <2>2, ReplyStored
  <2>3. CASE gen' = [gen EXCEPT ![k].state = "stopped"] /\ UNCHANGED stored
    <3>1. \A c \in Chats : /\ gen'[c].tab = gen[c].tab /\ gen'[c].session = gen[c].session
                            /\ gen'[c].state = IF c = k THEN "stopped" ELSE gen[c].state
      BY <2>1, <2>3, StateChanges
    <3>2. \A c \in Chats : GoesOn(c)
      BY <2>1, <3>1 DEF GoesOn
    <3>3. \A u \in Tabs : Moves(u)
      BY <2>1 DEF Moves
    <3>. QED
      BY <2>1, <2>3, <3>2, <3>3, Quietly
  <2>. QED
    BY <1>28, <2>2, <2>3 DEF Stopped, Ended
<1>29. ASSUME NEW k \in Chats, Completed(k)
       PROVE  Book'
  <2>1. gen[k].state = "running" /\ UNCHANGED <<up, deleted>> /\ StoreReply(k, "complete")
    BY <1>29 DEF Completed, RunKeeps, historyVars
  <2>. QED
    BY <2>1, ReplyStored
<1>30. ASSUME UNCHANGED chatVars
       PROVE  Book'
  <2>1. UNCHANGED <<stored, deleted, gen>>
    BY <1>30 DEF chatVars, serverVars, historyVars
  <2>2. \A c \in Chats : GoesOn(c)
    BY <2>1 DEF GoesOn
  <2>3. \A u \in Tabs : Moves(u)
    BY <1>30 DEF chatVars, Moves
  <2>. QED
    BY <2>1, <2>2, <2>3, Quietly
<1>. QED
  BY <1>p, <1>1, <1>2, <1>3, <1>4, <1>5, <1>6, <1>7, <1>8, <1>9, <1>10, <1>11, 
     <1>12, <1>13, <1>14, <1>15, <1>16, <1>17, <1>18, <1>19, <1>20, <1>21, <1>22, 
     <1>23, <1>24, <1>25, <1>26, <1>27, <1>28, <1>29, <1>30
  DEF Next, SocketNext, WorkerNext, UserNext, HandleOp, Receive, RunChat

-----------------------------------------------------------------------------
(* What is made, stored, under way and shown.                                *)

(* How generations go on: an end is final, and a tab and a session stay.     *)
Forward(g, h) ==
  \A c \in Chats :
    /\ g[c].state # "unsent" => h[c].tab = g[c].tab /\ h[c].session = g[c].session /\ h[c].state # "unsent"
    /\ g[c].state \in Over => h[c].state = g[c].state /\ h[c].len = g[c].len
    /\ g[c].state = "running" => h[c].state \in {"running"} \cup Over
    /\ NothingYet(g[c]) => NothingYet(h[c])

(* A step that leaves the generations alone takes them forward. *)
LEMMA ForwardSame == ASSUME NEW g PROVE Forward(g, g)
BY DEF Forward

(* A reply that is whole stays whole. *)
LEMMA WholeForward ==
  ASSUME NEW g, NEW h, Forward(g, h), NEW m, Whole(m, g)
  PROVE  Whole(m, h)
BY DEF Forward, Whole

(* So do those of a transcript. *)
LEMMA WholeRepliesForward ==
  ASSUME NEW g, NEW h, Forward(g, h), NEW q, WholeReplies(q, g)
  PROVE  WholeReplies(q, h)
BY WholeForward DEF WholeReplies

(* A transcript to which a message is added that is no reply or a whole one. *)
LEMMA WholeRepliesAppend ==
  ASSUME NEW q \in Seq(Messages), NEW m \in Messages, NEW g, WholeReplies(q, g), IsReply(m) => Whole(m, g)
  PROVE  WholeReplies(Append(q, m), g)
<1>. SUFFICES ASSUME NEW i \in DOMAIN Append(q, m), IsReply(Append(q, m)[i]) PROVE Whole(Append(q, m)[i], g)
  BY DEF WholeReplies
<1>1. /\ Append(q, m)[Len(q) + 1] = m /\ \A j \in DOMAIN q : Append(q, m)[j] = q[j]
      /\ i \in DOMAIN q \/ i = Len(q) + 1
  BY AppendIs
<1>. QED
  BY <1>1 DEF WholeReplies

(* What a tab is sent stays in turn when generations go on. *)
LEMMA TurnForward ==
  ASSUME NEW g, NEW h, Forward(g, h), NEW q \in Seq(Events), InTurn(q, g)
  PROVE  InTurn(q, h)
<1>1. ASSUME NEW i \in DOMAIN q PROVE q[i].ev \in {"chat_token", "chat_done"} => q[i].chat \in Chats
  <2>1. q[i] \in Events
    BY ElementOfSeq, LenProperties
  <2>. QED
    BY <2>1 DEF Events
<1>2. ASSUME NEW i \in DOMAIN q, q[i].ev = "chat_token" PROVE h[q[i].chat].state \in {"running"} \cup Over
  BY <1>1, <1>2 DEF Forward, InTurn
<1>3. ASSUME NEW i \in DOMAIN q, q[i].ev = "chat_done"
      PROVE  h[q[i].chat].state \in Over /\ \A j \in DOMAIN q : j > i => ~IsToken(q[j], q[i].chat)
  BY <1>1, <1>3 DEF Forward, InTurn
<1>4. ASSUME NEW i \in DOMAIN q, q[i].ev = "chat_session" PROVE WholeReplies(q[i].messages, h)
  BY <1>4, WholeRepliesForward DEF InTurn
<1>. QED
  BY <1>2, <1>3, <1>4 DEF InTurn

(* When its head is read. *)
LEMMA TurnTail ==
  ASSUME NEW g, NEW q \in Seq(Events), q # <<>>, InTurn(q, g)
  PROVE  InTurn(Tail(q), g)
<1>1. /\ \A i \in DOMAIN Tail(q) : i \in Nat \ {0} /\ i + 1 \in DOMAIN q /\ Tail(q)[i] = q[i + 1]
  BY TailIs
<1>. SUFFICES ASSUME NEW i \in DOMAIN Tail(q)
              PROVE  /\ Tail(q)[i].ev = "chat_token" => g[Tail(q)[i].chat].state \in {"running"} \cup Over
                     /\ Tail(q)[i].ev = "chat_done" =>
                          /\ g[Tail(q)[i].chat].state \in Over
                          /\ \A j \in DOMAIN Tail(q) : j > i => ~IsToken(Tail(q)[j], Tail(q)[i].chat)
                     /\ Tail(q)[i].ev = "chat_session" => WholeReplies(Tail(q)[i].messages, g)
  BY DEF InTurn
<1>2. i \in Nat /\ i + 1 \in DOMAIN q /\ Tail(q)[i] = q[i + 1]
  BY <1>1
<1>3. ASSUME NEW j \in DOMAIN Tail(q), j > i, q[i + 1].ev = "chat_done" PROVE ~IsToken(Tail(q)[j], q[i + 1].chat)
  <2>1. j + 1 \in DOMAIN q /\ Tail(q)[j] = q[j + 1] /\ j + 1 > i + 1
    BY <1>1, <1>2, <1>3
  <2>. QED
    BY <1>2, <1>3, <2>1 DEF InTurn
<1>. QED
  BY <1>2, <1>3 DEF InTurn

(* May an event be sent now? *)
Timely(e, g) ==
  /\ e.ev = "chat_token" => g[e.chat].state = "running"
  /\ e.ev = "chat_done" => g[e.chat].state \in Over
  /\ e.ev = "chat_session" => WholeReplies(e.messages, g)

(* Then it comes in turn. *)
LEMMA TurnAppend ==
  ASSUME NEW g, NEW q \in Seq(Events), InTurn(q, g), NEW e \in Events, Timely(e, g)
  PROVE  InTurn(Append(q, e), g)
<1>. DEFINE p == Append(q, e)
<1>1. /\ Len(q) \in Nat /\ DOMAIN q = 1..Len(q) /\ DOMAIN p = 1..(Len(q) + 1)
      /\ p[Len(q) + 1] = e /\ \A i \in DOMAIN q : p[i] = q[i]
  BY AppendIs
<1>. HIDE DEF p
<1>2. ASSUME NEW i \in DOMAIN q, NEW j \in DOMAIN p, q[i].ev = "chat_done", j > i
      PROVE  ~IsToken(p[j], q[i].chat)
  <2>1. CASE j \in DOMAIN q
    BY <1>1, <1>2, <2>1 DEF InTurn
  <2>2. CASE j = Len(q) + 1
    <3>1. g[q[i].chat].state # "running"
      BY <1>2 DEF InTurn, Over
    <3>. QED
      BY <1>1, <2>2, <3>1 DEF IsToken, Timely
  <2>. QED
    BY <1>1, <2>1, <2>2
<1>3. ASSUME NEW i \in DOMAIN q
      PROVE  /\ p[i].ev = "chat_token" => g[p[i].chat].state \in {"running"} \cup Over
             /\ p[i].ev = "chat_done" => /\ g[p[i].chat].state \in Over
                                         /\ \A j \in DOMAIN p : j > i => ~IsToken(p[j], p[i].chat)
             /\ p[i].ev = "chat_session" => WholeReplies(p[i].messages, g)
  BY <1>1, <1>2 DEF InTurn
<1>4. ASSUME NEW i \in DOMAIN p, i = Len(q) + 1
      PROVE  /\ p[i].ev = "chat_token" => g[p[i].chat].state \in {"running"} \cup Over
             /\ p[i].ev = "chat_done" => /\ g[p[i].chat].state \in Over
                                         /\ \A j \in DOMAIN p : j > i => ~IsToken(p[j], p[i].chat)
             /\ p[i].ev = "chat_session" => WholeReplies(p[i].messages, g)
  <2>1. \A j \in DOMAIN p : ~(j > i)
    BY <1>1, <1>4
  <2>. QED
    BY <1>1, <1>4, <2>1 DEF Timely
<1>5. InTurn(p, g)
  BY <1>1, <1>3, <1>4 DEF InTurn
<1>. QED
  BY <1>5 DEF p

(* Tokens are counted. *)
LEMMA TokensAppend ==
  ASSUME NEW q \in Seq(Events), NEW e \in Events, NEW k
  PROVE  Tokens(q, k) \in Nat /\ Tokens(Append(q, e), k) = Tokens(q, k) + (IF IsToken(e, k) THEN 1 ELSE 0)
<1>. DEFINE p == Append(q, e)
            S == { i \in DOMAIN q : IsToken(q[i], k) }
            T == { i \in DOMAIN p : IsToken(p[i], k) }
<1>1. /\ Len(q) \in Nat /\ DOMAIN q = 1..Len(q) /\ DOMAIN p = 1..(Len(q) + 1)
      /\ p[Len(q) + 1] = e /\ \A i \in DOMAIN q : p[i] = q[i]
  BY AppendIs
<1>2. IsFiniteSet(S) /\ Cardinality(S) \in Nat /\ Len(q) + 1 \notin S
  <2>1. IsFiniteSet(1..Len(q)) /\ S \subseteq 1..Len(q)
    BY <1>1, FS_Interval
  <2>. QED
    BY <1>1, <2>1, FS_Subset, FS_CardinalityType
<1>. HIDE DEF p
<1>3. T = IF IsToken(e, k) THEN S \cup {Len(q) + 1} ELSE S
  BY <1>1
<1>4. Cardinality(S \cup {Len(q) + 1}) = Cardinality(S) + 1
  BY <1>2, FS_AddElement
<1>5. Tokens(q, k) = Cardinality(S) /\ Tokens(p, k) = Cardinality(T)
  BY DEF Tokens
<1>. HIDE DEF S, T
<1>. QED
  BY <1>2, <1>3, <1>4, <1>5 DEF p

(* One that is read is counted no more. *)
LEMMA TokensTail ==
  ASSUME NEW q \in Seq(Events), q # <<>>, NEW k
  PROVE  Tokens(Tail(q), k) \in Nat /\ Tokens(q, k) = Tokens(Tail(q), k) + (IF IsToken(Head(q), k) THEN 1 ELSE 0)
<1>. DEFINE p == Tail(q)
            S == { i \in DOMAIN q : IsToken(q[i], k) }
            T == { i \in DOMAIN p : IsToken(p[i], k) }
            R == { i + 1 : i \in T }
            f == [i \in T |-> i + 1]
<1>1. /\ Head(q) = q[1] /\ 1 \in DOMAIN q /\ Len(p) \in Nat /\ DOMAIN p = 1..Len(p)
      /\ \A i \in DOMAIN p : i \in Nat \ {0} /\ i + 1 \in DOMAIN q /\ p[i] = q[i + 1]
      /\ \A i \in DOMAIN q : i \in Nat /\ (i = 1 \/ (i - 1 \in DOMAIN p /\ p[i - 1] = q[i]))
  <2>1. DOMAIN q = 1..Len(q) /\ p \in Seq(Events)
    BY TailIs, LenProperties
  <2>. QED
    BY <2>1, TailIs, LenProperties
<1>. HIDE DEF p
<1>2. IsFiniteSet(T) /\ Cardinality(T) \in Nat
  <2>1. IsFiniteSet(1..Len(p)) /\ T \subseteq 1..Len(p)
    BY <1>1, FS_Interval
  <2>. QED
    BY <2>1, FS_Subset, FS_CardinalityType
<1>3. f \in Bijection(T, R)
  <2>1. f \in [T -> R] /\ T \subseteq Nat
    BY <1>1
  <2>2. \A i, j \in T : f[i] = f[j] => i = j
    BY <2>1
  <2>3. \A r \in R : \E i \in T : f[i] = r
    OBVIOUS
  <2>. QED
    BY <2>1, <2>2, <2>3 DEF Bijection, Injection, Surjection, IsInjective
<1>4. IsFiniteSet(R) /\ Cardinality(R) = Cardinality(T)
  BY <1>2, <1>3, FS_Bijection DEF ExistsBijection
<1>5. S = (IF IsToken(Head(q), k) THEN R \cup {1} ELSE R) /\ 1 \notin R
  <2>1. \A i \in T : i \in Nat \ {0} /\ i + 1 \in S
    BY <1>1
  <2>2. \A i \in S : i = 1 \/ (i \in Nat /\ i - 1 \in T)
    BY <1>1
  <2>3. \A i \in S : i = 1 \/ i \in R
    <3>1. \A i \in S : i # 1 => (i - 1) + 1 = i /\ i - 1 \in T
      BY <2>2
    <3>. QED
      BY <3>1
  <2>4. R \subseteq S /\ 1 \notin R
    BY <2>1
  <2>5. 1 \in S <=> IsToken(Head(q), k)
    BY <1>1
  <2>. QED
    BY <2>3, <2>4, <2>5
<1>6. Cardinality(R \cup {1}) = Cardinality(R) + 1
  BY <1>4, <1>5, FS_AddElement
<1>7. Tokens(p, k) = Cardinality(T) /\ Tokens(q, k) = Cardinality(S)
  BY DEF Tokens
<1>. HIDE DEF S, T, R
<1>. QED
  BY <1>2, <1>4, <1>5, <1>6, <1>7 DEF p

(* None is counted where none is. *)
LEMMA TokensNone ==
  ASSUME NEW q, NEW k, \A i \in DOMAIN q : ~IsToken(q[i], k)
  PROVE  Tokens(q, k) = 0
<1>1. { i \in DOMAIN q : IsToken(q[i], k) } = {}
  OBVIOUS
<1>. QED
  BY <1>1, FS_EmptySet DEF Tokens

(* A generation's length is a number. *)
LEMMA LenIs == ASSUME NEW g \in [Chats -> Generations], NEW k \in Chats PROVE g[k].len \in Nat
BY ChatAssumption DEF Generations

(* The messages of a transcript, and the last one of them. *)
LEMMA TranscriptIs ==
  ASSUME NEW q \in Seq(Messages)
  PROVE  /\ Len(q) \in Nat /\ DOMAIN q = 1..Len(q) /\ (q # <<>> => Len(q) \in DOMAIN q)
         /\ \A i \in DOMAIN q : q[i] \in Messages /\ q[i].len \in Nat
<1>1. Len(q) \in Nat /\ DOMAIN q = 1..Len(q) /\ (q # <<>> => Len(q) # 0)
  BY LenProperties, EmptySeq
<1>2. \A i \in DOMAIN q : q[i] \in Messages
  BY <1>1, ElementOfSeq
<1>. QED
  BY <1>1, <1>2 DEF Messages

(* Arithmetic of a message that follows its generation. *)
LEMMA Keeps == ASSUME NEW l \in Nat, NEW v \in Nat, NEW w \in Nat, NEW m \in Nat, NEW n \in Nat, l + v = m, n + v = m + w PROVE l + w = n
OBVIOUS

(* And of one that gets a token. *)
LEMMA Gains == ASSUME NEW l \in Nat, NEW v \in Nat, NEW w \in Nat, NEW n \in Nat, l + v = n, v = w + 1 PROVE (l + 1) + w = n
OBVIOUS

(* A transcript that a step leaves alone, when the generation that is waited *)
(* for makes a token as one is sent.                                         *)
LEMMA ViewKept ==
  ASSUME NEW q \in Seq(Messages), NEW a, NEW x \in Seq(Events), NEW y \in Seq(Events),
         NEW g \in [Chats -> Generations], NEW h \in [Chats -> Generations], Forward(g, h),
         NEW lost, NEW gone, lost \subseteq gone, View(q, a, x, g, lost),
         Tokens(x, a) \in Nat, Tokens(y, a) \in Nat,
         a \in Chats => h[a].len + Tokens(x, a) = g[a].len + Tokens(y, a)
  PROVE  View(q, a, y, h, gone)
<1>1. ASSUME NEW i \in DOMAIN q, IsReply(q[i]) PROVE Accounted(q[i], a, h, gone)
  BY <1>1, WholeForward DEF View, Accounted
<1>2. ASSUME Streams(q) PROVE Follows(q, a, y, h, gone)
  <2>1. Follows(q, a, x, g, lost)
    BY <1>2 DEF View
  <2>2. q[Len(q)].len + Tokens(y, a) = h[a].len
    <3>1. a \in Chats /\ q[Len(q)].len + Tokens(x, a) = g[a].len
      BY <2>1 DEF Follows
    <3>2. q[Len(q)].len \in Nat /\ g[a].len \in Nat /\ h[a].len \in Nat
      BY <1>2, <3>1, TranscriptIs, LenIs DEF Streams
    <3>3. h[a].len + Tokens(x, a) = g[a].len + Tokens(y, a)
      BY <3>1
    <3>4. PICK l \in Nat, v \in Nat, w \in Nat, m \in Nat, n \in Nat :
            l = q[Len(q)].len /\ v = Tokens(x, a) /\ w = Tokens(y, a) /\ m = g[a].len /\ n = h[a].len
      BY <3>2
    <3>5. l + v = m /\ n + v = m + w
      BY <3>1, <3>3, <3>4
    <3>6. l + w = n
      BY <3>5, Keeps
    <3>. QED
      BY <3>4, <3>6
  <2>. QED
    BY <2>1, <2>2 DEF Follows
<1>. QED
  BY <1>1, <1>2 DEF View

(* One that is loaded, or emptied. *)
LEMMA ViewWhole ==
  ASSUME NEW q \in Seq(Messages), NEW g, WholeReplies(q, g), NEW a, NEW x, NEW lost
  PROVE  View(q, a, x, g, lost)
<1>1. \A i \in DOMAIN q : IsReply(q[i]) => ~q[i].streaming /\ Whole(q[i], g)
  BY DEF WholeReplies, Whole
<1>2. ~Streams(q)
  BY <1>1, TranscriptIs DEF Streams
<1>. QED
  BY <1>1, <1>2 DEF View, Accounted

(* One to which a message is added that is no reply. *)
LEMMA ViewAppended ==
  ASSUME NEW q \in Seq(Messages), NEW m \in Messages, ~IsReply(m),
         NEW a, NEW x, NEW g, NEW lost, View(q, a, x, g, lost)
  PROVE  View(Append(q, m), a, x, g, lost)
<1>1. PICK p : p = Append(q, m)
  OBVIOUS
<1>2. /\ p \in Seq(Messages) /\ Len(q) \in Nat /\ DOMAIN p = 1..(Len(q) + 1) /\ p[Len(q) + 1] = m
      /\ \A i \in DOMAIN q : p[i] = q[i]
      /\ \A i \in DOMAIN p : i \in DOMAIN q \/ i = Len(q) + 1
  BY <1>1, AppendIs
<1>3. Len(p) = Len(q) + 1
  BY <1>1, AppendProperties
<1>4. ~Streams(p)
  BY <1>2, <1>3 DEF Streams
<1>5. \A i \in DOMAIN p : IsReply(p[i]) => Accounted(p[i], a, g, lost)
  BY <1>2 DEF View
<1>. QED
  BY <1>1, <1>4, <1>5 DEF View

(* One to which a prompt and the start of its reply are added. *)
LEMMA ViewPrompted ==
  ASSUME NEW q \in Seq(Messages), NEW x \in Seq(Events), NEW g, NEW h, NEW lost, View(q, None, x, g, lost),
         NEW k \in Chats, NEW u \in Messages, NEW m \in Messages, ~IsReply(u),
         IsReply(m), m.chat = k, m.len = 0, m.streaming, Tokens(x, k) = 0, h[k].len = 0, Forward(g, h)
  PROVE  View(Append(Append(q, u), m), k, x, h, lost)
<1>1. PICK p : p = Append(q, u)
  OBVIOUS
<1>2. PICK r : r = Append(p, m)
  OBVIOUS
<1>3. /\ p \in Seq(Messages) /\ Len(q) \in Nat /\ Len(p) = Len(q) + 1 /\ p[Len(q) + 1] = u
      /\ DOMAIN p = 1..(Len(q) + 1) /\ \A i \in DOMAIN q : p[i] = q[i]
      /\ \A i \in DOMAIN p : i \in DOMAIN q \/ i = Len(q) + 1
  BY <1>1, AppendIs, AppendProperties
<1>4. /\ r \in Seq(Messages) /\ Len(r) = Len(p) + 1 /\ r[Len(p) + 1] = m /\ \A i \in DOMAIN p : r[i] = p[i]
      /\ \A i \in DOMAIN r : i \in DOMAIN p \/ i = Len(p) + 1
  BY <1>2, <1>3, AppendIs, AppendProperties
<1>5. m.chat = k /\ m.streaming /\ IsReply(m) /\ m.len = 0
  OBVIOUS
<1>6. \A i \in DOMAIN q : IsReply(q[i]) => Accounted(q[i], None, g, lost)
  BY DEF View
<1>7. None \notin Chats
  BY ChatAssumption DEF Chats
<1>8. \A i \in DOMAIN q : IsReply(q[i]) => q[i].chat \in lost \/ (~q[i].streaming /\ Whole(q[i], h))
  BY <1>6, <1>7, WholeForward DEF Accounted
<1>9. \A i \in DOMAIN r : i = Len(r) \/ (i \in DOMAIN q /\ r[i] = q[i]) \/ r[i] = u
  BY <1>3, <1>4
<1>10. \A i \in DOMAIN r : IsReply(r[i]) => Accounted(r[i], k, h, lost)
  <2>1. Accounted(m, k, h, lost)
    BY <1>5 DEF Accounted
  <2>. QED
    BY <1>3, <1>4, <1>8, <1>9, <2>1 DEF Accounted
<1>11. Follows(r, k, x, h, lost)
  <2>1. r[Len(r)] = m /\ m.len + Tokens(x, k) = h[k].len
    <3>1. r[Len(r)] = m
      BY <1>4
    <3>2. m.len = 0 /\ Tokens(x, k) = 0 /\ h[k].len = 0 /\ 0 + 0 = 0
      OBVIOUS
    <3>3. m.len + Tokens(x, k) = 0 + 0
      BY <3>2, ZenonT(60)
    <3>. QED
      BY <3>1, <3>2, <3>3, ZenonT(60)
  <2>2. ASSUME NEW i \in 1..(Len(r) - 1), IsReply(r[i]), r[i].streaming PROVE r[i].chat \in lost
    <3>1. i \in DOMAIN r /\ i # Len(r)
      BY <1>3, <1>4, <2>2, TranscriptIs
    <3>. QED
      BY <1>8, <1>9, <2>2, <3>1
  <2>. QED
    BY <1>5, <2>1, <2>2 DEF Follows
<1>. QED
  BY <1>1, <1>2, <1>10, <1>11 DEF View

(* One whose last message gets a token. *)
LEMMA ViewStreamed ==
  ASSUME NEW q \in Seq(Messages), NEW k, NEW x \in Seq(Events), x # <<>>, IsToken(Head(x), k),
         NEW g \in [Chats -> Generations], NEW lost, View(q, k, x, g, lost), Streams(q)
  PROVE  View([q EXCEPT ![Len(q)].len = @ + 1], k, Tail(x), g, lost)
<1>1. /\ Len(q) \in DOMAIN q /\ Len(q) \in Nat /\ DOMAIN q = 1..Len(q)
      /\ q[Len(q)] \in Messages /\ q[Len(q)].len \in Nat
  BY TranscriptIs DEF Streams
<1>2. PICK m : m = [q[Len(q)] EXCEPT !.len = @ + 1]
  OBVIOUS
<1>3. m.role = q[Len(q)].role /\ m.chat = q[Len(q)].chat /\ m.streaming = q[Len(q)].streaming /\ m.len = q[Len(q)].len + 1
  BY <1>1, <1>2 DEF Messages
<1>4. PICK r : r = [q EXCEPT ![Len(q)] = m]
  OBVIOUS
<1>5. r = [q EXCEPT ![Len(q)].len = @ + 1]
  BY <1>2, <1>4
<1>6. /\ DOMAIN r = DOMAIN q /\ r[Len(q)] = m /\ \A i \in DOMAIN q : i # Len(q) => r[i] = q[i]
  BY <1>1, <1>4
<1>7. Len(r) = Len(q) /\ r # <<>>
  BY <1>1, <1>6, EmptySeq
<1>8. Follows(q, k, x, g, lost)
  BY DEF View
<1>9. Follows(r, k, Tail(x), g, lost)
  <2>1. Tokens(Tail(x), k) \in Nat /\ Tokens(x, k) = Tokens(Tail(x), k) + 1
    BY TokensTail
  <2>2. r[Len(r)].len + Tokens(Tail(x), k) = g[k].len
    <3>1. q[Len(q)].len + Tokens(x, k) = g[k].len /\ k \in Chats
      BY <1>8 DEF Follows
    <3>2. Tokens(x, k) \in Nat /\ g[k].len \in Nat
      BY <2>1, <3>1, LenIs
    <3>3. (q[Len(q)].len + 1) + Tokens(Tail(x), k) = g[k].len
      BY <1>1, <2>1, <3>1, <3>2, Gains
    <3>4. r[Len(r)].len = q[Len(q)].len + 1
      BY <1>3, <1>6, <1>7, ZenonT(60)
    <3>. QED
      BY <3>3, <3>4, ZenonT(60)
  <2>3. \A i \in 1..(Len(r) - 1) : i \in DOMAIN q /\ r[i] = q[i]
    BY <1>1, <1>6, <1>7
  <2>. QED
    BY <1>3, <1>6, <1>7, <1>8, <2>2, <2>3 DEF Follows
<1>10. \A i \in DOMAIN r : IsReply(r[i]) => Accounted(r[i], k, g, lost)
  <2>1. Accounted(m, k, g, lost)
    BY <1>3, <1>8 DEF Accounted, Follows, Streams
  <2>. QED
    BY <1>6, <2>1 DEF View
<1>. QED
  BY <1>5, <1>9, <1>10 DEF View

(* One whose last message is ended. *)
LEMMA ViewEnded ==
  ASSUME NEW q \in Seq(Messages), NEW k, NEW x \in Seq(Events), x # <<>>, Head(x).ev = "chat_done", Head(x).chat = k,
         NEW g \in [Chats -> Generations], NEW lost, View(q, k, x, g, lost), Streams(q), InTurn(x, g), NEW y
  PROVE  View([q EXCEPT ![Len(q)].streaming = FALSE], None, y, g, lost)
<1>1. /\ Len(q) \in DOMAIN q /\ Len(q) \in Nat /\ DOMAIN q = 1..Len(q)
      /\ q[Len(q)] \in Messages /\ q[Len(q)].len \in Nat
  BY TranscriptIs DEF Streams
<1>2. PICK m : m = [q[Len(q)] EXCEPT !.streaming = FALSE]
  OBVIOUS
<1>3. m.role = q[Len(q)].role /\ m.chat = q[Len(q)].chat /\ ~m.streaming /\ m.len = q[Len(q)].len
  BY <1>1, <1>2 DEF Messages
<1>4. PICK r : r = [q EXCEPT ![Len(q)] = m]
  OBVIOUS
<1>5. r = [q EXCEPT ![Len(q)].streaming = FALSE]
  BY <1>2, <1>4
<1>6. /\ DOMAIN r = DOMAIN q /\ r[Len(q)] = m /\ \A i \in DOMAIN q : i # Len(q) => r[i] = q[i]
  BY <1>1, <1>4
<1>7. Len(r) = Len(q)
  BY <1>1, <1>6
<1>8. Follows(q, k, x, g, lost)
  BY DEF View
<1>9. Tokens(x, k) = 0 /\ g[k].state \in Over
  <2>1. 1 \in DOMAIN x /\ Head(x) = x[1] /\ \A i \in DOMAIN x : i = 1 \/ i > 1
    <3>1. DOMAIN x = 1..Len(x) /\ Len(x) \in Nat
      BY LenProperties
    <3>. QED
      BY <3>1, TailIs
  <2>2. g[k].state \in Over /\ \A i \in DOMAIN x : i > 1 => ~IsToken(x[i], k)
    BY <2>1 DEF InTurn
  <2>3. \A i \in DOMAIN x : ~IsToken(x[i], k)
    BY <2>1, <2>2 DEF IsToken
  <2>. QED
    BY <2>2, <2>3, TokensNone
<1>10. Whole(m, g)
  BY <1>1, <1>3, <1>8, <1>9 DEF Whole, Follows
<1>11. \A i \in DOMAIN r : IsReply(r[i]) => Accounted(r[i], None, g, lost)
  <2>1. ASSUME NEW i \in DOMAIN q, i # Len(q), IsReply(q[i]) PROVE Accounted(q[i], None, g, lost)
    <3>1. i \in 1..(Len(q) - 1)
      BY <1>1, <2>1
    <3>2. Accounted(q[i], k, g, lost)
      BY <2>1 DEF View
    <3>. QED
      BY <1>8, <2>1, <3>1, <3>2 DEF Accounted, Follows
  <2>2. Accounted(m, None, g, lost)
    BY <1>3, <1>10 DEF Accounted
  <2>. QED
    BY <1>6, <2>1, <2>2
<1>12. ~Streams(r)
  BY <1>3, <1>6, <1>7 DEF Streams
<1>. QED
  BY <1>5, <1>11, <1>12 DEF View

(* One whose last message is another, when an event of the generation that   *)
(* is waited for is read or the wait is given up.                            *)
LEMMA ViewMissed ==
  ASSUME NEW q, NEW k, NEW x, NEW g, NEW lost, View(q, k, x, g, lost), ~Streams(q), NEW a, NEW y
  PROVE  View(q, a, y, g, lost \cup {k})
BY DEF View, Accounted

(* What is said of a tab, as an operator of its parts.                       *)
Fine(t, q, a, x, g, lost, open, off) ==
  /\ InTurn(x, g)
  /\ a # None => g[a].tab = t /\ g[a].state # "unsent" /\ t \in open \cup off
  /\ t \notin off => View(q, a, x, g, lost)
Now(t) == Fine(t, shown[t], active[t], down[t], gen, missed, ui, dropped)
Later(t) == Fine(t, shown'[t], active'[t], down'[t], gen', missed', ui', dropped')

(* What is said of the tables, as an operator of theirs.                     *)
Replies(table, gone, g) ==
  /\ \A s \in DOMAIN table : /\ WholeReplies(table[s], g)
                             /\ \A k \in Chats : HasReply(table[s], k) => Answered(g[k])
  /\ \A k \in Chats \ gone : Answered(g[k]) =>
       g[k].session \in DOMAIN table /\ HasReply(table[g[k].session], k)

(* Both are what InStep says, of this state *)
LEMMA InStepNow ==
  ASSUME InStep
  PROVE  Replies(stored, deleted, gen) /\ \A t \in Tabs : Now(t)
BY DEF InStep, Replies, RepliesStored, Exists, Now, Fine, WaitsForOwn

(* and of the next. *)
LEMMA InStepLater ==
  ASSUME InStep, Forward(gen, gen'), \A t \in Tabs : Later(t), Replies(stored', deleted', gen')
  PROVE  InStep'
<1>1. \A k \in Chats : NothingYet(gen'[k])
  BY DEF InStep, Forward
<1>2. (\A k \in Chats : NothingYet(gen[k]))'
  BY <1>1 DEF NothingYet
<1>3. ASSUME NEW t \in Tabs
      PROVE  InTurn(down[t], gen)'
  <2>1. InTurn(down'[t], gen')
    BY <1>3 DEF Later, Fine
  <2>. QED
    BY <2>1 DEF InTurn, IsToken, WholeReplies, IsReply, Whole, Over
<1>4. ASSUME NEW t \in Tabs
      PROVE  WaitsForOwn(t)'
  BY DEF Later, Fine, WaitsForOwn
<1>5. ASSUME NEW t \in Tabs, t \notin dropped'
      PROVE  View(shown[t], active[t], down[t], gen, missed)'
  <2>1. View(shown'[t], active'[t], down'[t], gen', missed')
    BY <1>5 DEF Later, Fine
  <2>. QED
    BY <2>1 DEF View, IsReply, Accounted, Whole, Over, Streams, Follows, Tokens, IsToken
<1>6. RepliesStored'
  BY DEF Replies, RepliesStored, Exists, WholeReplies, IsReply, Whole, HasReply, Answered, Over
<1>. QED
  BY <1>2, <1>3, <1>4, <1>5, <1>6 DEF InStep

(* How the queue of a tab moves on while its transcript stays: the           *)
(* generation that is waited for makes a token as one is sent.               *)
Grows(a, g, h, e) == a \in Chats => h[a].len = g[a].len + (IF IsToken(e, a) THEN 1 ELSE 0)
Rests(a, g, h) == a \in Chats => h[a].len = g[a].len
Carried(x, y, a, g, h) ==
  \/ y = x /\ Rests(a, g, h)
  \/ x # <<>> /\ y = Tail(x) /\ ~IsToken(Head(x), a) /\ Rests(a, g, h)
  \/ \E e \in Events : y = Append(x, e) /\ Timely(e, h) /\ Grows(a, g, h, e)

(* Arithmetic of a token that is sent. *)
LEMMA Counts ==
  ASSUME NEW m \in Nat, NEW n \in Nat, NEW v \in Nat, NEW w \in Nat, NEW c \in {0, 1}, n = m + c, w = v + c
  PROVE  n + v = m + w
OBVIOUS

(* Then what is under way stays in turn, and tokens sent match tokens made. *)
LEMMA CarriedIs ==
  ASSUME NEW g \in [Chats -> Generations], NEW h \in [Chats -> Generations], Forward(g, h),
         NEW x \in Seq(Events), NEW y, NEW a, InTurn(x, g), Carried(x, y, a, g, h)
  PROVE  /\ y \in Seq(Events) /\ InTurn(y, h) /\ Tokens(x, a) \in Nat /\ Tokens(y, a) \in Nat
         /\ a \in Chats => h[a].len + Tokens(x, a) = g[a].len + Tokens(y, a)
<1>1. InTurn(x, h)
  BY TurnForward
<1>2. Tokens(x, a) \in Nat
  BY TokensAppend, EventIs
<1>3. CASE y = x /\ Rests(a, g, h)
  BY <1>1, <1>2, <1>3 DEF Rests
<1>4. CASE x # <<>> /\ y = Tail(x) /\ ~IsToken(Head(x), a) /\ Rests(a, g, h)
  <2>1. y \in Seq(Events) /\ InTurn(y, h)
    BY <1>1, <1>4, TailIs, TurnTail
  <2>2. Tokens(y, a) \in Nat /\ Tokens(x, a) = Tokens(y, a)
    BY <1>4, TokensTail
  <2>. QED
    BY <1>2, <1>4, <2>1, <2>2 DEF Rests
<1>5. ASSUME NEW e \in Events, y = Append(x, e), Timely(e, h), Grows(a, g, h, e)
      PROVE  /\ y \in Seq(Events) /\ InTurn(y, h) /\ Tokens(y, a) \in Nat
             /\ a \in Chats => h[a].len + Tokens(x, a) = g[a].len + Tokens(y, a)
  <2>1. y \in Seq(Events) /\ InTurn(y, h)
    BY <1>1, <1>5, AppendIs, TurnAppend
  <2>2. PICK c \in {0, 1} : c = IF IsToken(e, a) THEN 1 ELSE 0
    OBVIOUS
  <2>3. Tokens(y, a) = Tokens(x, a) + c
    BY <1>5, <2>2, TokensAppend
  <2>4. Tokens(y, a) \in Nat
    BY <1>2, <2>3
  <2>5. ASSUME a \in Chats PROVE h[a].len + Tokens(x, a) = g[a].len + Tokens(y, a)
    <3>1. h[a].len = g[a].len + c /\ g[a].len \in Nat /\ h[a].len \in Nat
      BY <1>5, <2>2, <2>5, LenIs DEF Grows
    <3>2. PICK m \in Nat, n \in Nat, v \in Nat, w \in Nat :
            m = g[a].len /\ n = h[a].len /\ v = Tokens(x, a) /\ w = Tokens(y, a)
      BY <1>2, <2>4, <3>1
    <3>3. n = m + c /\ w = v + c
      BY <2>3, <3>1, <3>2
    <3>4. n + v = m + w
      BY <3>3, Counts
    <3>. QED
      BY <3>2, <3>4
  <2>. QED
    BY <2>1, <2>4, <2>5
<1>. QED
  BY <1>2, <1>3, <1>4, <1>5 DEF Carried

(* A tab that a step does not concern. *)
Stays(t) ==
  /\ active'[t] = active[t] /\ shown'[t] = shown[t] /\ missed \subseteq missed'
  /\ t \in dropped => t \in dropped'
  /\ t \in ui => t \in ui' \cup dropped'

(* It is as fine as it was; its tokens count while it was never cut off.     *)
LEMMA TabKept ==
  ASSUME TypeOK, gen' \in [Chats -> Generations], Forward(gen, gen'), NEW t \in Tabs, Now(t), Stays(t),
         NEW b, b = active[t] \/ t \in dropped', Carried(down[t], down'[t], b, gen, gen')
  PROVE  Later(t)
<1>1. /\ gen \in [Chats -> Generations] /\ shown[t] \in Seq(Messages) /\ down[t] \in Seq(Events)
      /\ active[t] \in Chats \cup {None}
  BY DEF TypeOK
<1>2. PICK g, h, x, y, a, q : /\ g = gen /\ h = gen' /\ x = down[t] /\ y = down'[t] /\ a = active[t]
                              /\ q = shown[t]
  OBVIOUS
<1>3. /\ g \in [Chats -> Generations] /\ h \in [Chats -> Generations] /\ Forward(g, h)
      /\ x \in Seq(Events) /\ q \in Seq(Messages) /\ a \in Chats \cup {None} /\ Carried(x, y, b, g, h)
  BY <1>1, <1>2
<1>4. InTurn(x, g) /\ (t \notin dropped => View(q, a, x, g, missed))
  BY <1>2 DEF Now, Fine
<1>5. /\ y \in Seq(Events) /\ InTurn(y, h) /\ Tokens(x, b) \in Nat /\ Tokens(y, b) \in Nat
      /\ b \in Chats => h[b].len + Tokens(x, b) = g[b].len + Tokens(y, b)
  BY <1>3, <1>4, CarriedIs
<1>6. PICK lost, gone : lost = missed /\ gone = missed'
  OBVIOUS
<1>7. ASSUME t \notin dropped' PROVE View(q, a, y, h, gone)
  <2>1. lost \subseteq gone /\ b = a /\ t \notin dropped
    BY <1>2, <1>6, <1>7 DEF Stays
  <2>. QED
    BY <1>3, <1>4, <1>5, <1>6, <2>1, ViewKept
<1>8. active'[t] # None => /\ gen'[active'[t]].tab = t /\ gen'[active'[t]].state # "unsent"
                           /\ t \in ui' \cup dropped'
  <2>1. active[t] # None => active[t] \in Chats /\ gen[active[t]].tab = t /\ gen[active[t]].state # "unsent" /\ t \in ui \cup dropped
    BY <1>1 DEF Now, Fine
  <2>. QED
    BY <2>1 DEF Stays, Forward
<1>. QED
  BY <1>2, <1>5, <1>6, <1>7, <1>8 DEF Later, Fine, Stays

(* The tables, when generations go on and none is answered. *)
LEMMA RepliesForward ==
  ASSUME NEW table, NEW gone, NEW g, NEW h, Forward(g, h), Replies(table, gone, g),
         \A k \in Chats : Answered(h[k]) => Answered(g[k])
  PROVE  Replies(table, gone, h)
<1>1. \A k \in Chats : Answered(g[k]) => Answered(h[k]) /\ h[k].session = g[k].session
  BY DEF Answered, Forward, Over
<1>. QED
  BY <1>1, WholeRepliesForward DEF Replies

(* When a message is stored that is no reply. *)
LEMMA RepliesAppended ==
  ASSUME NEW D, NEW table \in [D -> Seq(Messages)], NEW s \in D, NEW m \in Messages, ~IsReply(m),
         NEW gone, NEW g, Replies(table, gone, g)
  PROVE  Replies(Appended(table, s, m), gone, g)
<1>1. PICK more : more = Appended(table, s, m)
  OBVIOUS
<1>2. /\ DOMAIN more = D /\ table[s] \in Seq(Messages)
      /\ \A r \in D : more[r] = IF r = s THEN Append(table[s], m) ELSE table[r]
  BY <1>1, AppendedIs
<1>3. WholeReplies(Append(table[s], m), g)
  <2>1. WholeReplies(table[s], g)
    BY DEF Replies
  <2>. QED
    BY <1>2, <2>1, WholeRepliesAppend
<1>4. ASSUME NEW k PROVE HasReply(Append(table[s], m), k) <=> HasReply(table[s], k)
  <2>1. /\ \A i \in DOMAIN table[s] : Append(table[s], m)[i] = table[s][i]
        /\ \A i \in DOMAIN Append(table[s], m) : i \in DOMAIN table[s] \/ i = Len(table[s]) + 1
        /\ DOMAIN table[s] \subseteq DOMAIN Append(table[s], m) /\ Append(table[s], m)[Len(table[s]) + 1] = m
    BY <1>2, AppendIs
  <2>. QED
    BY <2>1 DEF HasReply
<1>5. \A r \in D, k \in Chats : HasReply(more[r], k) <=> HasReply(table[r], k)
  BY <1>2, <1>4
<1>6. \A r \in D : WholeReplies(more[r], g)
  BY <1>2, <1>3 DEF Replies
<1>. QED
  BY <1>1, <1>2, <1>5, <1>6 DEF Replies

(* When an empty session is made. *)
LEMMA RepliesCreated ==
  ASSUME NEW table, NEW more, NEW s, NEW gone, NEW g, Replies(table, gone, g), DOMAIN more = DOMAIN table \cup {s},
         \A r \in DOMAIN table : more[r] = table[r], s \notin DOMAIN table => more[s] = <<>>
  PROVE  Replies(more, gone, g)
<1>1. WholeReplies(<<>>, g) /\ \A k : ~HasReply(<<>>, k)
  BY NoneIs DEF WholeReplies, HasReply
<1>2. \A r \in DOMAIN more : r \in DOMAIN table \/ more[r] = <<>>
  OBVIOUS
<1>. QED
  BY <1>1, <1>2 DEF Replies

(* When one is deleted. *)
LEMMA RepliesDeleted ==
  ASSUME NEW table, NEW less, NEW s, NEW gone, NEW more, NEW g, Replies(table, gone, g), DOMAIN less = DOMAIN table \ {s},
         \A r \in DOMAIN less : less[r] = table[r], more = gone \cup { k \in Chats : g[k].session = s }
  PROVE  Replies(less, more, g)
BY DEF Replies

(* When a generation is answered. *)
LEMMA RepliesAnswered ==
  ASSUME NEW D, NEW table \in [D -> Seq(Messages)], NEW gone, NEW g, NEW h, Replies(table, gone, g), Forward(g, h),
         NEW k \in Chats, NEW s \in D, h[k].session = s, Answered(h[k]),
         NEW m \in Messages, IsReply(m), m.chat = k, Whole(m, h), \A c \in Chats \ {k} : Answered(h[c]) => Answered(g[c])
  PROVE  Replies(Appended(table, s, m), gone, h)
<1>1. PICK more : more = Appended(table, s, m)
  OBVIOUS
<1>2. /\ DOMAIN more = D /\ table[s] \in Seq(Messages)
      /\ \A r \in D : more[r] = IF r = s THEN Append(table[s], m) ELSE table[r]
  BY <1>1, AppendedIs
<1>3. WholeReplies(Append(table[s], m), h)
  <2>1. WholeReplies(table[s], h)
    BY WholeRepliesForward DEF Replies
  <2>. QED
    BY <1>2, <2>1, WholeRepliesAppend
<1>4. ASSUME NEW c PROVE HasReply(Append(table[s], m), c) <=> HasReply(table[s], c) \/ c = k
  <2>1. /\ \A i \in DOMAIN table[s] : Append(table[s], m)[i] = table[s][i]
        /\ \A i \in DOMAIN Append(table[s], m) : i \in DOMAIN table[s] \/ i = Len(table[s]) + 1
        /\ DOMAIN table[s] \subseteq DOMAIN Append(table[s], m) /\ Append(table[s], m)[Len(table[s]) + 1] = m
        /\ Len(table[s]) + 1 \in DOMAIN Append(table[s], m)
    BY <1>2, AppendIs
  <2>. QED
    BY <2>1 DEF HasReply
<1>5. \A r \in D, c \in Chats : HasReply(more[r], c) => HasReply(table[r], c) \/ c = k
  BY <1>2, <1>4
<1>6. \A r \in D, c \in Chats : HasReply(table[r], c) => HasReply(more[r], c)
  BY <1>2, <1>4
<1>7. HasReply(more[s], k)
  BY <1>2, <1>4
<1>8. \A r \in D : WholeReplies(more[r], h)
  BY <1>2, <1>3, WholeRepliesForward DEF Replies
<1>9. \A c \in Chats : Answered(g[c]) => Answered(h[c]) /\ h[c].session = g[c].session
  BY DEF Answered, Forward, Over
<1>10. \A r \in D, c \in Chats : HasReply(more[r], c) => Answered(h[c])
  BY <1>5, <1>9 DEF Replies
<1>11. ASSUME NEW c \in Chats \ gone, Answered(h[c]) PROVE h[c].session \in D /\ HasReply(more[h[c].session], c)
  <2>1. CASE c = k
    BY <1>7, <2>1
  <2>2. CASE c # k
    BY <1>6, <1>9, <1>11, <2>2 DEF Replies
  <2>. QED
    BY <2>1, <2>2
<1>. QED
  BY <1>1, <1>2, <1>8, <1>10, <1>11 DEF Replies

(* What reaches a tab while all generations stand still and its transcript   *)
(* stays.                                                                    *)
Passes(t) ==
  \/ down'[t] = down[t]
  \/ down[t] # <<>> /\ down'[t] = Tail(down[t]) /\ ~IsToken(Head(down[t]), active[t])
  \/ \E e \in Events : /\ down'[t] = Append(down[t], e) /\ e.ev \notin {"chat_token", "chat_done"}
                       /\ e.ev = "chat_session" => WholeReplies(e.messages, gen)

(* No token of the generation that is waited for is among it. *)
LEMMA PassesCarried ==
  ASSUME TypeOK, NEW t \in Tabs, Passes(t)
  PROVE  Carried(down[t], down'[t], active[t], gen, gen)
<1>1. PICK g : g = gen
  OBVIOUS
<1>2. g \in [Chats -> Generations]
  BY <1>1 DEF TypeOK
<1>3. PICK x, y, a : x = down[t] /\ y = down'[t] /\ a = active[t]
  OBVIOUS
<1>4. Rests(a, g, g)
  BY DEF Rests
<1>5. ASSUME NEW e \in Events, y = Append(x, e), e.ev \notin {"chat_token", "chat_done"},
             e.ev = "chat_session" => WholeReplies(e.messages, g)
      PROVE  Timely(e, g) /\ Grows(a, g, g, e)
  <2>1. ASSUME a \in Chats PROVE g[a].len = g[a].len + 0
    <3>1. g[a].len \in Nat
      BY <1>2, <2>1, LenIs
    <3>. QED
      BY <3>1
  <2>2. ~IsToken(e, a)
    BY <1>5 DEF IsToken
  <2>. QED
    BY <1>5, <2>1, <2>2 DEF Timely, Grows
<1>6. Carried(x, y, a, g, g)
  BY <1>1, <1>3, <1>4, <1>5 DEF Passes, Carried
<1>. QED
  BY <1>1, <1>3, <1>6

(* It leaves the tab fine. *)
LEMMA PassesKept ==
  ASSUME TypeOK, UNCHANGED gen, NEW t \in Tabs, Now(t), Stays(t), Passes(t)
  PROVE  Later(t)
<1>1. Carried(down[t], down'[t], active[t], gen, gen')
  BY PassesCarried
<1>2. gen' \in [Chats -> Generations] /\ Forward(gen, gen')
  BY ForwardSame DEF TypeOK
<1>. QED
  BY <1>1, <1>2, TabKept

(* A step that does not concern the chat. *)
LEMMA Elsewhere ==
  ASSUME TypeOK, InStep, UNCHANGED <<gen, active, shown, missed, dropped, ui, stored, deleted>>,
         \A t \in Tabs : Passes(t)
  PROVE  InStep'
<1>1. Forward(gen, gen')
  BY ForwardSame
<1>2. Replies(stored', deleted', gen')
  BY InStepNow
<1>3. ASSUME NEW t \in Tabs PROVE Later(t)
  BY InStepNow, PassesKept DEF Stays
<1>. QED
  BY <1>1, <1>2, <1>3, InStepLater

(* A step of runChat that sends its tab an event. *)
LEMMA Announced ==
  ASSUME TypeOK, NEW k \in Chats, gen[k].state # "unsent", gen' \in [Chats -> Generations], Forward(gen, gen'),
         NEW e \in Events, e.chat = k, Tell(k, e), Timely(e, gen'),
         \A c \in Chats \ {k} : gen'[c].len = gen[c].len,
         gen'[k].len = gen[k].len + (IF IsToken(e, k) THEN 1 ELSE 0),
         UNCHANGED <<ui, active, shown, missed, dropped>>, NEW t \in Tabs, Now(t)
  PROVE  Later(t)
<1>1. Stays(t)
  BY DEF Stays
<1>2. down \in [Tabs -> Seq(Events)] /\ active[t] \in Chats \cup {None} /\ gen[k].tab \in Tabs
  BY DEF TypeOK
<1>3. PICK g, h : g = gen /\ h = gen'
  OBVIOUS
<1>4. \A c : c # k => ~IsToken(e, c)
  BY DEF IsToken
<1>5. CASE t = gen[k].tab /\ t \in ui
  <2>1. down'[t] = Append(down[t], e)
    BY <1>2, <1>5 DEF Tell
  <2>2. ASSUME active[t] \in Chats
        PROVE  h[active[t]].len = g[active[t]].len + (IF IsToken(e, active[t]) THEN 1 ELSE 0)
    <3>1. CASE active[t] = k
      BY <1>3, <3>1
    <3>2. CASE active[t] # k
      <4>1. g[active[t]].len \in Nat
        BY <1>3, <2>2, LenIs DEF TypeOK
      <4>2. h[active[t]].len = g[active[t]].len /\ ~IsToken(e, active[t])
        BY <1>3, <1>4, <2>2, <3>2
      <4>. QED
        BY <4>1, <4>2
    <3>. QED
      BY <3>1, <3>2
  <2>3. Timely(e, h) /\ Grows(active[t], g, h, e)
    BY <1>3, <2>2 DEF Grows
  <2>4. Carried(down[t], down'[t], active[t], gen, gen')
    BY <1>3, <2>1, <2>3 DEF Carried
  <2>. QED
    BY <1>1, <2>4, TabKept
<1>6. CASE ~(t = gen[k].tab /\ t \in ui)
  <2>1. down'[t] = down[t]
    BY <1>2, <1>6 DEF Tell
  <2>2. PICK b : b = IF t \in dropped THEN None ELSE active[t]
    OBVIOUS
  <2>3. b = active[t] \/ t \in dropped'
    BY <2>2
  <2>4. b \in Chats => b # k
    <3>1. active[t] = k /\ t \notin dropped => gen[k].tab = t /\ t \in ui
      <4>1. k # None
        BY ChatAssumption DEF Chats
      <4>. QED
        BY <4>1 DEF Now, Fine
    <3>2. None \notin Chats
      BY ChatAssumption DEF Chats
    <3>. QED
      BY <1>6, <2>2, <3>1, <3>2
  <2>5. Rests(b, g, h)
    BY <1>3, <2>4 DEF Rests
  <2>6. Carried(down[t], down'[t], b, gen, gen')
    BY <1>3, <2>1, <2>5 DEF Carried
  <2>. QED
    BY <1>1, <2>3, <2>6, TabKept
<1>. QED
  BY <1>5, <1>6

(* A tab whose socket opens or closes. *)
LEMMA CutOff ==
  ASSUME TypeOK, NEW t \in Tabs, Now(t), UNCHANGED <<gen, active, shown, missed>>, t \in dropped => t \in dropped',
         active[t] = None \/ t \in dropped', down'[t] = <<>> \/ down'[t] = Greeting
  PROVE  Later(t)
<1>1. PICK g, x, y, a, q : g = gen /\ x = down[t] /\ y = down'[t] /\ a = active[t] /\ q = shown[t]
  OBVIOUS
<1>2. g \in [Chats -> Generations] /\ q \in Seq(Messages) /\ x \in Seq(Events)
  BY <1>1 DEF TypeOK
<1>3. PICK e \in Events : e = WorkersEvent(workers) /\ e.ev = "workers"
  BY ListIs
<1>4. y \in Seq(Events) /\ \A i \in DOMAIN y : y[i].ev = "workers"
  <2>1. y = <<>> \/ y = <<e>>
    BY <1>1, <1>3 DEF Greeting
  <2>2. <<e>> \in Seq(Events) /\ DOMAIN <<e>> = {1} /\ <<e>>[1] = e
    BY OneIs
  <2>3. CASE y = <<>>
    BY <2>3, NoneIs
  <2>4. CASE y = <<e>>
    BY <1>3, <2>2, <2>4
  <2>. QED
    BY <2>1, <2>3, <2>4
<1>5. InTurn(y, g)
  BY <1>4 DEF InTurn
<1>6. Tokens(x, a) \in Nat /\ Tokens(y, a) \in Nat
  BY <1>2, <1>3, <1>4, TokensAppend
<1>7. ASSUME t \notin dropped' PROVE View(q, a, y, g, missed)
  <2>1. a \notin Chats /\ View(q, a, x, g, missed)
    BY <1>1, <1>7, ChatAssumption DEF Chats, Now, Fine
  <2>2. PICK lost : lost = missed
    OBVIOUS
  <2>3. View(q, a, y, g, lost)
    BY <1>2, <1>4, <1>6, <2>1, <2>2, ViewKept, ForwardSame
  <2>. QED
    BY <2>2, <2>3
<1>8. active[t] # None => gen[active[t]].tab = t /\ gen[active[t]].state # "unsent"
  BY DEF Now, Fine
<1>. QED
  BY <1>1, <1>5, <1>7, <1>8 DEF Later, Fine

(* A tab that shows a session from now on, or nothing. *)
LEMMA Reopened ==
  ASSUME TypeOK, NEW t \in Tabs, Now(t), UNCHANGED <<gen, ui, dropped>>, shown'[t] \in Seq(Messages),
         WholeReplies(shown'[t], gen), active'[t] = active[t] \/ active'[t] = None,
         down'[t] = down[t] \/ (down[t] # <<>> /\ down'[t] = Tail(down[t]))
  PROVE  Later(t)
<1>1. PICK g, x, y, a, q, lost : g = gen /\ x = down[t] /\ y = down'[t] /\ a = active'[t] /\ q = shown'[t] /\ lost = missed'
  OBVIOUS
<1>2. x \in Seq(Events) /\ InTurn(x, g)
  BY <1>1 DEF TypeOK, Now, Fine
<1>3. InTurn(y, g)
  BY <1>1, <1>2, TurnTail
<1>4. View(q, a, y, g, lost)
  BY <1>1, ViewWhole
<1>5. active[t] # None => gen[active[t]].tab = t /\ gen[active[t]].state # "unsent" /\ t \in ui \cup dropped
  BY DEF Now, Fine
<1>. QED
  BY <1>1, <1>3, <1>4, <1>5 DEF Later, Fine

(* A tab that shows one more line. *)
LEMMA Lined ==
  ASSUME TypeOK, NEW t \in Tabs, Now(t), UNCHANGED <<gen, active, missed, dropped, ui>>, Passes(t),
         NEW m \in Messages, ~IsReply(m), shown'[t] = Append(shown[t], m)
  PROVE  Later(t)
<1>1. PICK g, x, y, a, q, lost : g = gen /\ x = down[t] /\ y = down'[t] /\ a = active[t] /\ q = shown[t] /\ lost = missed
  OBVIOUS
<1>2. g \in [Chats -> Generations] /\ q \in Seq(Messages) /\ x \in Seq(Events) /\ InTurn(x, g) /\ Forward(g, g)
  BY <1>1, ForwardSame DEF TypeOK, Now, Fine
<1>3. Carried(x, y, a, g, g)
  BY <1>1, PassesCarried
<1>4. /\ y \in Seq(Events) /\ InTurn(y, g) /\ Tokens(x, a) \in Nat /\ Tokens(y, a) \in Nat
      /\ a \in Chats => g[a].len + Tokens(x, a) = g[a].len + Tokens(y, a)
  BY <1>2, <1>3, CarriedIs
<1>5. ASSUME t \notin dropped PROVE View(Append(q, m), a, y, g, lost)
  <2>1. View(q, a, x, g, lost)
    BY <1>1, <1>5 DEF Now, Fine
  <2>2. View(q, a, y, g, lost)
    BY <1>2, <1>4, <2>1, ViewKept
  <2>. QED
    BY <1>2, <2>2, ViewAppended
<1>6. active[t] # None => gen[active[t]].tab = t /\ gen[active[t]].state # "unsent" /\ t \in ui \cup dropped
  BY DEF Now, Fine
<1>. QED
  BY <1>1, <1>4, <1>5, <1>6 DEF Later, Fine

(* A tab's message is the last of its transcript and not ended. *)
LEMMA StreamingIs == ASSUME NEW t PROVE Streaming(t) <=> Streams(shown[t])
BY DEF Streaming, Streams, IsReply

(* chat_token. *)
LEMMA TokenShown ==
  ASSUME TypeOK, NEW t \in Tabs, Now(t), OnChatToken(t), Head(down[t]).chat = active[t]
  PROVE  Later(t)
<1>1. PICK g, x, y, a, q, lost : g = gen /\ x = down[t] /\ y = down'[t] /\ a = active[t] /\ q = shown[t] /\ lost = missed
  OBVIOUS
<1>2. g \in [Chats -> Generations] /\ q \in Seq(Messages) /\ x \in Seq(Events) /\ InTurn(x, g)
  BY <1>1 DEF TypeOK, Now, Fine
<1>3. x # <<>> /\ y = Tail(x) /\ IsToken(Head(x), a) /\ Head(x) \in Events
  BY <1>1, EventRead DEF OnChatToken, IsToken
<1>4. InTurn(y, g)
  BY <1>2, <1>3, TurnTail
<1>5. UNCHANGED <<gen, active, ui, dropped>>
  BY DEF OnChatToken, TabKeeps, serverVars
<1>6. active[t] # None => gen[active[t]].tab = t /\ gen[active[t]].state # "unsent" /\ t \in ui \cup dropped
  BY DEF Now, Fine
<1>7. t \notin dropped => View(q, a, x, g, lost)
  BY <1>1 DEF Now, Fine
<1>8. CASE Streaming(t)
  <2>1. shown' = [shown EXCEPT ![t][Len(shown[t])].len = @ + 1] /\ missed' = missed
    BY <1>8 DEF OnChatToken
  <2>2. shown'[t] = [q EXCEPT ![Len(q)].len = @ + 1]
    BY <1>1, <2>1 DEF TypeOK
  <2>3. Streams(q)
    BY <1>1, <1>8, StreamingIs
  <2>4. t \notin dropped => View([q EXCEPT ![Len(q)].len = @ + 1], a, y, g, lost)
    BY <1>2, <1>3, <1>7, <2>3, ViewStreamed
  <2>. QED
    BY <1>1, <1>4, <1>5, <1>6, <2>1, <2>2, <2>4 DEF Later, Fine
<1>9. CASE ~Streaming(t)
  <2>1. shown' = shown /\ missed' = missed \cup {active[t]}
    BY <1>9 DEF OnChatToken
  <2>2. ~Streams(q)
    BY <1>1, <1>9, StreamingIs
  <2>3. t \notin dropped => View(q, a, y, g, lost \cup {a})
    BY <1>7, <2>2, ViewMissed
  <2>. QED
    BY <1>1, <1>4, <1>5, <1>6, <2>1, <2>3 DEF Later, Fine
<1>. QED
  BY <1>8, <1>9

(* chat_done. *)
LEMMA DoneShown ==
  ASSUME TypeOK, NEW t \in Tabs, Now(t), OnChatDone(t), Head(down[t]).chat = active[t]
  PROVE  Later(t)
<1>1. PICK g, x, y, a, q, lost : g = gen /\ x = down[t] /\ y = down'[t] /\ a = active[t] /\ q = shown[t] /\ lost = missed
  OBVIOUS
<1>2. g \in [Chats -> Generations] /\ q \in Seq(Messages) /\ x \in Seq(Events) /\ InTurn(x, g)
  BY <1>1 DEF TypeOK, Now, Fine
<1>3. x # <<>> /\ y = Tail(x) /\ Head(x).ev = "chat_done" /\ Head(x).chat = a /\ Head(x) \in Events
  BY <1>1, EventRead DEF OnChatDone
<1>4. InTurn(y, g)
  BY <1>2, <1>3, TurnTail
<1>5. UNCHANGED <<gen, ui, dropped>> /\ active' = [active EXCEPT ![t] = None]
  BY DEF OnChatDone, TabKeeps, serverVars
<1>6. active'[t] = None
  BY <1>5 DEF TypeOK
<1>7. t \notin dropped => View(q, a, x, g, lost)
  BY <1>1 DEF Now, Fine
<1>8. CASE Streaming(t)
  <2>1. shown' = [shown EXCEPT ![t][Len(shown[t])].streaming = FALSE] /\ missed' = missed
    BY <1>8 DEF OnChatDone
  <2>2. shown'[t] = [q EXCEPT ![Len(q)].streaming = FALSE]
    BY <1>1, <2>1 DEF TypeOK
  <2>3. Streams(q)
    BY <1>1, <1>8, StreamingIs
  <2>4. t \notin dropped => View([q EXCEPT ![Len(q)].streaming = FALSE], None, y, g, lost)
    BY <1>2, <1>3, <1>7, <2>3, ViewEnded
  <2>. QED
    BY <1>1, <1>4, <1>5, <1>6, <2>1, <2>2, <2>4 DEF Later, Fine
<1>9. CASE ~Streaming(t)
  <2>1. shown' = shown /\ missed' = missed \cup {active[t]}
    BY <1>9 DEF OnChatDone
  <2>2. ~Streams(q)
    BY <1>1, <1>9, StreamingIs
  <2>3. t \notin dropped => View(q, None, y, g, lost \cup {a})
    BY <1>7, <2>2, ViewMissed
  <2>. QED
    BY <1>1, <1>4, <1>5, <1>6, <2>1, <2>3 DEF Later, Fine
<1>. QED
  BY <1>8, <1>9

(* A generation that is sent, loaded or over goes forward. *)
LEMMA StateForward ==
  ASSUME TypeOK, NEW k \in Chats, NEW e \in {"loading", "running", "complete", "stopped", "error"},
         gen[k].state \in {"sent", "loading", "running"}, gen[k].state = "running" => e \in Over,
         NothingYet(gen[k]), gen' = [gen EXCEPT ![k].state = e]
  PROVE  /\ gen' \in [Chats -> Generations] /\ Forward(gen, gen') /\ gen'[k].state = e
         /\ \A c \in Chats : gen'[c].session = gen[c].session /\ gen'[c].len = gen[c].len
         /\ \A c \in Chats \ {k} : gen'[c].state = gen[c].state
<1>1. /\ gen' \in [Chats -> Generations]
      /\ \A c \in Chats : /\ gen'[c].tab = gen[c].tab /\ gen'[c].session = gen[c].session
                         /\ gen'[c].state = (IF c = k THEN e ELSE gen[c].state) /\ gen'[c].len = gen[c].len
  <2>1. gen[k].state # "unsent"
    OBVIOUS
  <2>2. /\ gen' \in [Chats -> Generations]
        /\ \A c \in Chats : /\ gen'[c].tab = gen[c].tab /\ gen'[c].session = gen[c].session
                            /\ gen'[c].state = (IF c = k THEN e ELSE gen[c].state) /\ gen'[c].len = gen[c].len
        /\ \A c \in Chats : gen'[c].state # "unsent" => gen'[c].tab \in Tabs /\ gen'[c].session \in Sessions
    BY <2>1, StateChanges, ZenonT(60)
  <2>. QED
    BY <2>2
<1>2. PICK g, h : g = gen /\ h = gen'
  OBVIOUS
<1>3. ASSUME NEW c \in Chats, c # k
      PROVE  /\ g[c].state # "unsent" => h[c].tab = g[c].tab /\ h[c].session = g[c].session /\ h[c].state # "unsent"
             /\ g[c].state \in Over => h[c].state = g[c].state /\ h[c].len = g[c].len
             /\ g[c].state = "running" => h[c].state \in {"running"} \cup Over
             /\ NothingYet(g[c]) => NothingYet(h[c])
  BY <1>1, <1>2, <1>3 DEF NothingYet
<1>4. /\ h[k].tab = g[k].tab /\ h[k].session = g[k].session /\ h[k].state # "unsent"
      /\ g[k].state \notin Over
      /\ g[k].state = "running" => h[k].state \in {"running"} \cup Over
      /\ NothingYet(h[k])
  BY <1>1, <1>2 DEF NothingYet, Over
<1>5. Forward(g, h)
  BY <1>3, <1>4 DEF Forward
<1>. QED
  BY <1>1, <1>2, <1>5

(* The tabs, when a generation's state changes without a word. *)
LEMMA Wordless ==
  ASSUME TypeOK, InStep, gen' \in [Chats -> Generations], Forward(gen, gen'),
         \A c \in Chats : gen'[c].len = gen[c].len, UNCHANGED <<down, active, shown, missed, dropped, ui>>,
         NEW t \in Tabs
  PROVE  Later(t)
<1>1. Now(t) /\ Stays(t)
  BY InStepNow DEF Stays
<1>2. Carried(down[t], down'[t], active[t], gen, gen')
  BY DEF Carried, Rests
<1>. QED
  BY <1>1, <1>2, TabKept

(* sendChat. *)
LEMMA PromptInStep ==
  ASSUME TypeOK, SentInOrder, InStep, NEW t \in Tabs, NEW s \in Sessions, SendChat(t, s)
  PROVE  InStep'
<1>. DEFINE n == Cardinality({ j \in Chats : gen[j].state # "unsent" }) + 1
<1>1. n \in Chats
  BY DEF SendChat
<1>2. gen[n].state = "unsent"
  BY <1>1, NextChat
<1>3. /\ gen' = [gen EXCEPT ![n] = [@ EXCEPT !.tab = t, !.session = s, !.state = "sent"]]
      /\ active[t] = None /\ active' = [active EXCEPT ![t] = n]
      /\ shown' = [shown EXCEPT ![t] = (IF session[t] = None THEN <<>> ELSE @)
                     \o <<Message("user", n, 0, FALSE), Message("assistant", n, 0, TRUE)>>]
      /\ dropped' = (IF t \in ui THEN dropped ELSE dropped \cup {t})
      /\ UNCHANGED <<ui, down, stored, deleted, missed>>
  BY DEF SendChat
<1>. HIDE DEF n
<1>4. PICK r : r = [gen[n] EXCEPT !.tab = t, !.session = s, !.state = "sent"]
  OBVIOUS
<1>5. /\ gen[n] \in Generations /\ gen \in [Chats -> Generations] /\ r \in Generations
      /\ r.tab = t /\ r.session = s /\ r.state = "sent" /\ r.len = gen[n].len
  <2>1. gen[n] \in Generations /\ gen \in [Chats -> Generations]
    BY <1>1 DEF TypeOK
  <2>. QED
    BY <1>4, <2>1 DEF Generations
<1>6. PICK g, h : g = gen /\ h = gen'
  OBVIOUS
<1>7. /\ h \in [Chats -> Generations] /\ h[n] = r /\ \A c \in Chats : c # n => h[c] = g[c]
  <2>1. gen' = [gen EXCEPT ![n] = r]
    BY <1>3, <1>4
  <2>. QED
    BY <1>1, <1>5, <1>6, <2>1
<1>8. h[n].len = 0 /\ g[n].state = "unsent" /\ h[n].state = "sent" /\ h[n].tab = t
  <2>1. gen[n].len = 0
    BY <1>1, <1>2 DEF InStep, NothingYet
  <2>. QED
    BY <1>2, <1>5, <1>6, <1>7, <2>1
<1>9. Forward(g, h)
  <2>1. \A c \in Chats : c = n \/ h[c] = g[c]
    BY <1>7
  <2>. QED
    BY <1>8, <2>1 DEF Forward, NothingYet, Over
<1>10. Replies(stored', deleted', gen')
  <2>1. Replies(stored, deleted, g)
    BY <1>6, InStepNow
  <2>2. \A c \in Chats : Answered(h[c]) => Answered(g[c])
    BY <1>7, <1>8 DEF Answered
  <2>3. Replies(stored, deleted, h)
    BY <1>9, <2>1, <2>2, RepliesForward
  <2>. QED
    BY <1>3, <1>6, <2>3
<1>11. ASSUME NEW u \in Tabs, u # t PROVE Later(u)
  <2>1. Now(u)
    BY InStepNow
  <2>2. Stays(u)
    BY <1>3, <1>11 DEF Stays, TypeOK
  <2>3. active[u] # n
    <3>1. n # None
      BY <1>1, ChatAssumption DEF Chats
    <3>. QED
      BY <1>2, <2>1, <3>1 DEF Now, Fine
  <2>4. Rests(active[u], g, h)
    BY <1>7, <2>3 DEF Rests
  <2>5. Carried(down[u], down'[u], active[u], gen, gen')
    BY <1>3, <1>6, <2>4 DEF Carried
  <2>. QED
    BY <1>6, <1>7, <1>9, <2>1, <2>2, <2>5, TabKept
<1>12. Later(t)
  <2>1. PICK x, q, lost : x = down[t] /\ q = (IF session[t] = None THEN <<>> ELSE shown[t]) /\ lost = missed
    OBVIOUS
  <2>2. x \in Seq(Events) /\ InTurn(x, g) /\ q \in Seq(Messages) /\ active \in [Tabs -> Chats \cup {None}] /\ shown \in [Tabs -> Seq(Messages)]
    <3>1. Now(t) /\ x \in Seq(Events) /\ shown[t] \in Seq(Messages)
      BY <2>1, InStepNow DEF TypeOK
    <3>. QED
      BY <1>6, <2>1, <3>1, NoneIs DEF Now, Fine, TypeOK
  <2>3. InTurn(x, h)
    BY <1>6, <1>7, <1>5, <1>9, <2>2, TurnForward
  <2>4. Tokens(x, n) = 0
    <3>1. \A i \in DOMAIN x : ~IsToken(x[i], n)
      BY <1>8, <2>2 DEF InTurn, IsToken, Over
    <3>. QED
      BY <3>1, TokensNone
  <2>5. t \notin dropped => View(q, None, x, g, lost)
    <3>1. CASE session[t] = None
      <4>1. q \in Seq(Messages) /\ WholeReplies(q, g)
        BY <2>1, <2>2, <3>1, NoneIs DEF WholeReplies
      <4>. QED
        BY <4>1, ViewWhole
    <3>2. CASE session[t] # None
      <4>1. Now(t)
        BY InStepNow
      <4>. QED
        BY <1>3, <1>6, <2>1, <3>2, <4>1 DEF Now, Fine
    <3>. QED
      BY <3>1, <3>2
  <2>6. PICK u \in Messages, m \in Messages :
          /\ u = Message("user", n, 0, FALSE) /\ m = Message("assistant", n, 0, TRUE)
          /\ ~IsReply(u) /\ IsReply(m) /\ m.chat = n /\ m.len = 0 /\ m.streaming
    <3>1. Message("user", n, 0, FALSE) \in Messages /\ Message("assistant", n, 0, TRUE) \in Messages
      BY <1>1, MessageIs
    <3>. QED
      BY <3>1 DEF Message, IsReply
  <2>7. t \notin dropped => View(Append(Append(q, u), m), n, x, h, lost)
    BY <1>1, <1>8, <1>9, <2>2, <2>4, <2>5, <2>6, ViewPrompted
  <2>8. shown'[t] = Append(Append(q, u), m)
    <3>1. shown'[t] = q \o <<u, m>>
      BY <1>3, <2>1, <2>2, <2>6
    <3>. QED
      BY <2>2, <3>1, ConcatIs
  <2>9. active'[t] = n /\ t \in ui' \cup dropped' /\ (t \notin dropped' => t \notin dropped) /\ down'[t] = x /\ missed' = lost
    BY <1>3, <2>1, <2>2
  <2>. QED
    BY <1>6, <1>8, <2>3, <2>7, <2>8, <2>9 DEF Later, Fine
<1>. QED
  BY <1>6, <1>9, <1>10, <1>11, <1>12, InStepLater

(* create_chat. *)
LEMMA CreateInStep == ASSUME TypeOK, InStep, NEW t \in Tabs, OpCreateChat(t) PROVE InStep'
<1>1. PICK s \in Sessions : stored' = Created(s)
  <2>1. Head(up[t]).session \in Sessions
    BY OpRead, OperationHas DEF OpCreateChat
  <2>. QED
    BY <2>1 DEF OpCreateChat
<1>2. UNCHANGED <<gen, deleted, down, active, shown, missed, dropped, ui>>
  BY DEF OpCreateChat, tabVars, historyVars
<1>3. Replies(Created(s), deleted, gen)
  BY InStepNow, TableIs, RepliesCreated
<1>4. Forward(gen, gen') /\ gen' \in [Chats -> Generations]
  BY <1>2, ForwardSame DEF TypeOK
<1>5. \A u \in Tabs : Later(u)
  BY <1>2, <1>4, Wordless
<1>6. Replies(stored', deleted', gen')
  BY <1>1, <1>2, <1>3
<1>. QED
  BY <1>4, <1>5, <1>6, InStepLater

(* chat_send. *)
LEMMA SendInStep == ASSUME TypeOK, QueuedOnce, InStep, NEW t \in Tabs, OpChatSend(t) PROVE InStep'
<1>1. PICK k \in Chats : k = Head(up[t]).chat /\ gen[k].state = "sent" /\ gen[k].session \in Sessions
  <2>1. /\ Head(up[t]) \in Operations /\ Head(up[t]).op = "chat_send" /\ up[t] # <<>> /\ up[t] \in Seq(Operations)
    BY OpRead DEF OpChatSend, TypeOK
  <2>2. Head(up[t]).chat \in Chats
    BY <2>1, OperationHas
  <2>3. 1 \in DOMAIN up[t] /\ Head(up[t]) = up[t][1]
    BY <2>1, TailIs
  <2>4. gen[Head(up[t]).chat].state = "sent"
    BY <2>1, <2>3 DEF QueuedOnce, SentOnce
  <2>. QED
    BY <2>2, <2>4 DEF TypeOK
<1>2. /\ gen' = [gen EXCEPT ![k].state = "loading"]
      /\ stored' = Appended(Created(gen[k].session), gen[k].session, Message("user", k, 0, FALSE))
      /\ UNCHANGED <<deleted, down, active, shown, missed, dropped, ui>>
  BY <1>1 DEF OpChatSend, tabVars, historyVars
<1>3. /\ gen' \in [Chats -> Generations] /\ Forward(gen, gen') /\ gen'[k].state = "loading"
      /\ \A c \in Chats : gen'[c].session = gen[c].session /\ gen'[c].len = gen[c].len
      /\ \A c \in Chats \ {k} : gen'[c].state = gen[c].state
  <2>1. NothingYet(gen[k])
    BY DEF InStep
  <2>. QED
    BY <1>1, <1>2, <2>1, StateForward
<1>4. \A u \in Tabs : Later(u)
  BY <1>2, <1>3, Wordless
<1>5. Replies(stored', deleted', gen')
  <2>1. PICK s, table, m, h : s = gen[k].session /\ table = Created(s) /\ m = Message("user", k, 0, FALSE) /\ h = gen'
    OBVIOUS
  <2>2. Forward(gen, h) /\ \A c \in Chats : Answered(h[c]) => Answered(gen[c])
    BY <1>3, <2>1 DEF Answered
  <2>3. Replies(stored, deleted, h)
    BY <2>2, InStepNow, RepliesForward
  <2>4. /\ s \in Sessions /\ DOMAIN table = DOMAIN stored \cup {s} /\ table \in [DOMAIN table -> Seq(Messages)]
        /\ \A r \in DOMAIN stored : table[r] = stored[r]
        /\ s \notin DOMAIN stored => table[s] = <<>>
    BY <1>1, <2>1, TableIs
  <2>5. Replies(table, deleted, h)
    BY <2>3, <2>4, RepliesCreated
  <2>6. m \in Messages /\ ~IsReply(m)
    BY <2>1, MessageIs DEF IsReply
  <2>7. Replies(Appended(table, s, m), deleted, h)
    BY <2>4, <2>5, <2>6, RepliesAppended
  <2>. QED
    BY <1>2, <2>1, <2>7
<1>. QED
  BY <1>3, <1>4, <1>5, InStepLater

(* chat_stop. *)
LEMMA StopInStep == ASSUME TypeOK, InStep, NEW t \in Tabs, OpChatStop(t) PROVE InStep'
<1>1. PICK k \in Chats : k = Head(up[t]).chat
  BY OpRead, OperationHas DEF OpChatStop
<1>2. /\ gen' = gen \/ gen' = [gen EXCEPT ![k].abort = TRUE]
      /\ UNCHANGED <<stored, deleted, down, active, shown, missed, dropped, ui>>
  BY <1>1 DEF OpChatStop, tabVars, historyVars
<1>3. /\ gen' \in [Chats -> Generations]
      /\ \A c \in Chats : /\ gen'[c].tab = gen[c].tab /\ gen'[c].session = gen[c].session
                         /\ gen'[c].state = gen[c].state /\ gen'[c].len = gen[c].len
  <2>1. CASE gen' = gen
    BY <2>1 DEF TypeOK
  <2>2. CASE gen' = [gen EXCEPT ![k].abort = TRUE]
    BY <2>2, AbortChanges
  <2>. QED
    BY <1>2, <2>1, <2>2
<1>4. PICK h : h = gen'
  OBVIOUS
<1>5. Forward(gen, h) /\ \A c \in Chats : Answered(h[c]) => Answered(gen[c])
  BY <1>3, <1>4 DEF Forward, Answered, NothingYet
<1>6. Replies(stored, deleted, h)
  BY <1>5, InStepNow, RepliesForward
<1>7. \A u \in Tabs : Later(u)
  BY <1>2, <1>3, <1>4, <1>5, Wordless
<1>. QED
  BY <1>2, <1>4, <1>5, <1>6, <1>7, InStepLater

(* load_chat. *)
LEMMA LoadInStep == ASSUME TypeOK, InStep, NEW t \in Tabs, OpLoadChat(t) PROVE InStep'
<1>1. UNCHANGED <<gen, active, shown, missed, dropped, ui, stored, deleted>>
  BY DEF OpLoadChat, serverVars, tabVars, historyVars
<1>2. PICK s \in Sessions : s = Head(up[t]).session
  BY OpRead, OperationHas DEF OpLoadChat
<1>3. PICK e \in Events : /\ down' = [down EXCEPT ![t] = Append(@, e)] /\ e.ev \in {"chat_session", "error"}
                          /\ e.ev = "chat_session" => WholeReplies(e.messages, gen)
  <2>1. CASE Exists(s)
    <3>1. stored[s] \in Seq(Messages) /\ WholeReplies(stored[s], gen)
      BY <2>1, InStepNow DEF TypeOK, Exists, Replies
    <3>2. PICK e \in Events : e = [ev |-> "chat_session", session |-> s, messages |-> stored[s]]
      BY <3>1, EventIs
    <3>. QED
      BY <1>2, <2>1, <3>1, <3>2 DEF OpLoadChat
  <2>2. CASE ~Exists(s)
    <3>1. PICK e \in Events : e = [ev |-> "error"]
      BY EventIs
    <3>. QED
      BY <1>2, <2>2, <3>1 DEF OpLoadChat, Refuse
  <2>. QED
    BY <2>1, <2>2
<1>4. \A u \in Tabs : Passes(u)
  <2>1. \A u \in Tabs : down'[u] = down[u] \/ down'[u] = Append(down[u], e)
    BY <1>3 DEF TypeOK
  <2>. QED
    BY <1>3, <2>1 DEF Passes
<1>. QED
  BY <1>1, <1>4, Elsewhere

(* delete_chat. *)
LEMMA DeleteInStep == ASSUME TypeOK, InStep, NEW t \in Tabs, OpDeleteChat(t) PROVE InStep'
<1>1. PICK s, less, more : s = Head(up[t]).session /\ less = stored' /\ more = deleted'
  OBVIOUS
<1>2. /\ less = [r \in DOMAIN stored \ {s} |-> stored[r]] /\ more = deleted \cup { k \in Chats : gen[k].session = s }
      /\ UNCHANGED <<gen, down, active, shown, missed, dropped, ui>>
  BY <1>1 DEF OpDeleteChat, tabVars
<1>3. Replies(less, more, gen)
  BY <1>2, InStepNow, RepliesDeleted
<1>4. Forward(gen, gen') /\ gen' \in [Chats -> Generations]
  BY <1>2, ForwardSame DEF TypeOK
<1>5. \A u \in Tabs : Later(u)
  BY <1>2, <1>4, Wordless
<1>. QED
  BY <1>1, <1>2, <1>3, <1>4, <1>5, InStepLater

(* The end of a generation, with what it leaves in the tables. *)
LEMMA EndInStep ==
  ASSUME TypeOK, InStep, NEW k \in Chats, gen[k].state \in {"loading", "running"},
         NEW e \in {"complete", "stopped", "error"}, gen' = [gen EXCEPT ![k].state = e], Tell(k, Done(k, e)),
         Replies(stored', deleted', gen'), UNCHANGED <<ui, active, shown, missed, dropped>>
  PROVE  InStep'
<1>1. NothingYet(gen[k]) /\ e \in Over /\ gen[k].len \in Nat
  BY LenIs DEF InStep, Over, TypeOK
<1>2. /\ gen' \in [Chats -> Generations] /\ Forward(gen, gen') /\ gen'[k].state = e
      /\ \A c \in Chats : gen'[c].session = gen[c].session /\ gen'[c].len = gen[c].len
      /\ \A c \in Chats \ {k} : gen'[c].state = gen[c].state
  BY <1>1, StateForward
<1>3. PICK v \in Events : v = Done(k, e) /\ v.chat = k /\ v.ev = "chat_done"
  BY EventIs DEF Done
<1>4. Timely(v, gen')
  BY <1>1, <1>2, <1>3 DEF Timely
<1>5. gen'[k].len = gen[k].len + (IF IsToken(v, k) THEN 1 ELSE 0)
  <2>1. ~IsToken(v, k)
    BY <1>3 DEF IsToken
  <2>. QED
    BY <1>1, <1>2, <2>1
<1>6. Tell(k, v) /\ gen[k].state # "unsent" /\ \A c \in Chats \ {k} : gen'[c].len = gen[c].len
  BY <1>2, <1>3
<1>7. ASSUME NEW t \in Tabs PROVE Later(t)
  <2>1. Now(t)
    BY InStepNow
  <2>. QED
    BY <1>2, <1>3, <1>4, <1>5, <1>6, <2>1, Announced
<1>. QED
  BY <1>2, <1>7, InStepLater

(* One that ends without a reply. *)
LEMMA NoReplyInStep ==
  ASSUME TypeOK, InStep, NEW k \in Chats, gen[k].state \in {"loading", "running"},
         NEW e \in {"stopped", "error"}, e = "stopped" => gen[k].len = 0,
         gen' = [gen EXCEPT ![k].state = e], Tell(k, Done(k, e)),
         UNCHANGED <<ui, active, shown, missed, dropped, stored, deleted>>
  PROVE  InStep'
<1>1. NothingYet(gen[k]) /\ e \in Over /\ e \in {"complete", "stopped", "error"}
  BY DEF InStep, Over
<1>2. /\ gen' \in [Chats -> Generations] /\ Forward(gen, gen') /\ gen'[k].state = e
      /\ \A c \in Chats : gen'[c].session = gen[c].session /\ gen'[c].len = gen[c].len
      /\ \A c \in Chats \ {k} : gen'[c].state = gen[c].state
  BY <1>1, StateForward
<1>3. PICK h : h = gen'
  OBVIOUS
<1>4. \A c \in Chats : Answered(h[c]) => Answered(gen[c])
  BY <1>2, <1>3 DEF Answered
<1>5. Replies(stored, deleted, h)
  BY <1>2, <1>3, <1>4, InStepNow, RepliesForward
<1>6. Replies(stored', deleted', gen')
  BY <1>3, <1>5
<1>. QED
  BY <1>1, <1>6, EndInStep

(* One whose reply is stored, or finds its session gone. *)
LEMMA ReplyInStep ==
  ASSUME TypeOK, InStep, NEW k \in Chats, gen[k].state = "running",
         NEW how \in {"complete", "stopped"}, how = "stopped" => gen[k].len > 0, StoreReply(k, how),
         UNCHANGED <<ui, active, shown, missed, dropped, deleted>>
  PROVE  InStep'
<1>1. CASE ~Exists(gen[k].session)
  <2>1. /\ gen' = [gen EXCEPT ![k].state = "error"] /\ Tell(k, Done(k, "error")) /\ UNCHANGED stored
    BY <1>1 DEF StoreReply, Ended
  <2>. QED
    BY <2>1, NoReplyInStep
<1>2. CASE Exists(gen[k].session)
  <2>1. /\ gen' = [gen EXCEPT ![k].state = how] /\ Tell(k, Done(k, how))
        /\ stored' = Appended(stored, gen[k].session, Message("assistant", k, gen[k].len, FALSE))
    BY <1>2 DEF StoreReply, Ended
  <2>2. NothingYet(gen[k]) /\ how \in Over /\ gen[k].len \in Nat /\ how \in {"complete", "stopped", "error"}
    BY LenIs DEF InStep, Over, TypeOK
  <2>3. /\ gen' \in [Chats -> Generations] /\ Forward(gen, gen') /\ gen'[k].state = how
        /\ \A c \in Chats : gen'[c].session = gen[c].session /\ gen'[c].len = gen[c].len
        /\ \A c \in Chats \ {k} : gen'[c].state = gen[c].state
    BY <2>1, <2>2, StateForward
  <2>4. PICK h, s : h = gen' /\ s = gen[k].session
    OBVIOUS
  <2>5. PICK m \in Messages :
          /\ m = Message("assistant", k, gen[k].len, FALSE)
          /\ IsReply(m) /\ m.chat = k /\ m.len = gen[k].len /\ ~m.streaming
    <3>1. Message("assistant", k, gen[k].len, FALSE) \in Messages
      BY <2>2 DEF Message, Messages
    <3>. QED
      BY <3>1 DEF Message, IsReply
  <2>6. Whole(m, h)
    BY <2>2, <2>3, <2>4, <2>5 DEF Whole
  <2>7. Answered(h[k]) /\ h[k].session = s /\ \A c \in Chats \ {k} : Answered(h[c]) => Answered(gen[c])
    BY <2>3, <2>4 DEF Answered
  <2>8. stored \in [DOMAIN stored -> Seq(Messages)] /\ s \in DOMAIN stored /\ Replies(stored, deleted, gen) /\ Forward(gen, h)
    BY <1>2, <2>3, <2>4, InStepNow DEF TypeOK, Exists
  <2>9. Replies(Appended(stored, s, m), deleted, h)
    BY <2>5, <2>6, <2>7, <2>8, RepliesAnswered
  <2>10. Replies(stored', deleted', gen')
    BY <2>1, <2>4, <2>5, <2>9
  <2>. QED
    BY <2>1, <2>2, <2>10, EndInStep
<1>. QED
  BY <1>1, <1>2

(* One more token. *)
LEMMA TokenInStep == ASSUME TypeOK, InStep, NEW k \in Chats, Token(k) PROVE InStep'
<1>1. /\ gen[k].state = "running" /\ gen[k].len < MaxTokens /\ gen' = [gen EXCEPT ![k].len = @ + 1]
      /\ Tell(k, [ev |-> "chat_token", chat |-> k]) /\ UNCHANGED <<stored, deleted, ui, active, shown, missed, dropped>>
  BY DEF Token, RunKeeps, tabVars, historyVars
<1>2. PICK n \in 0..MaxTokens : n = gen[k].len + 1 /\ gen[k].len \in Nat
  <2>1. gen[k].len \in 0..MaxTokens
    BY DEF TypeOK, Generations
  <2>. QED
    BY <1>1, <2>1, ChatAssumption
<1>3. /\ gen' \in [Chats -> Generations]
      /\ \A c \in Chats : /\ gen'[c].tab = gen[c].tab /\ gen'[c].session = gen[c].session
                         /\ gen'[c].state = gen[c].state /\ gen'[c].len = IF c = k THEN n ELSE gen[c].len
  <2>1. gen' = [gen EXCEPT ![k].len = n]
    BY <1>1, <1>2
  <2>. QED
    BY <2>1, LengthChanges
<1>4. PICK h : h = gen'
  OBVIOUS
<1>5. Forward(gen, h)
  BY <1>1, <1>3, <1>4 DEF Forward, NothingYet, Over
<1>6. Replies(stored, deleted, h)
  <2>1. \A c \in Chats : Answered(h[c]) => Answered(gen[c])
    BY <1>1, <1>3, <1>4 DEF Answered
  <2>. QED
    BY <1>5, <2>1, InStepNow, RepliesForward
<1>7. PICK v \in Events : v = [ev |-> "chat_token", chat |-> k] /\ v.ev = "chat_token" /\ v.chat = k
  BY EventIs
<1>8. Tell(k, v) /\ gen[k].state # "unsent" /\ \A c \in Chats \ {k} : gen'[c].len = gen[c].len
  BY <1>1, <1>3, <1>7
<1>9. Timely(v, gen') /\ gen'[k].len = gen[k].len + (IF IsToken(v, k) THEN 1 ELSE 0)
  <2>1. IsToken(v, k) /\ gen'[k].len = n /\ gen'[k].state = "running"
    BY <1>1, <1>3, <1>7 DEF IsToken
  <2>. QED
    BY <1>2, <1>7, <2>1 DEF Timely
<1>10. Forward(gen, gen')
  BY <1>4, <1>5
<1>11. ASSUME NEW t \in Tabs PROVE Later(t)
  <2>1. Now(t)
    BY InStepNow
  <2>. QED
    BY <1>1, <1>3, <1>7, <1>8, <1>9, <1>10, <2>1, Announced
<1>. QED
  BY <1>1, <1>4, <1>6, <1>10, <1>11, InStepLater

(* A step of one tab: the others pass. *)
LEMMA OneTab ==
  ASSUME TypeOK, InStep, UNCHANGED <<gen, stored, deleted>>, NEW t \in Tabs, Later(t),
         \A u \in Tabs \ {t} : Stays(u) /\ down'[u] = down[u]
  PROVE  InStep'
<1>1. Forward(gen, gen')
  BY ForwardSame
<1>2. Replies(stored', deleted', gen')
  BY InStepNow
<1>3. ASSUME NEW u \in Tabs, u # t PROVE Later(u)
  <2>1. Now(u) /\ Stays(u) /\ Passes(u)
    BY <1>3, InStepNow DEF Passes
  <2>. QED
    BY <2>1, PassesKept
<1>. QED
  BY <1>1, <1>2, <1>3, InStepLater

(* Every step keeps the generations, the tables and the tabs in step. *)
LEMMA InStepStep == TypeOK /\ SentInOrder /\ QueuedOnce /\ InStep /\ [Next]_chatVars => InStep'
<1>. SUFFICES ASSUME TypeOK, SentInOrder, QueuedOnce, InStep, [Next]_chatVars PROVE InStep'
  OBVIOUS
<1>p. /\ pages \subseteq Tabs /\ down \in [Tabs -> Seq(Events)] /\ active \in [Tabs -> Chats \cup {None}]
      /\ shown \in [Tabs -> Seq(Messages)] /\ ui \subseteq Tabs
  BY DEF TypeOK, BrokerTypeOK
<1>1. ASSUME NEW t \in Tabs, Connect(t), UNCHANGED <<serverVars, tabVars, historyVars>>
      PROVE  InStep'
  <2>1. /\ t \notin ui /\ ui' = ui \cup {t} /\ down' = [down EXCEPT ![t] = Greeting]
        /\ UNCHANGED <<gen, stored, active, shown, missed, dropped, deleted>>
    BY <1>1 DEF Connect, serverVars, tabVars, historyVars
  <2>2. Now(t)
    BY InStepNow
  <2>3. active[t] = None \/ t \in dropped'
    BY <2>1, <2>2 DEF Now, Fine
  <2>4. down'[t] = Greeting /\ \A u \in Tabs \ {t} : Stays(u) /\ down'[u] = down[u]
    BY <1>p, <2>1 DEF Stays
  <2>5. Later(t)
    BY <2>1, <2>2, <2>3, <2>4, CutOff
  <2>. QED
    BY <2>1, <2>4, <2>5, OneTab
<1>2. ASSUME NEW t \in Tabs, Drop(t), dropped' = (IF active[t] # None THEN dropped \cup {t} ELSE dropped),
             UNCHANGED <<serverVars, tabVars, missed, deleted>>
      PROVE  InStep'
  <2>1. /\ ui' = ui \ {t} /\ down' = [down EXCEPT ![t] = <<>>]
        /\ UNCHANGED <<gen, stored, active, shown, missed, deleted>>
    BY <1>2 DEF Drop, serverVars, tabVars
  <2>2. Now(t)
    BY InStepNow
  <2>3. (active[t] = None \/ t \in dropped') /\ dropped \subseteq dropped'
    BY <1>2
  <2>4. down'[t] = <<>> /\ \A u \in Tabs \ {t} : Stays(u) /\ down'[u] = down[u]
    BY <1>p, <2>1, <2>3 DEF Stays
  <2>5. Later(t)
    BY <2>1, <2>2, <2>3, <2>4, CutOff
  <2>. QED
    BY <2>1, <2>4, <2>5, OneTab
<1>3. ASSUME NEW m \in Machines, NEW i \in WorkerIds, Register(m, i), UNCHANGED <<serverVars, tabVars, historyVars>>
      PROVE  InStep'
  <2>1. PICK e \in Events : e = WorkersEvent(workers') /\ e.ev = "workers"
    BY ListIs
  <2>2. down' = Broadcast(down, e)
    BY <1>3, <2>1 DEF Register
  <2>3. \A u \in Tabs : Passes(u)
    BY <2>1, <2>2, BroadcastSends DEF Passes
  <2>4. UNCHANGED <<gen, active, shown, missed, dropped, ui, stored, deleted>>
    BY <1>3 DEF Register, serverVars, tabVars, historyVars
  <2>. QED
    BY <2>3, <2>4, Elsewhere
<1>4. ASSUME NEW m \in Machines, Report(m), UNCHANGED <<serverVars, tabVars, historyVars>>
      PROVE  InStep'
  <2>1. PICK e \in Events : e = [ev |-> "worker_event", id |-> handle[m]]
    <3>1. handle[m] \in WorkerIds
      BY <1>4 DEF Report, TypeOK, BrokerTypeOK
    <3>. QED
      BY <3>1, EventIs
  <2>2. down' = Broadcast(down, e) /\ e.ev = "worker_event"
    BY <1>4, <2>1 DEF Report
  <2>3. \A u \in Tabs : Passes(u)
    BY <2>2, BroadcastSends DEF Passes
  <2>4. UNCHANGED <<gen, active, shown, missed, dropped, ui, stored, deleted>>
    BY <1>4 DEF Report, serverVars, tabVars, historyVars
  <2>. QED
    BY <2>3, <2>4, Elsewhere
<1>5. ASSUME NEW m \in Machines, HangUp(m), UNCHANGED <<serverVars, tabVars, historyVars>>
      PROVE  InStep'
  <2>1. PICK e \in Events : e = WorkersEvent(workers') /\ e.ev = "workers"
    BY ListIs
  <2>2. down' = Broadcast(down, e)
    BY <1>5, <2>1 DEF HangUp
  <2>3. \A u \in Tabs : Passes(u)
    BY <2>1, <2>2, BroadcastSends DEF Passes
  <2>4. UNCHANGED <<gen, active, shown, missed, dropped, ui, stored, deleted>>
    BY <1>5 DEF HangUp, serverVars, tabVars, historyVars
  <2>. QED
    BY <2>3, <2>4, Elsewhere
<1>6. ASSUME NEW t \in Tabs, NEW s \in Sessions, NewChat(t, s)
      PROVE  InStep'
  <2>1. /\ shown' = [shown EXCEPT ![t] = <<>>] /\ missed \subseteq missed'
        /\ UNCHANGED <<gen, stored, deleted, dropped, active, ui, down>>
    BY <1>6 DEF NewChat, Quiet, serverVars
  <2>2. shown'[t] = <<>> /\ \A u \in Tabs \ {t} : Stays(u) /\ down'[u] = down[u]
    BY <1>p, <2>1 DEF Stays
  <2>3. shown'[t] \in Seq(Messages) /\ WholeReplies(shown'[t], gen)
    BY <2>2, NoneIs DEF WholeReplies
  <2>4. Later(t)
    BY <2>1, <2>3, InStepNow, Reopened
  <2>. QED
    BY <2>1, <2>2, <2>4, OneTab
<1>7. ASSUME NEW t \in Tabs, NEW s \in Sessions, SendChat(t, s)
      PROVE  InStep'
  BY <1>7, PromptInStep
<1>8. ASSUME NEW t \in Tabs, NEW s \in Sessions, LoadChatSession(t, s)
      PROVE  InStep'
  BY <1>8, Elsewhere DEF LoadChatSession, Quiet, serverVars, tabVars, historyVars, Passes
<1>9. ASSUME NEW t \in Tabs, NEW s \in Sessions, DeleteChatSession(t, s)
      PROVE  InStep'
  <2>1. UNCHANGED <<gen, stored, deleted, dropped, missed, ui, down>>
    BY <1>9 DEF DeleteChatSession, Quiet, serverVars, historyVars
  <2>2. CASE session[t] = s
    <3>1. shown' = [shown EXCEPT ![t] = <<>>] /\ active' = [active EXCEPT ![t] = None]
      BY <1>9, <2>2 DEF DeleteChatSession
    <3>2. shown'[t] = <<>> /\ active'[t] = None /\ \A u \in Tabs \ {t} : Stays(u) /\ down'[u] = down[u]
      BY <1>p, <2>1, <3>1 DEF Stays
    <3>3. shown'[t] \in Seq(Messages) /\ WholeReplies(shown'[t], gen)
      BY <3>2, NoneIs DEF WholeReplies
    <3>4. Later(t)
      BY <2>1, <3>2, <3>3, InStepNow, Reopened
    <3>. QED
      BY <2>1, <3>2, <3>4, OneTab
  <2>3. CASE session[t] # s
    <3>1. UNCHANGED <<active, shown>>
      BY <1>9, <2>3 DEF DeleteChatSession
    <3>. QED
      BY <2>1, <3>1, Elsewhere DEF Passes
  <2>. QED
    BY <2>2, <2>3
<1>10. ASSUME NEW t \in Tabs, StopChat(t)
       PROVE  InStep'
  BY <1>10, Elsewhere DEF StopChat, Quiet, serverVars, tabVars, historyVars, Passes
<1>11. ASSUME NEW t \in Tabs, NEW silent \in BOOLEAN, DispatchRpc(t, silent)
       PROVE  InStep'
  <2>1. UNCHANGED <<gen, stored, deleted, dropped, missed, ui, down, active>>
    BY <1>11 DEF DispatchRpc, Quiet, serverVars, historyVars
  <2>2. PICK m \in Messages : m = Message("system", None, 0, FALSE) /\ ~IsReply(m)
    BY MessageIs DEF IsReply
  <2>3. CASE silent
    <3>1. shown' = shown
      BY <1>11, <2>3, <1>p DEF DispatchRpc
    <3>. QED
      BY <2>1, <3>1, Elsewhere DEF Passes
  <2>4. CASE ~silent
    <3>1. shown' = [shown EXCEPT ![t] = Append(shown[t], m)]
      BY <1>11, <2>2, <2>4 DEF DispatchRpc
    <3>2. shown'[t] = Append(shown[t], m) /\ \A u \in Tabs \ {t} : Stays(u) /\ down'[u] = down[u]
      BY <1>p, <2>1, <3>1 DEF Stays
    <3>3. Later(t)
      BY <2>1, <2>2, <3>2, InStepNow, Lined DEF Passes
    <3>. QED
      BY <2>1, <3>2, <3>3, OneTab
  <2>. QED
    BY <2>3, <2>4
<1>12. ASSUME NEW t \in Tabs, OpCreateChat(t)
       PROVE  InStep'
  BY <1>12, CreateInStep
<1>13. ASSUME NEW t \in Tabs, OpChatSend(t)
       PROVE  InStep'
  BY <1>13, SendInStep
<1>14. ASSUME NEW t \in Tabs, OpChatStop(t)
       PROVE  InStep'
  BY <1>14, StopInStep
<1>15. ASSUME NEW t \in Tabs, OpLoadChat(t)
       PROVE  InStep'
  BY <1>15, LoadInStep
<1>16. ASSUME NEW t \in Tabs, OpDeleteChat(t)
       PROVE  InStep'
  BY <1>16, DeleteInStep
<1>17. ASSUME NEW t \in Tabs, OpMcp(t)
       PROVE  InStep'
  BY <1>17, Elsewhere DEF OpMcp, tabVars, historyVars, Passes
<1>18. ASSUME NEW t \in Tabs, McpAnswers(t)
       PROVE  InStep'
  <2>1. UNCHANGED <<gen, active, shown, missed, dropped, ui, stored, deleted>>
    BY <1>18 DEF McpAnswers, tabVars, historyVars
  <2>2. PICK e \in Events : e = [ev |-> "mcp_result"]
    BY EventIs
  <2>3. \A u \in Tabs : down'[u] = down[u] \/ down'[u] = Append(down[u], e)
    BY <1>p, <1>18, <2>2 DEF McpAnswers
  <2>4. \A u \in Tabs : Passes(u)
    BY <2>2, <2>3 DEF Passes
  <2>. QED
    BY <2>1, <2>4, Elsewhere
<1>19. ASSUME NEW t \in Tabs, OnWorkers(t) \/ OnOther(t)
       PROVE  InStep'
  <2>1. UNCHANGED <<gen, active, shown, missed, dropped, ui, stored, deleted>>
    BY <1>19 DEF OnWorkers, OnOther, TabKeeps, serverVars
  <2>2. down[t] # <<>> /\ down' = [down EXCEPT ![t] = Tail(down[t])] /\ ~IsToken(Head(down[t]), active[t])
    BY <1>p, <1>19 DEF OnWorkers, OnOther, Event, IsToken
  <2>3. \A u \in Tabs : Passes(u)
    BY <1>p, <2>2 DEF Passes
  <2>. QED
    BY <2>1, <2>3, Elsewhere
<1>21. ASSUME NEW t \in Tabs, OnChatSession(t)
       PROVE  InStep'
  <2>1. /\ Head(down[t]) \in Events /\ Head(down[t]).ev = "chat_session" /\ down[t] # <<>>
        /\ down' = [down EXCEPT ![t] = Tail(down[t])] /\ 1 \in DOMAIN down[t] /\ Head(down[t]) = down[t][1]
    BY <1>p, <1>21, EventRead, TailIs DEF OnChatSession
  <2>2. /\ shown' = [shown EXCEPT ![t] = Head(down[t]).messages] /\ missed \subseteq missed'
        /\ UNCHANGED <<gen, stored, deleted, dropped, active, ui>>
    BY <1>21 DEF OnChatSession, TabKeeps, serverVars
  <2>3. down'[t] = Tail(down[t]) /\ shown'[t] = Head(down[t]).messages
        /\ \A u \in Tabs \ {t} : Stays(u) /\ down'[u] = down[u]
    BY <1>p, <2>1, <2>2 DEF Stays
  <2>4. shown'[t] \in Seq(Messages) /\ WholeReplies(shown'[t], gen)
    <3>1. Now(t)
      BY InStepNow
    <3>2. WholeReplies(Head(down[t]).messages, gen)
      BY <2>1, <3>1 DEF Now, Fine, InTurn
    <3>. QED
      BY <2>1, <2>3, <3>2, EventHas
  <2>5. Later(t)
    BY <2>1, <2>2, <2>3, <2>4, InStepNow, Reopened
  <2>. QED
    BY <2>2, <2>3, <2>5, OneTab
<1>22. ASSUME NEW t \in Tabs, OnChatToken(t)
       PROVE  InStep'
  <2>1. down[t] # <<>> /\ down' = [down EXCEPT ![t] = Tail(down[t])]
    BY <1>22, EventRead DEF OnChatToken
  <2>2. UNCHANGED <<gen, stored, deleted, dropped, active, ui>>
    BY <1>22 DEF OnChatToken, TabKeeps, serverVars
  <2>3. CASE Head(down[t]).chat # active[t]
    <3>1. UNCHANGED <<shown, missed>> /\ ~IsToken(Head(down[t]), active[t])
      BY <1>22, <2>3 DEF OnChatToken, IsToken
    <3>2. \A u \in Tabs : Passes(u)
      BY <1>p, <2>1, <3>1 DEF Passes
    <3>. QED
      BY <2>2, <3>1, <3>2, Elsewhere
  <2>4. CASE Head(down[t]).chat = active[t]
    <3>1. Later(t)
      BY <1>22, <2>4, InStepNow, TokenShown
    <3>2. \A u \in Tabs \ {t} : shown'[u] = shown[u] /\ missed \subseteq missed'
      BY <1>p, <1>22, <2>4 DEF OnChatToken
    <3>3. \A u \in Tabs \ {t} : Stays(u) /\ down'[u] = down[u]
      BY <1>p, <2>1, <2>2, <3>2 DEF Stays
    <3>. QED
      BY <2>2, <3>1, <3>3, OneTab
  <2>. QED
    BY <2>3, <2>4
<1>23. ASSUME NEW t \in Tabs, OnChatDone(t)
       PROVE  InStep'
  <2>1. down[t] # <<>> /\ down' = [down EXCEPT ![t] = Tail(down[t])] /\ Head(down[t]).ev = "chat_done"
    BY <1>23, EventRead DEF OnChatDone
  <2>2. UNCHANGED <<gen, stored, deleted, dropped, ui>>
    BY <1>23 DEF OnChatDone, TabKeeps, serverVars
  <2>3. CASE Head(down[t]).chat # active[t]
    <3>1. UNCHANGED <<shown, missed, active>> /\ ~IsToken(Head(down[t]), active[t])
      BY <1>23, <2>1, <2>3 DEF OnChatDone, IsToken
    <3>2. \A u \in Tabs : Passes(u)
      BY <1>p, <2>1, <3>1 DEF Passes
    <3>. QED
      BY <2>2, <3>1, <3>2, Elsewhere
  <2>4. CASE Head(down[t]).chat = active[t]
    <3>1. Later(t)
      BY <1>23, <2>4, InStepNow, DoneShown
    <3>2. \A u \in Tabs \ {t} : shown'[u] = shown[u] /\ missed \subseteq missed' /\ active'[u] = active[u]
      BY <1>p, <1>23, <2>4 DEF OnChatDone
    <3>3. \A u \in Tabs \ {t} : Stays(u) /\ down'[u] = down[u]
      BY <1>p, <2>1, <2>2, <3>2 DEF Stays
    <3>. QED
      BY <2>2, <3>1, <3>3, OneTab
  <2>. QED
    BY <2>3, <2>4
<1>24. ASSUME NEW t \in Tabs, OnMcpResult(t)
       PROVE  InStep'
  <2>1. down[t] # <<>> /\ down' = [down EXCEPT ![t] = Tail(down[t])] /\ Head(down[t]).ev = "mcp_result"
    BY <1>24, EventRead DEF OnMcpResult
  <2>2. UNCHANGED <<gen, stored, deleted, dropped, missed, ui, active>>
    BY <1>24 DEF OnMcpResult, TabKeeps, serverVars
  <2>3. PICK m \in Messages : m = Message("tool", None, 0, FALSE) /\ ~IsReply(m)
    BY MessageIs DEF IsReply
  <2>4. shown' = [shown EXCEPT ![t] = Append(shown[t], m)]
    BY <1>24, <2>3 DEF OnMcpResult
  <2>5. down'[t] = Tail(down[t]) /\ shown'[t] = Append(shown[t], m) /\ \A u \in Tabs \ {t} : Stays(u) /\ down'[u] = down[u]
    BY <1>p, <2>1, <2>2, <2>4 DEF Stays
  <2>6. Passes(t)
    BY <2>1, <2>5 DEF Passes, IsToken
  <2>7. Later(t)
    BY <2>2, <2>3, <2>5, <2>6, InStepNow, Lined
  <2>. QED
    BY <2>2, <2>5, <2>7, OneTab
<1>25. ASSUME NEW k \in Chats, ModelLoads(k)
       PROVE  InStep'
  <2>1. /\ gen[k].state = "loading" /\ gen' = [gen EXCEPT ![k].state = "running"]
        /\ UNCHANGED <<stored, deleted, down, active, shown, missed, dropped, ui>>
    BY <1>25 DEF ModelLoads, RunKeeps, tabVars, historyVars
  <2>2. /\ gen' \in [Chats -> Generations] /\ Forward(gen, gen') /\ gen'[k].state = "running"
        /\ \A c \in Chats : gen'[c].session = gen[c].session /\ gen'[c].len = gen[c].len
        /\ \A c \in Chats \ {k} : gen'[c].state = gen[c].state
    <3>1. NothingYet(gen[k])
      BY DEF InStep
    <3>. QED
      BY <2>1, <3>1, StateForward
  <2>3. PICK h : h = gen'
    OBVIOUS
  <2>4. \A c \in Chats : Answered(h[c]) => Answered(gen[c])
    BY <2>2, <2>3 DEF Answered
  <2>5. Replies(stored, deleted, h)
    BY <2>2, <2>3, <2>4, InStepNow, RepliesForward
  <2>6. \A u \in Tabs : Later(u)
    BY <2>1, <2>2, Wordless
  <2>. QED
    BY <2>1, <2>2, <2>3, <2>5, <2>6, InStepLater
<1>26. ASSUME NEW k \in Chats, ModelFails(k)
       PROVE  InStep'
  <2>1. /\ gen[k].state \in {"loading", "running"} /\ gen' = [gen EXCEPT ![k].state = "error"]
        /\ Tell(k, Done(k, "error"))
        /\ UNCHANGED <<stored, deleted, active, shown, missed, dropped, ui>>
    BY <1>26 DEF ModelFails, Ended, RunKeeps, tabVars, historyVars
  <2>. QED
    BY <2>1, NoReplyInStep
<1>27. ASSUME NEW k \in Chats, Token(k)
       PROVE  InStep'
  BY <1>27, TokenInStep
<1>28. ASSUME NEW k \in Chats, Stopped(k)
       PROVE  InStep'
  <2>1. gen[k].state = "running" /\ UNCHANGED <<deleted, active, shown, missed, dropped, ui>> /\ gen[k].len \in Nat
    BY <1>28, LenIs DEF Stopped, RunKeeps, tabVars, historyVars, TypeOK
  <2>2. CASE gen[k].len > 0
    <3>1. StoreReply(k, "stopped")
      BY <1>28, <2>2 DEF Stopped
    <3>. QED
      BY <2>1, <2>2, <3>1, ReplyInStep
  <2>3. CASE ~(gen[k].len > 0)
    <3>1. gen' = [gen EXCEPT ![k].state = "stopped"] /\ Tell(k, Done(k, "stopped")) /\ UNCHANGED stored /\ gen[k].len = 0
      BY <1>28, <2>1, <2>3 DEF Stopped, Ended
    <3>. QED
      BY <2>1, <3>1, NoReplyInStep
  <2>. QED
    BY <2>2, <2>3
<1>29. ASSUME NEW k \in Chats, Completed(k)
       PROVE  InStep'
  <2>1. gen[k].state = "running" /\ UNCHANGED <<deleted, active, shown, missed, dropped, ui>> /\ StoreReply(k, "complete")
    BY <1>29 DEF Completed, RunKeeps, tabVars, historyVars
  <2>. QED
    BY <2>1, ReplyInStep
<1>30. ASSUME UNCHANGED chatVars
       PROVE  InStep'
  BY <1>30, Elsewhere DEF chatVars, serverVars, tabVars, historyVars, Passes
<1>. QED
  BY <1>p, <1>1, <1>2, <1>3, <1>4, <1>5, <1>6, <1>7, <1>8, <1>9, <1>10, <1>11,
     <1>12, <1>13, <1>14, <1>15, <1>16, <1>17, <1>18, <1>19, <1>21, <1>22,
     <1>23, <1>24, <1>25, <1>26, <1>27, <1>28, <1>29, <1>30
  DEF Next, SocketNext, WorkerNext, UserNext, HandleOp, Receive, RunChat

(* In step at the start. *)
LEMMA InStepInit == Init => InStep
<1>. SUFFICES ASSUME Init PROVE InStep
  OBVIOUS
<1>1. /\ down = [t \in Tabs |-> <<>>] /\ DOMAIN stored = {} /\ gen = [k \in Chats |-> Unsent]
      /\ active = [t \in Tabs |-> None] /\ shown = [t \in Tabs |-> <<>>]
  BY DEF Init, BrokerInit
<1>2. \A k \in Chats : gen[k].state = "unsent" /\ gen[k].len = 0
  BY <1>1 DEF Unsent
<1>3. ASSUME NEW t \in Tabs
      PROVE  InTurn(down[t], gen) /\ WaitsForOwn(t) /\ View(shown[t], active[t], down[t], gen, missed)
  <2>1. down[t] = <<>> /\ active[t] = None /\ shown[t] = <<>>
    BY <1>1
  <2>2. DOMAIN <<>> = {}
    BY NoneIs
  <2>. QED
    BY <2>1, <2>2 DEF InTurn, WaitsForOwn, View, Streams
<1>4. RepliesStored
  BY <1>1, <1>2 DEF RepliesStored, Answered
<1>. QED
  BY <1>2, <1>3, <1>4 DEF InStep, NothingYet

(* What a tab shows of a finished generation is what is stored. *)
LEMMA ShownIs == TypeOK /\ PromptStored /\ InStep => ShownIsStored
<1>. SUFFICES ASSUME TypeOK, PromptStored, InStep,
                     NEW t \in Tabs \ dropped, NEW i \in DOMAIN shown[t], NEW m, m = shown[t][i],
                     m.role = "assistant", active[t] # m.chat, m.chat \notin missed \cup deleted,
                     gen[m.chat].state \in {"complete", "stopped"}
              PROVE  ~m.streaming /\ Reply(m.chat) = IF m.len = 0 /\ gen[m.chat].state = "stopped" THEN {} ELSE {m}
  BY DEF ShownIsStored
<1>1. View(shown[t], active[t], down[t], gen, missed)
  BY DEF InStep
<1>2. Whole(m, gen) /\ IsReply(m)
  BY <1>1 DEF View, Accounted, IsReply
<1>3. PICK k \in Chats : k = m.chat
  BY <1>2 DEF Whole
<1>4. m \in Messages /\ ~m.streaming /\ m.len = gen[k].len
  <2>1. shown[t] \in Seq(Messages)
    BY DEF TypeOK
  <2>. QED
    BY <1>2, <1>3, <2>1, TranscriptIs DEF Whole
<1>5. ASSUME NEW s \in DOMAIN stored, NEW j \in DOMAIN stored[s], IsReply(stored[s][j]), stored[s][j].chat = k
      PROVE  stored[s][j] = m /\ Answered(gen[k])
  <2>1. WholeReplies(stored[s], gen) /\ HasReply(stored[s], k) /\ stored[s] \in Seq(Messages)
    BY <1>5 DEF InStep, RepliesStored, HasReply, TypeOK
  <2>2. PICK n : n = stored[s][j]
    OBVIOUS
  <2>3. n \in Messages /\ Whole(n, gen) /\ IsReply(n) /\ n.chat = k
    BY <1>5, <2>1, <2>2, TranscriptIs DEF WholeReplies
  <2>4. n.role = m.role /\ n.chat = m.chat /\ n.len = m.len /\ n.streaming = m.streaming
    BY <1>2, <1>3, <1>4, <2>3 DEF Whole, IsReply, Messages
  <2>5. n = m
    BY <1>4, <2>3, <2>4 DEF Messages
  <2>6. Answered(gen[k])
    BY <2>1, <1>5 DEF InStep, RepliesStored
  <2>. QED
    BY <2>2, <2>5, <2>6
<1>6. CASE Answered(gen[k])
  <2>1. Exists(gen[k].session) /\ HasReply(stored[gen[k].session], k)
    BY <1>3, <1>6 DEF InStep, RepliesStored
  <2>2. Reply(k) = {m}
    BY <1>5, <2>1 DEF Reply, HasReply, Exists, IsReply
  <2>3. ~(m.len = 0 /\ gen[k].state = "stopped")
    BY <1>4, <1>6 DEF Answered
  <2>. QED
    BY <1>3, <1>4, <2>2, <2>3
<1>7. CASE ~Answered(gen[k])
  <2>1. gen[k].state = "stopped" /\ m.len = 0
    <3>1. gen[k].len \in Nat
      BY LenIs DEF TypeOK
    <3>. QED
      BY <1>3, <1>4, <1>7, <3>1 DEF Answered
  <2>2. Reply(k) = {}
    <3>1. Exists(gen[k].session)
      BY <1>3 DEF PromptStored
    <3>. QED
      BY <1>5, <1>7, <3>1 DEF Reply, Exists, IsReply
  <2>. QED
    BY <1>3, <1>4, <2>1, <2>2
<1>. QED
  BY <1>6, <1>7

-----------------------------------------------------------------------------
(* The invariant, and what it gives.                                         *)

(* The invariant holds at the start. *)
LEMMA InitInvariant == Init => IInv
<1>. SUFFICES ASSUME Init PROVE IInv
  OBVIOUS
<1>a. /\ pages \subseteq Tabs /\ ui \subseteq pages
      /\ up = [t \in Tabs |-> <<>>] /\ down = [t \in Tabs |-> <<>>] /\ seen = [t \in Tabs |-> {}]
      /\ line = [m \in Machines |-> "closed"] /\ handle = [m \in Machines |-> Nobody]
      /\ workers = [i \in WorkerIds |-> Nobody] /\ taken = {}
  BY DEF Init, BrokerInit
<1>b. /\ DOMAIN stored = {} /\ gen = [k \in Chats |-> Unsent] /\ asking = {}
      /\ active = [t \in Tabs |-> None] /\ session = [t \in Tabs |-> None] /\ shown = [t \in Tabs |-> <<>>]
  BY DEF Init
<1>c. DOMAIN <<>> = {} /\ <<>> \in Seq(Operations) /\ <<>> \in Seq(Events) /\ <<>> \in Seq(Messages)
  BY NoneIs
<1>1. BrokerTypeOK
  BY <1>a DEF BrokerTypeOK
<1>2. TypeOK
  <2>1. Unsent \in Generations /\ Unsent.state = "unsent"
    BY ChatAssumption DEF Unsent, Generations
  <2>2. stored \in [DOMAIN stored -> Seq(Messages)]
    BY <1>b DEF Init
  <2>. QED
    BY <1>1, <1>a, <1>b, <1>c, <2>1, <2>2 DEF TypeOK
<1>3. WorkersAreLive
  BY <1>a DEF WorkersAreLive
<1>4. \A t \in ui : Told(t)
  <2>1. WorkersEvent(workers).ids = {}
    BY <1>a DEF WorkersEvent
  <2>. QED
    BY <1>a, <1>c, <2>1 DEF Told, NoList
<1>5. SentInOrder
  <2>1. { k \in Chats : gen[k].state # "unsent" } = 1..0
    BY <1>b DEF Unsent
  <2>. QED
    BY <2>1, ChatAssumption DEF SentInOrder
<1>6. QueuedOnce
  BY <1>a, <1>c DEF QueuedOnce, SentOnce
<1>7. RepliesAreOver /\ Transcripts
  BY <1>b DEF RepliesAreOver, Transcripts
<1>8. PromptStored
  BY <1>b DEF PromptStored, Unsent
<1>9. InStep
  BY InStepInit
<1>. QED
  BY <1>2, <1>3, <1>4, <1>5, <1>6, <1>7, <1>8, <1>9 DEF IInv

(* The inductive invariant of the transport, the worker plane and the chat.  *)
THEOREM Invariance == Spec => []IInv
<1>1. Init => IInv
  BY InitInvariant
<1>2. IInv /\ [Next]_chatVars => IInv'
  <2>. SUFFICES ASSUME IInv, [Next]_chatVars PROVE IInv'
    OBVIOUS
  <2>1. TypeOK /\ WorkersAreLive /\ Book /\ InStep /\ \A t \in ui : Told(t)
    BY DEF IInv, Book
  <2>2. TypeOK'
    BY <2>1, TypeStep DEF Book
  <2>3. WorkersAreLive'
    BY <2>1, LiveStep
  <2>4. (\A t \in ui : Told(t))'
    BY <2>1, ToldStep DEF Book
  <2>5. Book'
    BY <2>1, BookStep
  <2>6. InStep'
    BY <2>1, InStepStep DEF Book
  <2>. QED
    BY <2>2, <2>3, <2>4, <2>5, <2>6 DEF IInv, Book
<1>. QED
  BY <1>1, <1>2, PTL DEF Spec

(* Whatever workers come, come back, take over each other's ids and leave,   *)
(* the map holds the live ones, and a tab that has read what it was sent     *)
(* shows them.                                                               *)
THEOREM WorkersTableHolds == Spec => []WorkersTable
<1>1. IInv => WorkersTable
  <2>. SUFFICES ASSUME IInv PROVE WorkersTable
    OBVIOUS
  <2>1. WorkersAreLive
    BY DEF IInv
  <2>2. ASSUME NEW t \in ui, \A j \in DOMAIN down[t] : down[t][j].ev # "workers"
        PROVE  seen[t] = WorkersEvent(workers).ids
    <3>1. Told(t)
      BY DEF IInv
    <3>2. WorkersEvent(workers).ev = "workers"
      BY DEF WorkersEvent
    <3>. QED
      BY <2>2, <3>1, <3>2 DEF Told, IsLast
  <2>. QED
    BY <2>1, <2>2 DEF WorkersTable, WorkersShown
<1>. QED
  BY <1>1, Invariance, PTL

(* Whatever several tabs send, stop, delete and load, a reply stands once    *)
(* and after its prompt.                                                     *)
THEOREM ReplyFollowsPromptHolds == Spec => []ReplyFollowsPrompt
<1>1. IInv => ReplyFollowsPrompt
  <2>. SUFFICES ASSUME IInv, NEW s \in DOMAIN stored, NEW i \in DOMAIN stored[s],
                       IsReply(stored[s][i]), stored[s][i].chat \notin deleted
                PROVE  /\ \E j \in 1..(i - 1) : stored[s][j].role = "user" /\ stored[s][j].chat = stored[s][i].chat
                       /\ \A j \in DOMAIN stored[s] :
                            stored[s][j].role = stored[s][i].role /\ stored[s][j].chat = stored[s][i].chat => j = i
    BY DEF ReplyFollowsPrompt, IsReply
  <2>1. Once(stored[s]) /\ Answers(stored[s], deleted)
    BY DEF IInv, Transcripts
  <2>2. \E j \in 1..(i - 1) : IsPrompt(stored[s][j], stored[s][i].chat)
    BY <2>1 DEF Answers
  <2>3. \A j \in DOMAIN stored[s] : IsReply(stored[s][j]) /\ stored[s][j].chat = stored[s][i].chat => j = i
    BY <2>1 DEF Once
  <2>. QED
    BY <2>2, <2>3 DEF IsPrompt, IsReply
<1>. QED
  BY <1>1, Invariance, PTL

(* Whatever several tabs send, stop, delete and load, and whatever is lost   *)
(* on the way, a reply that a tab shows and no longer waits for is the one   *)
(* in the tables, token for token, but for the cases the property names.     *)
THEOREM ShownIsStoredHolds == Spec => []ShownIsStored
<1>1. IInv => ShownIsStored
  BY ShownIs DEF IInv
<1>. QED
  BY <1>1, Invariance, PTL
===============================================================================
