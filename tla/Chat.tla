--------------------------------- MODULE Chat ---------------------------------
(***************************************************************************)
(* The chat sandbox across the socket: the tab's part of the store         *)
(* (webapp stores/pipeline.ts, used by ChatSandbox.vue), the coordinator's *)
(* chat operations and runChat (server/index.ts), and the chat tables of   *)
(* DatasetDB, over the transport of module Broker.                         *)
(*                                                                         *)
(* A text is its number of tokens, a message is told by the generation it  *)
(* belongs to.  Titles and the list of sessions a tab shows are left out:  *)
(* a tab may address any session that was ever made, as a stale list lets  *)
(* it.  A chat id is made by one tab, so that the events of a generation   *)
(* are put in its tab's queue only: the others drop them unread.           *)
(***************************************************************************)
EXTENDS Broker, FiniteSets

CONSTANTS Sessions,  (* ids a new session may get            *)
          MaxSends,  (* bound: generations                   *)
          MaxTokens, (* maxTokens of each of them            *)
          None

ASSUME ChatAssumption ==
  MaxSends \in Nat /\ MaxTokens \in Nat /\ None \notin (1..MaxSends) \cup Sessions

Chats == 1..MaxSends

VARIABLES stored,   (* chat_sessions and chat_messages: session -> messages *)
          gen,      (* per chat: the tab, the session and the state of its
                       runChat, the tokens made, chatAborts' signal         *)
          made,     (* session ids handed out by randomUUID so far          *)
          asking,   (* tabs with an MCP request under way                   *)
          active,   (* store.activeChatId                                   *)
          session,  (* store.activeChatSessionId                            *)
          shown,    (* store.chatMessages                                   *)
          (* history, read by the properties only *)
          missed,   (* chats one of whose events found another message last *)
          dropped,  (* tabs whose socket closed with a generation under way *)
          deleted   (* chats whose session was deleted after they were sent *)

serverVars == <<stored, gen, asking>>
tabVars == <<active, session, shown, made>>
historyVars == <<missed, dropped, deleted>>
chatVars == <<ui, up, down, seen, workerVars, left, serverVars, tabVars, historyVars>>

Message(role, k, len, streaming) ==
  [role |-> role, chat |-> k, len |-> len, streaming |-> streaming]
Unsent == [tab |-> None, session |-> None, state |-> "unsent", len |-> 0, abort |-> FALSE]
Exists(s) == s \in DOMAIN stored

Init ==
  /\ BrokerInit
  /\ stored = [s \in {} |-> <<>>]
  /\ gen = [k \in Chats |-> Unsent] /\ asking = {}
  /\ active = [t \in Tabs |-> None] /\ session = [t \in Tabs |-> None]
  /\ shown = [t \in Tabs |-> <<>>]
  /\ made \in SUBSET Sessions /\ missed = {} /\ dropped = {} /\ deleted = {}

(* store.send: nothing when the socket is not open. *)
Send(t, op) == up' = IF t \in ui THEN [up EXCEPT ![t] = Append(@, op)] ELSE up

Quiet(t) == UNCHANGED <<ui, down, seen, workerVars, serverVars>>

-----------------------------------------------------------------------------
(* What a user does in a tab. *)

(* newChat: also while a generation streams, whose reply is then not shown.  *)
NewChat(t, s) ==
  /\ s \notin made /\ made' = made \cup {s} /\ Use("act")
  /\ session' = [session EXCEPT ![t] = s] /\ shown' = [shown EXCEPT ![t] = <<>>]
  /\ Send(t, [op |-> "create_chat", session |-> s])
  /\ missed' = missed \cup ({active[t]} \cap Chats)
  /\ UNCHANGED <<active, dropped, deleted>> /\ Quiet(t)

(* sendChat, with the newChat it makes when there is no session: the two     *)
(* operations are sent in one go.                                            *)
SendChat(t, s) ==
  LET k == Cardinality({ j \in Chats : gen[j].state # "unsent" }) + 1
      ops == IF session[t] = None THEN <<[op |-> "create_chat", session |-> s]>> ELSE <<>>
  IN /\ k \in Chats /\ active[t] = None /\ Use("send")
     /\ IF session[t] = None THEN s \notin made ELSE s = session[t]
     /\ made' = made \cup {s}
     /\ gen' = [gen EXCEPT ![k] = [@ EXCEPT !.tab = t, !.session = s, !.state = "sent"]]
     /\ session' = [session EXCEPT ![t] = s]
     /\ active' = [active EXCEPT ![t] = k]
     /\ shown' = [shown EXCEPT ![t] =
          (IF session[t] = None THEN <<>> ELSE @)
             \o <<Message("user", k, 0, FALSE), Message("assistant", k, 0, TRUE)>>]
     /\ up' = IF t \in ui
              THEN [up EXCEPT ![t] = @ \o ops \o <<[op |-> "chat_send", chat |-> k]>>]
              ELSE up
     /\ dropped' = IF t \in ui THEN dropped ELSE dropped \cup {t}
     /\ UNCHANGED <<ui, down, seen, workerVars, stored, asking, missed, deleted>>

(* stopChat. *)
StopChat(t) ==
  /\ active[t] # None /\ Use("act")
  /\ Send(t, [op |-> "chat_stop", chat |-> active[t]])
  /\ UNCHANGED <<tabVars, historyVars>> /\ Quiet(t)

(* loadChatSession. *)
LoadChatSession(t, s) ==
  /\ active[t] = None /\ s \in made /\ Use("act")
  /\ Send(t, [op |-> "load_chat", session |-> s])
  /\ UNCHANGED <<tabVars, historyVars>> /\ Quiet(t)

(* deleteChatSession: of the session shown, it forgets the generation too,   *)
(* which is not stopped.                                                     *)
DeleteChatSession(t, s) ==
  /\ s \in made /\ Use("act")
  /\ IF session[t] = s
     THEN /\ session' = [session EXCEPT ![t] = None]
          /\ shown' = [shown EXCEPT ![t] = <<>>]
          /\ active' = [active EXCEPT ![t] = None]
     ELSE UNCHANGED <<session, shown, active>>
  /\ UNCHANGED made
  /\ Send(t, [op |-> "delete_chat", session |-> s])
  /\ UNCHANGED historyVars /\ Quiet(t)

(* dispatchRpc: a line of its own in the transcript unless it is the silent  *)
(* tools/list of onMounted.                                                  *)
DispatchRpc(t, silent) ==
  /\ Use("act")
  /\ shown' = [shown EXCEPT ![t] =
                 IF silent THEN @ ELSE Append(@, Message("system", None, 0, FALSE))]
  /\ Send(t, [op |-> "mcp"])
  /\ UNCHANGED <<active, session, made, historyVars>> /\ Quiet(t)

-----------------------------------------------------------------------------
(* The coordinator reads an operation of a tab (handleOp). *)
OpFrom(t, op) == t \in ui /\ up[t] # <<>> /\ Head(up[t]).op = op /\ up' = [up EXCEPT ![t] = Tail(@)]
Refuse(t) == down' = [down EXCEPT ![t] = Append(@, [ev |-> "error"])]

(* createChat: an upsert, which leaves the messages of a session there is. *)
Created(s) == [r \in DOMAIN stored \cup {s} |-> IF Exists(r) THEN stored[r] ELSE <<>>]

OpCreateChat(t) ==
  /\ OpFrom(t, "create_chat")
  /\ stored' = Created(Head(up[t]).session)
  /\ UNCHANGED <<ui, down, seen, workerVars, left, gen, asking, tabVars, historyVars>>

(* appendChatMessage of a session there is: the foreign key refuses others.  *)
Appended(table, s, message) == [table EXCEPT ![s] = Append(@, message)]

(* chat_send: the session is made when it is missing, the prompt stored, and *)
(* runChat started, which runs up to its first await.                        *)
OpChatSend(t) ==
  /\ OpFrom(t, "chat_send")
  /\ LET k == Head(up[t]).chat IN
     /\ stored' = Appended(Created(gen[k].session), gen[k].session, Message("user", k, 0, FALSE))
     /\ gen' = [gen EXCEPT ![k].state = "loading"]
  /\ UNCHANGED <<ui, down, seen, workerVars, left, asking, tabVars, historyVars>>

(* chat_stop: only of a generation that runChat has entered in chatAborts. *)
OpChatStop(t) ==
  /\ OpFrom(t, "chat_stop")
  /\ LET k == Head(up[t]).chat IN
     gen' = IF gen[k].state \in {"loading", "running"} THEN [gen EXCEPT ![k].abort = TRUE] ELSE gen
  /\ UNCHANGED <<ui, down, seen, workerVars, left, stored, asking, tabVars, historyVars>>

OpLoadChat(t) ==
  /\ OpFrom(t, "load_chat")
  /\ LET s == Head(up[t]).session IN
     IF Exists(s)
     THEN down' = [down EXCEPT ![t] = Append(@, [ev |-> "chat_session", session |-> s, messages |-> stored[s]])]
     ELSE Refuse(t)
  /\ UNCHANGED <<ui, seen, workerVars, left, serverVars, tabVars, historyVars>>

(* delete_chat: the messages go with the session (ON DELETE CASCADE). *)
OpDeleteChat(t) ==
  /\ OpFrom(t, "delete_chat")
  /\ LET s == Head(up[t]).session IN
     /\ stored' = [r \in DOMAIN stored \ {s} |-> stored[r]]
     /\ deleted' = deleted \cup { k \in Chats : gen[k].session = s }
  /\ UNCHANGED <<ui, down, seen, workerVars, left, gen, asking, tabVars, missed, dropped>>

OpMcp(t) ==
  /\ OpFrom(t, "mcp")
  /\ asking' = asking \cup {t}
  /\ UNCHANGED <<ui, down, seen, workerVars, left, stored, gen, tabVars, historyVars>>

(* The handler's promise is resolved, some time later. *)
McpAnswers(t) ==
  /\ t \in asking
  /\ asking' = asking \ {t}
  /\ down' = IF t \in ui THEN [down EXCEPT ![t] = Append(@, [ev |-> "mcp_result"])] ELSE down
  /\ UNCHANGED <<ui, up, seen, workerVars, left, stored, gen, tabVars, historyVars>>

HandleOp == \E t \in Tabs : \/ OpCreateChat(t) \/ OpChatSend(t) \/ OpChatStop(t)
                            \/ OpLoadChat(t) \/ OpDeleteChat(t) \/ OpMcp(t)

-----------------------------------------------------------------------------
(* runChat.  Its events reach the tab of the chat if its socket is open. *)
Tell(k, event) ==
  down' = IF gen[k].tab \in ui THEN [down EXCEPT ![gen[k].tab] = Append(@, event)] ELSE down
Done(k, reason) == [ev |-> "chat_done", chat |-> k, reason |-> reason]
Ended(k, how) == gen' = [gen EXCEPT ![k].state = how]

RunKeeps == UNCHANGED <<ui, up, seen, workerVars, left, asking, tabVars, historyVars>>

(* loadForInference resolves. *)
ModelLoads(k) ==
  /\ gen[k].state = "loading"
  /\ gen' = [gen EXCEPT ![k].state = "running"]
  /\ UNCHANGED <<down, stored>> /\ RunKeeps

(* Mutant: a model that cannot be loaded ends the chat without a word. *)
ModelFailsSilently(k) ==
  /\ gen[k].state = "loading"
  /\ Ended(k, "error")
  /\ UNCHANGED <<down, stored>> /\ RunKeeps

(* It throws (an unknown variant, no weights, another shape, no tokenizer),  *)
(* or the encoder or a forward pass does, be there tokens already.           *)
ModelFails(k) ==
  /\ \/ gen[k].state = "loading"
     \/ gen[k].state = "running" /\ gen[k].len < MaxTokens /\ ~gen[k].abort
  /\ Ended(k, "error") /\ Tell(k, Done(k, "error"))
  /\ UNCHANGED stored /\ RunKeeps

(* The reply is stored and chat_done sent, unless the session is gone: then  *)
(* the insert throws and the chat ends with an error.                        *)
StoreReply(k, how) ==
  IF Exists(gen[k].session)
  THEN /\ stored' = Appended(stored, gen[k].session, Message("assistant", k, gen[k].len, FALSE))
       /\ Ended(k, how) /\ Tell(k, Done(k, how))
  ELSE /\ Ended(k, "error") /\ Tell(k, Done(k, "error")) /\ UNCHANGED stored

(* One more token: it is sent, and the loop goes on after setImmediate. *)
Token(k) ==
  /\ gen[k].state = "running" /\ gen[k].len < MaxTokens /\ ~gen[k].abort
  /\ gen' = [gen EXCEPT ![k].len = @ + 1]
  /\ Tell(k, [ev |-> "chat_token", chat |-> k])
  /\ UNCHANGED stored /\ RunKeeps

(* Mutant: a stopped generation stores its text and goes on. *)
StoppedGoesOn(k) ==
  /\ gen[k].state = "running" /\ gen[k].len < MaxTokens /\ gen[k].abort
  /\ IF Exists(gen[k].session)
     THEN stored' = Appended(stored, gen[k].session, Message("assistant", k, gen[k].len, FALSE))
     ELSE UNCHANGED stored
  /\ gen' = [gen EXCEPT ![k].abort = FALSE]
  /\ UNCHANGED down /\ RunKeeps

(* Mutant: the token made when the signal came is stored and never sent. *)
StoppedLate(k) ==
  /\ gen[k].state = "running" /\ gen[k].len < MaxTokens /\ gen[k].abort
  /\ Exists(gen[k].session)
  /\ stored' = Appended(stored, gen[k].session, Message("assistant", k, gen[k].len + 1, FALSE))
  /\ Ended(k, "stopped") /\ Tell(k, Done(k, "stopped"))
  /\ RunKeeps

(* The signal is seen at the head of the loop: an empty text is not stored.  *)
Stopped(k) ==
  /\ gen[k].state = "running" /\ gen[k].len < MaxTokens /\ gen[k].abort
  /\ IF gen[k].len > 0 THEN StoreReply(k, "stopped")
     ELSE Ended(k, "stopped") /\ Tell(k, Done(k, "stopped")) /\ UNCHANGED stored
  /\ RunKeeps

(* The loop is over, whether or not the signal came since the last token. *)
Completed(k) ==
  /\ gen[k].state = "running" /\ gen[k].len = MaxTokens
  /\ StoreReply(k, "complete")
  /\ RunKeeps

RunChat(k) == ModelLoads(k) \/ ModelFails(k) \/ Token(k) \/ Stopped(k) \/ Completed(k)

-----------------------------------------------------------------------------
(* A tab handles an event. *)
Event(t, ev) == down[t] # <<>> /\ Head(down[t]).ev = ev /\ down' = [down EXCEPT ![t] = Tail(@)]
TabKeeps == UNCHANGED <<ui, up, made, workerVars, left, serverVars, dropped, deleted>>

OnWorkers(t) ==
  /\ Event(t, "workers")
  /\ seen' = [seen EXCEPT ![t] = Head(down[t]).ids]
  /\ UNCHANGED <<active, session, shown, missed>> /\ TabKeeps

(* Events that only a banner or a log shows. *)
OnOther(t) ==
  /\ Event(t, "error") \/ Event(t, "worker_event")
  /\ UNCHANGED <<seen, active, session, shown, missed>> /\ TabKeeps

OnChatSession(t) ==
  /\ Event(t, "chat_session")
  /\ session' = [session EXCEPT ![t] = Head(down[t]).session]
  /\ shown' = [shown EXCEPT ![t] = Head(down[t]).messages]
  /\ missed' = missed \cup ({active[t]} \cap Chats)
  /\ UNCHANGED <<seen, active>> /\ TabKeeps

(* Is the last message of the transcript the one that is being streamed? *)
Streaming(t) ==
  shown[t] # <<>> /\ LET m == shown[t][Len(shown[t])] IN m.role = "assistant" /\ m.streaming

OnChatToken(t) ==
  /\ Event(t, "chat_token")
  /\ IF Head(down[t]).chat # active[t] THEN UNCHANGED <<shown, missed>>
     ELSE IF Streaming(t)
     THEN shown' = [shown EXCEPT ![t][Len(shown[t])].len = @ + 1] /\ UNCHANGED missed
     ELSE missed' = missed \cup {active[t]} /\ UNCHANGED shown
  /\ UNCHANGED <<seen, active, session>> /\ TabKeeps

OnChatDone(t) ==
  /\ Event(t, "chat_done")
  /\ IF Head(down[t]).chat # active[t] THEN UNCHANGED <<shown, active, missed>>
     ELSE /\ active' = [active EXCEPT ![t] = None]
          /\ shown' = IF Streaming(t) THEN [shown EXCEPT ![t][Len(shown[t])].streaming = FALSE] ELSE shown
          /\ missed' = IF Streaming(t) THEN missed ELSE missed \cup {active[t]}
  /\ UNCHANGED <<seen, session>> /\ TabKeeps

OnMcpResult(t) ==
  /\ Event(t, "mcp_result")
  /\ shown' = [shown EXCEPT ![t] = Append(@, Message("tool", None, 0, FALSE))]
  /\ UNCHANGED <<seen, active, session, missed>> /\ TabKeeps

Receive(t) == \/ OnWorkers(t) \/ OnOther(t) \/ OnChatSession(t)
              \/ OnChatToken(t) \/ OnChatDone(t) \/ OnMcpResult(t)

-----------------------------------------------------------------------------
SocketNext ==
  \/ \E t \in Tabs :
       \/ Connect(t) /\ UNCHANGED <<serverVars, tabVars, historyVars>>
       \/ /\ Drop(t)
          /\ dropped' = IF active[t] # None THEN dropped \cup {t} ELSE dropped
          /\ UNCHANGED <<serverVars, tabVars, missed, deleted>>
  \/ WorkerNext /\ UNCHANGED <<serverVars, tabVars, historyVars>>

UserNext ==
  \E t \in pages :
    \/ \E s \in Sessions : \/ NewChat(t, s) \/ SendChat(t, s)
                           \/ LoadChatSession(t, s) \/ DeleteChatSession(t, s)
    \/ StopChat(t) \/ \E silent \in BOOLEAN : DispatchRpc(t, silent)

Next == SocketNext \/ UserNext \/ HandleOp
        \/ (\E t \in Tabs : McpAnswers(t) \/ Receive(t)) \/ (\E k \in Chats : RunChat(k))

(* Sockets deliver, the coordinator handles what it reads, and runChat goes  *)
(* on after each of its awaits.  Users, workers and losses owe nothing.      *)
Fairness ==
  /\ \A t \in Tabs : WF_chatVars(Receive(t))
                     /\ WF_chatVars(OpCreateChat(t) \/ OpChatSend(t) \/ OpChatStop(t)
                                      \/ OpLoadChat(t) \/ OpDeleteChat(t) \/ OpMcp(t))
  /\ \A k \in Chats : WF_chatVars(RunChat(k))

Spec == Init /\ [][Next]_chatVars /\ Fairness

-----------------------------------------------------------------------------
(* A stored reply comes after the prompt it answers and comes once, though   *)
(* several generations may write to one session; a session that was deleted  *)
(* while the reply was under way, and made again by another prompt, excepted.*)
ReplyFollowsPrompt ==
  \A s \in DOMAIN stored : \A i \in DOMAIN stored[s] :
    LET m == stored[s][i] IN
    m.role = "assistant" /\ m.chat \notin deleted =>
      /\ \E j \in 1..(i-1) : stored[s][j].role = "user" /\ stored[s][j].chat = m.chat
      /\ \A j \in DOMAIN stored[s] : stored[s][j].role = m.role /\ stored[s][j].chat = m.chat => j = i

Reply(k) == { m \in { stored[gen[k].session][i] : i \in DOMAIN stored[gen[k].session] } :
                m.role = "assistant" /\ m.chat = k }

(* A reply that a tab shows and no longer waits for is the stored one, token *)
(* for token and not marked as streaming, be the generation complete or      *)
(* stopped; one stopped before its first token is not stored.  The exceptions*)
(* are events that found another message at the end of the transcript (a     *)
(* tool's answer, the line of an RPC, another session), a socket that closed *)
(* meanwhile and a session deleted meanwhile.                                *)
ShownIsStored ==
  \A t \in Tabs \ dropped : \A i \in DOMAIN shown[t] :
    LET m == shown[t][i]  k == m.chat IN
    /\ m.role = "assistant" /\ active[t] # k /\ k \notin missed \cup deleted
    /\ gen[k].state \in {"complete", "stopped"}
    => ~m.streaming /\ Reply(k) = IF m.len = 0 /\ gen[k].state = "stopped" THEN {} ELSE {m}

(* A tab that waits for a generation is told its end, and lets its user send *)
(* the next prompt, unless its socket closed meanwhile: then nothing clears  *)
(* activeChatId, since the prompt or the chat_done may be lost for good.     *)
BusyEnds ==
  \A t \in Tabs, k \in Chats : active[t] = k ~> active[t] # k \/ t \in dropped

(***************************************************************************)
(* The inductive invariant behind WorkersTable, ReplyFollowsPrompt and     *)
(* ShownIsStored (ChatProofs).                                             *)
(***************************************************************************)
Messages ==
  [role : {"user", "assistant", "system", "tool"}, chat : Chats \cup {None},
   len : Nat, streaming : BOOLEAN]
Operations ==
  [op : {"create_chat", "load_chat", "delete_chat"}, session : Sessions]
    \cup [op : {"chat_send", "chat_stop"}, chat : Chats] \cup [op : {"mcp"}]
Events ==
  [ev : {"workers"}, ids : SUBSET WorkerIds] \cup [ev : {"worker_event"}, id : WorkerIds]
    \cup [ev : {"chat_session"}, session : Sessions, messages : Seq(Messages)]
    \cup [ev : {"chat_token"}, chat : Chats]
    \cup [ev : {"chat_done"}, chat : Chats, reason : {"complete", "stopped", "error"}]
    \cup [ev : {"error", "mcp_result"}]
Generations ==
  [tab : Tabs \cup {None}, session : Sessions \cup {None},
   state : {"unsent", "sent", "loading", "running", "complete", "stopped", "error"},
   len : 0..MaxTokens, abort : BOOLEAN]

(* Types of the queues, the tables and the generations. *)
TypeOK ==
  /\ BrokerTypeOK
  /\ up \in [Tabs -> Seq(Operations)] /\ down \in [Tabs -> Seq(Events)]
  /\ DOMAIN stored \subseteq Sessions /\ stored \in [DOMAIN stored -> Seq(Messages)]
  /\ gen \in [Chats -> Generations]
  /\ \A k \in Chats : gen[k].state # "unsent" => gen[k].tab \in Tabs /\ gen[k].session \in Sessions
  /\ asking \subseteq Tabs
  /\ active \in [Tabs -> Chats \cup {None}] /\ session \in [Tabs -> Sessions \cup {None}]
  /\ shown \in [Tabs -> Seq(Messages)]

(* Chats are numbered as they are sent. *)
SentInOrder == \E n \in 0..MaxSends : { k \in Chats : gen[k].state # "unsent" } = 1..n

(* A prompt on its way to the coordinator was not read yet, and is on its    *)
(* way once.                                                                 *)
SentOnce(ops, t, g) ==
  \A i \in DOMAIN ops : ops[i].op = "chat_send" =>
    /\ g[ops[i].chat].state = "sent" /\ g[ops[i].chat].tab = t
    /\ \A j \in DOMAIN ops : ops[j].op = "chat_send" /\ ops[j].chat = ops[i].chat => j = i
QueuedOnce == \A t \in Tabs : SentOnce(up[t], t, gen)

(* A reply stands in the session of a generation that is over.               *)
IsReply(m) == m.role = "assistant"
RepliesAreOver ==
  \A s \in DOMAIN stored : \A i \in DOMAIN stored[s] : IsReply(stored[s][i]) =>
    LET k == stored[s][i].chat IN
    k \in Chats /\ s = gen[k].session /\ gen[k].state \in {"complete", "stopped"}

(* In every session a reply comes once, and after its prompt.                *)
IsPrompt(m, k) == m.role = "user" /\ m.chat = k
Once(q) == \A i, j \in DOMAIN q : IsReply(q[i]) /\ IsReply(q[j]) /\ q[i].chat = q[j].chat => i = j
Answers(q, gone) ==
  \A i \in DOMAIN q : IsReply(q[i]) /\ q[i].chat \notin gone => \E j \in 1..(i-1) : IsPrompt(q[j], q[i].chat)
Transcripts == \A s \in DOMAIN stored : Once(stored[s]) /\ Answers(stored[s], deleted)

(* A generation that was started finds its prompt in its session, unless     *)
(* that was deleted.                                                         *)
Prompted(q, k) == \E i \in DOMAIN q : IsPrompt(q[i], k)
PromptStored ==
  \A k \in Chats \ deleted : gen[k].state \notin {"unsent", "sent"} =>
    Exists(gen[k].session) /\ Prompted(stored[gen[k].session], k)

(* A generation makes no token before its model is loaded.                   *)
Over == {"complete", "stopped", "error"}
NothingYet(g) == g.state \in {"unsent", "sent", "loading"} => g.len = 0

(* A reply that will not change: its generation is over, it has its tokens.  *)
Whole(m, g) ==
  m.chat \in Chats /\ ~m.streaming /\ g[m.chat].state \in Over /\ m.len = g[m.chat].len
WholeReplies(q, g) == \A i \in DOMAIN q : IsReply(q[i]) => Whole(q[i], g)

(* On its way to a tab, the end of a generation comes after its tokens, and  *)
(* a session's replies are whole.                                            *)
IsToken(e, k) == e.ev = "chat_token" /\ e.chat = k
Tokens(events, k) == Cardinality({ i \in DOMAIN events : IsToken(events[i], k) })
InTurn(events, g) ==
  \A i \in DOMAIN events : LET e == events[i] IN
    /\ e.ev = "chat_token" => g[e.chat].state \in {"running"} \cup Over
    /\ e.ev = "chat_done" => /\ g[e.chat].state \in Over
                             /\ \A j \in DOMAIN events : j > i => ~IsToken(events[j], e.chat)
    /\ e.ev = "chat_session" => WholeReplies(e.messages, g)

(* Stored are the whole replies of the generations that have one, unless     *)
(* their session was deleted.                                                *)
Answered(g) == g.state = "complete" \/ (g.state = "stopped" /\ g.len > 0)
HasReply(q, k) == \E i \in DOMAIN q : IsReply(q[i]) /\ q[i].chat = k
RepliesStored ==
  /\ \A s \in DOMAIN stored : /\ WholeReplies(stored[s], gen)
                              /\ \A k \in Chats : HasReply(stored[s], k) => Answered(gen[k])
  /\ \A k \in Chats \ deleted : Answered(gen[k]) =>
       Exists(gen[k].session) /\ HasReply(stored[gen[k].session], k)

(* A tab waits for a generation of its own, and is connected since.          *)
WaitsForOwn(t) ==
  active[t] # None => /\ gen[active[t]].tab = t /\ gen[active[t]].state # "unsent"
                      /\ t \in ui \cup dropped

(* A reply in a transcript is whole, or it is waited for, or events of it    *)
(* were missed.                                                              *)
Accounted(m, waits, g, lost) ==
  \/ m.chat \in lost
  \/ IF m.streaming THEN waits = m.chat /\ waits \in Chats ELSE Whole(m, g)

(* If the last message of a transcript is being streamed, it has the tokens  *)
(* made but those on their way, and is the only one that may still change.   *)
Streams(q) == q # <<>> /\ IsReply(q[Len(q)]) /\ q[Len(q)].streaming
Follows(q, waits, events, g, lost) ==
  /\ waits \in Chats /\ waits = q[Len(q)].chat
  /\ q[Len(q)].len + Tokens(events, waits) = g[waits].len
  /\ \A i \in 1..(Len(q)-1) : IsReply(q[i]) /\ q[i].streaming => q[i].chat \in lost

(* The transcript of a tab that was never cut off.                           *)
View(q, waits, events, g, lost) ==
  /\ \A i \in DOMAIN q : IsReply(q[i]) => Accounted(q[i], waits, g, lost)
  /\ Streams(q) => Follows(q, waits, events, g, lost)

(* What is under way, stored and shown of every generation agrees.           *)
InStep ==
  /\ \A k \in Chats : NothingYet(gen[k])
  /\ \A t \in Tabs :
       /\ InTurn(down[t], gen) /\ WaitsForOwn(t)
       /\ t \notin dropped => View(shown[t], active[t], down[t], gen, missed)
  /\ RepliesStored

IInv ==
  /\ TypeOK /\ WorkersAreLive /\ \A t \in ui : Told(t)
  /\ SentInOrder /\ QueuedOnce /\ RepliesAreOver /\ Transcripts /\ PromptStored
  /\ InStep
=============================================================================
