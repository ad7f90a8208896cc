------------------------------ MODULE PromptClaim ------------------------------
(***************************************************************************)
(* Questions of one instance, shown in several browser tabs and answered    *)
(* from one of them.  On the server: the connection registry, its outgoing  *)
(* queues and the claim (ws/frontend_manager.py), and the reader of each    *)
(* socket (ws/frontend_router.py).  In a tab: the socket                    *)
(* (hooks/useWebSocket.ts), the store (stores/wsStore.ts) and the prompt    *)
(* form (components/stream/InteractiveResponseUI.tsx).  The node is the     *)
(* source of the status and stream events (ws/handlers.py); every tab       *)
(* views the instance.  A queue stands for conn.queue, the writer task and  *)
(* the network behind it; an inbox for the other direction.                 *)
(***************************************************************************)
EXTENDS Naturals, Sequences, FiniteSets

CONSTANTS
  Tab,         \* browser tabs
  Conn,        \* sockets, each opened once
  Owner,       \* the tab that opens a socket
  NoConn,      \* no socket
  Questions,   \* bound: AskUserQuestion events of the instance
  QueueSize,   \* maxsize of the outgoing queues (500 in the code)
  Clicks,      \* bound: answers given in the forms
  Losses       \* bound: sockets that are cut, or closed by a failing reader

ASSUME PromptAssumption ==
  /\ Owner \in [Conn -> Tab]
  /\ NoConn \notin Conn
  /\ Questions \in Nat \ {0} /\ QueueSize \in Nat \ {0} /\ Clicks \in Nat
  /\ Losses \in Nat

VARIABLES
  phase,     \* the instance: pending, running or over
  asked,     \* number of questions it has asked
  conn,      \* sockets: fresh, open, cut (the server has not noticed) or gone
  subs,      \* connections subscribed to the instance
  queue,     \* conn.queue, up to the tab
  inbox,     \* messages the server has not read from a socket
  reader,    \* where the reader of a socket is
  answer,    \* the question of the answer a reader dispatches
  claim,     \* _prompt_claims of the instance
  sock,      \* useWsStore.socket of a tab
  status,    \* instanceStatuses of a tab
  prompt,    \* promptStates of a tab
  shown,     \* the last question in streamBuffers of a tab
  form,      \* the handleSubmit in progress in a tab: its socket and question
  clicks,    \* number of handleSubmit calls so far
  lossy,     \* history: open connections that lost a message to a full queue
  fresh,     \* history: tabs whose prompt state came over their present socket
  grants,    \* history: number of claims granted
  accepted,  \* history: the questions of the answers the server accepted
  sent       \* history: the questions of the answers dispatched to the node

instanceVars == <<phase, asked>>
serverVars == <<subs, reader, answer, claim, grants, accepted, sent>>
outVars == <<queue, lossy>>
storeVars == <<status, prompt, shown, fresh>>
vars == <<instanceVars, conn, serverVars, outVars, inbox, sock, storeVars, form, clicks>>

\* A message; ask is the question an event, or an answer, is about.
Message(kinds) == [kind : kinds, ask : 0..Questions]
About(kind, k) == [kind |-> kind, ask |-> k]
Plain(kind) == About(kind, 0)

ToTab == {"running", "over", "ask", "replay", "mine", "other", "answered"}
ToServer == {"subscribe", "claim", "submit", "close"}
Form == [sock : Conn \cup {NoConn}, ask : 0..Questions]
NoForm == [sock |-> NoConn, ask |-> 0]

TypeOK ==
  /\ phase \in {"pending", "running", "over"}
  /\ asked \in 0..Questions
  /\ conn \in [Conn -> {"fresh", "open", "cut", "gone"}]
  /\ subs \subseteq Conn
  /\ queue \in [Conn -> Seq(Message(ToTab))]
  /\ \A c \in Conn : Len(queue[c]) <= QueueSize
  /\ inbox \in [Conn -> Seq(Message(ToServer))]
  /\ reader \in [Conn -> {"read", "access", "dispatch"}]
  /\ answer \in [Conn -> 0..Questions]
  /\ claim \in Conn \cup {NoConn}
  /\ sock \in [Tab -> Conn \cup {NoConn}]
  /\ status \in [Tab -> {"unknown", "running", "over"}]
  /\ prompt \in [Tab -> {"none", "pending", "mine", "other", "answered"}]
  /\ shown \in [Tab -> 0..Questions]
  /\ form \in [Tab -> Form]
  /\ clicks \in 0..Clicks
  /\ lossy \subseteq Conn
  /\ fresh \subseteq Tab
  /\ grants \in Nat
  /\ accepted \in Seq(0..Questions)
  /\ sent \in Seq(0..Questions)

Init ==
  /\ phase = "pending" /\ asked = 0
  /\ conn = [c \in Conn |-> "fresh"]
  /\ subs = {}
  /\ queue = [c \in Conn |-> <<>>]
  /\ inbox = [c \in Conn |-> <<>>]
  /\ reader = [c \in Conn |-> "read"]
  /\ answer = [c \in Conn |-> 0]
  /\ claim = NoConn
  /\ sock = [t \in Tab |-> NoConn]
  /\ status = [t \in Tab |-> "unknown"]
  /\ prompt = [t \in Tab |-> "none"]
  /\ shown = [t \in Tab |-> 0]
  /\ form = [t \in Tab |-> NoForm]
  /\ clicks = 0
  /\ lossy = {}
  /\ fresh = {}
  /\ grants = 0 /\ accepted = <<>> /\ sent = <<>>

-----------------------------------------------------------------------------
(* Outgoing queues.  What is put for a cut socket is never seen; neither are *)
(* the "error" replies, which no tab handles.                                *)

Lost == {c \in Conn : conn[c] \in {"cut", "gone"}}
Registered == {c \in Conn : conn[c] \in {"open", "cut"}}

\* put_nowait(messages[c]) for every c of its domain; QueueFull drops it.
Put(messages) ==
  LET reached == {c \in DOMAIN messages : conn[c] = "open"}
      full == {c \in reached : Len(queue[c]) >= QueueSize}
  IN  /\ queue' = [c \in Conn |-> IF c \in reached \ full
                                    THEN Append(queue[c], messages[c]) ELSE queue[c]]
      /\ lossy' = lossy \cup full

Broadcast(receivers, m) == Put([c \in receivers |-> m])

\* Mutant: the replay does not stop at a full queue.
Replay_Unbounded(c) ==
  /\ queue' = [queue EXCEPT ![c] = @ \o
                 IF conn[c] = "open" THEN [k \in 1..asked |-> About("replay", k)] ELSE <<>>]
  /\ UNCHANGED lossy

\* The events of get_stream_events, with gsd None, as far as they fit.
Replay(c) ==
  LET room == QueueSize - Len(queue[c])
      buffered == IF phase = "over" THEN 0 ELSE asked
      events == [k \in 1..buffered |-> About("replay", k)]
  IN  /\ queue' = [queue EXCEPT ![c] = @ \o
                     IF conn[c] # "open" THEN <<>>
                     ELSE IF buffered > room THEN SubSeq(events, 1, room) ELSE events]
      /\ lossy' = IF conn[c] = "open" /\ buffered > room THEN lossy \cup {c} ELSE lossy

-----------------------------------------------------------------------------
(* The instance, as the handlers of the node's messages report it.           *)

\* handle_ack, handle_instance_started.
Start ==
  /\ phase = "pending"
  /\ phase' = "running"
  /\ Broadcast(subs, Plain("running"))
  /\ UNCHANGED <<asked, conn, serverVars, inbox, sock, storeVars, form, clicks>>

\* handle_stream_event of an AskUserQuestion event.
Ask ==
  /\ phase = "running" /\ asked < Questions
  /\ asked' = asked + 1
  /\ Broadcast(subs, About("ask", asked + 1))
  /\ UNCHANGED <<phase, conn, serverVars, inbox, sock, storeVars, form, clicks>>

\* handle_instance_finished, handle_instance_error: the claim stays.
Finish ==
  /\ phase = "running"
  /\ phase' = "over"
  /\ Broadcast(subs, Plain("over"))
  /\ UNCHANGED <<asked, conn, serverVars, inbox, sock, storeVars, form, clicks>>

-----------------------------------------------------------------------------
(* The reader of a connection.                                               *)

Reading(c, kind) ==
  /\ reader[c] = "read" /\ c \in Registered
  /\ inbox[c] # <<>> /\ Head(inbox[c]).kind = kind

Consume(c) == inbox' = [inbox EXCEPT ![c] = Tail(@)]
Goto(c, where) == reader' = [reader EXCEPT ![c] = where]

\* Mutant: deregister forgets the claims.
ClaimAfter_Kept(c) == claim

\* The claims a connection that goes away leaves: none.
ClaimAfter(c) == IF claim = c THEN NoConn ELSE claim

\* writer_task.cancel() and frontend_manager.deregister(conn).
Deregister(c) ==
  /\ conn' = [conn EXCEPT ![c] = "gone"]
  /\ claim' = ClaimAfter(c)
  /\ subs' = subs \ {c}
  /\ queue' = [queue EXCEPT ![c] = <<>>]
  /\ lossy' = lossy \ {c}
  /\ inbox' = [inbox EXCEPT ![c] = <<>>]
  /\ Goto(c, "read")
  /\ answer' = [answer EXCEPT ![c] = 0]

ReadClose(c) ==
  /\ Reading(c, "close")
  /\ Deregister(c)
  /\ UNCHANGED <<instanceVars, grants, accepted, sent, sock, storeVars, form, clicks>>

\* An exception in a handler: the reader ends and closes the socket.
ReaderFails(c) ==
  /\ reader[c] \in {"access", "dispatch"}
  /\ c \in Lost \/ Cardinality(Lost) < Losses
  /\ Deregister(c)
  /\ UNCHANGED <<instanceVars, grants, accepted, sent, sock, storeVars, form, clicks>>

ReadSubscribe(c) ==
  /\ Reading(c, "subscribe")
  /\ Consume(c)
  /\ Goto(c, "access")
  /\ UNCHANGED <<instanceVars, conn, subs, answer, claim, grants, accepted, sent, outVars, sock,
                 storeVars, form, clicks>>

AccessGranted(c) ==
  /\ reader[c] = "access"
  /\ subs' = subs \cup {c}
  /\ Replay(c)
  /\ Goto(c, "read")
  /\ UNCHANGED <<instanceVars, conn, inbox, answer, claim, grants, accepted, sent, sock, storeVars,
                 form, clicks>>

AccessDenied(c) ==
  /\ reader[c] = "access"
  /\ Goto(c, "read")
  /\ UNCHANGED <<instanceVars, conn, inbox, subs, answer, claim, grants, accepted, sent,
                 outVars, sock, storeVars, form, clicks>>

\* Mutant: claim_prompt does not look.
Claimable_Always(c) == TRUE

\* claim_prompt grants to the first claimer only.
Claimable(c) == claim = NoConn

\* Mutant: the claimer is recognised by its user.
IsMine_SameUser(c, claimer) == TRUE

\* The prompt_claimed message a connection gets when claimer is granted.
IsMine(c, claimer) == c = claimer

GrantClaim(c) ==
  /\ Reading(c, "claim") /\ Claimable(c)
  /\ Consume(c)
  /\ claim' = c
  /\ grants' = grants + 1
  /\ Put([d \in Registered |-> Plain(IF IsMine(d, c) THEN "mine" ELSE "other")])
  /\ UNCHANGED <<instanceVars, conn, subs, reader, answer, accepted, sent, sock, storeVars, form, clicks>>

RefuseClaim(c) ==
  /\ Reading(c, "claim") /\ ~Claimable(c)
  /\ Consume(c)
  /\ Broadcast({c}, Plain("other"))
  /\ UNCHANGED <<instanceVars, conn, serverVars, sock, storeVars, form, clicks>>

RefuseAnswer(c) ==
  /\ Reading(c, "submit") /\ claim # c
  /\ Consume(c)
  /\ UNCHANGED <<instanceVars, conn, serverVars, outVars, sock, storeVars, form, clicks>>

\* Mutant: the answer does not release the claim.
ClaimAfterAnswer_Kept(c) == claim

\* release_prompt, at the end of broadcast_prompt_answered.
ClaimAfterAnswer(c) == NoConn

AcceptAnswer(c) ==
  /\ Reading(c, "submit") /\ claim = c
  /\ Consume(c)
  /\ Broadcast(Registered, Plain("answered"))
  /\ claim' = ClaimAfterAnswer(c)
  /\ accepted' = Append(accepted, Head(inbox[c]).ask)
  /\ answer' = [answer EXCEPT ![c] = Head(inbox[c]).ask]
  /\ Goto(c, "dispatch")
  /\ UNCHANGED <<instanceVars, conn, subs, grants, sent, sock, storeVars, form, clicks>>

\* The row is found and dispatch_execute succeeds.
DispatchAnswer(c) ==
  /\ reader[c] = "dispatch"
  /\ sent' = Append(sent, answer[c])
  /\ answer' = [answer EXCEPT ![c] = 0]
  /\ Goto(c, "read")
  /\ UNCHANGED <<instanceVars, conn, subs, claim, grants, accepted, outVars, inbox,
                 sock, storeVars, form, clicks>>

\* No row, no access, or no node: the answer is dropped with a log line.
DropAnswer(c) ==
  /\ reader[c] = "dispatch"
  /\ answer' = [answer EXCEPT ![c] = 0]
  /\ Goto(c, "read")
  /\ UNCHANGED <<instanceVars, conn, subs, claim, grants, accepted, sent, outVars,
                 inbox, sock, storeVars, form, clicks>>

-----------------------------------------------------------------------------
(* The network.  A cut loses what the server has not received.               *)

Cut(c) ==
  /\ conn[c] = "open" /\ Cardinality(Lost) < Losses
  /\ conn' = [conn EXCEPT ![c] = "cut"]
  /\ \E n \in 0..Len(inbox[c]) :
       inbox' = [inbox EXCEPT ![c] = Append(SubSeq(@, 1, n), Plain("close"))]
  /\ queue' = [queue EXCEPT ![c] = <<>>]
  /\ lossy' = lossy \ {c}
  /\ UNCHANGED <<instanceVars, serverVars, sock, storeVars, form, clicks>>

-----------------------------------------------------------------------------
(* A tab.                                                                    *)

\* socket.send: silently nothing on a socket that is not open.
Send(c, m) ==
  inbox' = IF conn[c] = "open" THEN [inbox EXCEPT ![c] = Append(@, m)] ELSE inbox

\* A ticket is accepted, the connection registered, and on the new socket the
\* page subscribes to the instance it shows.  The store is kept.
Open(t, c) ==
  /\ sock[t] = NoConn /\ conn[c] = "fresh" /\ Owner[c] = t
  /\ conn' = [conn EXCEPT ![c] = "open"]
  /\ sock' = [sock EXCEPT ![t] = c]
  /\ inbox' = [inbox EXCEPT ![c] = <<Plain("subscribe")>>]
  /\ UNCHANGED <<instanceVars, serverVars, outVars, storeVars, form, clicks>>

\* ws.onclose.
SeeClose(t) ==
  /\ sock[t] # NoConn
  /\ conn[sock[t]] # "open"
  /\ sock' = [sock EXCEPT ![t] = NoConn]
  /\ fresh' = fresh \ {t}
  /\ UNCHANGED <<instanceVars, conn, serverVars, outVars, inbox, status, prompt, shown, form,
                 clicks>>

Store(f, t, value) == [f EXCEPT ![t] = value]

\* Mutant: a replayed question counts as a new one.
PromptAfter_ReplayIsLive(m, old) ==
  CASE m.kind \in {"ask", "replay"} -> IF old \in {"none", "answered"} THEN "pending" ELSE old
    [] m.kind = "over" -> "none"
    [] m.kind \in {"mine", "other", "answered"} -> m.kind
    [] OTHER -> old

\* The promptStates entry handleMessage leaves, given the one it finds.
PromptAfter(m, old) ==
  CASE m.kind = "ask" -> IF old \in {"none", "answered"} THEN "pending" ELSE old
    [] m.kind = "over" -> "none"
    [] m.kind \in {"mine", "other", "answered"} -> m.kind
    [] OTHER -> old

Sets(m, old) == PromptAfter(m, old) # old \/ m.kind \in {"over", "mine", "other", "answered"}

\* ws.onmessage, handleMessage.
Receive(t) ==
  /\ sock[t] # NoConn
  /\ queue[sock[t]] # <<>>
  /\ LET c == sock[t]
         m == Head(queue[c])
     IN  /\ queue' = [queue EXCEPT ![c] = Tail(@)]
         /\ status' = IF m.kind \in {"running", "over"} THEN Store(status, t, m.kind) ELSE status
         /\ shown' = IF m.kind \in {"ask", "replay"} THEN Store(shown, t, m.ask) ELSE shown
         /\ prompt' = Store(prompt, t, PromptAfter(m, prompt[t]))
         /\ fresh' = IF Sets(m, prompt[t]) THEN fresh \cup {t} ELSE fresh
  /\ UNCHANGED <<instanceVars, conn, serverVars, lossy, inbox, sock, form, clicks>>

\* The form is rendered and enabled.
Enabled(t) ==
  /\ status[t] = "running"
  /\ prompt[t] \in {"pending", "mine"}
  /\ shown[t] > 0
  /\ form[t] = NoForm

\* handleSubmit up to its await of the instance row.
Click(t) ==
  /\ Enabled(t) /\ sock[t] # NoConn /\ clicks < Clicks
  /\ clicks' = clicks + 1
  /\ form' = [form EXCEPT ![t] = [sock |-> sock[t], ask |-> shown[t]]]
  /\ Send(sock[t], Plain("claim"))
  /\ UNCHANGED <<instanceVars, conn, serverVars, outVars, sock, storeVars>>

\* The row has a session_id: submit_answer, whatever became of the claim.
Fetched(t) ==
  /\ form[t] # NoForm
  /\ Send(form[t].sock, About("submit", form[t].ask))
  /\ form' = [form EXCEPT ![t] = NoForm]
  /\ UNCHANGED <<instanceVars, conn, serverVars, outVars, sock, storeVars, clicks>>

\* The request fails, or the row has no session_id: nothing more is sent.
FetchFails(t) ==
  /\ form[t] # NoForm
  /\ form' = [form EXCEPT ![t] = NoForm]
  /\ UNCHANGED <<instanceVars, conn, serverVars, outVars, inbox, sock, storeVars, clicks>>

-----------------------------------------------------------------------------
Reader(c) ==
  \/ ReadClose(c) \/ ReaderFails(c)
  \/ ReadSubscribe(c) \/ AccessGranted(c) \/ AccessDenied(c)
  \/ GrantClaim(c) \/ RefuseClaim(c)
  \/ AcceptAnswer(c) \/ RefuseAnswer(c) \/ DispatchAnswer(c) \/ DropAnswer(c)

Page(t) ==
  \/ SeeClose(t) \/ Receive(t) \/ Click(t) \/ Fetched(t) \/ FetchFails(t)
  \/ \E c \in Conn : Open(t, c)

Next ==
  \/ Start \/ Ask \/ Finish
  \/ \E c \in Conn : Reader(c) \/ Cut(c)
  \/ \E t \in Tab : Page(t)

Spec == Init /\ [][Next]_vars

-----------------------------------------------------------------------------
(* Properties.                                                               *)

\* The claim is held by a registered connection: one that went away, in
\* whatever handler it was, never keeps the other tabs out.
ClaimHeldByLive == claim # NoConn => claim \in Registered

\* A tab has the latest word of its connection.
UpToDate(t) ==
  /\ t \in fresh /\ sock[t] # NoConn
  /\ conn[sock[t]] = "open" /\ queue[sock[t]] = <<>> /\ sock[t] \notin lossy

\* An up-to-date tab that is told the claim is its own holds it, so that two
\* such tabs never both believe they may answer.
MineIsHeld == \A t \in Tab : UpToDate(t) /\ prompt[t] = "mine" => claim = sock[t]

\* No answer is accepted twice on one claim, and none without.
OneAnswerPerClaim ==
  Len(accepted) + (IF claim = NoConn THEN 0 ELSE 1) <= grants

\* broadcast_prompt_answered comes before the dispatch: once an answer is on
\* its way to the node, or there, no up-to-date tab still offers its question
\* as one nobody has claimed.
AnsweredIsTold ==
  \A t \in Tab, i \in DOMAIN accepted :
    UpToDate(t) /\ prompt[t] = "pending" => shown[t] # accepted[i]

\* A claim is not taken from its holder: it is released before it passes on.
NoClaimStolen == [][claim # NoConn /\ claim' # claim => claim' = NoConn]_vars

\* RESP-05: a question is answered at most once.
AnsweredOnce ==
  \A i, j \in DOMAIN sent : i # j => sent[i] # sent[j]

=============================================================================
