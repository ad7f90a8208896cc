-------------------------------- MODULE NodePage --------------------------------
(***************************************************************************)
(* The page of one node in one tab (routes/dashboard/$nodeId.tsx): the two  *)
(* forms that dispatch instances, the acknowledgement they wait for, the    *)
(* socket subscriptions, the store's statuses and stream buffers, and the   *)
(* panel of the selected instance; with the server's side of it: rows,      *)
(* in-memory stream buffers and broadcasts, which reach only subscribers.   *)
(* The connection's outgoing queue holds 500 messages of every kind, those  *)
(* the page is not about included, so any put may find it full.             *)
(***************************************************************************)
EXTENDS Naturals, SequencesExt

CONSTANTS
  MaxPosts,    \* POST /api/execute requests the user sends
  MaxEvents,   \* stream events of an instance
  Streaming,   \* the instances that stream
  MaxSelects,  \* clicks on the instance list
  MaxLag,      \* the server goes on when at most so many messages wait for the tab
  MaxFaults    \* failed POSTs, losses of the node and of the tab's socket, messages
               \* refused by a full queue and subscriptions denied, together

ASSUME NodePageAssumption ==
  /\ {MaxPosts, MaxEvents, MaxSelects, MaxLag, MaxFaults} \subseteq Nat
  /\ Streaming \subseteq 1..MaxPosts

VARIABLES
  \* the server
  stage,     \* what became of each instance; its row's status is Row(stage)
  emitted,   \* stream events of each instance so far
  subs,      \* the instances the tab's connection is subscribed to
  inbox,     \* messages on their way to the tab
  outbox,    \* subscriptions on their way to the server
  faults,    \* faults so far
  \* the page (its copy of the node row is left out: it always says "connected")
  selects,   \* clicks on the instance list so far
  socket,    \* is the store's socket open?
  status,    \* instanceStatuses
  buffer,    \* streamBuffers, as the numbers of the events
  active,    \* activeInstanceId
  shown,     \* activeInstanceStatus
  known,     \* the query ['instance', activeInstanceId]: its answer, or where it is
  post,      \* the state of every POST
  sender,    \* the form that sent it
  pend,      \* pendingInstanceId of every form
  missed,    \* history: instances whose last status broadcast could not reach the tab
  holed,     \* history: instances of whose stream a full queue dropped an event
  preset     \* history: instances already selected in the list when their POST returned

serverVars == <<stage, emitted, subs, holed>>
pageVars == <<status, buffer, active, shown, known, post, sender, pend>>
vars == <<serverVars, inbox, outbox, selects, faults, socket, pageVars, missed, preset>>

Form == {"form", "palette"}    \* ExecuteForm and CommandPalette
Instance == 1..MaxPosts        \* the n-th POST dispatches instance n
None == 0

Live == {"pending", "running"}
Row(s) == IF s = "lost" THEN "errored" ELSE s
Statuses == {"pending", "running", "finished", "errored"}

Message == [kind : {"status"}, inst : Instance, body : Statuses]
             \cup [kind : {"event"}, inst : Instance, body : 1..MaxEvents]

TypeOK ==
  /\ stage \in [Instance -> Live \cup {"none", "finished", "lost"}]
  /\ emitted \in [Instance -> 0..MaxEvents]
  /\ socket \in BOOLEAN
  /\ {subs, missed, preset, holed} \subseteq SUBSET Instance
  /\ inbox \in Seq(Message)
  /\ outbox \in Seq(Instance)
  /\ selects \in 0..MaxSelects /\ faults \in 0..MaxFaults
  /\ status \in [Instance -> Statuses \cup {"unknown"}]
  /\ buffer \in [Instance -> Seq(1..MaxEvents)]
  /\ active \in Instance \cup {None}
  /\ shown \in Statuses
  /\ known \in Statuses \cup {"none", "asked"}
  /\ post \in [Instance -> {"unused", "sent", "served", "done", "failed"}]
  /\ sender \in [Instance -> Form \cup {"nobody"}]
  /\ pend \in [Form -> Instance \cup {None}]

Init ==
  /\ stage = [i \in Instance |-> "none"]
  /\ emitted = [i \in Instance |-> 0]
  /\ socket = TRUE
  /\ subs = {} /\ missed = {} /\ preset = {} /\ holed = {}
  /\ inbox = <<>> /\ outbox = <<>>
  /\ selects = 0 /\ faults = 0
  /\ status = [i \in Instance |-> "unknown"]
  /\ buffer = [i \in Instance |-> <<>>]
  /\ active = None /\ shown = "pending" /\ known = "none"
  /\ post = [i \in Instance |-> "unused"]
  /\ sender = [i \in Instance |-> "nobody"]
  /\ pend = [f \in Form |-> None]

\* The bound on what waits for the tab.
GoesOn == Len(inbox) <= MaxLag

\* One of the faults happens.
Fault == faults < MaxFaults /\ faults' = faults + 1

-----------------------------------------------------------------------------
(* The server.                                                                *)

Event(i, n) == [kind |-> "event", inst |-> i, body |-> n]
\* Mutant: the message that was handled instead of the status it leads to.
StatusOf_Frame(i, s) == [kind |-> "status", inst |-> i, body |-> IF s = "running" THEN "ack" ELSE s]
StatusOf(i, s) == [kind |-> "status", inst |-> i, body |-> s]

StatusQueued(i) == {n \in 1..Len(inbox) : inbox[n].kind = "status" /\ inbox[n].inst = i}

Told(i) == i \in subs

\* broadcast_instance_status: only to subscribers, and dropped on a full queue.
BroadcastStatus(i, s) ==
  \/ /\ Told(i)
     /\ inbox' = Append(inbox, StatusOf(i, s))
     /\ missed' = missed \ {i}
     /\ UNCHANGED faults
  \/ /\ IF Told(i) THEN Fault ELSE UNCHANGED faults
     /\ missed' = missed \cup {i}
     /\ UNCHANGED inbox

\* POST /api/execute: dispatch_execute stores the row (a refusal is PostFails).
ServePost(i) ==
  /\ post[i] = "sent"
  /\ stage' = [stage EXCEPT ![i] = "pending"]
  /\ post' = [post EXCEPT ![i] = "served"]
  /\ UNCHANGED <<emitted, subs, holed, inbox, outbox, selects, faults, socket, missed, preset,
                 status, buffer, active, shown, known, sender, pend>>

\* handle_ack, and handle_instance_finished or _error, which needs no ack before.
NodeReports(i) ==
  /\ GoesOn
  /\ \E s \in {"running", "finished"} :
       /\ stage[i] \in Live \ {s}
       /\ stage' = [stage EXCEPT ![i] = s]
       /\ BroadcastStatus(i, s)
  /\ UNCHANGED <<emitted, subs, holed, outbox, selects, socket, pageVars, preset>>

\* handle_instance_started says "running" again.
NodeStarts(i) ==
  /\ GoesOn /\ stage[i] = "running" /\ StatusQueued(i) = {}
  /\ BroadcastStatus(i, "running")
  /\ UNCHANGED <<serverVars, outbox, selects, socket, pageVars, preset>>

\* handle_stream_event: buffered and fanned out in one stretch; a full queue drops it.
NodeStreams(i) ==
  /\ GoesOn /\ i \in Streaming /\ stage[i] = "running" /\ emitted[i] < MaxEvents
  /\ emitted' = [emitted EXCEPT ![i] = @ + 1]
  /\ \/ i \notin subs /\ UNCHANGED <<inbox, holed, faults>>
     \/ i \in subs /\ inbox' = Append(inbox, Event(i, emitted[i] + 1)) /\ UNCHANGED <<holed, faults>>
     \/ i \in subs /\ Fault /\ holed' = holed \cup {i} /\ UNCHANGED inbox
  /\ UNCHANGED <<stage, subs, outbox, selects, socket, pageVars, missed, preset>>

\* handle_unexpected_disconnect errors the live rows and broadcasts only the node.
NodeDown ==
  LET lost == {i \in Instance : stage[i] \in Live} IN
  /\ Fault /\ lost # {}
  /\ stage' = [i \in Instance |-> IF i \in lost THEN "lost" ELSE stage[i]]
  /\ missed' = missed \cup lost
  /\ UNCHANGED <<emitted, subs, holed, inbox, outbox, selects, socket, pageVars, preset>>

\* get_stream_events, their number: emptied when the instance has ended.
Buffered(i) == IF stage[i] = "finished" THEN 0 ELSE emitted[i]

\* The first k of them.
Replay(i, k) == [n \in 1..k |-> Event(i, n)]

SubscribeTo_LiveOnly(i) ==     \* mutant: no replay
  subs' = subs \cup {i} /\ holed' = holed \ {i} /\ UNCHANGED <<inbox, faults>>
\* The replay stops at the first event that finds the queue full.
SubscribeTo(i) ==
  /\ subs' = subs \cup {i}
  /\ \E k \in 0..Buffered(i) :
       /\ inbox' = inbox \o Replay(i, k)
       /\ IF k = Buffered(i) THEN holed' = holed \ {i} /\ UNCHANGED faults
                           ELSE holed' = holed \cup {i} /\ Fault

\* The subscribe message: denied, or subscribed and the buffered events replayed.
TakeSubscribe ==
  /\ GoesOn /\ outbox # <<>>
  /\ \/ Fault /\ UNCHANGED <<subs, inbox, holed>>
     \/ SubscribeTo(Head(outbox))
  /\ outbox' = Tail(outbox)
  /\ UNCHANGED <<stage, emitted, selects, socket, pageVars, missed, preset>>

ServeKnown_StoreOnly ==        \* mutant: no fallback to the API's status
  /\ known = "asked"
  /\ known' = Row(stage[active])
  /\ UNCHANGED <<serverVars, inbox, outbox, selects, faults, socket, missed, preset,
                 status, buffer, active, shown, post, sender, pend>>
\* GET /api/instances/{id}: shown until the store knows a status.
ServeKnown ==
  /\ known = "asked"
  /\ known' = Row(stage[active])
  /\ shown' = IF status[active] = "unknown" THEN Row(stage[active]) ELSE shown
  /\ UNCHANGED <<serverVars, inbox, outbox, selects, faults, socket, missed, preset,
                 status, buffer, active, post, sender, pend>>

-----------------------------------------------------------------------------
(* The forms.                                                                 *)

\* isAwaitingAck; the render that finds the status clears pendingInstanceId.
IsAwaitingAck(f) == pend[f] # None

\* mutation.isPending: of the form's latest request.
IsPending(f) ==
  LET mine == {i \in Instance : sender[i] = f}
  IN  mine # {} /\ post[CHOOSE i \in mine : \A j \in mine : j <= i] \in {"sent", "served"}

\* The Run Task button, and Dispatch under a command with parameters.
Enabled(f) == ~IsPending(f) /\ ~IsAwaitingAck(f)

Submit(f) ==
  \E i \in Instance :
    /\ post[i] = "unused" /\ \A j \in 1..(i - 1) : post[j] # "unused"
    /\ post' = [post EXCEPT ![i] = "sent"]
    /\ sender' = [sender EXCEPT ![i] = f]
    /\ UNCHANGED <<serverVars, inbox, outbox, selects, faults, socket, missed, preset,
                   status, buffer, active, shown, known, pend>>

ClickRun(f) == Enabled(f) /\ Submit(f)

\* handleCommandClick on a command without parameters asks for neither.
ClickCommand == Submit("palette")

\* The effects of a new activeInstanceId: subscribe, and ask the API for the row.
Activate(i, sent) ==
  /\ active' = i
  /\ known' = IF active = i THEN known ELSE "asked"
  /\ outbox' = outbox \o sent \o (IF socket /\ active # i THEN <<i>> ELSE <<>>)

PendAfter_Always(i) == i        \* mutant: a status already known is not looked at
\* setPendingInstanceId, cleared by the next render if the store knows a status.
PendAfter(i) == IF status[i] = "unknown" THEN i ELSE None

\* onSuccess: remember, subscribe, select.
PostReturns(i) ==
  /\ post[i] = "served"
  /\ post' = [post EXCEPT ![i] = "done"]
  /\ pend' = [pend EXCEPT ![sender[i]] = PendAfter(i)]
  /\ Activate(i, IF socket THEN <<i>> ELSE <<>>)
  /\ shown' = IF active = i \/ status[i] = "unknown" THEN "pending" ELSE status[i]
  /\ preset' = IF active = i THEN preset \cup {i} ELSE preset
  /\ UNCHANGED <<serverVars, inbox, selects, faults, socket, missed, status, buffer, sender>>

\* A refusal, a lost request or a lost answer: the form may be sent again.
PostFails(i) ==
  /\ Fault /\ post[i] \in {"sent", "served"}
  /\ post' = [post EXCEPT ![i] = "failed"]
  /\ UNCHANGED <<serverVars, inbox, outbox, selects, socket, missed, preset,
                 status, buffer, active, shown, known, sender, pend>>

-----------------------------------------------------------------------------
(* The socket, the store and the panel.                                       *)

\* A row of the instance list: selected, but its status is not yet looked up.
Select(i) ==
  /\ stage[i] # "none" /\ active # i
  /\ selects < MaxSelects /\ selects' = selects + 1
  /\ Activate(i, <<>>)
  /\ shown' = IF status[i] = "unknown" THEN shown ELSE status[i]
  /\ UNCHANGED <<serverVars, inbox, faults, socket, missed, preset,
                 status, buffer, post, sender, pend>>

SetStatus_First(i, s) ==       \* mutant: a status already stored is kept
  status' = [status EXCEPT ![i] = IF @ = "unknown" THEN s ELSE @]
SetStatus(i, s) == status' = [status EXCEPT ![i] = s]

\* handleMessage: instance_status.  The query of the active instance follows.
ReceiveStatus ==
  LET m == Head(inbox) IN
  /\ inbox # <<>> /\ m.kind = "status"
  /\ inbox' = Tail(inbox)
  /\ SetStatus(m.inst, m.body)
  /\ shown' = IF active = m.inst THEN m.body ELSE shown
  /\ pend' = [f \in Form |-> IF pend[f] = m.inst THEN None ELSE pend[f]]
  /\ UNCHANGED <<serverVars, outbox, selects, faults, socket, missed, preset,
                 buffer, active, known, post, sender>>

\* handleMessage: stream_event.
ReceiveEvent ==
  LET m == Head(inbox) IN
  /\ inbox # <<>> /\ m.kind = "event"
  /\ inbox' = Tail(inbox)
  /\ buffer' = [buffer EXCEPT ![m.inst] = Append(@, m.body)]
  /\ UNCHANGED <<serverVars, outbox, selects, faults, socket, missed, preset,
                 status, active, shown, known, post, sender, pend>>

\* The socket closes: what was under way is lost, the server forgets the connection.
SocketDrop ==
  /\ socket /\ Fault
  /\ socket' = FALSE
  /\ subs' = {} /\ inbox' = <<>> /\ outbox' = <<>> /\ holed' = {}
  /\ missed' = missed \cup {m.inst : m \in {x \in ToSet(inbox) : x.kind = "status"}}
  /\ UNCHANGED <<stage, emitted, selects, pageVars, preset>>

\* A new socket: only the active instance is subscribed again.
SocketOpen ==
  /\ ~socket
  /\ socket' = TRUE
  /\ outbox' = IF active # None THEN <<active>> ELSE <<>>
  /\ UNCHANGED <<serverVars, inbox, selects, faults, pageVars, missed, preset>>

\* What is rendered beside the forms: the live stream with the Kill button and the
\* prompt form, or the events of the database.
Panel == CASE active = None   -> "nothing"
           [] active # None /\ shown \in Live -> "stream"
           [] OTHER           -> "history"

-----------------------------------------------------------------------------
Next ==
  \/ \E i \in Instance :
       ServePost(i) \/ NodeReports(i) \/ NodeStarts(i) \/ NodeStreams(i) \/ PostReturns(i) \/ PostFails(i) \/ Select(i)
  \/ NodeDown \/ TakeSubscribe \/ ServeKnown
  \/ \E f \in Form : ClickRun(f)
  \/ ClickCommand
  \/ ReceiveStatus \/ ReceiveEvent \/ SocketDrop \/ SocketOpen

Spec == Init /\ [][Next]_vars

-----------------------------------------------------------------------------
(* Properties.                                                                *)

LastStatus(i) == IF StatusQueued(i) = {} THEN status[i] ELSE inbox[Max(StatusQueued(i))].body

\* The store catches up: unless an instance's last broadcast could not reach the tab
\* (not subscribed, dropped on a full queue, socket lost, or none was sent), the tab
\* holds or is about to receive the status of the row.
StatusCatchesUp ==
  \A i \in Instance :
    stage[i] \notin {"none", "pending"} /\ i \notin missed => LastStatus(i) = Row(stage[i])

\* "Awaiting ACK..." has a reason: the row is pending, or the message is on its way,
\* or it is one of the missed ones.
AwaitingHasReason ==
  \A f \in Form : pend[f] # None =>
    \/ stage[pend[f]] = "pending"
    \/ StatusQueued(pend[f]) # {}
    \/ pend[f] \in missed

EventQueued(i) == {k \in 1..Len(inbox) : inbox[k].kind = "event" /\ inbox[k].inst = i}

\* A subscription and its replay leave no hole but what a full queue drops, and the
\* next replay that finds room closes that one too: whatever was received before, the
\* stream of a live subscribed instance ends in all its events, in order: the first
\* b are the last ones received, and the others are the last ones on their way, at
\* the positions at[n] of the queue; nothing of the instance comes between or behind.
StreamComplete ==
  \A i \in subs \ holed : stage[i] \in Live =>
    \E b \in 0..emitted[i] : \E at \in [(b + 1)..emitted[i] -> EventQueued(i)] :
      /\ Len(buffer[i]) >= b
      /\ \A n \in 1..b : buffer[i][Len(buffer[i]) - b + n] = n
      /\ \A n \in (b + 1)..emitted[i] : inbox[at[n]].body = n
      /\ \A m, n \in (b + 1)..emitted[i] : m < n => at[m] < at[n]
      /\ emitted[i] > 0 => \A k \in EventQueued(i) :
           \/ \E n \in (b + 1)..emitted[i] : at[n] = k
           \/ b = 0 /\ \A n \in 1..emitted[i] : k < at[n]

\* With nothing under way the panel of an up-to-date instance streams, and can kill,
\* exactly when the instance is live.
PanelShowsRow ==
  active # None /\ socket /\ inbox = <<>> /\ outbox = <<>> /\ known # "asked" /\ active \notin missed \cup preset
    => Panel = IF stage[active] \in Live THEN "stream" ELSE "history"
=============================================================================
