------------------------------ MODULE NodeSession ------------------------------
(***************************************************************************)
(* The server's side of one node's sessions: the /ws/node endpoint and its *)
(* message loop (ws/router.py), the handlers it calls (ws/handlers.py), the *)
(* connection registry with the per-node lock (ws/manager.py), command      *)
(* dispatch (ws/commands.py) and the stale-node scanner (ws/health.py),     *)
(* against the node program of protocol-spec.md as environment.             *)
(*                                                                          *)
(* The server is one asyncio event loop: code between two awaits is atomic, *)
(* and an action here is exactly such a stretch.  A database transaction is *)
(* two actions, the one that reads its rows and the one that commits, since *)
(* other coroutines run in between.  Everything in the code is keyed by     *)
(* node_id (registry entry, lock, rows), so one node is modelled.           *)
(***************************************************************************)
EXTENDS Naturals, Sequences

CONSTANTS
  Conn,         \* WebSockets; one is reused once its endpoint has returned
  Instance,     \* instance ids
  NoConn,       \* None, where the code may hold a NodeConnection
  NoInst,       \* the instance of a frame that names none
  Foreign,      \* instances the node runs although the database never had them
  Overlap,      \* may the node reconnect before the server noticed the drop?
  MaxScans,     \* bound on the stale-scanner passes that find the node stale
  MaxRestarts,  \* bound on server crashes
  MaxCommands   \* bound on kill and status_request commands

ASSUME NodeSessionAssumption ==
  /\ NoConn \notin Conn
  /\ NoInst \notin Instance
  /\ Foreign \subseteq Instance
  /\ Overlap \in BOOLEAN
  /\ MaxScans \in Nat /\ MaxRestarts \in Nat /\ MaxCommands \in Nat

VARIABLES
  nodeConn,   \* the socket the node believes it is connected by
  nodeInst,   \* what the node knows of each instance
  link,       \* state of each socket
  toServer,   \* frames the node sent on each socket, not yet received
  toNode,     \* commands the server sent on each socket, not yet received
  pc,         \* where the endpoint coroutine of each socket is
  looping,    \* endpoints that have entered the message loop
  job,        \* the frame an endpoint is handling
  target,     \* the connection object a registration will register
  seenNode,   \* node status an open transaction has loaded
  view,       \* instance rows an open transaction has loaded
  registry,   \* ConnectionManager._connections.get(node_id)
  lockQueue,  \* holder and waiters of ConnectionManager._node_locks[node_id]
  buffered,   \* instances with an entry in ConnectionManager._instance_streams
  signalled,  \* instances signal_completion was called for
  dbNode,     \* nodes.status
  db,         \* instances.status, "absent" when there is no row
  told,       \* the last instance_status broadcast to the frontends
  toldNode,   \* the last node status broadcast to the frontends
  disp,       \* progress of the dispatch_execute call that created an instance
  commands,   \* kill and status_request commands sent so far
  scan,       \* where the scanner is with this node
  scanSeen,   \* node status its transaction has loaded
  scans, restarts

nodeVars == <<nodeConn, nodeInst>>
netVars  == <<link, toServer, toNode>>
taskVars == <<pc, looping, job, target, seenNode, view>>
memVars  == <<registry, lockQueue, buffered, signalled>>
dbVars   == <<dbNode, db>>
uiVars   == <<told, toldNode>>
cmdVars  == <<disp, commands>>
scanVars == <<scan, scanSeen, scans>>
vars == <<nodeVars, netVars, taskVars, memVars, dbVars, uiVars, cmdVars,
          scanVars, restarts>>

-----------------------------------------------------------------------------
Live == {"pending", "running"}
InstanceStatus == {"absent"} \cup Live \cup {"finished", "errored"}
NodeStatus == {"absent", "connected", "stale", "disconnected"}
NodeInstStatus == {"none", "accepted", "started", "streamed", "ended", "lost"}
FrameKind == {"none", "node_register", "ack", "instance_started",
              "stream_event", "instance_finished", "instance_error",
              "node_disconnect", "execute", "kill", "status_request"}
Impersonal == {"none", "node_register", "node_disconnect", "status_request"}
Frame == {f \in [kind : FrameKind, inst : Instance \cup {NoInst},
                 running : SUBSET Instance] :
            f.kind \notin Impersonal => f.inst \in Instance}

\* idle, done and crashed: no endpoint runs for the socket.
Over == {"idle", "done", "crashed"}
\* Inside "async with connection_manager.get_lock(node_id)".
Registering == {"close", "node", "select", "commit", "announce"}
PC == Over \cup Registering \cup
      {"first", "lock", "loop", "write", "after", "bye", "drop"}

\* open; gone: the peer dropped it and the server may not know yet; closing:
\* the server closed it while a receive was pending; dead: nothing is received.
Link == {"open", "gone", "closing", "dead"}

Msg(kind, i) == [kind |-> kind, inst |-> i, running |-> {}]
NoFrame == Msg("none", NoInst)
NoView == [i \in Instance |-> "absent"]

TypeOK ==
  /\ nodeConn \in Conn \cup {NoConn}
  /\ nodeInst \in [Instance -> NodeInstStatus]
  /\ link \in [Conn -> Link]
  /\ toServer \in [Conn -> Seq(Frame)]
  /\ toNode \in [Conn -> Seq(Frame)]
  /\ pc \in [Conn -> PC]
  /\ looping \subseteq Conn
  /\ job \in [Conn -> Frame]
  /\ target \in [Conn -> Conn \cup {NoConn}]
  /\ seenNode \in [Conn -> NodeStatus]
  /\ view \in [Conn -> [Instance -> InstanceStatus]]
  /\ registry \in Conn \cup {NoConn}
  /\ lockQueue \in Seq(Conn)
  /\ buffered \subseteq Instance
  /\ signalled \subseteq Instance
  /\ dbNode \in NodeStatus
  /\ db \in [Instance -> InstanceStatus]
  /\ told \in [Instance -> InstanceStatus]
  /\ toldNode \in NodeStatus
  /\ disp \in [Instance -> {"none", "checked", "stored", "unsent", "sent",
                            "refused", "raised"}]
  /\ commands \in Nat
  /\ scan \in {"idle", "commit", "close", "drop"}
  /\ scanSeen \in NodeStatus
  /\ scans \in Nat
  /\ restarts \in Nat

Init ==
  /\ nodeConn = NoConn
  /\ nodeInst = [i \in Instance |-> IF i \in Foreign THEN "started" ELSE "none"]
  /\ link = [c \in Conn |-> "dead"]
  /\ toServer = [c \in Conn |-> <<>>]
  /\ toNode = [c \in Conn |-> <<>>]
  /\ pc = [c \in Conn |-> "idle"]
  /\ looping = {}
  /\ job = [c \in Conn |-> NoFrame]
  /\ target = [c \in Conn |-> NoConn]
  /\ seenNode = [c \in Conn |-> "absent"]
  /\ view = [c \in Conn |-> NoView]
  /\ registry = NoConn
  /\ lockQueue = <<>>
  /\ buffered = {}
  /\ signalled = {}
  /\ dbNode = "absent"
  /\ db = [i \in Instance |-> "absent"]
  /\ told = [i \in Instance |-> "absent"]
  /\ toldNode = "absent"
  /\ disp = [i \in Instance |-> "none"]
  /\ commands = 0
  /\ scan = "idle"
  /\ scanSeen = "absent"
  /\ scans = 0
  /\ restarts = 0

-----------------------------------------------------------------------------
(* The node program (protocol-spec.md), as far as the server can tell.      *)

Running == {i \in Instance : nodeInst[i] \in {"accepted", "started", "streamed"}}
RegisterFrame == [kind |-> "node_register", inst |-> NoInst, running |-> Running]

\* A frame the node sends while it has no working socket is lost.
Emit(frame) ==
  toServer' = IF nodeConn # NoConn /\ link[nodeConn] = "open"
              THEN [toServer EXCEPT ![nodeConn] = Append(@, frame)]
              ELSE toServer

\* Dial, upgrade with a valid token, and send node_register as first frame.
NodeConnect(c) ==
  /\ nodeConn = NoConn
  /\ pc[c] \in Over
  /\ registry # c
  /\ \A d \in Conn : target[d] # c
  /\ Overlap \/ \A d \in Conn : pc[d] \in Over
  /\ nodeConn' = c
  /\ link' = [link EXCEPT ![c] = "open"]
  /\ toServer' = [toServer EXCEPT ![c] = <<RegisterFrame>>]
  /\ toNode' = [toNode EXCEPT ![c] = <<>>]
  /\ pc' = [pc EXCEPT ![c] = "first"]
  /\ UNCHANGED <<nodeInst, looping, job, target, seenNode, view, memVars,
                 dbVars, uiVars, cmdVars, scanVars, restarts>>

Command(kind) ==
  /\ nodeConn # NoConn
  /\ toNode[nodeConn] # <<>>
  /\ Head(toNode[nodeConn]).kind = kind
  /\ toNode' = [toNode EXCEPT ![nodeConn] = Tail(@)]

\* execute: accept and ack, or refuse at once because of the rate limit.
NodeExecute ==
  /\ Command("execute")
  /\ LET i == Head(toNode[nodeConn]).inst
     IN \/ /\ nodeInst' = [nodeInst EXCEPT ![i] = "accepted"]
           /\ Emit(Msg("ack", i))
        \/ /\ nodeInst' = [nodeInst EXCEPT ![i] = "ended"]
           /\ Emit(Msg("instance_error", i))
  /\ UNCHANGED <<nodeConn, link, taskVars, memVars, dbVars, uiVars, cmdVars,
                 scanVars, restarts>>

\* The one terminal event of i; a subprocess that never started cannot finish.
NodeEnd(i) ==
  /\ i \in Running
  /\ \E kind \in {"instance_finished", "instance_error"} :
       /\ nodeInst[i] = "accepted" => kind = "instance_error"
       /\ Emit(Msg(kind, i))
  /\ nodeInst' = [nodeInst EXCEPT ![i] = "ended"]

NodeInstanceEnds(i) ==
  /\ NodeEnd(i)
  /\ UNCHANGED <<nodeConn, link, toNode, taskVars, memVars, dbVars, uiVars,
                 cmdVars, scanVars, restarts>>

NodeKill ==
  /\ Command("kill")
  /\ LET i == Head(toNode[nodeConn]).inst
     IN IF i \in Running THEN NodeEnd(i) ELSE UNCHANGED <<nodeInst, toServer>>
  /\ UNCHANGED <<nodeConn, link, taskVars, memVars, dbVars, uiVars, cmdVars,
                 scanVars, restarts>>

NodeStatusReply ==
  /\ Command("status_request")
  /\ Emit(RegisterFrame)
  /\ UNCHANGED <<nodeVars, link, taskVars, memVars, dbVars, uiVars, cmdVars,
                 scanVars, restarts>>

NodeInstanceStarts(i) ==
  /\ nodeInst[i] = "accepted"
  /\ nodeInst' = [nodeInst EXCEPT ![i] = "started"]
  /\ Emit(Msg("instance_started", i))
  /\ UNCHANGED <<nodeConn, link, toNode, taskVars, memVars, dbVars, uiVars,
                 cmdVars, scanVars, restarts>>

NodeInstanceStreams(i) ==
  /\ nodeInst[i] = "started"
  /\ nodeInst' = [nodeInst EXCEPT ![i] = "streamed"]
  /\ Emit(Msg("stream_event", i))
  /\ UNCHANGED <<nodeConn, link, toNode, taskVars, memVars, dbVars, uiVars,
                 cmdVars, scanVars, restarts>>

LoseRunning ==
  nodeInst' = [i \in Instance |-> IF i \in Running THEN "lost" ELSE nodeInst[i]]

Hangup ==
  /\ nodeConn' = NoConn
  /\ toNode' = [c \in Conn |-> IF c = nodeConn THEN <<>> ELSE toNode[c]]

\* The connection drops; the instances go on.
NodeDrop ==
  /\ nodeConn # NoConn
  /\ link[nodeConn] = "open"
  /\ link' = [link EXCEPT ![nodeConn] = "gone"]
  /\ Hangup
  /\ UNCHANGED <<nodeInst, toServer, taskVars, memVars, dbVars, uiVars, cmdVars,
                 scanVars, restarts>>

\* The node process dies with its instances.
NodeCrash ==
  /\ Running # {}
  /\ LoseRunning
  /\ link' = [c \in Conn |-> IF c = nodeConn /\ link[c] = "open"
                             THEN "gone" ELSE link[c]]
  /\ Hangup
  /\ UNCHANGED <<toServer, taskVars, memVars, dbVars, uiVars, cmdVars,
                 scanVars, restarts>>

\* Clean shutdown: drain at most ten seconds, node_disconnect, close.
NodeShutdown ==
  /\ nodeConn # NoConn
  /\ link[nodeConn] = "open"
  /\ LoseRunning
  /\ Emit(Msg("node_disconnect", NoInst))
  /\ link' = [link EXCEPT ![nodeConn] = "gone"]
  /\ Hangup
  /\ UNCHANGED <<taskVars, memVars, dbVars, uiVars, cmdVars, scanVars, restarts>>

\* The node sees that the server closed its socket.
NodeSeesClose ==
  /\ nodeConn # NoConn
  /\ link[nodeConn] \in {"closing", "dead"}
  /\ Hangup
  /\ UNCHANGED <<nodeInst, link, toServer, taskVars, memVars, dbVars, uiVars,
                 cmdVars, scanVars, restarts>>

Node ==
  \/ \E c \in Conn : NodeConnect(c)
  \/ NodeExecute
  \/ NodeKill
  \/ NodeStatusReply
  \/ \E i \in Instance : \/ NodeInstanceStarts(i)
                         \/ NodeInstanceStreams(i)
                         \/ NodeInstanceEnds(i)
  \/ NodeDrop
  \/ NodeCrash
  \/ NodeShutdown
  \/ NodeSeesClose

-----------------------------------------------------------------------------
(* Helpers shared by the server's coroutines.                               *)

\* What an ORM flush leaves in a column: a value equal to the one loaded is not
\* written, so that a commit made in between survives.
OrmWrite(seen, new, current) == IF seen = new THEN current ELSE new

\* Mutants of BulkErrored: a status the column has no value for; no WHERE clause.
BulkErrored_BadStatus == [i \in Instance |-> IF db[i] \in Live THEN "lost" ELSE db[i]]
BulkErrored_NoFilter ==
  [i \in Instance |-> IF db[i] = "absent" THEN "absent" ELSE "errored"]

\* UPDATE instances SET status = errored WHERE status IN (pending, running)
BulkErrored ==
  [i \in Instance |-> IF db[i] \in Live THEN "errored" ELSE db[i]]

\* websocket.close() by the server.  A receive that is already pending may still
\* return one frame; Starlette refuses any receive that starts later.
ServerClose(c) ==
  LET l == IF pc[c] = "loop" /\ link[c] # "dead" THEN "closing" ELSE "dead"
  IN /\ link' = [link EXCEPT ![c] = l]
     /\ toServer' = IF l = "dead" THEN [toServer EXCEPT ![c] = <<>>] ELSE toServer

\* The per-node lock is fair: the head of the queue holds it.
HoldsLock_NoLock(c) == TRUE          \* mutant: registration without the lock
HoldsLock(c) == Head(lockQueue) = c

ReleaseLock_Never == UNCHANGED lockQueue    \* mutant: the lock is not released
ReleaseLock == lockQueue' = Tail(lockQueue)

Deregister == registry' = NoConn

EndTransaction(c) ==
  /\ job' = [job EXCEPT ![c] = NoFrame]
  /\ seenNode' = [seenNode EXCEPT ![c] = "absent"]
  /\ view' = [view EXCEPT ![c] = NoView]

-----------------------------------------------------------------------------
(* handle_node_register                                                     *)

\* First frame received, connection object built, queued for the node's lock.
ReceiveFirst(c) ==
  /\ pc[c] = "first"
  /\ link[c] \in {"open", "gone"}
  /\ toServer[c] # <<>>
  /\ toServer' = [toServer EXCEPT ![c] = Tail(@)]
  /\ job' = [job EXCEPT ![c] = Head(toServer[c])]
  /\ target' = [target EXCEPT ![c] = c]
  /\ lockQueue' = Append(lockQueue, c)
  /\ pc' = [pc EXCEPT ![c] = "lock"]
  /\ UNCHANGED <<nodeVars, link, toNode, looping, seenNode, view, registry,
                 buffered, signalled, dbVars, uiVars, cmdVars, scanVars, restarts>>

\* Disconnected before the first frame: the endpoint returns.
FirstLost(c) ==
  /\ pc[c] = "first"
  /\ link[c] = "gone"
  /\ link' = [link EXCEPT ![c] = "dead"]
  /\ toServer' = [toServer EXCEPT ![c] = <<>>]
  /\ pc' = [pc EXCEPT ![c] = "done"]
  /\ UNCHANGED <<nodeVars, toNode, looping, job, target, seenNode,
                 view, memVars, dbVars, uiVars, cmdVars, scanVars, restarts>>

\* Lock acquired: start closing another connection of this node, or register.
AcquireLock(c) ==
  /\ pc[c] = "lock"
  /\ HoldsLock(c)
  /\ IF registry \notin {NoConn, target[c]}
     THEN /\ ServerClose(registry)
          /\ pc' = [pc EXCEPT ![c] = "close"]
          /\ UNCHANGED registry
     ELSE /\ registry' = target[c]
          /\ pc' = [pc EXCEPT ![c] = "node"]
          /\ UNCHANGED <<link, toServer>>
  /\ UNCHANGED <<nodeVars, toNode, looping, job, target, seenNode, view, lockQueue,
                 buffered, signalled, dbVars, uiVars, cmdVars, scanVars, restarts>>

\* Mutant: the new connection is registered before the node_id is deregistered.
CloseDone_DeregisterLast(c) ==
  /\ pc[c] = "close"
  /\ registry' = NoConn
  /\ pc' = [pc EXCEPT ![c] = "node"]
  /\ UNCHANGED <<nodeVars, netVars, looping, job, target, seenNode, view,
                 lockQueue, buffered, signalled, dbVars, uiVars, cmdVars,
                 scanVars, restarts>>

\* The close returned: deregister the node_id, register the new connection.
CloseDone(c) ==
  /\ pc[c] = "close"
  /\ registry' = target[c]
  /\ pc' = [pc EXCEPT ![c] = "node"]
  /\ UNCHANGED <<nodeVars, netVars, looping, job, target, seenNode, view,
                 lockQueue, buffered, signalled, dbVars, uiVars, cmdVars,
                 scanVars, restarts>>

\* The transaction opens and loads the node row.
LoadNode(c) ==
  /\ pc[c] = "node"
  /\ seenNode' = [seenNode EXCEPT ![c] = dbNode]
  /\ pc' = [pc EXCEPT ![c] = "select"]
  /\ UNCHANGED <<nodeVars, netVars, looping, job, target, view, memVars, dbVars,
                 uiVars, cmdVars, scanVars, restarts>>

\* reconcile_instances: it loads the node's live instance rows.
LoadRows(c) ==
  /\ pc[c] = "select"
  /\ view' = [view EXCEPT ![c] = [i \in Instance |->
                IF db[i] \in Live THEN db[i] ELSE "absent"]]
  /\ pc' = [pc EXCEPT ![c] = "commit"]
  /\ UNCHANGED <<nodeVars, netVars, looping, job, target, seenNode, memVars,
                 dbVars, uiVars, cmdVars, scanVars, restarts>>

Lost_Ignored(c) == {}     \* mutant: vanished instances are not marked

\* reconcile_instances: the three classes of instances of a loaded view.
Lost(c)    == {i \in Instance : view[c][i] \in Live /\ i \notin job[c].running}
New(c)     == {i \in job[c].running : view[c][i] \notin Live}
Matched(c) == {i \in job[c].running : view[c][i] \in Live}

\* The new instances are INSERTed: a row of any status is a key conflict.
InsertConflict(c) == \E i \in New(c) : db[i] # "absent"

\* Mutant: a vanished instance is taken for one that finished.
Reconciled_LostFinished(c) ==
  [i \in Instance |-> CASE i \in Lost(c)    -> "finished"
                        [] i \in New(c)     -> "running"
                        [] i \in Matched(c) -> OrmWrite(view[c][i], "running", db[i])
                        [] OTHER            -> db[i]]

Reconciled(c) ==
  [i \in Instance |-> CASE i \in Lost(c)    -> "errored"
                        [] i \in New(c)     -> "running"
                        [] i \in Matched(c) -> OrmWrite(view[c][i], "running", db[i])
                        [] OTHER            -> db[i]]

CommitRegister(c) ==
  /\ pc[c] = "commit"
  /\ ~InsertConflict(c)
  /\ dbNode' = OrmWrite(seenNode[c], "connected", dbNode)
  /\ db' = Reconciled(c)
  /\ EndTransaction(c)
  /\ pc' = [pc EXCEPT ![c] = "announce"]
  /\ UNCHANGED <<nodeVars, netVars, looping, target, memVars, uiVars, cmdVars,
                 scanVars, restarts>>

\* Rollback and re-raise.  The lock is released; the registry entry stays.  The
\* first registration is outside any try: the endpoint dies, its socket closes.
FailRegister(c) ==
  /\ pc[c] = "commit"
  /\ InsertConflict(c)
  /\ EndTransaction(c)
  /\ target' = [target EXCEPT ![c] = NoConn]
  /\ ReleaseLock
  /\ IF c \in looping
     THEN /\ pc' = [pc EXCEPT ![c] = "loop"]
          /\ UNCHANGED <<link, toServer>>
     ELSE /\ pc' = [pc EXCEPT ![c] = "crashed"]
          /\ link' = [link EXCEPT ![c] = "dead"]
          /\ toServer' = [toServer EXCEPT ![c] = <<>>]
  /\ UNCHANGED <<nodeVars, toNode, looping, registry, buffered,
                 signalled, dbVars, uiVars, cmdVars, scanVars, restarts>>

AnnounceRegister(c) ==
  /\ pc[c] = "announce"
  /\ toldNode' = "connected"
  /\ target' = [target EXCEPT ![c] = NoConn]
  /\ ReleaseLock
  /\ looping' = looping \cup {c}
  /\ pc' = [pc EXCEPT ![c] = "loop"]
  /\ UNCHANGED <<nodeVars, netVars, job, seenNode, view, registry, buffered,
                 signalled, dbVars, told, cmdVars, scanVars, restarts>>

-----------------------------------------------------------------------------
(* The message loop and the handlers of the other frames.                   *)

TakeFrame(c) ==
  /\ pc[c] = "loop"
  /\ link[c] # "dead"
  /\ toServer[c] # <<>>
  /\ toServer' = [toServer EXCEPT ![c] = Tail(@)]
  /\ link' = [link EXCEPT ![c] = IF @ = "closing" THEN "dead" ELSE @]

\* node_register inside the loop: the object registered again is whatever the
\* registry holds; without an entry the frame is ignored.
ReceiveRegister(c) ==
  /\ TakeFrame(c)
  /\ LET f == Head(toServer[c])
     IN /\ f.kind = "node_register"
        /\ IF registry = NoConn
           THEN UNCHANGED <<pc, job, target, lockQueue>>
           ELSE /\ job' = [job EXCEPT ![c] = f]
                /\ target' = [target EXCEPT ![c] = registry]
                /\ lockQueue' = Append(lockQueue, c)
                /\ pc' = [pc EXCEPT ![c] = "lock"]
  /\ UNCHANGED <<nodeVars, toNode, looping, seenNode, view, registry, buffered,
                 signalled, dbVars, uiVars, cmdVars, scanVars, restarts>>

\* Any other frame: its handler opens a transaction and loads the row it needs.
ReceiveEvent(c) ==
  /\ TakeFrame(c)
  /\ LET f == Head(toServer[c])
     IN /\ f.kind # "node_register"
        /\ job' = [job EXCEPT ![c] = f]
        /\ seenNode' = [seenNode EXCEPT ![c] =
             IF f.kind = "node_disconnect" THEN dbNode ELSE "absent"]
        /\ view' = [view EXCEPT ![c] =
             [i \in Instance |-> IF i = f.inst THEN db[i] ELSE "absent"]]
  /\ pc' = [pc EXCEPT ![c] = "write"]
  /\ UNCHANGED <<nodeVars, toNode, looping, target, memVars, dbVars, uiVars,
                 cmdVars, scanVars, restarts>>

\* Mutant: instance_error is only accepted for a running instance.
NewStatus_ErrorIfRunning(kind, seen) ==
  CASE kind \in {"ack", "instance_started"} -> "running"
    [] kind = "instance_finished"           -> "finished"
    [] kind = "instance_error" /\ seen = "running" -> "errored"
    [] OTHER                                -> seen

\* The status a handler gives the row it loaded.
NewStatus(kind, seen) ==
  CASE kind = "ack"               -> IF seen = "pending" THEN "running" ELSE seen
    [] kind = "instance_started"  -> "running"
    [] kind = "instance_finished" -> "finished"
    [] kind = "instance_error"    -> "errored"
    [] OTHER                      -> seen

CommitEvent(c) ==
  /\ pc[c] = "write"
  /\ LET Row(i) == OrmWrite(view[c][i], NewStatus(job[c].kind, view[c][i]), db[i])
     IN db' = [i \in Instance |->
                IF i = job[c].inst /\ view[c][i] # "absent" THEN Row(i) ELSE db[i]]
  /\ dbNode' = IF seenNode[c] = "absent" THEN dbNode
               ELSE OrmWrite(seenNode[c], "disconnected", dbNode)
  /\ pc' = [pc EXCEPT ![c] = "after"]
  /\ UNCHANGED <<nodeVars, netVars, looping, job, target, seenNode, view, memVars,
                 uiVars, cmdVars, scanVars, restarts>>

\* After the commit: the in-memory buffer, the broadcasts, the completion event
\* a sequence may be waiting for, the registry.
AfterEvent(c) ==
  /\ pc[c] = "after"
  /\ LET kind == job[c].kind
         ends == kind \in {"instance_finished", "instance_error"}
         i == job[c].inst
         shown == CASE kind \in {"ack", "instance_started"} -> "running"
                    [] kind = "instance_finished"           -> "finished"
                    [] OTHER                                -> "errored"
     IN /\ buffered' = IF kind = "stream_event" THEN buffered \cup {i}
                       ELSE IF ends THEN buffered \ {i} ELSE buffered
        /\ told' = [j \in Instance |->
             IF j = i /\ kind # "stream_event" THEN shown ELSE told[j]]
        /\ signalled' = IF ends THEN signalled \cup {i} ELSE signalled
        /\ registry' = IF kind = "node_disconnect" THEN NoConn ELSE registry
        /\ toldNode' = IF kind = "node_disconnect" THEN "disconnected" ELSE toldNode
  /\ EndTransaction(c)
  /\ pc' = [pc EXCEPT ![c] = "loop"]
  /\ UNCHANGED <<nodeVars, netVars, looping, target, lockQueue, dbVars, cmdVars,
                 scanVars, restarts>>

\* receive_text raises: handle_unexpected_disconnect loads the node row.
Detect(c) ==
  /\ pc[c] = "loop"
  /\ link[c] # "open"
  /\ link' = [link EXCEPT ![c] = "dead"]
  /\ toServer' = [toServer EXCEPT ![c] = <<>>]
  /\ looping' = looping \ {c}
  /\ seenNode' = [seenNode EXCEPT ![c] = dbNode]
  /\ pc' = [pc EXCEPT ![c] = "bye"]
  /\ UNCHANGED <<nodeVars, toNode, job, target, view, memVars, dbVars, uiVars,
                 cmdVars, scanVars, restarts>>

CommitDisconnect(c) ==
  /\ pc[c] = "bye"
  /\ dbNode' = IF seenNode[c] = "absent" THEN dbNode
               ELSE OrmWrite(seenNode[c], "disconnected", dbNode)
  /\ db' = BulkErrored
  /\ EndTransaction(c)
  /\ pc' = [pc EXCEPT ![c] = "drop"]
  /\ UNCHANGED <<nodeVars, netVars, looping, target, memVars, uiVars, cmdVars,
                 scanVars, restarts>>

\* Mutant: no broadcast after an unexpected disconnect.
FinishDisconnect_Silent(c) ==
  /\ pc[c] = "drop"
  /\ Deregister
  /\ pc' = [pc EXCEPT ![c] = "done"]
  /\ UNCHANGED <<nodeVars, netVars, looping, job, target, seenNode, view,
                 lockQueue, buffered, signalled, dbVars, uiVars, cmdVars,
                 scanVars, restarts>>

\* deregister(node_id), whichever connection the registry holds by now.
FinishDisconnect(c) ==
  /\ pc[c] = "drop"
  /\ Deregister
  /\ toldNode' = "disconnected"
  /\ pc' = [pc EXCEPT ![c] = "done"]
  /\ UNCHANGED <<nodeVars, netVars, looping, job, target, seenNode, view,
                 lockQueue, buffered, signalled, dbVars, told, cmdVars, scanVars,
                 restarts>>

Endpoint(c) ==
  \/ ReceiveFirst(c)    \/ FirstLost(c)      \/ AcquireLock(c)
  \/ CloseDone(c)       \/ LoadNode(c)       \/ LoadRows(c)
  \/ CommitRegister(c)  \/ FailRegister(c)   \/ AnnounceRegister(c)
  \/ ReceiveRegister(c) \/ ReceiveEvent(c)   \/ CommitEvent(c)
  \/ AfterEvent(c)      \/ Detect(c)         \/ CommitDisconnect(c)
  \/ FinishDisconnect(c)

-----------------------------------------------------------------------------
(* dispatch_execute, one call per instance id; dispatch_kill;               *)
(* dispatch_status_request.                                                 *)

\* Access and connectivity are checked.
CheckConnected(i) ==
  /\ disp[i] = "none"
  /\ i \notin Foreign
  /\ registry # NoConn
  /\ disp' = [disp EXCEPT ![i] = "checked"]
  /\ UNCHANGED <<nodeVars, netVars, taskVars, memVars, dbVars, uiVars, commands,
                 scanVars, restarts>>

\* Mutant: the execute command is sent before the row exists.
StorePending_Skipped(i) ==
  /\ disp[i] = "checked"
  /\ disp' = [disp EXCEPT ![i] = "stored"]
  /\ UNCHANGED <<nodeVars, netVars, taskVars, memVars, dbVars, uiVars, commands,
                 scanVars, restarts>>

\* The pending row is committed before anything is sent.
StorePending(i) ==
  /\ disp[i] = "checked"
  /\ db' = [db EXCEPT ![i] = "pending"]
  /\ disp' = [disp EXCEPT ![i] = "stored"]
  /\ UNCHANGED <<nodeVars, netVars, taskVars, memVars, dbNode, uiVars, commands,
                 scanVars, restarts>>

\* send_to_node: the registry is looked up again.  On a socket that is not open
\* send_text raises, or (not yet known to be gone) the frame is lost.
SendExecute(i) ==
  /\ disp[i] = "stored"
  /\ \/ /\ registry = NoConn
        /\ disp' = [disp EXCEPT ![i] = "unsent"]
        /\ UNCHANGED toNode
     \/ /\ registry # NoConn
        /\ link[registry] = "open"
        /\ toNode' = [toNode EXCEPT ![registry] = Append(@, Msg("execute", i))]
        /\ disp' = [disp EXCEPT ![i] = "sent"]
     \/ /\ registry # NoConn
        /\ link[registry] = "gone"
        /\ disp' = [disp EXCEPT ![i] = "sent"]
        /\ UNCHANGED toNode
     \/ /\ registry # NoConn
        /\ link[registry] # "open"
        /\ disp' = [disp EXCEPT ![i] = "raised"]
        /\ UNCHANGED toNode
  /\ UNCHANGED <<nodeVars, link, toServer, taskVars, memVars, dbVars, uiVars,
                 commands, scanVars, restarts>>

\* Not connected any more: the pending row is marked errored.
RefuseUnsent(i) ==
  /\ disp[i] = "unsent"
  /\ db' = [db EXCEPT ![i] = "errored"]
  /\ disp' = [disp EXCEPT ![i] = "refused"]
  /\ UNCHANGED <<nodeVars, netVars, taskVars, memVars, dbNode, uiVars, commands,
                 scanVars, restarts>>

\* A command that changes no server state until the node answers it.
SendCommand(kind, i) ==
  /\ registry # NoConn
  /\ link[registry] = "open"
  /\ commands < MaxCommands
  /\ commands' = commands + 1
  /\ toNode' = [toNode EXCEPT ![registry] = Append(@, Msg(kind, i))]
  /\ UNCHANGED <<nodeVars, link, toServer, taskVars, memVars, dbVars, uiVars,
                 disp, scanVars, restarts>>

DispatchKill(i) == db[i] \in Live /\ SendCommand("kill", i)
DispatchStatusRequest == SendCommand("status_request", NoInst)

Dispatch(i) ==
  CheckConnected(i) \/ StorePending(i) \/ SendExecute(i) \/ RefuseUnsent(i)

-----------------------------------------------------------------------------
(* The stale-node scanner and a crash of the server process.                *)

\* A registered connection without a frame for the threshold is picked, and the
\* transaction loads the node row.
ScanStale ==
  /\ scan = "idle"
  /\ scans < MaxScans
  /\ registry # NoConn
  /\ scans' = scans + 1
  /\ scanSeen' = dbNode
  /\ scan' = "commit"
  /\ UNCHANGED <<nodeVars, netVars, taskVars, memVars, dbVars, uiVars, cmdVars,
                 restarts>>

CommitStale ==
  /\ scan = "commit"
  /\ dbNode' = IF scanSeen = "absent" THEN dbNode
               ELSE OrmWrite(scanSeen, "stale", dbNode)
  /\ db' = BulkErrored
  /\ scanSeen' = "absent"
  /\ scan' = "close"
  /\ UNCHANGED <<nodeVars, netVars, taskVars, memVars, uiVars, cmdVars, scans,
                 restarts>>

\* The connection is looked up again by node_id, and that one is closed.
CloseStale ==
  /\ scan = "close"
  /\ toldNode' = "stale"
  /\ scan' = IF registry = NoConn THEN "idle" ELSE "drop"
  /\ IF registry = NoConn THEN UNCHANGED <<link, toServer>>
                          ELSE ServerClose(registry)
  /\ UNCHANGED <<nodeVars, toNode, taskVars, memVars, dbVars, told,
                 cmdVars, scanSeen, scans, restarts>>

DropStale ==
  /\ scan = "drop"
  /\ Deregister
  /\ scan' = "idle"
  /\ UNCHANGED <<nodeVars, netVars, taskVars, lockQueue, buffered, signalled,
                 dbVars, uiVars, cmdVars, scanSeen, scans, restarts>>

Scanner == ScanStale \/ CommitStale \/ CloseStale \/ DropStale

\* The process dies and starts again: memory, tasks, sockets and requests in
\* progress are gone, the database stays.
ServerRestart ==
  /\ restarts < MaxRestarts
  /\ restarts' = restarts + 1
  /\ link' = [c \in Conn |-> "dead"]
  /\ toServer' = [c \in Conn |-> <<>>]
  /\ pc' = [c \in Conn |-> IF pc[c] = "idle" THEN "idle" ELSE "done"]
  /\ looping' = {}
  /\ job' = [c \in Conn |-> NoFrame]
  /\ target' = [c \in Conn |-> NoConn]
  /\ seenNode' = [c \in Conn |-> "absent"]
  /\ view' = [c \in Conn |-> NoView]
  /\ registry' = NoConn
  /\ lockQueue' = <<>>
  /\ buffered' = {}
  /\ signalled' = {}
  /\ disp' = [i \in Instance |->
       IF disp[i] \in {"checked", "stored", "unsent"} THEN "raised" ELSE disp[i]]
  /\ scan' = "idle"
  /\ scanSeen' = "absent"
  /\ UNCHANGED <<nodeVars, toNode, dbVars, uiVars, commands, scans>>

Next ==
  \/ Node
  \/ \E c \in Conn : Endpoint(c)
  \/ \E i \in Instance : Dispatch(i) \/ DispatchKill(i)
  \/ DispatchStatusRequest
  \/ Scanner
  \/ ServerRestart

Spec == Init /\ [][Next]_vars

-----------------------------------------------------------------------------
(* Properties that hold in every environment.                               *)

\* A row is committed before its execute command is sent (commands.py step (e)):
\* whatever is on its way to or from the node, or known to it, has its row.
HasRow(i) == i \in Foreign \/ db[i] # "absent"
RowBeforeCommand ==
  /\ \A c \in Conn : \A k \in 1..Len(toNode[c]) :
       toNode[c][k].kind = "execute" => HasRow(toNode[c][k].inst)
  /\ \A i \in Instance : nodeInst[i] # "none" => HasRow(i)
  /\ \A c \in Conn : \A i \in job[c].running : HasRow(i)

\* The per-node lock (manager.py:32) keeps two registrations apart: between
\* closing the old connection and the broadcast there is at most one endpoint.
RegistrationExclusive ==
  \A c, d \in Conn :
    pc[c] \in Registering /\ pc[d] \in Registering => c = d

\* "finished" is only recorded or shown for an instance whose subprocess ended.
FinishedIsReal ==
  \A i \in Instance :
    db[i] = "finished" \/ told[i] = "finished" => nodeInst[i] = "ended"

-----------------------------------------------------------------------------
(* Properties that hold when a node never reconnects before the server has  *)
(* finished with its previous session (the first and the last of them: and  *)
(* is never found stale).                                                   *)

\* A session that is being served is the one the registry points to, so that
\* commands for the node reach it.
Served(c) == nodeConn = c /\ link[c] = "open" /\ pc[c] \in {"loop", "write", "after"}
ServedIsReachable ==
  \A c \in Conn : Served(c) => registry = c

\* While a session is served, a live row stands for something that can still
\* end it: the instance runs on the node, its execute command is being sent,
\* refused or on its way, or the frame that settles it is.
Settles(f, i) == f.inst = i /\ f.kind \in {"instance_finished", "instance_error"}
Accounted(i, c) ==
  \/ i \in Running
  \/ disp[i] \in {"stored", "unsent"}
  \/ \E k \in 1..Len(toNode[c]) :
       toNode[c][k].kind = "execute" /\ toNode[c][k].inst = i
  \/ \E k \in 1..Len(toServer[c]) : Settles(toServer[c][k], i)
  \/ pc[c] = "write" /\ Settles(job[c], i)
LiveRowsAccounted ==
  \A c \in Conn : Served(c) =>
    \A i \in Instance : db[i] \in Live => Accounted(i, c) \/ disp[i] = "raised"
\* The instances table goes through the life cycle of InstanceLifecycle.
Lifecycle == INSTANCE InstanceLifecycle WITH row <- db
LifecycleSpec == Lifecycle!Spec

\* A sequence is only woken (signal_completion) for an instance whose row is
\* settled, and its in-memory stream buffer is then cleared for good.
SignalledIsSettled ==
  \A i \in signalled : db[i] \in {"finished", "errored"} /\ i \notin buffered

\* Between a commit and its broadcast the frontends lag; at any other moment the
\* node status they were last told is the one in the database.  After a crash of
\* the server they may lag until the node is served again.
NodeStatusShown ==
  /\ \A c \in Conn : pc[c] \notin {"announce", "after", "drop"}
  /\ restarts = 0 \/ \E c \in Conn : Served(c)
  => toldNode = dbNode

-----------------------------------------------------------------------------
(* Claims of the documentation that the code does not keep.                 *)

\* server-spec.md section 6: a reconnecting node is reconciled, whatever it
\* runs; its registration does not fail.
RegistrationSucceeds == \A c \in Conn : pc[c] # "crashed"

\* server-spec.md section 7: all tracked instances of a disconnected node are
\* errored or lost; none is left pending or running.
Quiet == /\ registry = NoConn
         /\ \A c \in Conn : pc[c] \in Over
         /\ \A i \in Instance : disp[i] \notin {"checked", "stored", "unsent"}
OfflineHasNoLiveRow ==
  Quiet => \A i \in Instance : db[i] \notin Live

-----------------------------------------------------------------------------
(* Liveness.  The event loop runs every coroutine that is ready, database    *)
(* and socket operations end, and a lost peer is noticed (WebSocket pings);  *)
(* the node redials for ever (protocol-spec.md section 5), and not every     *)
(* connection is cut off before its first frame arrives.  Nothing forces     *)
(* users to dispatch, instances to end, or the network to fail.              *)

Fairness ==
  /\ \A c \in Conn : WF_vars(Endpoint(c))
  /\ \A i \in Instance :
       WF_vars(StorePending(i) \/ SendExecute(i) \/ RefuseUnsent(i))
  /\ WF_vars(CommitStale \/ CloseStale \/ DropStale)
  /\ WF_vars(NodeSeesClose)
  /\ WF_vars(\E c \in Conn : NodeConnect(c))
  /\ SF_vars(\E c \in Conn : ReceiveFirst(c))

FairSpec == Spec /\ Fairness

\* No endpoint waits for the node's lock for ever.
LockGranted == \A c \in Conn : pc[c] = "lock" ~> pc[c] # "lock"

\* When an instance has ended on the node, or died with it, its row does not stay
\* live for ever, whatever drops, crashes or restarts happen on the way.
EndedRowsSettle ==
  \A i \in Instance :
    nodeInst[i] \in {"ended", "lost"} ~> db[i] \in {"finished", "errored"}
=============================================================================
