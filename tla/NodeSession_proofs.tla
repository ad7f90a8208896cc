-------------------------- MODULE NodeSession_proofs --------------------------
(***************************************************************************)
(* Proofs about NodeSession, for every number of sockets and instances and  *)
(* in every environment (overlapping sessions, scans, restarts, commands):  *)
(* type correctness, mutual exclusion of registrations, the order of        *)
(* database row and execute command, and that an instance recorded or shown *)
(* as finished has finished.                                                *)
(***************************************************************************)
EXTENDS NodeSession, TLAPS

USE DEF vars, nodeVars, netVars, taskVars, memVars, dbVars, uiVars, cmdVars, scanVars

-----------------------------------------------------------------------------
(* The inductive invariant behind the mutual exclusion of registrations: the *)
(* queue of the per-node lock holds exactly the endpoints that asked for it, *)
(* each once, and one that is inside the "async with" is at its head.        *)

Queued(c) == pc[c] \in {"lock"} \cup Registering

LockInv ==
  /\ \A c \in Conn : Queued(c) <=> \E k \in 1..Len(lockQueue) : lockQueue[k] = c
  /\ \A j, k \in 1..Len(lockQueue) : lockQueue[j] = lockQueue[k] => j = k
  /\ \A c \in Conn : pc[c] \in Registering => lockQueue[1] = c

-----------------------------------------------------------------------------
(* Type correctness.                                                        *)

\* A frame without a list of running instances is a frame.
LEMMA MsgType ==
  ASSUME NEW kind \in FrameKind, NEW i \in Instance \cup {NoInst},
         kind \notin Impersonal => i \in Instance
  PROVE  Msg(kind, i) \in Frame
BY DEF Msg, Frame

LEMMA NoFrameType == NoFrame \in Frame
BY MsgType DEF NoFrame, FrameKind, Impersonal

LEMMA RegisterFrameType == RegisterFrame \in Frame
BY DEF RegisterFrame, Frame, Running, FrameKind, Impersonal

\* Sending a frame keeps the channels well typed.
LEMMA EmitType ==
  ASSUME TypeOK, NEW f \in Frame, Emit(f)
  PROVE  toServer' \in [Conn -> Seq(Frame)]
<1>1. toServer \in [Conn -> Seq(Frame)] /\ nodeConn \in Conn \cup {NoConn}
  BY DEF TypeOK
<1>2. CASE nodeConn # NoConn /\ link[nodeConn] = "open"
  <2>1. Append(toServer[nodeConn], f) \in Seq(Frame)
    BY <1>1, <1>2
  <2> QED BY <1>1, <1>2, <2>1 DEF Emit
<1>3. CASE ~(nodeConn # NoConn /\ link[nodeConn] = "open")
  BY <1>1, <1>3 DEF Emit
<1> QED BY <1>2, <1>3

LEMMA NodeEndType ==
  ASSUME TypeOK, NEW i \in Instance, NodeEnd(i)
  PROVE  /\ nodeInst' \in [Instance -> NodeInstStatus]
         /\ toServer' \in [Conn -> Seq(Frame)]
<1>1. PICK kind \in {"instance_finished", "instance_error"} : Emit(Msg(kind, i))
  BY DEF NodeEnd
<1>2. Msg(kind, i) \in Frame
  BY MsgType DEF FrameKind
<1>3. toServer' \in [Conn -> Seq(Frame)]
  BY <1>1, <1>2, EmitType DEF TypeOK
<1>4. nodeInst' \in [Instance -> NodeInstStatus]
  BY DEF NodeEnd, TypeOK, NodeInstStatus
<1> QED BY <1>3, <1>4

\* Taking the command at the head of a channel.
LEMMA CommandType ==
  ASSUME TypeOK, NEW kind, Command(kind)
  PROVE  /\ toNode' \in [Conn -> Seq(Frame)]
         /\ nodeConn \in Conn
         /\ kind \notin Impersonal => Head(toNode[nodeConn]).inst \in Instance
<1>1. nodeConn \in Conn /\ toNode[nodeConn] \in Seq(Frame) /\ toNode[nodeConn] # <<>>
  BY DEF Command, TypeOK
<1>2. Head(toNode[nodeConn]) \in Frame /\ Tail(toNode[nodeConn]) \in Seq(Frame)
  BY <1>1
<1>3. kind \notin Impersonal => Head(toNode[nodeConn]).inst \in Instance
  BY <1>2 DEF Frame, Command
<1>4. toNode' \in [Conn -> Seq(Frame)]
  BY <1>1, <1>2 DEF Command, TypeOK
<1> QED BY <1>1, <1>3, <1>4

LEMMA HangupType ==
  ASSUME TypeOK, Hangup
  PROVE  nodeConn' \in Conn \cup {NoConn} /\ toNode' \in [Conn -> Seq(Frame)]
BY DEF Hangup, TypeOK

LEMMA LoseRunningType ==
  ASSUME TypeOK, LoseRunning
  PROVE  nodeInst' \in [Instance -> NodeInstStatus]
BY DEF LoseRunning, TypeOK, NodeInstStatus

LEMMA NodeType ==
  ASSUME TypeOK, Node
  PROVE  TypeOK'
<1> USE NodeSessionAssumption
<1>1. ASSUME NEW c \in Conn, NodeConnect(c) PROVE TypeOK'
  <2>1. <<RegisterFrame>> \in Seq(Frame) /\ <<>> \in Seq(Frame)
    BY RegisterFrameType
  <2> QED BY <1>1, <2>1 DEF NodeConnect, TypeOK, Link, PC
<1>2. CASE NodeExecute
  <2> DEFINE i == Head(toNode[nodeConn]).inst
  <2>1. i \in Instance /\ toNode' \in [Conn -> Seq(Frame)]
    BY <1>2, CommandType DEF NodeExecute, Impersonal
  <2>2. Msg("ack", i) \in Frame /\ Msg("instance_error", i) \in Frame
    BY <2>1, MsgType DEF FrameKind, Impersonal
  <2>3. toServer' \in [Conn -> Seq(Frame)]
    BY <1>2, <2>2, EmitType DEF NodeExecute, TypeOK
  <2>4. nodeInst' \in [Instance -> NodeInstStatus]
    BY <1>2 DEF NodeExecute, TypeOK, NodeInstStatus
  <2> QED BY <1>2, <2>1, <2>3, <2>4 DEF NodeExecute, TypeOK
<1>3. CASE NodeKill
  <2> DEFINE i == Head(toNode[nodeConn]).inst
  <2>1. toNode' \in [Conn -> Seq(Frame)]
    BY <1>3, CommandType DEF NodeKill
  <2>2. nodeInst' \in [Instance -> NodeInstStatus] /\ toServer' \in [Conn -> Seq(Frame)]
    <3>1. CASE i \in Running
      BY <1>3, <3>1, NodeEndType DEF NodeKill, Running
    <3>2. CASE i \notin Running
      BY <1>3, <3>2 DEF NodeKill, TypeOK
    <3> QED BY <3>1, <3>2
  <2> QED BY <1>3, <2>1, <2>2 DEF NodeKill, TypeOK
<1>4. CASE NodeStatusReply
  <2>1. toNode' \in [Conn -> Seq(Frame)]
    BY <1>4, CommandType DEF NodeStatusReply
  <2>2. toServer' \in [Conn -> Seq(Frame)]
    BY <1>4, EmitType, RegisterFrameType DEF NodeStatusReply, TypeOK
  <2> QED BY <1>4, <2>1, <2>2 DEF NodeStatusReply, TypeOK
<1>5. ASSUME NEW i \in Instance, NodeInstanceStarts(i) PROVE TypeOK'
  <2>1. toServer' \in [Conn -> Seq(Frame)]
    BY <1>5, EmitType, MsgType DEF NodeInstanceStarts, FrameKind, TypeOK
  <2> QED BY <1>5, <2>1 DEF NodeInstanceStarts, TypeOK, NodeInstStatus
<1>6. ASSUME NEW i \in Instance, NodeInstanceStreams(i) PROVE TypeOK'
  <2>1. toServer' \in [Conn -> Seq(Frame)]
    BY <1>6, EmitType, MsgType DEF NodeInstanceStreams, FrameKind, TypeOK
  <2> QED BY <1>6, <2>1 DEF NodeInstanceStreams, TypeOK, NodeInstStatus
<1>7. ASSUME NEW i \in Instance, NodeInstanceEnds(i) PROVE TypeOK'
  BY <1>7, NodeEndType DEF NodeInstanceEnds, TypeOK
<1>8. CASE NodeDrop
  BY <1>8, HangupType DEF NodeDrop, TypeOK, Link
<1>9. CASE NodeCrash
  BY <1>9, HangupType, LoseRunningType DEF NodeCrash, TypeOK, Link
<1>10. CASE NodeShutdown
  <2>1. toServer' \in [Conn -> Seq(Frame)]
    BY <1>10, EmitType, MsgType DEF NodeShutdown, FrameKind, Impersonal
  <2> QED BY <1>10, <2>1, HangupType, LoseRunningType DEF NodeShutdown, TypeOK, Link
<1>11. CASE NodeSeesClose
  BY <1>11, HangupType DEF NodeSeesClose, TypeOK
<1> QED BY <1>1, <1>2, <1>3, <1>4, <1>5, <1>6, <1>7, <1>8, <1>9, <1>10, <1>11 DEF Node

LEMMA ServerCloseType ==
  ASSUME TypeOK, NEW c \in Conn, ServerClose(c)
  PROVE  link' \in [Conn -> Link] /\ toServer' \in [Conn -> Seq(Frame)]
BY DEF ServerClose, TypeOK, Link

LEMMA EndTransactionType ==
  ASSUME TypeOK, NEW c \in Conn, EndTransaction(c)
  PROVE  /\ job' \in [Conn -> Frame]
         /\ seenNode' \in [Conn -> NodeStatus]
         /\ view' \in [Conn -> [Instance -> InstanceStatus]]
<1>1. NoView \in [Instance -> InstanceStatus] /\ "absent" \in NodeStatus
  BY DEF NoView, InstanceStatus, NodeStatus
<1> QED BY <1>1, NoFrameType DEF EndTransaction, TypeOK

\* Every row a transaction may write has a status of the column.
LEMMA OrmWriteType ==
  ASSUME NEW S, NEW seen, NEW new \in S, NEW current \in S
  PROVE  OrmWrite(seen, new, current) \in S
BY DEF OrmWrite

LEMMA BulkErroredType ==
  ASSUME TypeOK
  PROVE  BulkErrored \in [Instance -> InstanceStatus]
BY DEF BulkErrored, TypeOK, InstanceStatus, Live

LEMMA ReconciledType ==
  ASSUME TypeOK, NEW c \in Conn
  PROVE  Reconciled(c) \in [Instance -> InstanceStatus]
<1>1. {"errored", "running"} \subseteq InstanceStatus
  BY DEF InstanceStatus, Live
<1>2. ASSUME NEW i \in Instance
      PROVE  OrmWrite(view[c][i], "running", db[i]) \in InstanceStatus
  BY <1>1, OrmWriteType DEF TypeOK
<1> QED BY <1>1, <1>2 DEF Reconciled, TypeOK

LEMMA HeadTailType ==
  ASSUME TypeOK, NEW c \in Conn, toServer[c] # <<>>
  PROVE  Head(toServer[c]) \in Frame /\ Tail(toServer[c]) \in Seq(Frame)
<1>1. toServer[c] \in Seq(Frame)
  BY DEF TypeOK
<1> QED BY <1>1

LEMMA TakeFrameType ==
  ASSUME TypeOK, NEW c \in Conn, TakeFrame(c)
  PROVE  /\ Head(toServer[c]) \in Frame
         /\ toServer' \in [Conn -> Seq(Frame)]
         /\ link' \in [Conn -> Link]
BY HeadTailType DEF TakeFrame, TypeOK, Link

LEMMA JoinLockType ==
  ASSUME TypeOK, NEW c \in Conn
  PROVE  Append(lockQueue, c) \in Seq(Conn)
BY DEF TypeOK

\* Only the holder of the lock releases it, so the queue is not empty then.
LEMMA ReleaseLockType ==
  ASSUME TypeOK, LockInv, NEW c \in Conn, pc[c] \in Registering, ReleaseLock
  PROVE  lockQueue' \in Seq(Conn)
<1>1. lockQueue # <<>>
  BY DEF LockInv, Queued, TypeOK
<1> QED BY <1>1 DEF ReleaseLock, TypeOK

LEMMA EndpointType ==
  ASSUME TypeOK, LockInv, NEW c \in Conn, Endpoint(c)
  PROVE  TypeOK'
<1>1. CASE ReceiveFirst(c)
  <2>1. Head(toServer[c]) \in Frame /\ Tail(toServer[c]) \in Seq(Frame)
    BY <1>1, HeadTailType DEF ReceiveFirst
  <2>2. toServer' \in [Conn -> Seq(Frame)] /\ job' \in [Conn -> Frame]
    BY <1>1, <2>1 DEF ReceiveFirst, TypeOK
  <2> QED BY <1>1, <2>2, JoinLockType DEF ReceiveFirst, TypeOK, PC
<1>2. CASE FirstLost(c)
  BY <1>2 DEF FirstLost, TypeOK, PC, Over, Link
<1>3. CASE AcquireLock(c)
  <2>1. CASE registry \notin {NoConn, target[c]}
    <3>1. registry \in Conn
      BY <2>1 DEF TypeOK
    <3> QED BY <1>3, <2>1, <3>1, ServerCloseType DEF AcquireLock, TypeOK, PC, Registering
  <2>2. CASE registry \in {NoConn, target[c]}
    BY <1>3, <2>2 DEF AcquireLock, TypeOK, PC, Registering
  <2> QED BY <2>1, <2>2
<1>4. CASE CloseDone(c)
  BY <1>4 DEF CloseDone, TypeOK, PC, Registering
<1>16. CASE LoadNode(c)
  BY <1>16 DEF LoadNode, TypeOK, PC, Registering
<1>5. CASE LoadRows(c)
  <2>1. view' \in [Conn -> [Instance -> InstanceStatus]]
    BY <1>5 DEF LoadRows, TypeOK, InstanceStatus
  <2> QED BY <1>5, <2>1 DEF LoadRows, TypeOK, PC, Registering
<1>6. CASE CommitRegister(c)
  <2>1. dbNode' \in NodeStatus /\ db' \in [Instance -> InstanceStatus]
    BY <1>6, OrmWriteType, ReconciledType DEF CommitRegister, TypeOK, NodeStatus
  <2>2. pc' \in [Conn -> PC]
    BY <1>6 DEF CommitRegister, TypeOK, PC, Registering
  <2> QED BY <1>6, <2>1, <2>2, EndTransactionType DEF CommitRegister, TypeOK
<1>7. CASE FailRegister(c)
  <2>1. lockQueue' \in Seq(Conn)
    BY <1>7, ReleaseLockType DEF FailRegister, Registering
  <2>2. pc' \in [Conn -> PC] /\ link' \in [Conn -> Link] /\ toServer' \in [Conn -> Seq(Frame)]
    <3>1. CASE c \in looping
      BY <1>7, <3>1 DEF FailRegister, TypeOK, PC
    <3>2. CASE c \notin looping
      <4>1. pc' = [pc EXCEPT ![c] = "crashed"] /\ link' = [link EXCEPT ![c] = "dead"]
            /\ toServer' = [toServer EXCEPT ![c] = <<>>]
        BY <1>7, <3>2 DEF FailRegister
      <4> QED BY <4>1 DEF TypeOK, PC, Over, Link
    <3> QED BY <3>1, <3>2
  <2> QED BY <1>7, <2>1, <2>2, EndTransactionType DEF FailRegister, TypeOK
<1>8. CASE AnnounceRegister(c)
  <2>1. lockQueue' \in Seq(Conn)
    BY <1>8, ReleaseLockType DEF AnnounceRegister, Registering
  <2> QED BY <1>8, <2>1 DEF AnnounceRegister, TypeOK, PC, NodeStatus
<1>9. CASE ReceiveRegister(c)
  <2>1. /\ Head(toServer[c]) \in Frame
        /\ toServer' \in [Conn -> Seq(Frame)] /\ link' \in [Conn -> Link]
    BY <1>9, TakeFrameType DEF ReceiveRegister
  <2>2. CASE registry = NoConn
    BY <1>9, <2>1, <2>2 DEF ReceiveRegister, TypeOK
  <2>3. CASE registry # NoConn
    <3>1. job' \in [Conn -> Frame] /\ target' \in [Conn -> Conn \cup {NoConn}]
      BY <1>9, <2>1, <2>3 DEF ReceiveRegister, TypeOK
    <3> QED BY <1>9, <2>1, <2>3, <3>1, JoinLockType DEF ReceiveRegister, TypeOK, PC
  <2> QED BY <2>2, <2>3
<1>10. CASE ReceiveEvent(c)
  <2>1. /\ Head(toServer[c]) \in Frame
        /\ toServer' \in [Conn -> Seq(Frame)] /\ link' \in [Conn -> Link]
    BY <1>10, TakeFrameType DEF ReceiveEvent
  <2>2. /\ job' \in [Conn -> Frame] /\ seenNode' \in [Conn -> NodeStatus]
        /\ view' \in [Conn -> [Instance -> InstanceStatus]]
    BY <1>10, <2>1 DEF ReceiveEvent, TypeOK, NodeStatus, InstanceStatus
  <2> QED BY <1>10, <2>1, <2>2 DEF ReceiveEvent, TypeOK, PC
<1>11. CASE CommitEvent(c)
  <2>1. dbNode' \in NodeStatus
    BY <1>11, OrmWriteType DEF CommitEvent, TypeOK, NodeStatus
  <2>2. ASSUME NEW i \in Instance
        PROVE  NewStatus(job[c].kind, view[c][i]) \in InstanceStatus
    BY DEF NewStatus, TypeOK, InstanceStatus, Live
  <2>3. ASSUME NEW i \in Instance
        PROVE  OrmWrite(view[c][i], NewStatus(job[c].kind, view[c][i]), db[i])
                 \in InstanceStatus
    BY <2>2, OrmWriteType DEF TypeOK
  <2>4. db' \in [Instance -> InstanceStatus]
    BY <1>11, <2>3 DEF CommitEvent, TypeOK
  <2> QED BY <1>11, <2>1, <2>4 DEF CommitEvent, TypeOK, PC
<1>12. CASE AfterEvent(c)
  <2>1. /\ told' \in [Instance -> InstanceStatus]
        /\ registry' \in Conn \cup {NoConn} /\ toldNode' \in NodeStatus
    BY <1>12 DEF AfterEvent, TypeOK, NodeStatus, InstanceStatus, Live
  <2>2. buffered' \subseteq Instance /\ signalled' \subseteq Instance
    <3>1. job[c].kind \notin Impersonal => job[c].inst \in Instance
      BY DEF TypeOK, Frame
    <3> QED BY <1>12, <3>1 DEF AfterEvent, TypeOK, Impersonal
  <2>3. pc' \in [Conn -> PC]
    BY <1>12 DEF AfterEvent, TypeOK, PC
  <2> QED BY <1>12, <2>1, <2>2, <2>3, EndTransactionType DEF AfterEvent, TypeOK
<1>13. CASE Detect(c)
  BY <1>13 DEF Detect, TypeOK, PC, Link
<1>14. CASE CommitDisconnect(c)
  <2>1. dbNode' \in NodeStatus /\ db' \in [Instance -> InstanceStatus]
    BY <1>14, OrmWriteType, BulkErroredType DEF CommitDisconnect, TypeOK, NodeStatus
  <2>2. pc' \in [Conn -> PC]
    BY <1>14 DEF CommitDisconnect, TypeOK, PC
  <2> QED BY <1>14, <2>1, <2>2, EndTransactionType DEF CommitDisconnect, TypeOK
<1>15. CASE FinishDisconnect(c)
  BY <1>15 DEF FinishDisconnect, Deregister, TypeOK, PC, Over, NodeStatus
<1> QED BY <1>1, <1>2, <1>3, <1>4, <1>5, <1>6, <1>7, <1>8, <1>9, <1>10, <1>11,
           <1>12, <1>13, <1>14, <1>15, <1>16 DEF Endpoint

LEMMA SendCommandType ==
  ASSUME TypeOK, NEW kind, NEW j, Msg(kind, j) \in Frame, SendCommand(kind, j)
  PROVE  TypeOK'
<1>1. registry \in Conn
  BY DEF SendCommand, TypeOK
<1>2. toNode' \in [Conn -> Seq(Frame)]
  BY <1>1 DEF SendCommand, TypeOK
<1> QED BY <1>2 DEF SendCommand, TypeOK

LEMMA DispatchType ==
  ASSUME TypeOK, NEW i \in Instance, Dispatch(i) \/ DispatchKill(i)
  PROVE  TypeOK'
<1>1. CASE CheckConnected(i)
  BY <1>1 DEF CheckConnected, TypeOK
<1>2. CASE StorePending(i)
  BY <1>2 DEF StorePending, TypeOK, InstanceStatus, Live
<1>3. CASE SendExecute(i)
  <2>1. Msg("execute", i) \in Frame
    BY MsgType DEF FrameKind
  <2>2. toNode' \in [Conn -> Seq(Frame)]
    <3>1. CASE UNCHANGED toNode
      BY <3>1 DEF TypeOK
    <3>2. CASE registry # NoConn /\ toNode' = [toNode EXCEPT ![registry] = Append(@, Msg("execute", i))]
      BY <2>1, <3>2 DEF TypeOK
    <3> QED BY <1>3, <3>1, <3>2 DEF SendExecute
  <2> QED BY <1>3, <2>2 DEF SendExecute, TypeOK
<1>4. CASE RefuseUnsent(i)
  BY <1>4 DEF RefuseUnsent, TypeOK, InstanceStatus
<1>5. CASE DispatchKill(i)
  BY <1>5, SendCommandType, MsgType DEF DispatchKill, FrameKind
<1> QED BY <1>1, <1>2, <1>3, <1>4, <1>5 DEF Dispatch

LEMMA StatusRequestType ==
  ASSUME TypeOK, DispatchStatusRequest
  PROVE  TypeOK'
BY SendCommandType, MsgType DEF DispatchStatusRequest, FrameKind, Impersonal

LEMMA ScannerType ==
  ASSUME TypeOK, Scanner
  PROVE  TypeOK'
<1>1. CASE ScanStale
  BY <1>1 DEF ScanStale, TypeOK
<1>2. CASE CommitStale
  BY <1>2, OrmWriteType, BulkErroredType DEF CommitStale, TypeOK, NodeStatus
<1>3. CASE CloseStale
  <2>1. CASE registry = NoConn
    BY <1>3, <2>1 DEF CloseStale, TypeOK, NodeStatus
  <2>2. CASE registry # NoConn
    <3>1. registry \in Conn
      BY <2>2 DEF TypeOK
    <3> QED BY <1>3, <2>2, <3>1, ServerCloseType DEF CloseStale, TypeOK, NodeStatus
  <2> QED BY <2>1, <2>2
<1>4. CASE DropStale
  BY <1>4 DEF DropStale, Deregister, TypeOK
<1> QED BY <1>1, <1>2, <1>3, <1>4 DEF Scanner

LEMMA RestartType ==
  ASSUME TypeOK, ServerRestart
  PROVE  TypeOK'
<1>1. NoView \in [Instance -> InstanceStatus] /\ "absent" \in NodeStatus
  BY DEF NoView, InstanceStatus, NodeStatus
<1>2. /\ pc' \in [Conn -> PC] /\ link' \in [Conn -> Link]
      /\ job' \in [Conn -> Frame] /\ toServer' \in [Conn -> Seq(Frame)]
      /\ target' \in [Conn -> Conn \cup {NoConn}]
      /\ seenNode' \in [Conn -> NodeStatus]
      /\ view' \in [Conn -> [Instance -> InstanceStatus]]
  BY <1>1, NoFrameType DEF ServerRestart, TypeOK, PC, Over, Link
<1>3. disp' \in [Instance -> {"none", "checked", "stored", "unsent", "sent",
                              "refused", "raised"}]
  BY DEF ServerRestart, TypeOK
<1> QED BY <1>1, <1>2, <1>3 DEF ServerRestart, TypeOK

LEMMA InitType == Init => TypeOK
<1> SUFFICES ASSUME Init PROVE TypeOK
  OBVIOUS
<1>1. NoView \in [Instance -> InstanceStatus] /\ "absent" \in NodeStatus
  BY DEF NoView, InstanceStatus, NodeStatus
<1> QED BY <1>1, NoFrameType
        DEF Init, TypeOK, Link, PC, Over, NodeInstStatus, InstanceStatus, NodeStatus

-----------------------------------------------------------------------------
(* The lock queue.                                                          *)

\* An endpoint asks for the lock: it joins at the end of the queue.
LEMMA JoinLock ==
  ASSUME TypeOK, LockInv, NEW c \in Conn, ~Queued(c),
         lockQueue' = Append(lockQueue, c), pc' = [pc EXCEPT ![c] = "lock"]
  PROVE  LockInv'
<1>1. lockQueue \in Seq(Conn) /\ Len(lockQueue) \in Nat
  BY DEF TypeOK
<1>2. /\ Len(lockQueue') = Len(lockQueue) + 1
      /\ lockQueue'[Len(lockQueue) + 1] = c
      /\ \A k \in 1..Len(lockQueue) : lockQueue'[k] = lockQueue[k]
  BY <1>1
<1>3. \A k \in 1..Len(lockQueue) : lockQueue[k] \in Conn /\ lockQueue[k] # c
  BY <1>1 DEF LockInv
<1>4. \A d \in Conn : pc'[d] = IF d = c THEN "lock" ELSE pc[d]
  BY DEF TypeOK
<1>5. ASSUME NEW d \in Conn
      PROVE  Queued(d)' <=> \E k \in 1..Len(lockQueue') : lockQueue'[k] = d
  BY <1>1, <1>2, <1>3, <1>4, <1>5 DEF LockInv, Queued
<1>6. ASSUME NEW j \in 1..Len(lockQueue'), NEW k \in 1..Len(lockQueue'),
             lockQueue'[j] = lockQueue'[k]
      PROVE  j = k
  BY <1>1, <1>2, <1>3, <1>6 DEF LockInv
<1>7. ASSUME NEW d \in Conn, pc'[d] \in Registering
      PROVE  lockQueue'[1] = d
  <2>1. d # c /\ pc[d] \in Registering
    BY <1>4, <1>7 DEF Registering
  <2>2. 1 \in 1..Len(lockQueue)
    BY <1>1, <2>1 DEF LockInv, Queued
  <2> QED BY <1>2, <2>1, <2>2 DEF LockInv
<1> QED BY <1>5, <1>6, <1>7 DEF LockInv

\* The holder leaves: everyone moves up by one.
LEMMA LeaveLock ==
  ASSUME TypeOK, LockInv, NEW c \in Conn, pc[c] \in Registering, ReleaseLock,
         NEW where \in {"loop", "crashed"}, pc' = [pc EXCEPT ![c] = where]
  PROVE  LockInv'
<1>1. lockQueue \in Seq(Conn) /\ lockQueue # <<>> /\ lockQueue[1] = c
  BY DEF LockInv, Queued, TypeOK
<1>2. /\ Len(lockQueue) \in Nat
      /\ Len(lockQueue') = Len(lockQueue) - 1
      /\ \A k \in 1..Len(lockQueue') : lockQueue'[k] = lockQueue[k + 1]
  BY <1>1 DEF ReleaseLock
<1>3. \A d \in Conn : pc'[d] = IF d = c THEN where ELSE pc[d]
  BY DEF TypeOK
<1>4. \A k \in 2..Len(lockQueue) : lockQueue[k] # c
  BY <1>1, <1>2 DEF LockInv
<1>5. ASSUME NEW d \in Conn
      PROVE  Queued(d)' <=> \E k \in 1..Len(lockQueue') : lockQueue'[k] = d
  <2>1. CASE d = c
    BY <1>2, <1>3, <1>4, <2>1 DEF Queued, Registering
  <2>2. CASE d # c
    <3>1. Queued(d)' <=> \E k \in 1..Len(lockQueue) : lockQueue[k] = d
      BY <1>3, <2>2 DEF Queued, LockInv
    <3>2. ASSUME NEW k \in 1..Len(lockQueue), lockQueue[k] = d
          PROVE  k - 1 \in 1..Len(lockQueue') /\ lockQueue'[k - 1] = d
      BY <1>1, <1>2, <2>2, <3>2
    <3>3. ASSUME NEW k \in 1..Len(lockQueue'), lockQueue'[k] = d
          PROVE  k + 1 \in 1..Len(lockQueue) /\ lockQueue[k + 1] = d
      BY <1>2, <3>3
    <3> QED BY <3>1, <3>2, <3>3
  <2> QED BY <2>1, <2>2
<1>6. ASSUME NEW j \in 1..Len(lockQueue'), NEW k \in 1..Len(lockQueue'),
             lockQueue'[j] = lockQueue'[k]
      PROVE  j = k
  BY <1>2, <1>6 DEF LockInv
<1>7. ASSUME NEW d \in Conn
      PROVE  pc'[d] \notin Registering
  BY <1>1, <1>3 DEF LockInv, Registering
<1> QED BY <1>5, <1>6, <1>7 DEF LockInv

\* A step of an endpoint that neither asks for the lock nor gives it up.
LEMMA KeepLock ==
  ASSUME TypeOK, LockInv, UNCHANGED lockQueue,
         \A c \in Conn : Queued(c)' <=> Queued(c),
         \A c \in Conn : pc'[c] \in Registering =>
                           pc[c] \in Registering \/ HoldsLock(c)
  PROVE  LockInv'
<1>1. ASSUME NEW c \in Conn, pc'[c] \in Registering
      PROVE  lockQueue'[1] = c
  <2>1. Queued(c)
    BY <1>1 DEF Queued
  <2>2. lockQueue # <<>>
    BY <2>1 DEF LockInv, TypeOK
  <2>3. Head(lockQueue) = lockQueue[1]
    BY <2>2 DEF TypeOK
  <2> QED BY <1>1, <2>3 DEF LockInv, HoldsLock
<1> QED BY <1>1 DEF LockInv

LEMMA LockInvNext ==
  ASSUME TypeOK, LockInv, [Next]_vars
  PROVE  LockInv'
<1>1. ASSUME NEW c \in Conn, Endpoint(c) PROVE LockInv'
  <2>1. CASE ReceiveFirst(c)
    BY <2>1, JoinLock DEF ReceiveFirst, Queued, Registering
  <2>2. CASE ReceiveRegister(c)
    <3>1. CASE registry = NoConn
      BY <2>2, <3>1, KeepLock DEF ReceiveRegister, Queued
    <3>2. CASE registry # NoConn
      BY <2>2, <3>2, JoinLock DEF ReceiveRegister, TakeFrame, Queued, Registering
    <3> QED BY <3>1, <3>2
  <2>3. CASE FailRegister(c)
    BY <2>3, LeaveLock DEF FailRegister, Registering
  <2>4. CASE AnnounceRegister(c)
    BY <2>4, LeaveLock DEF AnnounceRegister, Registering
  <2>5. CASE AcquireLock(c) \/ CloseDone(c) \/ LoadNode(c) \/ LoadRows(c) \/ CommitRegister(c)
    <3>1. PICK where \in Registering : pc' = [pc EXCEPT ![c] = where]
      BY <2>5 DEF AcquireLock, CloseDone, LoadNode, LoadRows, CommitRegister, Registering
    <3>2. pc[c] \in Registering \/ (pc[c] = "lock" /\ HoldsLock(c))
      BY <2>5 DEF AcquireLock, CloseDone, LoadNode, LoadRows, CommitRegister, Registering
    <3>3. UNCHANGED lockQueue
      BY <2>5 DEF AcquireLock, CloseDone, LoadNode, LoadRows, CommitRegister
    <3>4. \A d \in Conn : pc'[d] = IF d = c THEN where ELSE pc[d]
      BY <3>1 DEF TypeOK
    <3> QED BY <3>1, <3>2, <3>3, <3>4, KeepLock DEF Queued
  <2>6. CASE \/ FirstLost(c) \/ ReceiveEvent(c) \/ CommitEvent(c) \/ AfterEvent(c)
             \/ Detect(c) \/ CommitDisconnect(c) \/ FinishDisconnect(c)
    <3> DEFINE Elsewhere == {"first", "loop", "write", "after", "bye", "drop", "done"}
    <3>1. PICK where \in Elsewhere : pc' = [pc EXCEPT ![c] = where]
      BY <2>6 DEF FirstLost, ReceiveEvent, CommitEvent, AfterEvent, Detect,
                  CommitDisconnect, FinishDisconnect
    <3>2. pc[c] \in Elsewhere
      BY <2>6 DEF FirstLost, ReceiveEvent, TakeFrame, CommitEvent, AfterEvent,
                  Detect, CommitDisconnect, FinishDisconnect
    <3>3. UNCHANGED lockQueue
      BY <2>6 DEF FirstLost, ReceiveEvent, CommitEvent, AfterEvent, Detect,
                  CommitDisconnect, FinishDisconnect
    <3>4. \A d \in Conn : pc'[d] = IF d = c THEN where ELSE pc[d]
      BY <3>1 DEF TypeOK
    <3> QED BY <3>1, <3>2, <3>3, <3>4, KeepLock DEF Queued, Registering
  <2> QED BY <1>1, <2>1, <2>2, <2>3, <2>4, <2>5, <2>6 DEF Endpoint
<1>2. ASSUME NEW c \in Conn, NodeConnect(c) PROVE LockInv'
  <2>1. \A d \in Conn : pc'[d] = IF d = c THEN "first" ELSE pc[d]
    BY <1>2 DEF NodeConnect, TypeOK
  <2>2. pc[c] \in Over /\ UNCHANGED lockQueue
    BY <1>2 DEF NodeConnect
  <2> QED BY <2>1, <2>2, KeepLock DEF Queued, Registering, Over
<1>3. CASE ServerRestart
  <2>1. lockQueue' = <<>> /\ \A c \in Conn : pc'[c] \in {"idle", "done"}
    BY <1>3 DEF ServerRestart
  <2>2. \A c \in Conn : ~Queued(c)'
    BY <2>1 DEF Queued, Registering
  <2> QED BY <2>1, <2>2 DEF LockInv, Registering
<1>4. CASE UNCHANGED <<pc, lockQueue>>
  BY <1>4 DEF LockInv, Queued
<1>5. CASE Node
  BY <1>2, <1>4, <1>5
     DEF Node, NodeExecute, NodeKill, NodeStatusReply, NodeInstanceStarts,
         NodeInstanceStreams, NodeInstanceEnds, NodeDrop, NodeCrash,
         NodeShutdown, NodeSeesClose
<1>6. ASSUME NEW i \in Instance, Dispatch(i) \/ DispatchKill(i) PROVE LockInv'
  BY <1>4, <1>6
     DEF Dispatch, CheckConnected, StorePending, SendExecute, RefuseUnsent,
         DispatchKill, SendCommand
<1>7. CASE DispatchStatusRequest
  BY <1>4, <1>7 DEF DispatchStatusRequest, SendCommand
<1>8. CASE Scanner
  BY <1>4, <1>8 DEF Scanner, ScanStale, CommitStale, CloseStale, DropStale
<1> QED BY <1>1, <1>3, <1>4, <1>5, <1>6, <1>7, <1>8 DEF Next

LEMMA TypeNext ==
  ASSUME TypeOK, LockInv, [Next]_vars
  PROVE  TypeOK'
<1>1. CASE UNCHANGED vars
  BY <1>1 DEF TypeOK
<1> QED BY <1>1, NodeType, EndpointType, DispatchType, StatusRequestType,
           ScannerType, RestartType DEF Next

LEMMA InitLock == Init => LockInv
BY DEF Init, LockInv, Queued, Registering

\* Every variable keeps its type, in every environment.
THEOREM TypeCorrect == Spec => []TypeOK
<1>1. Init => TypeOK /\ LockInv
  BY InitType, InitLock
<1>2. TypeOK /\ LockInv /\ [Next]_vars => TypeOK' /\ LockInv'
  BY TypeNext, LockInvNext
<1> QED BY <1>1, <1>2, PTL DEF Spec

\* The per-node lock (manager.py:32) admits one registration at a time, whatever
\* reconnects, failures of a registration, scans and restarts come in between.
THEOREM MutualExclusion == Spec => []RegistrationExclusive
<1>1. Init => TypeOK /\ LockInv
  BY InitType, InitLock
<1>2. TypeOK /\ LockInv /\ [Next]_vars => TypeOK' /\ LockInv'
  BY TypeNext, LockInvNext
<1>3. LockInv => RegistrationExclusive
  BY DEF LockInv, RegistrationExclusive
<1> QED BY <1>1, <1>2, <1>3, PTL DEF Spec

\* An endpoint that waits for the lock waits behind one that can take it or give it
\* back.
LockMoves ==
  \A c \in Conn : pc[c] = "lock" =>
    /\ lockQueue # <<>> /\ lockQueue[1] \in Conn
    /\ \/ pc[lockQueue[1]] \in Registering
       \/ pc[lockQueue[1]] = "lock" /\ HoldsLock(lockQueue[1])

\* The per-node lock (manager.py:32) is never left held: whatever fails in a
\* registration, and whoever drops or restarts meanwhile, the head of its queue is a
\* live endpoint that is inside the "async with" or may enter it.
THEOREM LockNeverOrphaned == Spec => []LockMoves
<1>1. Init => TypeOK /\ LockInv
  BY InitType, InitLock
<1>2. TypeOK /\ LockInv /\ [Next]_vars => TypeOK' /\ LockInv'
  BY TypeNext, LockInvNext
<1>3. TypeOK /\ LockInv => LockMoves
  <2> SUFFICES ASSUME TypeOK, LockInv, NEW c \in Conn, pc[c] = "lock"
               PROVE  /\ lockQueue # <<>> /\ lockQueue[1] \in Conn
                      /\ \/ pc[lockQueue[1]] \in Registering
                         \/ pc[lockQueue[1]] = "lock" /\ HoldsLock(lockQueue[1])
    BY DEF LockMoves
  <2>1. lockQueue \in Seq(Conn)
    BY DEF TypeOK
  <2>2. \E k \in 1..Len(lockQueue) : lockQueue[k] = c
    BY DEF LockInv, Queued
  <2>3. lockQueue # <<>> /\ 1 \in 1..Len(lockQueue) /\ lockQueue[1] \in Conn
    BY <2>1, <2>2
  <2>4. Queued(lockQueue[1])
    BY <2>3 DEF LockInv
  <2> QED BY <2>3, <2>4 DEF Queued, HoldsLock
<1> QED BY <1>1, <1>2, <1>3, PTL DEF Spec
-----------------------------------------------------------------------------
(* A row is in the database before its execute command leaves the server       *)
(* (commands.py, step (e) before step (f)), so that no frame of the node is    *)
(* ever about an instance without a row, except for those the database never   *)
(* had.                                                                        *)

\* Frames that need no row, or whose row exists.
RowFrame == {f \in Frame : /\ f.kind = "execute" => HasRow(f.inst)
                           /\ \A i \in f.running : HasRow(i)}

\* The strengthening that is inductive: what a dispatch has stored, what the node
\* knows, what is in either channel and what a handler works on has its row.
RowInv ==
  /\ \A i \in Instance :
       disp[i] \in {"stored", "unsent", "sent", "refused"} => db[i] # "absent"
  /\ \A i \in Instance : nodeInst[i] # "none" => HasRow(i)
  /\ toServer \in [Conn -> Seq(RowFrame)]
  /\ toNode \in [Conn -> Seq(RowFrame)]
  /\ job \in [Conn -> RowFrame]

-----------------------------------------------------------------------------
(* Rows are never removed.                                                  *)

LEMMA RowStaysEndpoint ==
  ASSUME TypeOK, NEW c \in Conn, Endpoint(c), NEW i \in Instance,
         db[i] # "absent"
  PROVE  db'[i] # "absent"
<1>1. CASE CommitRegister(c)
  BY <1>1 DEF CommitRegister, Reconciled, OrmWrite
<1>2. CASE CommitEvent(c)
  <2> DEFINE kind == job[c].kind
             row == OrmWrite(view[c][i], NewStatus(kind, view[c][i]), db[i])
  <2>1. db'[i] = IF i = job[c].inst /\ view[c][i] # "absent" THEN row ELSE db[i]
    BY <1>2 DEF CommitEvent
  <2>2. view[c][i] # "absent" => NewStatus(kind, view[c][i]) # "absent"
    BY DEF NewStatus
  <2> QED BY <2>1, <2>2 DEF OrmWrite
<1>3. CASE CommitDisconnect(c)
  BY <1>3 DEF CommitDisconnect, BulkErrored
<1>4. CASE UNCHANGED db
  BY <1>4
<1> QED
  BY <1>1, <1>2, <1>3, <1>4
     DEF Endpoint, ReceiveFirst, FirstLost, AcquireLock, CloseDone, LoadNode, LoadRows,
         FailRegister, AnnounceRegister, ReceiveRegister, ReceiveEvent, AfterEvent,
         Detect, FinishDisconnect

LEMMA RowStays ==
  ASSUME TypeOK, [Next]_vars, NEW i \in Instance, db[i] # "absent"
  PROVE  db'[i] # "absent"
<1>1. CASE Node
  BY <1>1 DEF Node, NodeConnect, NodeExecute, NodeKill, NodeStatusReply,
              NodeInstanceStarts, NodeInstanceStreams, NodeInstanceEnds, NodeDrop,
              NodeCrash, NodeShutdown, NodeSeesClose
<1>2. ASSUME NEW j \in Instance, Dispatch(j) PROVE db'[i] # "absent"
  BY <1>2 DEF Dispatch, CheckConnected, StorePending, SendExecute, RefuseUnsent, TypeOK
<1>3. ASSUME NEW j \in Instance, DispatchKill(j) PROVE db'[i] # "absent"
  BY <1>3 DEF DispatchKill, SendCommand
<1>4. CASE DispatchStatusRequest
  BY <1>4 DEF DispatchStatusRequest, SendCommand
<1>5. CASE Scanner
  BY <1>5 DEF Scanner, ScanStale, CommitStale, CloseStale, DropStale, BulkErrored
<1>6. CASE ServerRestart \/ UNCHANGED vars
  BY <1>6 DEF ServerRestart
<1> QED BY <1>1, <1>2, <1>3, <1>4, <1>5, <1>6, RowStaysEndpoint DEF Next

LEMMA RowFrameStays ==
  ASSUME TypeOK, [Next]_vars
  PROVE  /\ \A i \in Instance : HasRow(i) => HasRow(i)'
         /\ RowFrame \subseteq RowFrame'
         /\ Seq(RowFrame) \subseteq Seq(RowFrame')
<1>1. \A i \in Instance : HasRow(i) => HasRow(i)'
  BY RowStays DEF HasRow
<1>2. RowFrame \subseteq RowFrame'
  BY <1>1 DEF RowFrame, Frame, Impersonal
<1>3. ASSUME NEW S, NEW T, S \subseteq T PROVE Seq(S) \subseteq Seq(T)
  BY <1>3
<1> QED BY <1>1, <1>2, <1>3
-----------------------------------------------------------------------------
(* Sending and receiving keep the channels within a set of frames.           *)

LEMMA RowMsg ==
  ASSUME NEW kind \in FrameKind, NEW i \in Instance \cup {NoInst},
         kind \notin Impersonal => i \in Instance,
         kind = "execute" => HasRow(i)
  PROVE  Msg(kind, i) \in RowFrame
<1>1. Msg(kind, i) \in Frame
  BY MsgType
<1> QED BY <1>1 DEF RowFrame, Msg

LEMMA RowRegisterFrame ==
  ASSUME RowInv
  PROVE  RegisterFrame \in RowFrame
<1>1. \A i \in Running : HasRow(i)
  BY DEF Running, RowInv
<1> QED BY <1>1, RegisterFrameType DEF RowFrame, RegisterFrame

LEMMA EmitWithin ==
  ASSUME TypeOK, NEW S, toServer \in [Conn -> Seq(S)], NEW f \in S, Emit(f)
  PROVE  toServer' \in [Conn -> Seq(S)]
<1>1. nodeConn \in Conn \cup {NoConn}
  BY DEF TypeOK
<1>2. CASE nodeConn # NoConn /\ link[nodeConn] = "open"
  <2>1. Append(toServer[nodeConn], f) \in Seq(S)
    BY <1>1, <1>2
  <2> QED BY <1>1, <1>2, <2>1 DEF Emit
<1>3. CASE ~(nodeConn # NoConn /\ link[nodeConn] = "open")
  BY <1>1, <1>3 DEF Emit
<1> QED BY <1>2, <1>3

LEMMA CommandWithin ==
  ASSUME TypeOK, NEW kind, Command(kind), NEW S, toNode \in [Conn -> Seq(S)]
  PROVE  toNode' \in [Conn -> Seq(S)] /\ Head(toNode[nodeConn]) \in S
<1>1. nodeConn \in Conn /\ toNode[nodeConn] \in Seq(S) /\ toNode[nodeConn] # <<>>
  BY DEF Command, TypeOK
<1>2. Head(toNode[nodeConn]) \in S /\ Tail(toNode[nodeConn]) \in Seq(S)
  BY <1>1
<1> QED BY <1>1, <1>2 DEF Command

LEMMA HangupWithin ==
  ASSUME Hangup, NEW S, toNode \in [Conn -> Seq(S)]
  PROVE  toNode' \in [Conn -> Seq(S)]
BY DEF Hangup

LEMMA NodeEndRows ==
  ASSUME TypeOK, RowInv, NEW i \in Instance, NodeEnd(i)
  PROVE  /\ toServer' \in [Conn -> Seq(RowFrame)]
         /\ \A j \in Instance : nodeInst'[j] # "none" => HasRow(j)
<1>1. PICK kind \in {"instance_finished", "instance_error"} : Emit(Msg(kind, i))
  BY DEF NodeEnd
<1>2. Msg(kind, i) \in RowFrame
  BY RowMsg DEF FrameKind
<1>3. toServer' \in [Conn -> Seq(RowFrame)]
  BY <1>1, <1>2, EmitWithin DEF RowInv
<1>4. HasRow(i) /\ nodeInst' = [nodeInst EXCEPT ![i] = "ended"]
  BY DEF NodeEnd, Running, RowInv
<1> QED BY <1>3, <1>4 DEF RowInv, TypeOK

LEMMA RowsNode ==
  ASSUME TypeOK, RowInv, Node
  PROVE  RowInv'
<1> DEFINE NodeRows == \A j \in Instance : nodeInst'[j] # "none" => HasRow(j)
           ServerRows == toServer' \in [Conn -> Seq(RowFrame)]
           CommandRows == toNode' \in [Conn -> Seq(RowFrame)]
<1>0. ASSUME NodeRows, ServerRows, CommandRows, UNCHANGED <<disp, job>>
      PROVE  RowInv'
  <2>1. UNCHANGED db
    BY DEF Node, NodeConnect, NodeExecute, NodeKill, NodeStatusReply,
           NodeInstanceStarts, NodeInstanceStreams, NodeInstanceEnds, NodeDrop,
           NodeCrash, NodeShutdown, NodeSeesClose
  <2>2. RowFrame' = RowFrame /\ \A i \in Instance : HasRow(i)' <=> HasRow(i)
    BY <2>1 DEF RowFrame, HasRow
  <2> QED BY <1>0, <2>1, <2>2 DEF RowInv
<1>1. ASSUME NEW c \in Conn, NodeConnect(c) PROVE RowInv'
  <2>1. <<RegisterFrame>> \in Seq(RowFrame) /\ <<>> \in Seq(RowFrame)
    BY RowRegisterFrame
  <2>2. NodeRows /\ ServerRows /\ CommandRows
    BY <1>1, <2>1 DEF NodeConnect, RowInv
  <2> QED BY <1>0, <1>1, <2>2 DEF NodeConnect
<1>2. CASE NodeExecute
  <2> DEFINE i == Head(toNode[nodeConn]).inst
  <2>1. CommandRows /\ Head(toNode[nodeConn]) \in RowFrame
    BY <1>2, CommandWithin DEF NodeExecute, RowInv
  <2>2. i \in Instance /\ HasRow(i)
    BY <1>2, <2>1 DEF NodeExecute, Command, RowFrame, Frame, Impersonal
  <2>3. Msg("ack", i) \in RowFrame /\ Msg("instance_error", i) \in RowFrame
    BY <2>2, RowMsg DEF FrameKind
  <2>4. ServerRows
    BY <1>2, <2>3, EmitWithin DEF NodeExecute, RowInv
  <2>5. NodeRows
    BY <1>2, <2>2 DEF NodeExecute, RowInv, TypeOK
  <2> QED BY <1>0, <1>2, <2>1, <2>4, <2>5 DEF NodeExecute
<1>3. CASE NodeKill
  <2>1. CommandRows
    BY <1>3, CommandWithin DEF NodeKill, RowInv
  <2>2. NodeRows /\ ServerRows
    BY <1>3, NodeEndRows DEF NodeKill, RowInv, Running
  <2> QED BY <1>0, <1>3, <2>1, <2>2 DEF NodeKill
<1>4. CASE NodeStatusReply
  <2>1. CommandRows
    BY <1>4, CommandWithin DEF NodeStatusReply, RowInv
  <2>2. ServerRows
    BY <1>4, EmitWithin, RowRegisterFrame DEF NodeStatusReply, RowInv
  <2>3. NodeRows
    BY <1>4 DEF NodeStatusReply, RowInv
  <2> QED BY <1>0, <1>4, <2>1, <2>2, <2>3 DEF NodeStatusReply
<1>5. ASSUME NEW i \in Instance, NodeInstanceStarts(i) \/ NodeInstanceStreams(i)
      PROVE  RowInv'
  <2>1. Msg("instance_started", i) \in RowFrame /\ Msg("stream_event", i) \in RowFrame
    BY RowMsg DEF FrameKind
  <2>2. ServerRows
    BY <1>5, <2>1, EmitWithin DEF NodeInstanceStarts, NodeInstanceStreams, RowInv
  <2>3. NodeRows /\ CommandRows
    BY <1>5 DEF NodeInstanceStarts, NodeInstanceStreams, RowInv, TypeOK
  <2> QED BY <1>0, <1>5, <2>2, <2>3 DEF NodeInstanceStarts, NodeInstanceStreams
<1>6. ASSUME NEW i \in Instance, NodeInstanceEnds(i) PROVE RowInv'
  <2>1. NodeRows /\ ServerRows /\ CommandRows
    BY <1>6, NodeEndRows DEF NodeInstanceEnds, RowInv
  <2> QED BY <1>0, <1>6, <2>1 DEF NodeInstanceEnds
<1>7. CASE NodeDrop \/ NodeCrash \/ NodeShutdown \/ NodeSeesClose
  <2>1. CommandRows
    BY <1>7, HangupWithin DEF NodeDrop, NodeCrash, NodeShutdown, NodeSeesClose, RowInv
  <2>2. NodeRows
    BY <1>7 DEF NodeDrop, NodeCrash, NodeShutdown, NodeSeesClose, LoseRunning,
                Running, RowInv
  <2>3. Msg("node_disconnect", NoInst) \in RowFrame
    BY RowMsg DEF FrameKind, Impersonal
  <2>4. ServerRows
    BY <1>7, <2>3, EmitWithin
       DEF NodeDrop, NodeCrash, NodeShutdown, NodeSeesClose, RowInv
  <2> QED BY <1>0, <1>7, <2>1, <2>2, <2>4
          DEF NodeDrop, NodeCrash, NodeShutdown, NodeSeesClose
<1> QED BY <1>1, <1>2, <1>3, <1>4, <1>5, <1>6, <1>7 DEF Node
-----------------------------------------------------------------------------
(* The server's steps.                                                      *)

LEMMA ServerCloseWithin ==
  ASSUME NEW c \in Conn, ServerClose(c), NEW S, toServer \in [Conn -> Seq(S)]
  PROVE  toServer' \in [Conn -> Seq(S)]
BY DEF ServerClose

LEMMA TakeWithin ==
  ASSUME NEW c \in Conn, NEW S, toServer \in [Conn -> Seq(S)], toServer[c] # <<>>,
         toServer' = [toServer EXCEPT ![c] = Tail(@)]
  PROVE  toServer' \in [Conn -> Seq(S)] /\ Head(toServer[c]) \in S
<1>1. toServer[c] \in Seq(S)
  OBVIOUS
<1>2. Head(toServer[c]) \in S /\ Tail(toServer[c]) \in Seq(S)
  BY <1>1
<1> QED BY <1>2

\* The endpoint only takes frames and sends none; rows may appear.
LEMMA RowsEndpoint ==
  ASSUME TypeOK, RowInv, NEW c \in Conn, Endpoint(c)
  PROVE  RowInv'
<1>1. /\ \A i \in Instance : HasRow(i) => HasRow(i)'
      /\ RowFrame \subseteq RowFrame' /\ Seq(RowFrame) \subseteq Seq(RowFrame')
  BY RowFrameStays DEF Next
<1>2. UNCHANGED <<nodeInst, disp, toNode>>
  BY DEF Endpoint, ReceiveFirst, FirstLost, AcquireLock, CloseDone, LoadNode, LoadRows,
         CommitRegister, FailRegister, AnnounceRegister, ReceiveRegister,
         ReceiveEvent, CommitEvent, AfterEvent, Detect, CommitDisconnect,
         FinishDisconnect
<1>3. NoFrame \in RowFrame
  BY RowMsg DEF NoFrame, FrameKind, Impersonal
<1>4. <<>> \in Seq(RowFrame)
  OBVIOUS
<1>5. toServer' \in [Conn -> Seq(RowFrame)] /\ job' \in [Conn -> RowFrame]
  <2>1. CASE ReceiveFirst(c)
    BY <2>1, TakeWithin DEF ReceiveFirst, RowInv
  <2>2. CASE ReceiveRegister(c)
    <3>1. toServer' \in [Conn -> Seq(RowFrame)] /\ Head(toServer[c]) \in RowFrame
      BY <2>2, TakeWithin DEF ReceiveRegister, TakeFrame, RowInv
    <3> QED BY <2>2, <3>1 DEF ReceiveRegister, RowInv
  <2>3. CASE ReceiveEvent(c)
    <3>1. toServer' \in [Conn -> Seq(RowFrame)] /\ Head(toServer[c]) \in RowFrame
      BY <2>3, TakeWithin DEF ReceiveEvent, TakeFrame, RowInv
    <3> QED BY <2>3, <3>1 DEF ReceiveEvent, RowInv
  <2>4. CASE AcquireLock(c)
    BY <2>4, ServerCloseWithin DEF AcquireLock, RowInv, TypeOK
  <2>5. CASE FirstLost(c) \/ FailRegister(c) \/ Detect(c)
    <3>1. \/ UNCHANGED toServer
          \/ toServer' = [toServer EXCEPT ![c] = <<>>]
      BY <2>5 DEF FirstLost, FailRegister, Detect
    <3>2. UNCHANGED job \/ job' = [job EXCEPT ![c] = NoFrame]
      BY <2>5 DEF FirstLost, FailRegister, Detect, EndTransaction
    <3> QED BY <1>3, <1>4, <3>1, <3>2 DEF RowInv
  <2>6. CASE CommitRegister(c) \/ AfterEvent(c) \/ CommitDisconnect(c)
    BY <1>3, <2>6 DEF CommitRegister, AfterEvent, CommitDisconnect,
                      EndTransaction, RowInv
  <2>7. CASE \/ CloseDone(c) \/ LoadNode(c) \/ LoadRows(c) \/ AnnounceRegister(c)
             \/ CommitEvent(c) \/ FinishDisconnect(c)
    BY <2>7 DEF CloseDone, LoadNode, LoadRows, AnnounceRegister, CommitEvent,
                FinishDisconnect, RowInv
  <2> QED BY <2>1, <2>2, <2>3, <2>4, <2>5, <2>6, <2>7 DEF Endpoint
<1>6. \A i \in Instance : db[i] # "absent" => db'[i] # "absent"
  BY RowStaysEndpoint
<1> QED BY <1>1, <1>2, <1>5, <1>6 DEF RowInv

LEMMA RowsDispatch ==
  ASSUME TypeOK, RowInv, NEW i \in Instance, Dispatch(i)
  PROVE  RowInv'
<1>1. /\ \A j \in Instance : HasRow(j) => HasRow(j)'
      /\ RowFrame \subseteq RowFrame' /\ Seq(RowFrame) \subseteq Seq(RowFrame')
  BY RowFrameStays DEF Next
<1>2. UNCHANGED <<nodeInst, toServer, job>>
  BY DEF Dispatch, CheckConnected, StorePending, SendExecute, RefuseUnsent
<1>3. toNode' \in [Conn -> Seq(RowFrame)]
  <2>1. CASE SendExecute(i)
    <3>1. Msg("execute", i) \in RowFrame
      BY <2>1, RowMsg DEF SendExecute, RowInv, HasRow, FrameKind
    <3>2. CASE UNCHANGED toNode
      BY <3>2 DEF RowInv
    <3>3. CASE /\ registry # NoConn
               /\ toNode' = [toNode EXCEPT ![registry] = Append(@, Msg("execute", i))]
      <4>1. registry \in Conn
        BY <3>3 DEF TypeOK
      <4>2. Append(toNode[registry], Msg("execute", i)) \in Seq(RowFrame)
        BY <3>1, <4>1 DEF RowInv
      <4> QED BY <3>3, <4>2 DEF RowInv
    <3> QED BY <2>1, <3>2, <3>3 DEF SendExecute
  <2>2. CASE UNCHANGED toNode
    BY <2>2 DEF RowInv
  <2> QED BY <2>1, <2>2 DEF Dispatch, CheckConnected, StorePending, RefuseUnsent
<1>4. \A j \in Instance :
        disp'[j] \in {"stored", "unsent", "sent", "refused"} => db'[j] # "absent"
  <2>1. CASE CheckConnected(i)
    BY <2>1 DEF CheckConnected, RowInv, TypeOK
  <2>2. CASE StorePending(i)
    BY <2>2 DEF StorePending, RowInv, TypeOK
  <2>3. CASE SendExecute(i)
    BY <2>3 DEF SendExecute, RowInv, TypeOK
  <2>4. CASE RefuseUnsent(i)
    BY <2>4 DEF RefuseUnsent, RowInv, TypeOK
  <2> QED BY <2>1, <2>2, <2>3, <2>4 DEF Dispatch
<1> QED BY <1>1, <1>2, <1>3, <1>4 DEF RowInv

LEMMA RowsCommand ==
  ASSUME TypeOK, RowInv, NEW kind, NEW j, Msg(kind, j) \in RowFrame,
         SendCommand(kind, j)
  PROVE  RowInv'
<1>1. registry \in Conn
  BY DEF SendCommand, TypeOK
<1>2. Append(toNode[registry], Msg(kind, j)) \in Seq(RowFrame)
  BY <1>1 DEF RowInv
<1>3. toNode' \in [Conn -> Seq(RowFrame)]
  BY <1>2 DEF SendCommand, RowInv
<1>4. UNCHANGED <<nodeInst, toServer, job, disp, db>>
  BY DEF SendCommand
<1>5. RowFrame' = RowFrame /\ \A i \in Instance : HasRow(i)' <=> HasRow(i)
  BY <1>4 DEF RowFrame, HasRow
<1> QED BY <1>3, <1>4, <1>5 DEF RowInv

LEMMA RowsScanner ==
  ASSUME TypeOK, RowInv, Scanner
  PROVE  RowInv'
<1>1. /\ \A j \in Instance : HasRow(j) => HasRow(j)'
      /\ RowFrame \subseteq RowFrame' /\ Seq(RowFrame) \subseteq Seq(RowFrame')
  BY RowFrameStays DEF Next
<1>2. UNCHANGED <<nodeInst, toNode, job, disp>>
  BY DEF Scanner, ScanStale, CommitStale, CloseStale, DropStale
<1>3. toServer' \in [Conn -> Seq(RowFrame)]
  <2>1. CASE UNCHANGED toServer
    BY <2>1 DEF RowInv
  <2>2. CASE CloseStale /\ registry # NoConn
    BY <2>2, ServerCloseWithin DEF CloseStale, RowInv, TypeOK
  <2> QED BY <2>1, <2>2 DEF Scanner, ScanStale, CommitStale, CloseStale, DropStale
<1>4. \A i \in Instance : db[i] # "absent" => db'[i] # "absent"
  BY RowStays DEF Next
<1> QED BY <1>1, <1>2, <1>3, <1>4 DEF RowInv

LEMMA RowsRestart ==
  ASSUME TypeOK, RowInv, ServerRestart
  PROVE  RowInv'
<1>1. RowFrame' = RowFrame /\ \A i \in Instance : HasRow(i)' <=> HasRow(i)
  BY DEF ServerRestart, RowFrame, HasRow
<1>2. NoFrame \in RowFrame
  BY RowMsg DEF NoFrame, FrameKind, Impersonal
<1>3. toServer' \in [Conn -> Seq(RowFrame)] /\ job' \in [Conn -> RowFrame]
  BY <1>2 DEF ServerRestart
<1>4. \A i \in Instance : disp'[i] \in {"raised", disp[i]}
  BY DEF ServerRestart
<1> QED BY <1>1, <1>3, <1>4 DEF ServerRestart, RowInv

LEMMA RowsNext ==
  ASSUME TypeOK, RowInv, [Next]_vars
  PROVE  RowInv'
<1>1. CASE UNCHANGED vars
  BY <1>1 DEF RowInv, RowFrame, HasRow
<1>2. ASSUME NEW i \in Instance, DispatchKill(i) PROVE RowInv'
  <2>1. Msg("kill", i) \in RowFrame
    BY RowMsg DEF FrameKind
  <2> QED BY <1>2, <2>1, RowsCommand DEF DispatchKill
<1>3. CASE DispatchStatusRequest
  <2>1. Msg("status_request", NoInst) \in RowFrame
    BY RowMsg DEF FrameKind, Impersonal
  <2> QED BY <1>3, <2>1, RowsCommand DEF DispatchStatusRequest
<1> QED BY <1>1, <1>2, <1>3, RowsNode, RowsEndpoint, RowsDispatch, RowsScanner,
           RowsRestart DEF Next

LEMMA RowsInit == Init => RowInv
<1> SUFFICES ASSUME Init PROVE RowInv
  OBVIOUS
<1>1. NoFrame \in RowFrame
  BY RowMsg DEF NoFrame, FrameKind, Impersonal
<1> QED BY <1>1 DEF Init, RowInv, HasRow

LEMMA RowInvImplies == RowInv => RowBeforeCommand
<1> SUFFICES ASSUME RowInv PROVE RowBeforeCommand
  OBVIOUS
<1>1. ASSUME NEW c \in Conn, NEW k \in 1..Len(toNode[c]),
             toNode[c][k].kind = "execute"
      PROVE  HasRow(toNode[c][k].inst)
  <2>1. toNode[c] \in Seq(RowFrame)
    BY DEF RowInv
  <2>2. toNode[c][k] \in RowFrame
    BY <2>1
  <2> QED BY <1>1, <2>2 DEF RowFrame
<1>2. ASSUME NEW c \in Conn, NEW i \in job[c].running PROVE HasRow(i)
  <2>1. job[c] \in RowFrame
    BY DEF RowInv
  <2> QED BY <2>1 DEF RowFrame
<1> QED BY <1>1, <1>2 DEF RowBeforeCommand, RowInv

\* Whatever the order of reconnects, scans, restarts and commands: an execute
\* command in flight, an instance the node knows, and an instance a registration
\* reports have their row (or never went through this server at all).
THEOREM RowFirst == Spec => []RowBeforeCommand
<1>1. Init => TypeOK /\ LockInv /\ RowInv
  BY InitType, InitLock, RowsInit
<1>2. TypeOK /\ LockInv /\ RowInv /\ [Next]_vars => TypeOK' /\ LockInv' /\ RowInv'
  BY TypeNext, LockInvNext, RowsNext
<1>3. RowInv => RowBeforeCommand
  BY RowInvImplies
<1> QED BY <1>1, <1>2, <1>3, PTL DEF Spec
-----------------------------------------------------------------------------
(* "finished" is true.  An execute command is sent once and taken once, so an *)
(* instance that has ended does not come back, and what is recorded of it      *)
(* stays true.                                                                *)

Ordered(c, k, i) ==
  k \in 1..Len(toNode[c]) /\ toNode[c][k].kind = "execute" /\ toNode[c][k].inst = i

Unsent(i) == disp[i] \in {"none", "checked", "stored"}

OnceInv ==
  /\ \A i \in Instance : Unsent(i) /\ i \notin Foreign => nodeInst[i] = "none"
  /\ \A i \in Foreign : disp[i] = "none"
  /\ \A c \in Conn : \A i \in Instance : \A k \in Nat :
       Ordered(c, k, i) => nodeInst[i] = "none" /\ ~Unsent(i)
  /\ \A c, d \in Conn : \A i \in Instance : \A k, l \in Nat :
       Ordered(c, k, i) /\ Ordered(d, l, i) => c = d /\ k = l

\* Only an execute command makes an instance known.
Known == \A i \in Instance : nodeInst[i] = "none" => nodeInst'[i] = "none"

\* Commands are taken or lost.
LEMMA OnceShrinks ==
  ASSUME TypeOK, OnceInv, Known,
         \A c \in Conn : toNode'[c] \in {toNode[c], <<>>, Tail(toNode[c])},
         \A i \in Instance : Unsent(i)' => Unsent(i),
         \A i \in Foreign : disp'[i] = disp[i]
  PROVE  OnceInv'
<1>1. ASSUME NEW c \in Conn, NEW i \in Instance, NEW k \in Nat, Ordered(c, k, i)'
      PROVE  \/ toNode'[c] = toNode[c] /\ Ordered(c, k, i)
             \/ toNode'[c] # toNode[c] /\ Ordered(c, k + 1, i)
  <2>1. toNode[c] \in Seq(Frame)
    BY DEF TypeOK
  <2>2. CASE toNode'[c] = toNode[c]
    BY <1>1, <2>2 DEF Ordered
  <2>3. CASE toNode'[c] = <<>>
    BY <1>1, <2>3 DEF Ordered
  <2>4. CASE toNode'[c] # toNode[c] /\ toNode'[c] = Tail(toNode[c]) /\ toNode[c] # <<>>
    <3>1. Len(toNode'[c]) = Len(toNode[c]) - 1 /\ Len(toNode[c]) \in Nat
      BY <2>1, <2>4
    <3>2. \A n \in 1..Len(toNode'[c]) : toNode'[c][n] = toNode[c][n + 1]
      BY <2>1, <2>4
    <3>3. k + 1 \in 1..Len(toNode[c])
      BY <1>1, <3>1 DEF Ordered
    <3>4. QED  BY <1>1, <2>4, <3>2, <3>3 DEF Ordered
  <2>5. CASE toNode'[c] = Tail(toNode[c]) /\ toNode[c] = <<>>
    <3>1. toNode'[c] = <<>>
      BY <2>5
    <3>2. QED  BY <1>1, <3>1 DEF Ordered
  <2>6. QED  BY <2>2, <2>3, <2>4, <2>5
<1>2. ASSUME NEW c \in Conn, NEW i \in Instance, NEW k \in Nat, Ordered(c, k, i)'
      PROVE  nodeInst'[i] = "none" /\ ~Unsent(i)'
  BY <1>1, <1>2 DEF OnceInv, Known
<1>3. ASSUME NEW c \in Conn, NEW d \in Conn, NEW i \in Instance, NEW k \in Nat, NEW l \in Nat,
             Ordered(c, k, i)', Ordered(d, l, i)'
      PROVE  c = d /\ k = l
  <2>1. PICK m \in Nat : Ordered(c, m, i) /\ (IF toNode'[c] = toNode[c] THEN m = k ELSE m = k + 1)
    BY <1>1, <1>3
  <2>2. PICK n \in Nat : Ordered(d, n, i) /\ (IF toNode'[d] = toNode[d] THEN n = l ELSE n = l + 1)
    BY <1>1, <1>3
  <2>3. c = d /\ m = n
    BY <2>1, <2>2 DEF OnceInv
  <2>4. QED  BY <2>1, <2>2, <2>3
<1>4. \A i \in Instance : Unsent(i)' /\ i \notin Foreign => nodeInst'[i] = "none"
  BY DEF OnceInv, Known
<1>5. \A i \in Foreign : disp'[i] = "none"
  BY DEF OnceInv
<1>6. QED  BY <1>2, <1>3, <1>4, <1>5 DEF OnceInv

\* A command other than execute is sent.
LEMMA OnceSends ==
  ASSUME TypeOK, OnceInv, NEW c \in Conn, NEW f \in Frame,
         toNode' = [toNode EXCEPT ![c] = Append(@, f)], UNCHANGED nodeInst,
         \/ f.kind # "execute" /\ UNCHANGED disp
         \/ /\ f.kind = "execute" /\ disp[f.inst] = "stored"
            /\ disp' = [disp EXCEPT ![f.inst] = "sent"]
  PROVE  OnceInv'
<1>1. toNode[c] \in Seq(Frame) /\ toNode'[c] = Append(toNode[c], f)
      /\ \A d \in Conn : d # c => toNode'[d] = toNode[d]
  BY DEF TypeOK
<1>2. /\ Len(toNode[c]) \in Nat /\ Len(toNode'[c]) = Len(toNode[c]) + 1
      /\ toNode'[c][Len(toNode[c]) + 1] = f
      /\ \A k \in 1..Len(toNode[c]) : toNode'[c][k] = toNode[c][k]
  BY <1>1
<1>3. ASSUME NEW d \in Conn, NEW i \in Instance, NEW k \in Nat, Ordered(d, k, i)'
      PROVE  \/ Ordered(d, k, i)
             \/ d = c /\ k = Len(toNode[c]) + 1 /\ f.kind = "execute" /\ f.inst = i
  <2>1. CASE d # c
    BY <1>1, <1>3, <2>1 DEF Ordered
  <2>2. CASE d = c /\ k \in 1..Len(toNode[c])
    BY <1>2, <1>3, <2>2 DEF Ordered
  <2>3. CASE d = c /\ k \notin 1..Len(toNode[c])
    <3>1. k = Len(toNode[c]) + 1
      BY <1>2, <1>3, <2>3 DEF Ordered
    <3>2. QED  BY <1>2, <1>3, <2>3, <3>1 DEF Ordered
  <2>4. QED  BY <2>1, <2>2, <2>3
<1>4. f.kind = "execute" => f.inst \in Instance
  BY DEF Frame, Impersonal
<1>5. disp \in [Instance -> {"none", "checked", "stored", "unsent", "sent", "refused", "raised"}]
  BY DEF TypeOK
<1>6. CASE f.kind # "execute"
  <2>1. \A i \in Instance : Unsent(i)' <=> Unsent(i)
    BY <1>6 DEF Unsent
  <2>2. \A d \in Conn : \A i \in Instance : \A k \in Nat : Ordered(d, k, i)' => Ordered(d, k, i)
    BY <1>3, <1>6
  <2>3. \A i \in Foreign : disp'[i] = "none"
    BY <1>6 DEF OnceInv
  <2>4. QED  BY <2>1, <2>2, <2>3 DEF OnceInv
<1>7. CASE f.kind = "execute"
  <2> PICK j \in Instance : j = f.inst
    BY <1>4, <1>7
  <2>1. /\ j \notin Foreign /\ nodeInst[j] = "none" /\ Unsent(j)
        /\ \A d \in Conn : \A k \in Nat : ~Ordered(d, k, j)
    BY <1>7 DEF OnceInv, Unsent
  <2>2. disp'[j] = "sent" /\ \A i \in Instance : i # j => disp'[i] = disp[i]
    BY <1>5, <1>7
  <2>3. /\ ~Unsent(j)'
        /\ \A i \in Instance : i # j => (Unsent(i)' <=> Unsent(i))
    BY <2>2 DEF Unsent
  <2>4. ASSUME NEW d \in Conn, NEW i \in Instance, NEW k \in Nat, Ordered(d, k, i)'
        PROVE  nodeInst'[i] = "none" /\ ~Unsent(i)'
    BY <1>3, <2>1, <2>3, <2>4 DEF OnceInv
  <2>5. ASSUME NEW d \in Conn, NEW e \in Conn, NEW i \in Instance, NEW k \in Nat, NEW l \in Nat,
               Ordered(d, k, i)', Ordered(e, l, i)'
        PROVE  d = e /\ k = l
    <3>1. CASE i = j
      BY <1>3, <2>1, <2>5, <3>1
    <3>2. CASE i # j
      <4>1. Ordered(d, k, i) /\ Ordered(e, l, i)
        BY <1>3, <2>5, <3>2
      <4>2. QED  BY <4>1 DEF OnceInv
    <3>3. QED  BY <3>1, <3>2
  <2>6. \A i \in Instance : Unsent(i)' /\ i \notin Foreign => nodeInst'[i] = "none"
    BY <2>3 DEF OnceInv
  <2>7. \A i \in Foreign : disp'[i] = "none"
    <3>1. \A i \in Foreign : i \in Instance /\ i # j
      BY <2>1, NodeSessionAssumption
    <3>2. QED  BY <2>2, <3>1 DEF OnceInv
  <2>8. QED  BY <2>4, <2>5, <2>6, <2>7 DEF OnceInv
<1>8. QED  BY <1>6, <1>7

\* The execute command of i is taken, and was the only one.
LEMMA OnceTaken ==
  ASSUME TypeOK, OnceInv, NEW c \in Conn, NEW i \in Instance, Ordered(c, 1, i),
         toNode' = [toNode EXCEPT ![c] = Tail(@)], UNCHANGED disp,
         \A j \in Instance : j # i => nodeInst'[j] = nodeInst[j]
  PROVE  OnceInv'
<1>1. toNode[c] \in Seq(Frame) /\ toNode[c] # <<>> /\ Len(toNode[c]) \in Nat
  BY DEF TypeOK, Ordered
<1>2. /\ toNode'[c] = Tail(toNode[c]) /\ Len(toNode'[c]) = Len(toNode[c]) - 1
      /\ \A n \in 1..Len(toNode'[c]) : toNode'[c][n] = toNode[c][n + 1]
      /\ \A d \in Conn : d # c => toNode'[d] = toNode[d]
  BY <1>1 DEF TypeOK
<1>3. ASSUME NEW d \in Conn, NEW j \in Instance, NEW k \in Nat, Ordered(d, k, j)'
      PROVE  j # i /\ (IF d = c THEN Ordered(d, k + 1, j) ELSE Ordered(d, k, j))
  <2>1. CASE d = c
    <3>1. k + 1 \in 1..Len(toNode[c]) /\ k # 0
      BY <1>1, <1>2, <1>3, <2>1 DEF Ordered
    <3>2. Ordered(d, k + 1, j)
      BY <1>2, <1>3, <2>1, <3>1 DEF Ordered
    <3>3. j # i
      BY <2>1, <3>1, <3>2 DEF OnceInv
    <3>4. QED  BY <2>1, <3>2, <3>3
  <2>2. CASE d # c
    <3>1. Ordered(d, k, j)
      BY <1>2, <1>3, <2>2 DEF Ordered
    <3>2. j # i
      BY <2>2, <3>1 DEF OnceInv
    <3>3. QED  BY <2>2, <3>1, <3>2
  <2>3. QED  BY <2>1, <2>2
<1>4. \A j \in Instance : Unsent(j)' <=> Unsent(j)
  BY DEF Unsent
<1>5. ~Unsent(i)
  BY DEF OnceInv
<1>6. ASSUME NEW d \in Conn, NEW j \in Instance, NEW k \in Nat, Ordered(d, k, j)'
      PROVE  nodeInst'[j] = "none" /\ ~Unsent(j)'
  <2>1. PICK n \in Nat : Ordered(d, n, j) /\ j # i
    BY <1>3, <1>6
  <2>2. QED  BY <1>4, <2>1 DEF OnceInv
<1>7. ASSUME NEW d \in Conn, NEW e \in Conn, NEW j \in Instance, NEW k \in Nat, NEW l \in Nat,
             Ordered(d, k, j)', Ordered(e, l, j)'
      PROVE  d = e /\ k = l
  <2>1. PICK m \in Nat : Ordered(d, m, j) /\ (IF d = c THEN m = k + 1 ELSE m = k)
    BY <1>3, <1>7
  <2>2. PICK n \in Nat : Ordered(e, n, j) /\ (IF e = c THEN n = l + 1 ELSE n = l)
    BY <1>3, <1>7
  <2>3. d = e /\ m = n
    BY <2>1, <2>2 DEF OnceInv
  <2>4. QED  BY <2>1, <2>2, <2>3
<1>8. \A j \in Instance : Unsent(j)' /\ j \notin Foreign => nodeInst'[j] = "none"
  BY <1>4, <1>5 DEF OnceInv
<1>9. \A j \in Foreign : disp'[j] = "none"
  BY DEF OnceInv
<1>10. QED  BY <1>6, <1>7, <1>8, <1>9 DEF OnceInv

LEMMA OnceNode ==
  ASSUME TypeOK, OnceInv, Node
  PROVE  OnceInv' /\ \A i \in Instance : nodeInst[i] = "ended" => nodeInst'[i] = "ended"
<1> DEFINE Stays == \A i \in Instance : nodeInst[i] = "ended" => nodeInst'[i] = "ended"
           Shrinks == \A c \in Conn : toNode'[c] \in {toNode[c], <<>>, Tail(toNode[c])}
<1>0. /\ nodeInst \in [Instance -> NodeInstStatus]
      /\ toNode \in [Conn -> Seq(Frame)] /\ nodeConn \in Conn \cup {NoConn}
      /\ UNCHANGED disp
  BY DEF TypeOK, Node, NodeConnect, NodeExecute, NodeKill, NodeStatusReply, NodeInstanceStarts,
         NodeInstanceStreams, NodeInstanceEnds, NodeDrop, NodeCrash, NodeShutdown, NodeSeesClose
<1>1. ASSUME Known, Stays, Shrinks
      PROVE  OnceInv' /\ Stays
  <2>1. \A i \in Instance : Unsent(i)' => Unsent(i)
    BY <1>0 DEF Unsent
  <2>2. \A i \in Foreign : disp'[i] = disp[i]
    BY <1>0
  <2>3. QED  BY <1>1, <2>1, <2>2, OnceShrinks
<1>2. ASSUME NEW kind, Command(kind)
      PROVE  Shrinks
  BY <1>0, <1>2 DEF Command
<1>3. ASSUME NEW i \in Instance, NodeEnd(i)
      PROVE  Known /\ Stays
  BY <1>0, <1>3 DEF NodeEnd, Running, Known
<1>4. ASSUME NEW c \in Conn, NodeConnect(c)
      PROVE  OnceInv' /\ Stays
  <2>1. Shrinks
    BY <1>0, <1>4 DEF NodeConnect
  <2>2. Known /\ Stays
    BY <1>4 DEF NodeConnect, Known
  <2>3. QED  BY <1>1, <2>1, <2>2
<1>5. CASE NodeKill
  <2>1. Known /\ Stays
    BY <1>3, <1>5 DEF NodeKill, Running, Known
  <2>2. QED  BY <1>1, <1>2, <1>5, <2>1 DEF NodeKill
<1>6. CASE NodeStatusReply
  BY <1>1, <1>2, <1>6 DEF NodeStatusReply, Known
<1>7. ASSUME NEW i \in Instance, NodeInstanceStarts(i) \/ NodeInstanceStreams(i) \/ NodeInstanceEnds(i)
      PROVE  OnceInv' /\ Stays
  <2>1. UNCHANGED toNode
    BY <1>7 DEF NodeInstanceStarts, NodeInstanceStreams, NodeInstanceEnds
  <2>2. CASE NodeInstanceEnds(i)
    BY <1>1, <1>3, <2>1, <2>2 DEF NodeInstanceEnds
  <2>3. CASE NodeInstanceStarts(i) \/ NodeInstanceStreams(i)
    <3>1. Known /\ Stays
      BY <1>0, <2>3 DEF NodeInstanceStarts, NodeInstanceStreams, Known
    <3>2. QED  BY <1>1, <2>1, <3>1
  <2>4. QED  BY <1>7, <2>2, <2>3
<1>8. CASE NodeDrop \/ NodeCrash \/ NodeShutdown \/ NodeSeesClose
  <2>1. Hangup
    BY <1>8 DEF NodeDrop, NodeCrash, NodeShutdown, NodeSeesClose
  <2>2. Shrinks
    BY <1>0, <2>1 DEF Hangup
  <2>3. UNCHANGED nodeInst \/ LoseRunning
    BY <1>8 DEF NodeDrop, NodeCrash, NodeShutdown, NodeSeesClose
  <2>4. Known /\ Stays
    BY <1>0, <2>3 DEF LoseRunning, Running, Known
  <2>5. QED  BY <1>1, <2>2, <2>4
<1>9. CASE NodeExecute
  <2> DEFINE i == Head(toNode[nodeConn]).inst
  <2>1. nodeConn \in Conn /\ toNode[nodeConn] \in Seq(Frame) /\ toNode[nodeConn] # <<>>
    BY <1>0, <1>9 DEF NodeExecute, Command
  <2>2. Head(toNode[nodeConn]) = toNode[nodeConn][1] /\ Head(toNode[nodeConn]) \in Frame
        /\ 1 \in 1..Len(toNode[nodeConn])
    BY <2>1
  <2>3. Head(toNode[nodeConn]).kind = "execute"
    BY <1>9 DEF NodeExecute, Command
  <2>4. i \in Instance /\ Ordered(nodeConn, 1, i)
    BY <2>2, <2>3 DEF Ordered, Frame, Impersonal
  <2>5. nodeInst[i] = "none" /\ ~Unsent(i)
    BY <2>1, <2>4 DEF OnceInv
  <2>6. nodeInst'[i] \in {"accepted", "ended"} /\ \A j \in Instance : j # i => nodeInst'[j] = nodeInst[j]
    BY <1>0, <1>9, <2>4 DEF NodeExecute
  <2>7. Stays
    BY <2>5, <2>6
  <2>8. toNode' = [toNode EXCEPT ![nodeConn] = Tail(@)]
    BY <1>9 DEF NodeExecute, Command
  <2>9. OnceInv'
    BY <1>0, <2>1, <2>4, <2>5, <2>6, <2>8, OnceTaken
  <2>10. QED  BY <2>7, <2>9
<1>10. QED  BY <1>4, <1>5, <1>6, <1>7, <1>8, <1>9 DEF Node

\* The server sends execute once per dispatch.
LEMMA OnceServer ==
  ASSUME TypeOK, OnceInv, UNCHANGED nodeInst,
         \/ \E c \in Conn : Endpoint(c)
         \/ \E i \in Instance : Dispatch(i) \/ DispatchKill(i)
         \/ DispatchStatusRequest \/ Scanner \/ ServerRestart \/ UNCHANGED vars
  PROVE  OnceInv'
<1>0. /\ disp \in [Instance -> {"none", "checked", "stored", "unsent", "sent", "refused", "raised"}]
      /\ registry \in Conn \cup {NoConn} /\ Known
  BY DEF TypeOK, Known
<1>1. ASSUME UNCHANGED toNode, \A i \in Instance : Unsent(i)' => Unsent(i), \A i \in Foreign : disp'[i] = disp[i]
      PROVE  OnceInv'
  BY <1>0, <1>1, OnceShrinks
<1>2. ASSUME UNCHANGED <<toNode, disp>>
      PROVE  OnceInv'
  <2>1. \A i \in Instance : Unsent(i)' => Unsent(i)
    BY <1>2 DEF Unsent
  <2>2. \A i \in Foreign : disp'[i] = disp[i]
    BY <1>2
  <2>3. QED  BY <1>1, <1>2, <2>1, <2>2
<1>3. ASSUME NEW c \in Conn, Endpoint(c)
      PROVE  OnceInv'
  <2>1. UNCHANGED <<toNode, disp>>
    BY <1>3 DEF Endpoint, ReceiveFirst, FirstLost, AcquireLock, CloseDone, LoadNode, LoadRows,
         CommitRegister, FailRegister, AnnounceRegister, ReceiveRegister,
         ReceiveEvent, CommitEvent, AfterEvent, Detect, CommitDisconnect, FinishDisconnect
  <2>2. QED  BY <1>2, <2>1
<1>4. CASE Scanner
  <2>1. UNCHANGED <<toNode, disp>>
    BY <1>4 DEF Scanner, ScanStale, CommitStale, CloseStale, DropStale
  <2>2. QED  BY <1>2, <2>1
<1>5. CASE UNCHANGED vars
  BY <1>2, <1>5
<1>6. CASE ServerRestart
  <2>1. UNCHANGED toNode
    BY <1>6 DEF ServerRestart
  <2>2. \A i \in Instance : disp'[i] = IF disp[i] \in {"checked", "stored", "unsent"} THEN "raised" ELSE disp[i]
    BY <1>6 DEF ServerRestart
  <2>3. \A i \in Instance : Unsent(i)' => Unsent(i)
    BY <2>2 DEF Unsent
  <2>4. \A i \in Foreign : disp'[i] = disp[i]
    BY <2>2, NodeSessionAssumption DEF OnceInv
  <2>5. QED  BY <1>1, <2>1, <2>3, <2>4
<1>7. ASSUME NEW i \in Instance, DispatchKill(i)
      PROVE  OnceInv'
  <2> PICK f \in Frame : f = Msg("kill", i)
    BY MsgType DEF FrameKind
  <2>0. f.kind = "kill"
    BY DEF Msg
  <2>1. registry \in Conn /\ toNode' = [toNode EXCEPT ![registry] = Append(@, f)] /\ UNCHANGED disp
    BY <1>0, <1>7 DEF DispatchKill, SendCommand
  <2>2. QED  BY <2>0, <2>1, OnceSends
<1>8. CASE DispatchStatusRequest
  <2> PICK f \in Frame : f = Msg("status_request", NoInst)
    BY MsgType DEF FrameKind, Impersonal
  <2>0. f.kind = "status_request"
    BY DEF Msg
  <2>1. registry \in Conn /\ toNode' = [toNode EXCEPT ![registry] = Append(@, f)] /\ UNCHANGED disp
    BY <1>0, <1>8 DEF DispatchStatusRequest, SendCommand
  <2>2. QED  BY <2>0, <2>1, OnceSends
<1>9. ASSUME NEW i \in Instance, Dispatch(i)
      PROVE  OnceInv'
  <2>1. i \notin Foreign
    BY <1>9 DEF Dispatch, CheckConnected, StorePending, SendExecute, RefuseUnsent, OnceInv
  <2>2. ASSUME UNCHANGED toNode, NEW v, disp' = [disp EXCEPT ![i] = v],
               v \in {"none", "checked", "stored"} => Unsent(i)
        PROVE  OnceInv'
    <3>1. disp'[i] = v /\ \A j \in Instance : j # i => disp'[j] = disp[j]
      BY <1>0, <2>2
    <3>2. \A j \in Instance : Unsent(j)' => Unsent(j)
      BY <2>2, <3>1 DEF Unsent
    <3>3. \A j \in Foreign : disp'[j] = disp[j]
      BY <2>1, <3>1, NodeSessionAssumption
    <3>4. QED  BY <1>1, <2>2, <3>2, <3>3
  <2>3. CASE CheckConnected(i)
    BY <2>2, <2>3 DEF CheckConnected, Unsent
  <2>4. CASE StorePending(i)
    BY <2>2, <2>4 DEF StorePending, Unsent
  <2>5. CASE RefuseUnsent(i)
    BY <2>2, <2>5 DEF RefuseUnsent
  <2>6. CASE SendExecute(i)
    <3>1. CASE UNCHANGED toNode
      <4>1. PICK v \in {"unsent", "sent", "raised"} : disp' = [disp EXCEPT ![i] = v]
        BY <2>6 DEF SendExecute
      <4>2. QED  BY <2>2, <3>1, <4>1
    <3>2. CASE registry # NoConn /\ toNode' = [toNode EXCEPT ![registry] = Append(@, Msg("execute", i))]
               /\ disp' = [disp EXCEPT ![i] = "sent"]
      <4> PICK f \in Frame : f = Msg("execute", i)
        BY MsgType DEF FrameKind
      <4>0. f.kind = "execute" /\ f.inst = i
        BY DEF Msg
      <4>1. registry \in Conn /\ disp[i] = "stored"
        BY <1>0, <2>6, <3>2 DEF SendExecute
      <4>2. QED  BY <3>2, <4>0, <4>1, OnceSends
    <3>3. QED  BY <2>6, <3>1, <3>2 DEF SendExecute
  <2>7. QED  BY <1>9, <2>3, <2>4, <2>5, <2>6 DEF Dispatch
<1>10. QED  BY <1>3, <1>4, <1>5, <1>6, <1>7, <1>8, <1>9

\* What the server does leaves the node's instances alone.
LEMMA NodeOnly ==
  ASSUME [Next]_vars
  PROVE  Node \/ UNCHANGED nodeInst
<1>1. ASSUME NEW c \in Conn, Endpoint(c)
      PROVE  UNCHANGED nodeInst
  BY <1>1 DEF Endpoint, ReceiveFirst, FirstLost, AcquireLock, CloseDone, LoadNode, LoadRows,
       CommitRegister, FailRegister, AnnounceRegister, ReceiveRegister,
       ReceiveEvent, CommitEvent, AfterEvent, Detect, CommitDisconnect, FinishDisconnect
<1>2. ASSUME NEW i \in Instance, Dispatch(i) \/ DispatchKill(i)
      PROVE  UNCHANGED nodeInst
  BY <1>2 DEF Dispatch, CheckConnected, StorePending, SendExecute, RefuseUnsent, DispatchKill, SendCommand
<1>3. CASE DispatchStatusRequest \/ Scanner \/ ServerRestart
  BY <1>3 DEF DispatchStatusRequest, SendCommand, Scanner, ScanStale, CommitStale, CloseStale,
              DropStale, ServerRestart
<1>4. QED  BY <1>1, <1>2, <1>3 DEF Next

LEMMA OnceNext ==
  ASSUME TypeOK, OnceInv, [Next]_vars
  PROVE  OnceInv' /\ \A i \in Instance : nodeInst[i] = "ended" => nodeInst'[i] = "ended"
<1>1. CASE Node
  BY <1>1, OnceNode
<1>2. CASE ~Node /\ UNCHANGED nodeInst
  BY <1>2, OnceServer DEF Next
<1>3. QED  BY <1>1, <1>2, NodeOnly

\* Frames, handlers and transactions that say "finished" are right.
RealFrame == {f \in Frame : f.kind = "instance_finished" => nodeInst[f.inst] = "ended"}

RealInv ==
  /\ FinishedIsReal
  /\ toServer \in [Conn -> Seq(RealFrame)]
  /\ job \in [Conn -> RealFrame]
  /\ \A c \in Conn : \A i \in Instance : view[c][i] = "finished" => nodeInst[i] = "ended"

LEMMA RealFrameStays ==
  ASSUME \A i \in Instance : nodeInst[i] = "ended" => nodeInst'[i] = "ended"
  PROVE  RealFrame \subseteq RealFrame' /\ Seq(RealFrame) \subseteq Seq(RealFrame')
<1>1. RealFrame \subseteq RealFrame'
  BY DEF RealFrame, Frame, Impersonal
<1>2. ASSUME NEW S, NEW T, S \subseteq T PROVE Seq(S) \subseteq Seq(T)
  BY <1>2
<1>3. QED  BY <1>1, <1>2

LEMMA RealNode ==
  ASSUME TypeOK, OnceInv, RealInv, Node
  PROVE  RealInv'
<1>1. UNCHANGED <<db, told, view, job>>
  BY DEF Node, NodeConnect, NodeExecute, NodeKill, NodeStatusReply, NodeInstanceStarts,
         NodeInstanceStreams, NodeInstanceEnds, NodeDrop, NodeCrash, NodeShutdown, NodeSeesClose
<1>2. \A i \in Instance : nodeInst[i] = "ended" => nodeInst'[i] = "ended"
  BY OnceNode
<1>3. PICK S : S = RealFrame'
  OBVIOUS
<1>4. toServer \in [Conn -> Seq(S)] /\ job' \in [Conn -> S]
  BY <1>1, <1>2, <1>3, RealFrameStays DEF RealInv
<1>5. \A f \in Frame : f.kind # "instance_finished" => f \in S
  BY <1>3 DEF RealFrame
<1>6. ASSUME NEW f \in Frame, f.kind # "instance_finished", Emit(f)
      PROVE  toServer' \in [Conn -> Seq(S)]
  BY <1>4, <1>5, <1>6, EmitWithin
<1>7. RegisterFrame \in Frame /\ RegisterFrame.kind = "node_register"
  BY RegisterFrameType DEF RegisterFrame
<1>8. ASSUME NEW i \in Instance, NodeEnd(i)
      PROVE  toServer' \in [Conn -> Seq(S)]
  <2> PICK kind \in {"instance_finished", "instance_error"} : Emit(Msg(kind, i))
    BY <1>8 DEF NodeEnd
  <2>1. nodeInst'[i] = "ended"
    BY <1>8 DEF NodeEnd, TypeOK
  <2>2. Msg(kind, i) \in Frame
    BY MsgType DEF FrameKind
  <2>3. Msg(kind, i) \in S
    BY <1>3, <2>1, <2>2 DEF RealFrame, Msg
  <2>4. QED  BY <1>4, <2>3, EmitWithin
<1>9. toServer' \in [Conn -> Seq(S)]
  <2>1. ASSUME NEW c \in Conn, NodeConnect(c)
        PROVE  toServer' \in [Conn -> Seq(S)]
    <3>1. <<RegisterFrame>> \in Seq(S)
      BY <1>5, <1>7
    <3>2. QED  BY <1>4, <2>1, <3>1 DEF NodeConnect
  <2>2. CASE NodeExecute
    <3> DEFINE i == Head(toNode[nodeConn]).inst
    <3>1. Head(toNode[nodeConn]) \in Frame /\ Head(toNode[nodeConn]).kind = "execute"
      BY <2>2, CommandWithin DEF NodeExecute, Command, TypeOK
    <3>2. i \in Instance
      BY <3>1 DEF Frame, Impersonal
    <3>3. /\ Msg("ack", i) \in Frame /\ Msg("ack", i).kind # "instance_finished"
          /\ Msg("instance_error", i) \in Frame /\ Msg("instance_error", i).kind # "instance_finished"
      BY <3>2, MsgType DEF FrameKind, Msg
    <3>4. Emit(Msg("ack", i)) \/ Emit(Msg("instance_error", i))
      BY <2>2 DEF NodeExecute
    <3>5. QED  BY <1>6, <3>3, <3>4
  <2>3. CASE NodeKill
    BY <1>4, <1>8, <2>3 DEF NodeKill, Running
  <2>4. CASE NodeStatusReply
    BY <1>6, <1>7, <2>4 DEF NodeStatusReply
  <2>5. ASSUME NEW i \in Instance, NodeInstanceStarts(i) \/ NodeInstanceStreams(i)
        PROVE  toServer' \in [Conn -> Seq(S)]
    <3>1. /\ Msg("instance_started", i) \in Frame /\ Msg("instance_started", i).kind # "instance_finished"
          /\ Msg("stream_event", i) \in Frame /\ Msg("stream_event", i).kind # "instance_finished"
      BY MsgType DEF FrameKind, Msg
    <3>2. Emit(Msg("instance_started", i)) \/ Emit(Msg("stream_event", i))
      BY <2>5 DEF NodeInstanceStarts, NodeInstanceStreams
    <3>3. QED  BY <1>6, <3>1, <3>2
  <2>6. ASSUME NEW i \in Instance, NodeInstanceEnds(i)
        PROVE  toServer' \in [Conn -> Seq(S)]
    BY <1>8, <2>6 DEF NodeInstanceEnds
  <2>7. CASE NodeDrop \/ NodeCrash \/ NodeSeesClose
    BY <1>4, <2>7 DEF NodeDrop, NodeCrash, NodeSeesClose
  <2>8. CASE NodeShutdown
    <3>1. Msg("node_disconnect", NoInst) \in Frame /\ Msg("node_disconnect", NoInst).kind # "instance_finished"
      BY MsgType DEF FrameKind, Impersonal, Msg
    <3>2. QED  BY <1>6, <2>8, <3>1 DEF NodeShutdown
  <2>9. QED
    BY <2>1, <2>2, <2>3, <2>4, <2>5, <2>6, <2>7, <2>8 DEF Node
<1>10. FinishedIsReal'
  BY <1>1, <1>2 DEF RealInv, FinishedIsReal
<1>11. \A c \in Conn : \A i \in Instance : view'[c][i] = "finished" => nodeInst'[i] = "ended"
  BY <1>1, <1>2 DEF RealInv
<1>12. QED  BY <1>3, <1>4, <1>9, <1>10, <1>11 DEF RealInv

LEMMA RealEndpoint ==
  ASSUME TypeOK, RealInv, NEW c \in Conn, Endpoint(c)
  PROVE  RealInv'
<1>0. UNCHANGED nodeInst /\ RealFrame' = RealFrame
  BY DEF RealFrame, Endpoint, ReceiveFirst, FirstLost, AcquireLock, CloseDone, LoadNode, LoadRows,
         CommitRegister, FailRegister, AnnounceRegister, ReceiveRegister,
         ReceiveEvent, CommitEvent, AfterEvent, Detect, CommitDisconnect, FinishDisconnect
<1>1. NoFrame \in RealFrame /\ <<>> \in Seq(RealFrame)
  <2>1. NoFrame \in Frame
    BY MsgType DEF NoFrame, FrameKind, Impersonal
  <2>2. QED  BY <2>1 DEF RealFrame, NoFrame, Msg
<1>2. toServer' \in [Conn -> Seq(RealFrame)] /\ job' \in [Conn -> RealFrame]
  <2>1. CASE ReceiveFirst(c)
    BY <2>1, TakeWithin DEF ReceiveFirst, RealInv
  <2>2. CASE ReceiveRegister(c)
    <3>1. toServer' \in [Conn -> Seq(RealFrame)] /\ Head(toServer[c]) \in RealFrame
      BY <2>2, TakeWithin DEF ReceiveRegister, TakeFrame, RealInv
    <3> QED BY <2>2, <3>1 DEF ReceiveRegister, RealInv
  <2>3. CASE ReceiveEvent(c)
    <3>1. toServer' \in [Conn -> Seq(RealFrame)] /\ Head(toServer[c]) \in RealFrame
      BY <2>3, TakeWithin DEF ReceiveEvent, TakeFrame, RealInv
    <3> QED BY <2>3, <3>1 DEF ReceiveEvent, RealInv
  <2>4. CASE AcquireLock(c)
    BY <2>4, ServerCloseWithin DEF AcquireLock, RealInv, TypeOK
  <2>5. CASE FirstLost(c) \/ FailRegister(c) \/ Detect(c)
    <3>1. \/ UNCHANGED toServer
          \/ toServer' = [toServer EXCEPT ![c] = <<>>]
      BY <2>5 DEF FirstLost, FailRegister, Detect
    <3>2. UNCHANGED job \/ job' = [job EXCEPT ![c] = NoFrame]
      BY <2>5 DEF FirstLost, FailRegister, Detect, EndTransaction
    <3> QED BY <1>1, <3>1, <3>2 DEF RealInv
  <2>6. CASE CommitRegister(c) \/ AfterEvent(c) \/ CommitDisconnect(c)
    BY <1>1, <2>6 DEF CommitRegister, AfterEvent, CommitDisconnect, EndTransaction, RealInv
  <2>7. CASE \/ CloseDone(c) \/ LoadNode(c) \/ LoadRows(c) \/ AnnounceRegister(c)
             \/ CommitEvent(c) \/ FinishDisconnect(c)
    BY <2>7 DEF CloseDone, LoadNode, LoadRows, AnnounceRegister, CommitEvent, FinishDisconnect, RealInv
  <2>8. QED  BY <2>1, <2>2, <2>3, <2>4, <2>5, <2>6, <2>7 DEF Endpoint
<1>3. \A d \in Conn : \A i \in Instance : view'[d][i] = "finished" => nodeInst[i] = "ended"
  <2>1. view \in [Conn -> [Instance -> InstanceStatus]]
    BY DEF TypeOK
  <2>2. ASSUME NEW v, view' = [view EXCEPT ![c] = v],
               \A i \in Instance : v[i] = "finished" => nodeInst[i] = "ended"
        PROVE  \A d \in Conn : \A i \in Instance : view'[d][i] = "finished" => nodeInst[i] = "ended"
    BY <2>1, <2>2 DEF RealInv
  <2>3. CASE UNCHANGED view
    BY <2>3 DEF RealInv
  <2>4. CASE view' = [view EXCEPT ![c] = NoView]
    <3> PICK v : v = NoView
      OBVIOUS
    <3>1. \A i \in Instance : v[i] # "finished"
      BY DEF NoView
    <3>2. QED  BY <2>2, <2>4, <3>1
  <2>5. CASE LoadRows(c)
    <3> PICK v : v = [i \in Instance |-> IF db[i] \in Live THEN db[i] ELSE "absent"]
      OBVIOUS
    <3>1. \A i \in Instance : v[i] # "finished"
      BY DEF Live
    <3>2. QED  BY <2>2, <2>5, <3>1 DEF LoadRows
  <2>6. CASE ReceiveEvent(c)
    <3> PICK v : v = [i \in Instance |-> IF i = Head(toServer[c]).inst THEN db[i] ELSE "absent"]
      OBVIOUS
    <3>1. \A i \in Instance : v[i] = "finished" => nodeInst[i] = "ended"
      BY DEF RealInv, FinishedIsReal
    <3>2. QED  BY <2>2, <2>6, <3>1 DEF ReceiveEvent
  <2>7. QED
    BY <2>3, <2>4, <2>5, <2>6
       DEF Endpoint, ReceiveFirst, FirstLost, AcquireLock, CloseDone, LoadNode, CommitRegister,
           FailRegister, AnnounceRegister, ReceiveRegister, CommitEvent, AfterEvent, Detect,
           CommitDisconnect, FinishDisconnect, EndTransaction
<1>4. ASSUME NEW i \in Instance
      PROVE  db'[i] = "finished" \/ told'[i] = "finished" => nodeInst[i] = "ended"
  <2>0. db[i] = "finished" \/ told[i] = "finished" => nodeInst[i] = "ended"
    BY DEF RealInv, FinishedIsReal
  <2>1. job[c].kind = "instance_finished" /\ job[c].inst = i => nodeInst[i] = "ended"
    BY DEF RealInv, RealFrame
  <2>2. CASE CommitRegister(c)
    <3>1. db'[i] = "finished" => db[i] = "finished"
      BY <2>2 DEF CommitRegister, Reconciled, OrmWrite
    <3>2. QED  BY <2>0, <2>2, <3>1 DEF CommitRegister
  <2>3. CASE CommitEvent(c)
    <3> DEFINE w == OrmWrite(view[c][i], NewStatus(job[c].kind, view[c][i]), db[i])
    <3>1. db'[i] = db[i] \/ (db'[i] = w /\ i = job[c].inst)
      BY <2>3 DEF CommitEvent
    <3>2. w = "finished" => w = db[i] \/ job[c].kind = "instance_finished"
      BY DEF OrmWrite, NewStatus
    <3>3. QED  BY <2>0, <2>1, <2>3, <3>1, <3>2 DEF CommitEvent
  <2>4. CASE CommitDisconnect(c)
    <3>1. db'[i] = "finished" => db[i] = "finished"
      BY <2>4 DEF CommitDisconnect, BulkErrored
    <3>2. QED  BY <2>0, <2>4, <3>1 DEF CommitDisconnect
  <2>5. CASE AfterEvent(c)
    <3>1. told'[i] = "finished" => told[i] = "finished" \/ (i = job[c].inst /\ job[c].kind = "instance_finished")
      BY <2>5 DEF AfterEvent
    <3>2. QED  BY <2>0, <2>1, <2>5, <3>1 DEF AfterEvent
  <2>6. CASE UNCHANGED <<db, told>>
    BY <2>0, <2>6
  <2>7. QED
    BY <2>2, <2>3, <2>4, <2>5, <2>6
       DEF Endpoint, ReceiveFirst, FirstLost, AcquireLock, CloseDone, LoadNode, LoadRows,
           FailRegister, AnnounceRegister, ReceiveRegister, ReceiveEvent, Detect, FinishDisconnect
<1>5. QED  BY <1>0, <1>2, <1>3, <1>4 DEF RealInv, FinishedIsReal

LEMMA RealServer ==
  ASSUME TypeOK, RealInv, UNCHANGED nodeInst,
         \/ \E i \in Instance : Dispatch(i) \/ DispatchKill(i)
         \/ DispatchStatusRequest \/ Scanner \/ ServerRestart \/ UNCHANGED vars
  PROVE  RealInv'
<1>1. RealFrame' = RealFrame /\ UNCHANGED told
  BY DEF RealFrame, Dispatch, CheckConnected, StorePending, SendExecute, RefuseUnsent, DispatchKill,
         DispatchStatusRequest, SendCommand, Scanner, ScanStale, CommitStale, CloseStale, DropStale,
         ServerRestart
<1>2. NoFrame \in RealFrame /\ <<>> \in Seq(RealFrame)
  <2>1. NoFrame \in Frame
    BY MsgType DEF NoFrame, FrameKind, Impersonal
  <2>2. QED  BY <2>1 DEF RealFrame, NoFrame, Msg
<1>3. \A i \in Instance : db'[i] = "finished" => db[i] = "finished"
  <2>1. db \in [Instance -> InstanceStatus]
    BY DEF TypeOK
  <2>2. ASSUME NEW i \in Instance, Dispatch(i)
        PROVE  \A j \in Instance : db'[j] = "finished" => db[j] = "finished"
    BY <2>1, <2>2 DEF Dispatch, CheckConnected, StorePending, SendExecute, RefuseUnsent
  <2>3. CASE Scanner
    BY <2>3 DEF Scanner, ScanStale, CommitStale, CloseStale, DropStale, BulkErrored
  <2>4. CASE UNCHANGED db
    BY <2>4
  <2>5. QED
    BY <2>2, <2>3, <2>4 DEF DispatchKill, DispatchStatusRequest, SendCommand, ServerRestart
<1>4. FinishedIsReal'
  BY <1>1, <1>3 DEF RealInv, FinishedIsReal
<1>5. toServer' \in [Conn -> Seq(RealFrame)]
  <2>1. CASE UNCHANGED toServer
    BY <2>1 DEF RealInv
  <2>2. CASE CloseStale /\ registry # NoConn
    BY <2>2, ServerCloseWithin DEF CloseStale, RealInv, TypeOK
  <2>3. CASE ServerRestart
    BY <1>2, <2>3 DEF ServerRestart
  <2>4. QED
    BY <2>1, <2>2, <2>3
       DEF Dispatch, CheckConnected, StorePending, SendExecute, RefuseUnsent, DispatchKill,
           DispatchStatusRequest, SendCommand, Scanner, ScanStale, CommitStale, CloseStale, DropStale
<1>6. UNCHANGED <<job, view>> \/ ServerRestart
  BY DEF Dispatch, CheckConnected, StorePending, SendExecute, RefuseUnsent, DispatchKill,
         DispatchStatusRequest, SendCommand, Scanner, ScanStale, CommitStale, CloseStale, DropStale
<1>7. CASE UNCHANGED <<job, view>>
  BY <1>1, <1>4, <1>5, <1>7 DEF RealInv
<1>8. CASE ServerRestart
  <2>1. job' \in [Conn -> RealFrame]
    BY <1>2, <1>8 DEF ServerRestart
  <2>2. \A c \in Conn : \A i \in Instance : view'[c][i] # "finished"
    BY <1>8 DEF ServerRestart, NoView
  <2>3. QED  BY <1>1, <1>4, <1>5, <2>1, <2>2 DEF RealInv
<1>9. QED  BY <1>6, <1>7, <1>8

LEMMA RealNext ==
  ASSUME TypeOK, OnceInv, RealInv, [Next]_vars
  PROVE  RealInv'
<1>1. CASE Node
  BY <1>1, RealNode
<1>2. CASE \E c \in Conn : Endpoint(c)
  BY <1>2, RealEndpoint
<1>3. CASE ~Node /\ ~(\E c \in Conn : Endpoint(c))
  BY <1>3, NodeOnly, RealServer DEF Next
<1>4. QED  BY <1>1, <1>2, <1>3

LEMMA RealInit == Init => OnceInv /\ RealInv
<1> SUFFICES ASSUME Init PROVE OnceInv /\ RealInv
  OBVIOUS
<1>1. NoFrame \in RealFrame
  <2>1. NoFrame \in Frame
    BY MsgType DEF NoFrame, FrameKind, Impersonal
  <2>2. QED  BY <2>1 DEF RealFrame, NoFrame, Msg
<1>2. RealInv
  BY <1>1 DEF Init, RealInv, FinishedIsReal, NoView
<1>3. OnceInv
  BY NodeSessionAssumption DEF Init, OnceInv, Ordered, Unsent
<1>4. QED  BY <1>2, <1>3

\* An instance recorded or shown as finished has finished: reconnects, reconciliation,
\* scans, restarts and late frames never make one up (ws/handlers.py).
THEOREM FinishedTrue == Spec => []FinishedIsReal
<1>1. Init => TypeOK /\ LockInv /\ OnceInv /\ RealInv
  BY InitType, InitLock, RealInit
<1>2. TypeOK /\ LockInv /\ OnceInv /\ RealInv /\ [Next]_vars
        => TypeOK' /\ LockInv' /\ OnceInv' /\ RealInv'
  BY TypeNext, LockInvNext, OnceNext, RealNext
<1>3. RealInv => FinishedIsReal
  BY DEF RealInv
<1> QED BY <1>1, <1>2, <1>3, PTL DEF Spec
=============================================================================
