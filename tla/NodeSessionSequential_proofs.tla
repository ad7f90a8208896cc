---------------------- MODULE NodeSessionSequential_proofs ----------------------
(***************************************************************************)
(* Proofs about NodeSession when a node never reconnects before the server  *)
(* has noticed that its last session is over (~Overlap): for every number   *)
(* of sockets, instances, stale scans, restarts and commands, and whatever  *)
(* drops, crashes, shutdowns and failed registrations happen in between.    *)
(* What the scanner itself breaks, the registry entry and the status shown, *)
(* is proved for a node that is never found stale (MaxScans = 0).           *)
(***************************************************************************)
EXTENDS NodeSession_proofs

USE DEF vars, nodeVars, netVars, taskVars, memVars, dbVars, uiVars, cmdVars, scanVars

Sequential == ~Overlap
NeverStale == MaxScans = 0

-----------------------------------------------------------------------------
(* Frames in a channel.                                                     *)

Frames(q) == {q[k] : k \in 1..Len(q)}

LEMMA FramesEmpty == Frames(<<>>) = {}
BY DEF Frames

LEMMA FramesAppend ==
  ASSUME NEW q \in Seq(Frame), NEW f \in Frame
  PROVE  Frames(Append(q, f)) = Frames(q) \cup {f}
<1>1. /\ Len(q) \in Nat /\ Len(Append(q, f)) = Len(q) + 1
      /\ Append(q, f)[Len(q) + 1] = f
      /\ \A k \in 1..Len(q) : Append(q, f)[k] = q[k]
  OBVIOUS
<1>2. 1..(Len(q) + 1) = 1..Len(q) \cup {Len(q) + 1}
  BY <1>1
<1> QED BY <1>1, <1>2 DEF Frames

LEMMA FramesTaken ==
  ASSUME NEW q \in Seq(Frame), q # <<>>
  PROVE  /\ Head(q) = q[1] /\ Head(q) \in Frame /\ Tail(q) \in Seq(Frame)
         /\ Frames(q) = {Head(q)} \cup Frames(Tail(q))
<1>1. /\ Len(q) \in Nat \ {0} /\ Len(Tail(q)) = Len(q) - 1
      /\ Head(q) = q[1] /\ Head(q) \in Frame /\ Tail(q) \in Seq(Frame)
      /\ \A k \in 1..Len(Tail(q)) : Tail(q)[k] = q[k + 1]
  OBVIOUS
<1>2. ASSUME NEW f \in Frames(q) PROVE f \in {Head(q)} \cup Frames(Tail(q))
  <2>1. PICK k \in 1..Len(q) : f = q[k]
    BY DEF Frames
  <2>2. CASE k = 1
    BY <1>1, <2>1, <2>2
  <2>3. CASE k # 1
    <3>1. k - 1 \in 1..Len(Tail(q)) /\ f = Tail(q)[k - 1]
      BY <1>1, <2>1, <2>3
    <3> QED BY <3>1 DEF Frames
  <2> QED BY <2>2, <2>3
<1>3. ASSUME NEW f \in {Head(q)} \cup Frames(Tail(q)) PROVE f \in Frames(q)
  <2>1. CASE f = Head(q)
    BY <1>1, <2>1 DEF Frames
  <2>2. CASE f \in Frames(Tail(q))
    <3>1. PICK k \in 1..Len(Tail(q)) : f = Tail(q)[k]
      BY <2>2 DEF Frames
    <3>2. k + 1 \in 1..Len(q) /\ f = q[k + 1]
      BY <1>1, <3>1
    <3> QED BY <3>2 DEF Frames
  <2> QED BY <1>3, <2>1, <2>2
<1> QED BY <1>1, <1>2, <1>3

LEMMA FramesType ==
  ASSUME NEW q \in Seq(Frame)
  PROVE  Frames(q) \subseteq Frame
BY DEF Frames

-----------------------------------------------------------------------------
(* The sessions of the node follow each other: at most one endpoint runs.    *)

\* From the first frame to the commit of a registration.
Reporting == {"lock", "close", "node", "select", "commit"}

\* The scanner has found the node stale.
Stale == scans # 0

ConnInv(c) ==
  /\ link[c] = "open" => nodeConn = c
  /\ pc[c] \in Over \cup {"bye", "drop"} => link[c] = "dead" /\ toServer[c] = <<>>
  /\ ~Stale => link[c] # "closing" /\ (link[c] = "dead" => pc[c] \in Over \cup {"bye", "drop"})
  /\ toNode[c] # <<>> => nodeConn = c
  /\ link[c] = "open" => \A f \in Frames(toServer[c]) \cup {job[c]} : f.kind # "node_disconnect"
  /\ job[c] # NoFrame => pc[c] \in Reporting \cup {"write", "after"}
  /\ pc[c] = "first" =>
       link[c] \in {"open", "gone"} /\ toServer[c] # <<>> /\ toServer[c][1].kind = "node_register"
  /\ pc[c] \in Reporting => job[c].kind = "node_register"
  /\ pc[c] \in {"write", "after"} => job[c].kind # "node_register"

\* The registry holds the session once it is registered, until its node has left or
\* the scanner, which looks it up by node_id, has deregistered it.
Dropped == Stale /\ registry = NoConn
HeldInv(c) ==
  /\ pc[c] = "first" => registry # c
  /\ c \in looping => pc[c] \in {"lock", "loop", "write", "after"} \cup (Registering \ {"close"})
  /\ pc[c] \in {"loop", "write", "after"} =>
       c \in looping /\ (registry = c \/ (registry = NoConn /\ link[c] # "open") \/ Dropped)
  /\ pc[c] \in {"lock", "close"} =>
       target[c] = c /\ (registry \in Conn => registry = c \/ pc[registry] \in Over)
  /\ pc[c] = "lock" /\ c \in looping => registry = c \/ Dropped
  /\ pc[c] \in Registering \ {"close"} => target[c] = c /\ (registry = c \/ Dropped)

SessionInv ==
  /\ scans <= MaxScans /\ (~Stale => scan = "idle")
  /\ \A c, d \in Conn : pc[c] \notin Over /\ pc[d] \notin Over => c = d
  /\ \A c \in Conn : ConnInv(c) /\ HeldInv(c)

USE DEF Stale, Dropped

-----------------------------------------------------------------------------
(* What a step of the node does to the channels.                            *)

\* An execute command for i on its way.
Awaited(c, i) == \E f \in Frames(toNode[c]) : f.kind = "execute" /\ f.inst = i

\* The node sends f about its instance i, or reports what runs.
Tells(f) ==
  \/ f = RegisterFrame /\ UNCHANGED nodeInst
  \/ /\ f.inst \in Instance /\ f.running = {}
     /\ \A j \in Instance : j # f.inst => nodeInst'[j] = nodeInst[j]
     /\ \/ /\ nodeInst[f.inst] = "none" /\ \E c \in Conn : Awaited(c, f.inst)
           /\ \/ f.kind = "ack" /\ nodeInst'[f.inst] = "accepted"
              \/ f.kind = "instance_error" /\ nodeInst'[f.inst] = "ended"
        \/ /\ nodeInst[f.inst] = "accepted"
           /\ f.kind = "instance_started" /\ nodeInst'[f.inst] = "started"
        \/ /\ nodeInst[f.inst] = "started"
           /\ f.kind = "stream_event" /\ nodeInst'[f.inst] = "streamed"
        \/ /\ f.inst \in Running
           /\ f.kind \in {"instance_finished", "instance_error"}
           /\ nodeInst[f.inst] = "accepted" => f.kind = "instance_error"
           /\ nodeInst'[f.inst] = "ended"

Talks ==
  /\ UNCHANGED <<nodeConn, link>>
  /\ \A c \in Conn : toNode[c] = <<>> => toNode'[c] = <<>>
  /\ \A c \in Conn : \A j \in Instance : Awaited(c, j)' => Awaited(c, j)
  /\ \/ /\ UNCHANGED <<nodeInst, toServer>>
        /\ \A c \in Conn : \A j \in Instance : Awaited(c, j) => Awaited(c, j)'
     \/ \E f \in Frame :
          /\ Emit(f) /\ Tells(f)
          /\ \A c \in Conn : \A j \in Instance :
               Awaited(c, j) => Awaited(c, j)' \/ j = f.inst

Leaves ==
  /\ nodeConn' = NoConn
  /\ UNCHANGED nodeInst \/ LoseRunning
  /\ \A c \in Conn : toNode'[c] = <<>> \/ (toNode'[c] = toNode[c] /\ c # nodeConn)
  /\ \A c \in Conn : link'[c] = IF link[c] = "open" /\ c = nodeConn THEN "gone" ELSE link[c]
  /\ UNCHANGED toServer \/ Emit(Msg("node_disconnect", NoInst))

\* A command is taken from the node's channel.
LEMMA CommandTaken ==
  ASSUME TypeOK, NEW kind, Command(kind)
  PROVE  /\ nodeConn \in Conn
         /\ Head(toNode[nodeConn]) \in Frame /\ Head(toNode[nodeConn]).kind = kind
         /\ \A c \in Conn : toNode[c] = <<>> => toNode'[c] = <<>>
         /\ \A c \in Conn : \A j \in Instance : Awaited(c, j)' => Awaited(c, j)
         /\ \A c \in Conn : \A j \in Instance : Awaited(c, j) =>
              Awaited(c, j)' \/ (kind = "execute" /\ j = Head(toNode[nodeConn]).inst)
<1>1. /\ nodeConn \in Conn /\ toNode \in [Conn -> Seq(Frame)]
      /\ toNode[nodeConn] \in Seq(Frame) /\ toNode[nodeConn] # <<>>
      /\ toNode' = [toNode EXCEPT ![nodeConn] = Tail(@)]
      /\ Head(toNode[nodeConn]).kind = kind
  BY DEF Command, TypeOK
<1>2. /\ Head(toNode[nodeConn]) \in Frame
      /\ Frames(toNode[nodeConn]) = {Head(toNode[nodeConn])} \cup Frames(Tail(toNode[nodeConn]))
  BY <1>1, FramesTaken
<1>3. /\ toNode'[nodeConn] = Tail(toNode[nodeConn])
      /\ \A c \in Conn : c # nodeConn => toNode'[c] = toNode[c]
  BY <1>1
<1>4. ASSUME NEW c \in Conn, NEW j \in Instance, Awaited(c, j)
      PROVE  Awaited(c, j)' \/ (kind = "execute" /\ j = Head(toNode[nodeConn]).inst)
  BY <1>1, <1>2, <1>3, <1>4 DEF Awaited
<1>5. ASSUME NEW c \in Conn, NEW j \in Instance, Awaited(c, j)'
      PROVE  Awaited(c, j)
  BY <1>1, <1>2, <1>3, <1>5 DEF Awaited
<1> QED BY <1>1, <1>2, <1>3, <1>4, <1>5

LEMMA EndTells ==
  ASSUME TypeOK, NEW i \in Instance, NodeEnd(i)
  PROVE  \E f \in Frame : Emit(f) /\ Tells(f)
<1>1. PICK kind \in {"instance_finished", "instance_error"} :
         (nodeInst[i] = "accepted" => kind = "instance_error") /\ Emit(Msg(kind, i))
  BY DEF NodeEnd
<1>2. Msg(kind, i) \in Frame
  BY MsgType DEF FrameKind
<1>3. PICK f \in Frame : f = Msg(kind, i)
  BY <1>2
<1>4. f.kind = kind /\ f.inst = i /\ f.running = {}
  BY <1>3 DEF Msg
<1>5. /\ nodeInst'[i] = "ended" /\ i \in Running
      /\ \A j \in Instance : j # i => nodeInst'[j] = nodeInst[j]
  BY DEF NodeEnd, TypeOK
<1>6. Tells(f)
  BY <1>1, <1>4, <1>5 DEF Tells
<1> QED BY <1>1, <1>3, <1>6

LEMMA NodeSteps ==
  ASSUME TypeOK, OnceInv, Node
  PROVE  /\ (\E c \in Conn : NodeConnect(c)) \/ Talks \/ Leaves
         /\ UNCHANGED <<looping, job, target, seenNode, view, memVars,
                        dbVars, uiVars, cmdVars, scanVars, restarts>>
         /\ UNCHANGED pc \/ \E c \in Conn : NodeConnect(c)
<1>1. /\ UNCHANGED <<looping, job, target, seenNode, view, memVars,
                     dbVars, uiVars, cmdVars, scanVars, restarts>>
      /\ UNCHANGED pc \/ \E c \in Conn : NodeConnect(c)
  BY DEF Node, NodeConnect, NodeExecute, NodeKill, NodeStatusReply, NodeInstanceStarts,
         NodeInstanceStreams, NodeInstanceEnds, NodeDrop, NodeCrash, NodeShutdown, NodeSeesClose
<1>0. /\ nodeInst \in [Instance -> NodeInstStatus] /\ nodeConn \in Conn \cup {NoConn}
      /\ link \in [Conn -> Link]
  BY DEF TypeOK
<1>2. CASE NodeExecute
  <2> DEFINE i == Head(toNode[nodeConn]).inst
  <2>1. /\ nodeConn \in Conn
        /\ Head(toNode[nodeConn]) \in Frame /\ Head(toNode[nodeConn]).kind = "execute"
        /\ \A c \in Conn : toNode[c] = <<>> => toNode'[c] = <<>>
        /\ \A c \in Conn : \A j \in Instance : Awaited(c, j)' => Awaited(c, j)
        /\ \A c \in Conn : \A j \in Instance : Awaited(c, j) => Awaited(c, j)' \/ j = i
    BY <1>2, CommandTaken DEF NodeExecute
  <2>2. i \in Instance
    BY <2>1 DEF Frame, Impersonal
  <2>3. nodeInst[i] = "none" /\ Awaited(nodeConn, i)
    <3>1. toNode[nodeConn] \in Seq(Frame) /\ toNode[nodeConn] # <<>>
      BY <1>2, <2>1 DEF NodeExecute, Command, TypeOK
    <3>2. Ordered(nodeConn, 1, i)
      BY <2>1, <3>1 DEF Ordered
    <3>3. Awaited(nodeConn, i)
      BY <2>1, <3>2 DEF Ordered, Awaited, Frames
    <3> QED BY <2>1, <2>2, <3>2, <3>3 DEF OnceInv
  <2>4. UNCHANGED <<nodeConn, link>>
    BY <1>2 DEF NodeExecute
  <2>5. Msg("ack", i) \in Frame /\ Msg("instance_error", i) \in Frame
    BY <2>2, MsgType DEF FrameKind
  <2>6. \E f \in Frame : Emit(f) /\ Tells(f) /\ f.inst = i
    <3>1. CASE nodeInst' = [nodeInst EXCEPT ![i] = "accepted"] /\ Emit(Msg("ack", i))
      <4> PICK f \in Frame : f = Msg("ack", i)
        BY <2>5
      <4>1. f.kind = "ack" /\ f.inst = i /\ f.running = {}
        BY DEF Msg
      <4>2. Tells(f)
        BY <1>0, <2>1, <2>2, <2>3, <3>1, <4>1 DEF Tells
      <4> QED BY <3>1, <4>1, <4>2
    <3>2. CASE nodeInst' = [nodeInst EXCEPT ![i] = "ended"] /\ Emit(Msg("instance_error", i))
      <4> PICK f \in Frame : f = Msg("instance_error", i)
        BY <2>5
      <4>1. f.kind = "instance_error" /\ f.inst = i /\ f.running = {}
        BY DEF Msg
      <4>2. Tells(f)
        BY <1>0, <2>1, <2>2, <2>3, <3>2, <4>1 DEF Tells
      <4> QED BY <3>2, <4>1, <4>2
    <3> QED BY <1>2, <3>1, <3>2 DEF NodeExecute
  <2>7. Talks
    BY <2>1, <2>4, <2>6 DEF Talks
  <2> QED BY <1>1, <2>7
<1>3. CASE NodeKill
  <2> DEFINE i == Head(toNode[nodeConn]).inst
  <2>1. /\ \A c \in Conn : toNode[c] = <<>> => toNode'[c] = <<>>
        /\ \A c \in Conn : \A j \in Instance : Awaited(c, j)' <=> Awaited(c, j)
    BY <1>3, CommandTaken DEF NodeKill
  <2>2. UNCHANGED <<nodeConn, link>>
    BY <1>3 DEF NodeKill
  <2>3. CASE i \in Running
    <3>1. \E f \in Frame : Emit(f) /\ Tells(f)
      BY <1>3, <2>3, EndTells DEF NodeKill, Running
    <3>2. Talks
      BY <2>1, <2>2, <3>1 DEF Talks
    <3> QED BY <1>1, <3>2
  <2>4. CASE i \notin Running
    <3>1. Talks
      BY <1>3, <2>1, <2>2, <2>4 DEF NodeKill, Talks
    <3> QED BY <1>1, <3>1
  <2> QED BY <2>3, <2>4
<1>4. CASE NodeStatusReply
  <2>1. /\ \A c \in Conn : toNode[c] = <<>> => toNode'[c] = <<>>
        /\ \A c \in Conn : \A j \in Instance : Awaited(c, j)' <=> Awaited(c, j)
    BY <1>4, CommandTaken DEF NodeStatusReply
  <2>2. UNCHANGED <<nodeConn, link, nodeInst>> /\ Emit(RegisterFrame)
    BY <1>4 DEF NodeStatusReply
  <2>3. Tells(RegisterFrame)
    BY <2>2 DEF Tells
  <2>4. Talks
    BY <2>1, <2>2, <2>3, RegisterFrameType DEF Talks
  <2> QED BY <1>1, <2>4
<1>5. ASSUME NEW i \in Instance,
             NodeInstanceStarts(i) \/ NodeInstanceStreams(i) \/ NodeInstanceEnds(i)
      PROVE  Talks
  <2>1. UNCHANGED <<nodeConn, link, toNode>>
    BY <1>5 DEF NodeInstanceStarts, NodeInstanceStreams, NodeInstanceEnds
  <2>2. /\ \A c \in Conn : toNode[c] = <<>> => toNode'[c] = <<>>
        /\ \A c \in Conn : \A j \in Instance : Awaited(c, j)' <=> Awaited(c, j)
    BY <2>1 DEF Awaited
  <2>3. Msg("instance_started", i) \in Frame /\ Msg("stream_event", i) \in Frame
    BY MsgType DEF FrameKind
  <2>4. CASE NodeInstanceStarts(i)
    <3> PICK f \in Frame : f = Msg("instance_started", i)
      BY <2>3
    <3>1. f.kind = "instance_started" /\ f.inst = i /\ f.running = {}
      BY DEF Msg
    <3>2. Emit(f) /\ Tells(f)
      BY <1>0, <2>4, <3>1 DEF NodeInstanceStarts, Tells
    <3> QED BY <2>1, <2>2, <3>2 DEF Talks
  <2>5. CASE NodeInstanceStreams(i)
    <3> PICK f \in Frame : f = Msg("stream_event", i)
      BY <2>3
    <3>1. f.kind = "stream_event" /\ f.inst = i /\ f.running = {}
      BY DEF Msg
    <3>2. Emit(f) /\ Tells(f)
      BY <1>0, <2>5, <3>1 DEF NodeInstanceStreams, Tells
    <3> QED BY <2>1, <2>2, <3>2 DEF Talks
  <2>6. CASE NodeInstanceEnds(i)
    <3>1. \E f \in Frame : Emit(f) /\ Tells(f)
      BY <2>6, EndTells DEF NodeInstanceEnds
    <3> QED BY <2>1, <2>2, <3>1 DEF Talks
  <2> QED BY <1>5, <2>4, <2>5, <2>6
<1>6. CASE NodeDrop \/ NodeCrash \/ NodeShutdown \/ NodeSeesClose
  <2>1. Hangup
    BY <1>6 DEF NodeDrop, NodeCrash, NodeShutdown, NodeSeesClose
  <2>2. /\ nodeConn' = NoConn
        /\ \A c \in Conn : toNode'[c] = <<>> \/ (toNode'[c] = toNode[c] /\ c # nodeConn)
    BY <2>1 DEF Hangup
  <2>3. \A c \in Conn : link'[c] = IF link[c] = "open" /\ c = nodeConn THEN "gone" ELSE link[c]
    BY <1>0, <1>6 DEF NodeDrop, NodeCrash, NodeShutdown, NodeSeesClose
  <2>4. UNCHANGED nodeInst \/ LoseRunning
    BY <1>6 DEF NodeDrop, NodeCrash, NodeShutdown, NodeSeesClose
  <2>5. UNCHANGED toServer \/ Emit(Msg("node_disconnect", NoInst))
    BY <1>6 DEF NodeDrop, NodeCrash, NodeShutdown, NodeSeesClose
  <2>6. Leaves
    BY <2>2, <2>3, <2>4, <2>5 DEF Leaves
  <2> QED BY <1>1, <2>6
<1> QED BY <1>1, <1>2, <1>3, <1>4, <1>5, <1>6 DEF Node

LEMMA EmitAppends ==
  ASSUME TypeOK, NEW f \in Frame, Emit(f)
  PROVE  \A c \in Conn : toServer'[c] = IF link[c] = "open" /\ c = nodeConn
                                        THEN Append(toServer[c], f) ELSE toServer[c]
BY NodeSessionAssumption DEF Emit, TypeOK

-----------------------------------------------------------------------------
(* SessionInv is inductive.                                                  *)

\* While one endpoint runs, the others rest, and a step of it leaves them alone;
\* a connection that a registration has to close is closed already.
LEMMA Alone ==
  ASSUME TypeOK, SessionInv, NEW c \in Conn, Endpoint(c)
  PROVE  /\ pc[c] \notin Over
         /\ UNCHANGED <<nodeVars, toNode, cmdVars, scanVars, restarts>>
         /\ \A d \in Conn : d # c =>
              /\ pc[d] \in Over /\ d \notin looping /\ link[d] = "dead"
              /\ toServer[d] = <<>> /\ job[d] = NoFrame
              /\ pc'[d] = pc[d] /\ link'[d] = link[d] /\ toServer'[d] = toServer[d]
              /\ job'[d] = job[d] /\ target'[d] = target[d] /\ view'[d] = view[d]
              /\ seenNode'[d] = seenNode[d] /\ d \notin looping'
         /\ AcquireLock(c) => UNCHANGED <<link, toServer>>
<1>0. /\ pc \in [Conn -> PC] /\ link \in [Conn -> Link] /\ toServer \in [Conn -> Seq(Frame)]
      /\ job \in [Conn -> Frame] /\ target \in [Conn -> Conn \cup {NoConn}]
      /\ seenNode \in [Conn -> NodeStatus] /\ view \in [Conn -> [Instance -> InstanceStatus]]
      /\ registry \in Conn \cup {NoConn}
  BY DEF TypeOK
<1>1. pc[c] \notin Over
  BY DEF Endpoint, ReceiveFirst, FirstLost, AcquireLock, CloseDone, LoadNode, LoadRows,
         CommitRegister, FailRegister, AnnounceRegister, ReceiveRegister, ReceiveEvent, TakeFrame,
         CommitEvent, AfterEvent, Detect, CommitDisconnect, FinishDisconnect, Over
<1>2. UNCHANGED <<nodeVars, toNode, cmdVars, scanVars, restarts>>
  BY DEF Endpoint, ReceiveFirst, FirstLost, AcquireLock, CloseDone, LoadNode, LoadRows,
         CommitRegister, FailRegister, AnnounceRegister, ReceiveRegister, ReceiveEvent, TakeFrame,
         CommitEvent, AfterEvent, Detect, CommitDisconnect, FinishDisconnect
<1>3. ASSUME NEW d \in Conn, d # c
      PROVE  /\ pc[d] \in Over /\ d \notin looping /\ link[d] = "dead"
             /\ toServer[d] = <<>> /\ job[d] = NoFrame
  <2>1. pc[d] \in Over
    BY <1>1, <1>3 DEF SessionInv
  <2>2. ConnInv(d) /\ HeldInv(d)
    BY DEF SessionInv
  <2>3. pc[d] \notin Reporting \cup {"write", "after", "lock", "loop"} \cup Registering
    BY <2>1 DEF Over, Reporting, Registering
  <2> QED BY <2>1, <2>2, <2>3 DEF ConnInv, HeldInv
<1>4. ASSUME AcquireLock(c), registry \notin {NoConn, target[c]}
      PROVE  UNCHANGED <<link, toServer>>
  <2>1. target[c] = c /\ registry \in Conn /\ registry # c
    BY <1>0, <1>4 DEF AcquireLock, SessionInv, HeldInv
  <2>2. link[registry] = "dead" /\ toServer[registry] = <<>>
    BY <1>3, <2>1
  <2> DEFINE r == registry
  <2>3. link' = [link EXCEPT ![r] = "dead"] /\ toServer' = [toServer EXCEPT ![r] = <<>>]
    BY <1>4, <2>2 DEF AcquireLock, ServerClose
  <2>4. link' = link
    BY <1>0, <2>1, <2>2, <2>3
  <2>5. toServer' = toServer
    BY <1>0, <2>1, <2>2, <2>3
  <2> QED BY <2>4, <2>5
<1>5. AcquireLock(c) => UNCHANGED <<link, toServer>>
  BY <1>4 DEF AcquireLock
<1>6. ASSUME NEW d \in Conn, d # c
      PROVE  /\ pc'[d] = pc[d] /\ link'[d] = link[d] /\ toServer'[d] = toServer[d]
             /\ job'[d] = job[d] /\ target'[d] = target[d] /\ view'[d] = view[d]
             /\ seenNode'[d] = seenNode[d] /\ d \notin looping'
  <2>1. d \notin looping
    BY <1>3, <1>6
  <2>2. CASE AcquireLock(c)
    BY <1>0, <1>5, <1>6, <2>1, <2>2 DEF AcquireLock
  <2>3. CASE \/ ReceiveFirst(c) \/ FirstLost(c) \/ CloseDone(c) \/ LoadNode(c) \/ LoadRows(c)
             \/ AnnounceRegister(c) \/ CommitEvent(c) \/ Detect(c) \/ FinishDisconnect(c)
    BY <1>0, <1>6, <2>1, <2>3
       DEF ReceiveFirst, FirstLost, CloseDone, LoadNode, LoadRows, AnnounceRegister,
           CommitEvent, Detect, FinishDisconnect
  <2>4. CASE CommitRegister(c) \/ FailRegister(c) \/ AfterEvent(c) \/ CommitDisconnect(c)
    BY <1>0, <1>6, <2>1, <2>4
       DEF CommitRegister, FailRegister, AfterEvent, CommitDisconnect, EndTransaction
  <2>5. CASE ReceiveRegister(c)
    BY <1>0, <1>6, <2>1, <2>5 DEF ReceiveRegister, TakeFrame
  <2>6. CASE ReceiveEvent(c)
    BY <1>0, <1>6, <2>1, <2>6 DEF ReceiveEvent, TakeFrame
  <2> QED BY <2>2, <2>3, <2>4, <2>5, <2>6 DEF Endpoint
<1> QED BY <1>1, <1>2, <1>3, <1>5, <1>6

LEMMA SessionEndpoint ==
  ASSUME TypeOK, SessionInv, NEW c \in Conn, Endpoint(c)
  PROVE  SessionInv'
<1>0. /\ pc \in [Conn -> PC] /\ link \in [Conn -> Link] /\ toServer \in [Conn -> Seq(Frame)]
      /\ job \in [Conn -> Frame] /\ target \in [Conn -> Conn \cup {NoConn}]
      /\ registry \in Conn \cup {NoConn} /\ NoConn \notin Conn
      /\ toServer[c] \in Seq(Frame)
  BY NodeSessionAssumption DEF TypeOK
<1>1. /\ pc[c] \notin Over /\ nodeConn' = nodeConn /\ toNode' = toNode
      /\ scan' = scan /\ scans' = scans
      /\ \A d \in Conn : d # c =>
           /\ pc[d] \in Over /\ d \notin looping /\ link[d] = "dead"
           /\ pc'[d] = pc[d] /\ link'[d] = link[d] /\ toServer'[d] = toServer[d]
           /\ job'[d] = job[d] /\ d \notin looping'
      /\ AcquireLock(c) => UNCHANGED <<link, toServer>>
  BY Alone
<1>2. ConnInv(c) /\ HeldInv(c)
  BY DEF SessionInv
<1>3. toServer[c] # <<>> =>
        /\ Head(toServer[c]) = toServer[c][1] /\ Head(toServer[c]) \in Frame
        /\ Frames(toServer[c]) = {Head(toServer[c])} \cup Frames(Tail(toServer[c]))
  BY <1>0, FramesTaken
<1>4. NoFrame.kind = "none" /\ Frames(<<>>) = {}
  BY FramesEmpty DEF NoFrame, Msg
<1> HIDE DEF NoFrame
<1>5. ConnInv(c)' /\ HeldInv(c)'
  <2> USE DEF Over, Registering, Reporting
  <2>1. CASE ReceiveFirst(c)
    <3>1. ConnInv(c)'
      BY <1>0, <1>1, <1>2, <1>3, <2>1 DEF ReceiveFirst, ConnInv
    <3>2. HeldInv(c)'
      BY <1>0, <1>1, <1>2, <2>1 DEF ReceiveFirst, HeldInv
    <3> QED BY <3>1, <3>2
  <2>2. CASE FirstLost(c)
    BY <1>0, <1>1, <1>2, <2>2 DEF FirstLost, ConnInv, HeldInv
  <2>3. CASE AcquireLock(c)
    <3>1. ConnInv(c)'
      BY <1>0, <1>1, <1>2, <2>3 DEF AcquireLock, ConnInv
    <3>2. HeldInv(c)'
      BY <1>0, <1>1, <1>2, <2>3 DEF AcquireLock, HeldInv
    <3> QED BY <3>1, <3>2
  <2>4. CASE CloseDone(c) \/ LoadNode(c) \/ LoadRows(c)
    <3>1. ConnInv(c)'
      BY <1>0, <1>1, <1>2, <2>4 DEF CloseDone, LoadNode, LoadRows, ConnInv
    <3>2. HeldInv(c)'
      BY <1>0, <1>1, <1>2, <2>4 DEF CloseDone, LoadNode, LoadRows, HeldInv
    <3> QED BY <3>1, <3>2
  <2>5. CASE CommitRegister(c) \/ AnnounceRegister(c)
    <3>1. ConnInv(c)'
      BY <1>0, <1>1, <1>2, <1>4, <2>5
         DEF CommitRegister, AnnounceRegister, EndTransaction, ConnInv
    <3>2. HeldInv(c)'
      BY <1>0, <1>1, <1>2, <2>5 DEF CommitRegister, AnnounceRegister, HeldInv
    <3> QED BY <3>1, <3>2
  <2>6. CASE FailRegister(c)
    <3>1. ConnInv(c)'
      BY <1>0, <1>1, <1>2, <1>4, <2>6 DEF FailRegister, EndTransaction, ConnInv
    <3>2. HeldInv(c)'
      BY <1>0, <1>1, <1>2, <2>6 DEF FailRegister, HeldInv
    <3> QED BY <3>1, <3>2
  <2>7. CASE ReceiveRegister(c)
    <3>1. toServer[c] # <<>> /\ pc[c] = "loop"
          /\ link' = [link EXCEPT ![c] = IF @ = "closing" THEN "dead" ELSE @]
          /\ toServer' = [toServer EXCEPT ![c] = Tail(@)]
          /\ Head(toServer[c]).kind = "node_register"
      BY <2>7 DEF ReceiveRegister, TakeFrame
    <3>2. ConnInv(c)'
      BY <1>0, <1>1, <1>2, <1>3, <2>7, <3>1 DEF ReceiveRegister, ConnInv
    <3>3. HeldInv(c)'
      BY <1>0, <1>1, <1>2, <2>7, <3>1 DEF ReceiveRegister, HeldInv
    <3> QED BY <3>2, <3>3
  <2>8. CASE ReceiveEvent(c)
    <3>1. toServer[c] # <<>> /\ pc[c] = "loop"
          /\ link' = [link EXCEPT ![c] = IF @ = "closing" THEN "dead" ELSE @]
          /\ toServer' = [toServer EXCEPT ![c] = Tail(@)]
          /\ Head(toServer[c]).kind # "node_register"
      BY <2>8 DEF ReceiveEvent, TakeFrame
    <3>2. ConnInv(c)'
      BY <1>0, <1>1, <1>2, <1>3, <2>8, <3>1 DEF ReceiveEvent, ConnInv
    <3>3. HeldInv(c)'
      BY <1>0, <1>1, <1>2, <2>8, <3>1 DEF ReceiveEvent, HeldInv
    <3> QED BY <3>2, <3>3
  <2>9. CASE CommitEvent(c)
    BY <1>0, <1>1, <1>2, <2>9 DEF CommitEvent, ConnInv, HeldInv
  <2>10. CASE AfterEvent(c)
    <3>1. ConnInv(c)'
      BY <1>0, <1>1, <1>2, <1>4, <2>10 DEF AfterEvent, EndTransaction, ConnInv
    <3>2. HeldInv(c)'
      BY <1>0, <1>1, <1>2, <2>10 DEF AfterEvent, HeldInv, ConnInv
    <3> QED BY <3>1, <3>2
  <2>11. CASE Detect(c)
    <3>1. ConnInv(c)'
      BY <1>0, <1>1, <1>2, <1>4, <2>11 DEF Detect, ConnInv
    <3>2. HeldInv(c)'
      BY <1>0, <1>1, <1>2, <2>11 DEF Detect, HeldInv
    <3> QED BY <3>1, <3>2
  <2>12. CASE CommitDisconnect(c) \/ FinishDisconnect(c)
    <3>1. ConnInv(c)'
      BY <1>0, <1>1, <1>2, <1>4, <2>12
         DEF CommitDisconnect, FinishDisconnect, EndTransaction, ConnInv
    <3>2. HeldInv(c)'
      BY <1>0, <1>1, <1>2, <2>12 DEF CommitDisconnect, FinishDisconnect, HeldInv
    <3> QED BY <3>1, <3>2
  <2> QED BY <2>1, <2>2, <2>3, <2>4, <2>5, <2>6, <2>7, <2>8, <2>9, <2>10, <2>11, <2>12
          DEF Endpoint
<1>6. ASSUME NEW d \in Conn, d # c PROVE ConnInv(d)' /\ HeldInv(d)'
  <2>1. ConnInv(d)
    BY DEF SessionInv
  <2>2. ConnInv(d)'
    BY <1>1, <1>6, <2>1 DEF ConnInv
  <2>3. pc'[d] \in Over /\ d \notin looping'
    BY <1>1, <1>6
  <2> QED BY <2>2, <2>3 DEF HeldInv, Over, Registering
<1>7. \A d, e \in Conn : pc'[d] \notin Over /\ pc'[e] \notin Over => d = e
  BY <1>1
<1> QED BY <1>1, <1>5, <1>6, <1>7 DEF SessionInv

LEMMA SessionNode ==
  ASSUME Sequential, TypeOK, OnceInv, SessionInv, Node
  PROVE  SessionInv'
<1>0. /\ pc \in [Conn -> PC] /\ link \in [Conn -> Link] /\ toServer \in [Conn -> Seq(Frame)]
      /\ toNode \in [Conn -> Seq(Frame)] /\ nodeConn \in Conn \cup {NoConn} /\ NoConn \notin Conn
  BY NodeSessionAssumption DEF TypeOK
<1>1. UNCHANGED <<looping, job, target, registry, scan, scans>>
  BY NodeSteps
<1>2. ASSUME NEW c \in Conn, NodeConnect(c) PROVE SessionInv'
  <2>1. \A d \in Conn : pc[d] \in Over
    BY <1>2 DEF NodeConnect, Sequential
  <2>2. /\ pc' = [pc EXCEPT ![c] = "first"] /\ link' = [link EXCEPT ![c] = "open"]
        /\ toServer' = [toServer EXCEPT ![c] = <<RegisterFrame>>]
        /\ toNode' = [toNode EXCEPT ![c] = <<>>] /\ nodeConn' = c /\ nodeConn = NoConn
        /\ registry # c
    BY <1>2 DEF NodeConnect
  <2>3. RegisterFrame.kind = "node_register" /\ <<RegisterFrame>> \in Seq(Frame)
        /\ Len(<<RegisterFrame>>) = 1 /\ <<RegisterFrame>>[1] = RegisterFrame
        /\ <<RegisterFrame>> # <<>>
    BY RegisterFrameType DEF RegisterFrame
  <2>4. Frames(<<RegisterFrame>>) = {RegisterFrame}
    BY <2>3 DEF Frames
  <2>5. NoFrame.kind = "none"
    BY DEF NoFrame, Msg
  <2>6. ASSUME NEW d \in Conn PROVE ConnInv(d)' /\ HeldInv(d)'
    <3>1. ConnInv(d) /\ HeldInv(d) /\ pc[d] \in Over
      BY <2>1 DEF SessionInv
    <3>2. job[d] = NoFrame /\ toNode[d] = <<>> /\ d \notin looping /\ link[d] = "dead"
      BY <1>0, <2>2, <3>1 DEF ConnInv, HeldInv, Over, Reporting, Registering
    <3>3. CASE d = c
      <4>1. pc'[d] = "first" /\ link'[d] = "open" /\ toServer'[d] = <<RegisterFrame>>
            /\ toNode'[d] = <<>> /\ job'[d] = NoFrame /\ d \notin looping'
        BY <1>0, <1>1, <2>2, <3>2, <3>3
      <4>2. HeldInv(d)'
        BY <1>1, <2>2, <3>3, <4>1 DEF HeldInv, Registering
      <4>3. ConnInv(d)'
        BY <2>2, <2>3, <2>4, <2>5, <3>3, <4>1 DEF ConnInv, Reporting, Over
      <4> QED BY <4>2, <4>3
    <3>4. CASE d # c
      <4>1. pc'[d] = pc[d] /\ link'[d] = link[d] /\ toServer'[d] = toServer[d]
            /\ toNode'[d] = <<>> /\ job'[d] = NoFrame /\ d \notin looping'
        BY <1>0, <1>1, <2>2, <3>2, <3>4
      <4>2. HeldInv(d)'
        BY <3>1, <4>1 DEF HeldInv, Registering, Over
      <4>3. ConnInv(d)'
        BY <3>1, <3>2, <4>1 DEF ConnInv, Reporting, Over
      <4> QED BY <4>2, <4>3
    <3> QED BY <3>3, <3>4
  <2>7. \A d, e \in Conn : pc'[d] \notin Over /\ pc'[e] \notin Over => d = e
    BY <1>0, <2>1, <2>2
  <2> QED BY <1>1, <2>6, <2>7 DEF SessionInv
<1>3. ASSUME pc' = pc,
             \A d \in Conn : /\ link'[d] = link[d] \/ (link[d] = "open" /\ link'[d] = "gone")
                             /\ link'[d] = "open" => nodeConn' = d
                             /\ toNode'[d] # <<>> => nodeConn' = d,
             \/ toServer' = toServer
             \/ \E f \in Frame :
                  /\ \A d \in Conn : toServer'[d] = IF link[d] = "open" /\ d = nodeConn
                                                    THEN Append(toServer[d], f) ELSE toServer[d]
                  /\ f.kind = "node_disconnect" => \A d \in Conn : link'[d] # "open"
      PROVE  SessionInv'
  <2>1. ASSUME NEW d \in Conn PROVE ConnInv(d)' /\ HeldInv(d)'
    <3>1. ConnInv(d) /\ HeldInv(d) /\ toServer[d] \in Seq(Frame)
      BY <1>0 DEF SessionInv
    <3>2. HeldInv(d)'
      BY <1>1, <1>3, <3>1 DEF HeldInv
    <3>3. ASSUME toServer'[d] = toServer[d] PROVE ConnInv(d)'
      <4>1. /\ link'[d] = link[d] \/ (link[d] = "open" /\ link'[d] = "gone")
            /\ link'[d] = "open" => nodeConn' = d
            /\ toNode'[d] # <<>> => nodeConn' = d
            /\ pc'[d] = pc[d] /\ job'[d] = job[d]
        BY <1>1, <1>3
      <4> QED BY <1>1, <3>1, <3>3, <4>1 DEF ConnInv
    <3>4. ASSUME NEW f \in Frame, link[d] = "open", toServer'[d] = Append(toServer[d], f),
                 f.kind = "node_disconnect" => link'[d] # "open"
          PROVE  ConnInv(d)'
      <4>1. Frames(toServer'[d]) = Frames(toServer[d]) \cup {f}
        BY <3>1, <3>4, FramesAppend
      <4>2. toServer[d] # <<>> => toServer'[d] # <<>> /\ toServer'[d][1] = toServer[d][1]
        BY <3>1, <3>4
      <4>3. link'[d] \in {"open", "gone"}
        BY <1>3, <3>4
      <4> QED BY <1>1, <1>3, <3>1, <3>4, <4>1, <4>2, <4>3 DEF ConnInv
    <3>5. ConnInv(d)'
      BY <1>3, <3>3, <3>4
    <3> QED BY <3>2, <3>5
  <2> QED BY <1>1, <1>3, <2>1 DEF SessionInv
<1>4. \A d \in Conn : ConnInv(d)
  BY DEF SessionInv
<1>5. CASE Talks /\ ~(\E c \in Conn : NodeConnect(c))
  <2>1. pc' = pc /\ UNCHANGED <<nodeConn, link>>
        /\ \A c \in Conn : toNode[c] = <<>> => toNode'[c] = <<>>
    BY <1>5, NodeSteps DEF Talks
  <2>2. ASSUME NEW f \in Frame, Tells(f) PROVE f.kind # "node_disconnect"
    BY <2>2 DEF Tells, RegisterFrame
  <2>3. \/ toServer' = toServer
        \/ \E f \in Frame :
             /\ \A d \in Conn : toServer'[d] = IF link[d] = "open" /\ d = nodeConn
                                               THEN Append(toServer[d], f) ELSE toServer[d]
             /\ f.kind # "node_disconnect"
    BY <1>5, <2>2, EmitAppends DEF Talks
  <2> QED BY <1>3, <1>4, <2>1, <2>3 DEF ConnInv
<1>6. CASE Leaves /\ ~(\E c \in Conn : NodeConnect(c))
  <2>1. pc' = pc
    BY <1>6, NodeSteps
  <2>2. \A d \in Conn : /\ link'[d] = link[d] \/ (link[d] = "open" /\ link'[d] = "gone")
                        /\ link'[d] # "open" /\ toNode'[d] = <<>>
    BY <1>4, <1>6 DEF Leaves, ConnInv
  <2>3. Msg("node_disconnect", NoInst) \in Frame
    BY MsgType DEF FrameKind, Impersonal
  <2>4. \/ toServer' = toServer
        \/ \E f \in Frame :
             \A d \in Conn : toServer'[d] = IF link[d] = "open" /\ d = nodeConn
                                            THEN Append(toServer[d], f) ELSE toServer[d]
    BY <1>6, <2>3, EmitAppends DEF Leaves
  <2> QED BY <1>3, <2>1, <2>2, <2>4
<1> QED BY <1>2, <1>5, <1>6, NodeSteps

\* A command is appended to the channel of an open connection, or none is sent.
Sends ==
  \/ UNCHANGED toNode
  \/ \E f \in Frame : /\ registry \in Conn /\ link[registry] = "open"
                      /\ toNode' = [toNode EXCEPT ![registry] = Append(@, f)]
                      /\ f.kind = "execute" => disp[f.inst] = "stored" /\ disp'[f.inst] = "sent"

LEMMA Commands ==
  ASSUME TypeOK,
         \/ \E i \in Instance : Dispatch(i) \/ DispatchKill(i)
         \/ DispatchStatusRequest
  PROVE  /\ Sends
         /\ UNCHANGED <<nodeVars, link, toServer, taskVars, memVars, dbNode, uiVars,
                        scanVars, restarts>>
         /\ \A c \in Conn : \A j \in Instance :
              /\ Awaited(c, j) => Awaited(c, j)'
              /\ Awaited(c, j)' => Awaited(c, j) \/ disp'[j] = "sent"
<1>0. registry \in Conn \cup {NoConn} /\ NoConn \notin Conn /\ toNode \in [Conn -> Seq(Frame)]
  BY NodeSessionAssumption DEF TypeOK
<1>1. UNCHANGED <<nodeVars, link, toServer, taskVars, memVars, dbNode, uiVars, scanVars, restarts>>
  BY DEF Dispatch, CheckConnected, StorePending, SendExecute, RefuseUnsent, DispatchKill,
         DispatchStatusRequest, SendCommand
<1>2. ASSUME NEW i \in Instance, Dispatch(i) PROVE Sends
  <2>1. Msg("execute", i) \in Frame
    BY MsgType DEF FrameKind
  <2>2. PICK f \in Frame : f = Msg("execute", i)
    BY <2>1
  <2>3. f.inst = i
    BY <2>2 DEF Msg
  <2>4. disp \in [Instance -> {"none", "checked", "stored", "unsent", "sent", "refused", "raised"}]
    BY DEF TypeOK
  <2>5. CASE UNCHANGED toNode
    BY <2>5 DEF Sends
  <2>6. CASE SendExecute(i) /\ toNode' # toNode
    BY <1>0, <2>2, <2>3, <2>4, <2>6 DEF SendExecute, Sends
  <2> QED BY <1>2, <2>5, <2>6 DEF Dispatch, CheckConnected, StorePending, RefuseUnsent
<1>3. ASSUME NEW i \in Instance, DispatchKill(i) PROVE Sends
  <2>1. Msg("kill", i) \in Frame
    BY MsgType DEF FrameKind
  <2>2. PICK f \in Frame : f = Msg("kill", i)
    BY <2>1
  <2>3. f.kind = "kill"
    BY <2>2 DEF Msg
  <2> QED BY <1>0, <1>3, <2>2, <2>3 DEF DispatchKill, SendCommand, Sends
<1>4. ASSUME DispatchStatusRequest PROVE Sends
  <2>1. Msg("status_request", NoInst) \in Frame
    BY MsgType DEF FrameKind, Impersonal
  <2>2. PICK f \in Frame : f = Msg("status_request", NoInst)
    BY <2>1
  <2>3. f.kind = "status_request"
    BY <2>2 DEF Msg
  <2> QED BY <1>0, <1>4, <2>2, <2>3 DEF DispatchStatusRequest, SendCommand, Sends
<1>5. Sends
  BY <1>2, <1>3, <1>4
<1>6. ASSUME NEW c \in Conn, NEW j \in Instance
      PROVE  /\ Awaited(c, j) => Awaited(c, j)'
             /\ Awaited(c, j)' => Awaited(c, j) \/ disp'[j] = "sent"
  <2>1. CASE toNode'[c] = toNode[c]
    BY <2>1 DEF Awaited
  <2>2. ASSUME NEW f \in Frame, toNode'[c] = Append(toNode[c], f),
               f.kind = "execute" => disp'[f.inst] = "sent"
        PROVE  /\ Awaited(c, j) => Awaited(c, j)'
               /\ Awaited(c, j)' => Awaited(c, j) \/ disp'[j] = "sent"
    <3>1. Frames(toNode'[c]) = Frames(toNode[c]) \cup {f}
      BY <1>0, <2>2, FramesAppend
    <3> QED BY <2>2, <3>1 DEF Awaited
  <2>3. \/ toNode'[c] = toNode[c]
        \/ \E f \in Frame : /\ toNode'[c] = Append(toNode[c], f)
                            /\ f.kind = "execute" => disp'[f.inst] = "sent"
    BY <1>0, <1>5 DEF Sends
  <2> QED BY <2>1, <2>2, <2>3
<1> QED BY <1>1, <1>5, <1>6

\* What a crash of the server leaves of the sessions.
LEMMA RestartEmpties ==
  ASSUME TypeOK, SessionInv, ServerRestart
  PROVE  /\ \A c \in Conn : /\ pc'[c] \in Over /\ link'[c] = "dead" /\ toServer'[c] = <<>>
                            /\ job'[c] = NoFrame
         /\ looping' = {} /\ registry' = NoConn /\ scan' = "idle" /\ scans' = scans
         /\ signalled' = {}
         /\ UNCHANGED <<nodeVars, toNode, dbVars, uiVars, commands>>
BY DEF ServerRestart, Over

\* The scanner closes the connection the registry holds, marks the rows, empties the
\* registry.
Shut(c) ==
  \/ link'[c] = "closing" /\ toServer'[c] = toServer[c] /\ pc[c] = "loop"
  \/ link'[c] = "dead" /\ toServer'[c] = <<>>

LEMMA ScannerSteps ==
  ASSUME TypeOK, SessionInv, Scanner
  PROVE  /\ Stale' /\ scans' \in Nat /\ scans' <= MaxScans
         /\ UNCHANGED <<nodeVars, toNode, taskVars, lockQueue, buffered, signalled, told,
                        cmdVars, restarts>>
         /\ registry' = registry \/ registry' = NoConn
         /\ db' = db \/ db' = BulkErrored
         /\ \A c \in Conn :
              \/ link'[c] = link[c] /\ toServer'[c] = toServer[c]
              \/ pc[c] # "first" /\ Shut(c)
<1>1. UNCHANGED <<nodeVars, toNode, taskVars, lockQueue, buffered, signalled, told, cmdVars, restarts>>
  BY DEF Scanner, ScanStale, CommitStale, CloseStale, DropStale, Deregister
<1>2. Stale' /\ scans' \in Nat /\ scans' <= MaxScans
  BY NodeSessionAssumption
     DEF Scanner, ScanStale, CommitStale, CloseStale, DropStale, SessionInv, Stale, TypeOK
<1>3. /\ registry' = registry \/ registry' = NoConn
      /\ db' = db \/ db' = BulkErrored
  BY DEF Scanner, ScanStale, CommitStale, CloseStale, DropStale, Deregister
<1>4. ASSUME NEW c \in Conn
      PROVE  \/ link'[c] = link[c] /\ toServer'[c] = toServer[c]
             \/ pc[c] # "first" /\ Shut(c)
  <2>1. link \in [Conn -> Link] /\ toServer \in [Conn -> Seq(Frame)] /\ HeldInv(c)
    BY DEF TypeOK, SessionInv
  <2>2. CASE UNCHANGED <<link, toServer>>
    BY <2>2
  <2>3. CASE CloseStale /\ registry # NoConn
    <3>1. ServerClose(registry) /\ registry \in Conn
      BY <2>3 DEF CloseStale, TypeOK
    <3>2. CASE c = registry
      BY <2>1, <3>1, <3>2 DEF ServerClose, Shut, HeldInv
    <3>3. CASE c # registry
      BY <2>1, <3>1, <3>3 DEF ServerClose
    <3> QED BY <3>2, <3>3
  <2> QED BY <2>2, <2>3 DEF Scanner, ScanStale, CommitStale, CloseStale, DropStale
<1> QED BY <1>1, <1>2, <1>3, <1>4

LEMMA SessionNext ==
  ASSUME Sequential, TypeOK, OnceInv, SessionInv, [Next]_vars
  PROVE  SessionInv'
<1>0. NoConn \notin Conn /\ \A c \in Conn : ConnInv(c) /\ HeldInv(c)
  BY NodeSessionAssumption DEF SessionInv
<1>1. CASE UNCHANGED vars
  BY <1>1 DEF SessionInv, ConnInv, HeldInv
<1>2. CASE \/ \E i \in Instance : Dispatch(i) \/ DispatchKill(i)
           \/ DispatchStatusRequest
  <2>1. /\ Sends
        /\ UNCHANGED <<nodeConn, link, toServer, pc, looping, job, target, registry, scan, scans>>
    BY <1>2, Commands
  <2>2. \A c \in Conn : toNode'[c] # <<>> => nodeConn' = c
    <3>1. toNode \in [Conn -> Seq(Frame)]
      BY DEF TypeOK
    <3> QED BY <1>0, <2>1, <3>1 DEF Sends, ConnInv
  <2>3. \A c \in Conn : ConnInv(c)' /\ HeldInv(c)'
    <3> TAKE c \in Conn
    <3>1. ConnInv(c) /\ HeldInv(c)
      BY <1>0
    <3>2. ConnInv(c)'
      BY <2>1, <2>2, <3>1 DEF ConnInv
    <3>3. HeldInv(c)'
      BY <2>1, <3>1 DEF HeldInv
    <3> QED BY <3>2, <3>3
  <2> QED BY <2>1, <2>3 DEF SessionInv
<1>3. CASE ServerRestart
  <2>1. NoFrame.kind = "none" /\ Frames(<<>>) = {}
    BY FramesEmpty DEF NoFrame, Msg
  <2>2. /\ \A c \in Conn : /\ pc'[c] \in Over /\ link'[c] = "dead" /\ toServer'[c] = <<>>
                           /\ job'[c] = NoFrame
        /\ looping' = {} /\ registry' = NoConn /\ scan' = "idle" /\ scans' = scans
        /\ UNCHANGED <<nodeConn, toNode>>
    BY <1>3, RestartEmpties
  <2>3. \A c \in Conn : ConnInv(c)' /\ HeldInv(c)'
    <3> TAKE c \in Conn
    <3>1. ConnInv(c)'
      BY <1>0, <2>2 DEF ConnInv, Over, Reporting
    <3>2. HeldInv(c)'
      BY <2>2 DEF HeldInv, Over, Registering
    <3> QED BY <3>1, <3>2
  <2> QED BY <2>2, <2>3 DEF SessionInv
<1>4. CASE Scanner
  <2>1. /\ Stale' /\ scans' <= MaxScans
        /\ UNCHANGED <<nodeConn, toNode, pc, looping, job, target>>
        /\ registry' = registry \/ registry' = NoConn
    BY <1>4, ScannerSteps
  <2>2. \A c \in Conn : ConnInv(c)' /\ HeldInv(c)'
    <3> TAKE c \in Conn
    <3>1. ConnInv(c) /\ HeldInv(c)
      BY <1>0
    <3>2. HeldInv(c)'
      BY <1>0, <2>1, <3>1 DEF HeldInv
    <3>3. CASE link'[c] = link[c] /\ toServer'[c] = toServer[c]
      BY <2>1, <3>1, <3>2, <3>3 DEF ConnInv
    <3>4. CASE pc[c] # "first" /\ Shut(c)
      <4>1. link'[c] # "open" /\ (pc[c] \in Over \cup {"bye", "drop"} => link'[c] = "dead" /\ toServer'[c] = <<>>)
        BY <3>1, <3>4 DEF Shut, ConnInv, Over
      <4> QED BY <2>1, <3>1, <3>2, <3>4, <4>1 DEF ConnInv
    <3> QED BY <1>4, <3>2, <3>3, <3>4, ScannerSteps
  <2>3. \A c, d \in Conn : pc'[c] \notin Over /\ pc'[d] \notin Over => c = d
    BY <2>1 DEF SessionInv
  <2> QED BY <2>1, <2>2, <2>3 DEF SessionInv
<1> QED BY <1>1, <1>2, <1>3, <1>4, SessionNode, SessionEndpoint DEF Next

LEMMA SessionInit == Init => SessionInv
<1> SUFFICES ASSUME Init PROVE SessionInv
  OBVIOUS
<1>1. \A c \in Conn : ConnInv(c)
  BY DEF Init, ConnInv, Over, Reporting
<1>2. \A c \in Conn : HeldInv(c)
  BY DEF Init, HeldInv, Over, Registering
<1>3. scans <= MaxScans
  BY NodeSessionAssumption DEF Init
<1> QED BY <1>1, <1>2, <1>3 DEF Init, SessionInv, Over

-----------------------------------------------------------------------------
(* A session that is served is reachable.                                    *)

\* Commands for the node reach the session that serves it: no end of an earlier
\* session, no failed registration and no restart takes the registry entry away
\* from a connection in its message loop (manager.py register, deregister).  A scan
\* may: it deregisters by node_id after an await (health.py).
THEOREM Reachable == Sequential /\ NeverStale => (Spec => []ServedIsReachable)
<1> SUFFICES ASSUME Sequential, NeverStale PROVE Spec => []ServedIsReachable
  OBVIOUS
<1>1. Init => TypeOK /\ LockInv /\ OnceInv /\ SessionInv
  BY InitType, InitLock, RealInit, SessionInit
<1>2. TypeOK /\ LockInv /\ OnceInv /\ SessionInv /\ [Next]_vars
        => TypeOK' /\ LockInv' /\ OnceInv' /\ SessionInv'
  BY TypeNext, LockInvNext, OnceNext, SessionNext
<1>3. TypeOK /\ SessionInv => ServedIsReachable
  BY DEF SessionInv, HeldInv, ServedIsReachable, Served, NeverStale, TypeOK
<1> QED BY <1>1, <1>2, <1>3, PTL DEF Spec

-----------------------------------------------------------------------------
(* The status of the node in the database and on the screens.                *)

\* The node's row is committed and its status is about to be broadcast.
Telling(c) ==
  pc[c] \in {"announce", "drop"} \/ (pc[c] = "after" /\ job[c].kind = "node_disconnect")

NodeRowInv(c) ==
  /\ pc[c] \in {"select", "commit", "bye"} => seenNode[c] = dbNode
  /\ pc[c] = "write" =>
       seenNode[c] = IF job[c].kind = "node_disconnect" THEN dbNode ELSE "absent"
  /\ c \in looping \/ pc[c] = "bye" => dbNode # "absent"
  /\ pc[c] = "announce" => dbNode = "connected"
  /\ Telling(c) /\ pc[c] # "announce" => dbNode = "disconnected"

NodeToldInv ==
  (\A c \in Conn : ~Telling(c)) /\ (restarts = 0 \/ looping # {}) => toldNode = dbNode

StatusInv == NodeToldInv /\ \A c \in Conn : NodeRowInv(c)

LEMMA StatusEndpoint ==
  ASSUME TypeOK, SessionInv, StatusInv, NEW c \in Conn, Endpoint(c)
  PROVE  StatusInv'
<1>0. /\ pc \in [Conn -> PC] /\ job \in [Conn -> Frame] /\ seenNode \in [Conn -> NodeStatus]
      /\ looping \subseteq Conn
  BY DEF TypeOK
<1>1. /\ pc[c] \notin Over /\ restarts' = restarts
      /\ \A d \in Conn : d # c => /\ pc[d] \in Over /\ d \notin looping
                                  /\ pc'[d] = pc[d] /\ d \notin looping'
  BY Alone
<1>2. ConnInv(c) /\ HeldInv(c) /\ NodeRowInv(c) /\ NodeToldInv
  BY DEF SessionInv, StatusInv
<1>3. ASSUME NEW d \in Conn, d # c PROVE NodeRowInv(d)' /\ ~Telling(d) /\ ~Telling(d)'
  <2>1. pc[d] \in Over /\ pc'[d] \in Over /\ d \notin looping'
    BY <1>1, <1>3
  <2> QED BY <2>1 DEF NodeRowInv, Telling, Over
<1>4. NodeToldInv <=> (~Telling(c) /\ (restarts = 0 \/ looping # {}) => toldNode = dbNode)
  BY <1>3 DEF NodeToldInv
<1>5. NodeToldInv' <=> (~Telling(c)' /\ (restarts = 0 \/ looping' # {}) => toldNode' = dbNode')
  BY <1>1, <1>3 DEF NodeToldInv
<1>6. NodeRowInv(c)'
      /\ (~Telling(c)' /\ (restarts = 0 \/ looping' # {}) => toldNode' = dbNode')
  <2>1. ~Telling(c) /\ (restarts = 0 \/ looping # {}) => toldNode = dbNode
    BY <1>2, <1>4
  <2>2. CASE \/ ReceiveFirst(c) \/ FirstLost(c) \/ AcquireLock(c) \/ CloseDone(c)
             \/ LoadNode(c) \/ LoadRows(c)
    BY <1>0, <1>2, <2>1, <2>2
       DEF ReceiveFirst, FirstLost, AcquireLock, CloseDone, LoadNode, LoadRows,
           NodeRowInv, HeldInv, Telling
  <2>3. CASE CommitRegister(c)
    <3>1. dbNode' = "connected" /\ pc'[c] = "announce"
      BY <1>0, <1>2, <2>3 DEF CommitRegister, NodeRowInv, OrmWrite
    <3> QED BY <3>1 DEF NodeRowInv, Telling
  <2>4. CASE FailRegister(c)
    <3>1. dbNode' = dbNode /\ looping' = looping /\ toldNode' = toldNode
          /\ pc[c] = "commit" /\ pc'[c] \in {"loop", "crashed"}
      BY <1>0, <2>4 DEF FailRegister
    <3> QED BY <1>2, <2>1, <3>1 DEF NodeRowInv, Telling
  <2>5. CASE AnnounceRegister(c)
    BY <1>0, <1>2, <2>5 DEF AnnounceRegister, NodeRowInv, Telling
  <2>6. CASE ReceiveRegister(c)
    BY <1>0, <1>2, <2>1, <2>6 DEF ReceiveRegister, TakeFrame, NodeRowInv, Telling
  <2>7. CASE ReceiveEvent(c)
    BY <1>0, <1>2, <2>1, <2>7 DEF ReceiveEvent, TakeFrame, NodeRowInv, Telling
  <2>8. CASE CommitEvent(c)
    <3>1. /\ pc[c] = "write" /\ pc'[c] = "after" /\ job' = job /\ looping' = looping
          /\ toldNode' = toldNode /\ c \in looping
      BY <1>0, <1>2, <2>8 DEF CommitEvent, HeldInv
    <3>2. CASE job[c].kind = "node_disconnect"
      <4>1. dbNode' = "disconnected"
        BY <1>2, <2>8, <3>1, <3>2 DEF CommitEvent, NodeRowInv, OrmWrite
      <4> QED BY <3>1, <3>2, <4>1 DEF NodeRowInv, Telling
    <3>3. CASE job[c].kind # "node_disconnect"
      <4>1. dbNode' = dbNode
        BY <1>2, <2>8, <3>1, <3>3 DEF CommitEvent, NodeRowInv
      <4> QED BY <1>2, <2>1, <3>1, <3>3, <4>1 DEF NodeRowInv, Telling
    <3> QED BY <3>2, <3>3
  <2>9. CASE AfterEvent(c)
    <3>1. /\ pc[c] = "after" /\ pc'[c] = "loop" /\ looping' = looping /\ dbNode' = dbNode
          /\ toldNode' = IF job[c].kind = "node_disconnect" THEN "disconnected" ELSE toldNode
          /\ c \in looping
      BY <1>0, <1>2, <2>9 DEF AfterEvent, HeldInv
    <3> QED BY <1>2, <2>1, <3>1 DEF NodeRowInv, Telling
  <2>10. CASE Detect(c)
    <3>1. /\ pc[c] = "loop" /\ pc'[c] = "bye" /\ looping' = looping \ {c} /\ dbNode' = dbNode
          /\ toldNode' = toldNode /\ c \in looping /\ seenNode'[c] = dbNode
      BY <1>0, <1>2, <2>10 DEF Detect, HeldInv
    <3> QED BY <1>2, <2>1, <3>1 DEF NodeRowInv, Telling
  <2>11. CASE CommitDisconnect(c)
    <3>1. pc[c] = "bye" /\ pc'[c] = "drop" /\ dbNode' = "disconnected" /\ looping' = looping
      BY <1>0, <1>2, <2>11 DEF CommitDisconnect, NodeRowInv, OrmWrite
    <3>2. c \notin looping
      BY <1>2, <3>1 DEF HeldInv, Registering
    <3> QED BY <3>1, <3>2 DEF NodeRowInv, Telling
  <2>12. CASE FinishDisconnect(c)
    <3>1. pc[c] = "drop" /\ pc'[c] = "done" /\ dbNode' = dbNode /\ looping' = looping
          /\ toldNode' = "disconnected" /\ dbNode = "disconnected"
      BY <1>0, <1>2, <2>12 DEF FinishDisconnect, NodeRowInv, Telling
    <3> QED BY <3>1 DEF NodeRowInv, Telling
  <2> QED BY <2>2, <2>3, <2>4, <2>5, <2>6, <2>7, <2>8, <2>9, <2>10, <2>11, <2>12 DEF Endpoint
<1> QED BY <1>3, <1>5, <1>6 DEF StatusInv

LEMMA StatusNext ==
  ASSUME Sequential, NeverStale, TypeOK, OnceInv, SessionInv, StatusInv, [Next]_vars
  PROVE  StatusInv'
<1>0. pc \in [Conn -> PC] /\ restarts \in Nat
  BY DEF TypeOK
<1>1. ASSUME UNCHANGED <<looping, job, seenNode, dbNode, toldNode, restarts>>,
             \A c \in Conn : pc'[c] = pc[c] \/ (pc[c] \in Over /\ pc'[c] = "first")
      PROVE  StatusInv'
  <2>1. ASSUME NEW c \in Conn
        PROVE  NodeRowInv(c)' /\ (Telling(c)' <=> Telling(c))
    <3>1. NodeRowInv(c) /\ (pc'[c] = pc[c] \/ (pc[c] \in Over /\ pc'[c] = "first"))
      BY <1>1 DEF StatusInv
    <3>2. Telling(c)' <=> Telling(c)
      BY <1>1, <3>1 DEF Telling, Over
    <3>3. CASE pc'[c] = pc[c]
      BY <1>1, <3>1, <3>2, <3>3 DEF NodeRowInv
    <3>4. CASE pc'[c] = "first"
      BY <1>1, <3>1, <3>2, <3>4 DEF NodeRowInv, Telling
    <3> QED BY <3>1, <3>3, <3>4
  <2> QED BY <1>1, <2>1 DEF StatusInv, NodeToldInv
<1>2. CASE Node
  <2>1. UNCHANGED <<looping, job, seenNode, dbNode, toldNode, restarts>>
    BY <1>2, NodeSteps
  <2>2. \A c \in Conn : pc'[c] = pc[c] \/ (pc[c] \in Over /\ pc'[c] = "first")
    BY <1>0, <1>2, NodeSteps DEF NodeConnect
  <2> QED BY <1>1, <2>1, <2>2
<1>3. CASE \/ \E i \in Instance : Dispatch(i) \/ DispatchKill(i)
           \/ DispatchStatusRequest
  BY <1>1, <1>3, Commands
<1>4. CASE ServerRestart
  <2>1. /\ \A c \in Conn : pc'[c] \in Over
        /\ looping' = {} /\ restarts' # 0
    BY <1>0, <1>4, RestartEmpties DEF ServerRestart
  <2>2. \A c \in Conn : NodeRowInv(c)'
    BY <2>1 DEF NodeRowInv, Telling, Over
  <2> QED BY <2>1, <2>2 DEF StatusInv, NodeToldInv
<1>5. CASE Scanner
  BY <1>5, ScannerSteps DEF NeverStale
<1>6. CASE UNCHANGED vars
  BY <1>1, <1>6
<1> QED BY <1>2, <1>3, <1>4, <1>5, <1>6, StatusEndpoint DEF Next

LEMMA StatusInit == Init => StatusInv
BY DEF Init, StatusInv, NodeToldInv, NodeRowInv, Telling

\* Outside the moments between a commit and its broadcast the status last shown of
\* the node is the one in its row (handlers.py commits first and broadcasts then),
\* whatever registrations fail and sessions end in between; after a crash of the
\* server as soon as the node is served again.
THEOREM StatusShown == Sequential /\ NeverStale => (Spec => []NodeStatusShown)
<1> SUFFICES ASSUME Sequential, NeverStale PROVE Spec => []NodeStatusShown
  OBVIOUS
<1>1. Init => TypeOK /\ LockInv /\ OnceInv /\ SessionInv /\ StatusInv
  BY InitType, InitLock, RealInit, SessionInit, StatusInit
<1>2. TypeOK /\ LockInv /\ OnceInv /\ SessionInv /\ StatusInv /\ [Next]_vars
        => TypeOK' /\ LockInv' /\ OnceInv' /\ SessionInv' /\ StatusInv'
  BY TypeNext, LockInvNext, OnceNext, SessionNext, StatusNext
<1>3. SessionInv /\ StatusInv => NodeStatusShown
  <2> SUFFICES ASSUME SessionInv, StatusInv, \A c \in Conn : pc[c] \notin {"announce", "after", "drop"},
                      restarts = 0 \/ \E c \in Conn : Served(c)
               PROVE  toldNode = dbNode
    BY DEF NodeStatusShown
  <2>1. restarts = 0 \/ looping # {}
    BY DEF SessionInv, HeldInv, Served
  <2> QED BY <2>1 DEF StatusInv, NodeToldInv, Telling
<1> QED BY <1>1, <1>2, <1>3, PTL DEF Spec

-----------------------------------------------------------------------------
(* What is on its way from the node: the frame an endpoint works on and the   *)
(* frames behind it.                                                          *)

Names(f, i) == f.inst = i \/ i \in f.running

Line(c) == Frames(toServer[c]) \cup {job[c]}

\* Nothing names an instance behind the frame that settles it.
Orderly(q) ==
  \A k, l \in 1..Len(q) : \A i \in Instance :
    k < l /\ Settles(q[k], i) => ~Names(q[l], i)

\* Only known instances are named, only ended ones settled; and as long as the
\* connection stands, one that is named runs, or the frame that settles it follows.
ConnLine(c) ==
  /\ Orderly(toServer[c])
  /\ \A f \in Line(c) : \A i \in Instance :
       /\ Names(f, i) => nodeInst[i] # "none"
       /\ Settles(f, i) => nodeInst[i] = "ended"
       /\ link[c] = "open" /\ Names(f, i) =>
            i \in Running \/ \E g \in Line(c) : Settles(g, i)
  /\ \A f \in Frames(toServer[c]) : \A i \in Instance :
       Settles(job[c], i) => ~Names(f, i)

\* An execute command the server could not send has not been sent.
UnsentInv ==
  \A i \in Instance : disp[i] = "unsent" =>
    nodeInst[i] = "none" /\ \A c \in Conn : ~Awaited(c, i)

LineInv == UnsentInv /\ \A c \in Conn : ConnLine(c)

LEMMA OrderlyTaken ==
  ASSUME NEW q \in Seq(Frame), q # <<>>, Orderly(q)
  PROVE  /\ Orderly(Tail(q))
         /\ \A g \in Frames(Tail(q)) : \A i \in Instance : Settles(Head(q), i) => ~Names(g, i)
<1>1. /\ Len(q) \in Nat \ {0} /\ Len(Tail(q)) = Len(q) - 1 /\ Head(q) = q[1]
      /\ \A k \in 1..Len(Tail(q)) : Tail(q)[k] = q[k + 1]
  OBVIOUS
<1>2. ASSUME NEW k \in 1..Len(Tail(q)), NEW l \in 1..Len(Tail(q)), NEW i \in Instance,
             k < l, Settles(Tail(q)[k], i)
      PROVE  ~Names(Tail(q)[l], i)
  <2>1. k + 1 \in 1..Len(q) /\ l + 1 \in 1..Len(q) /\ k + 1 < l + 1
    BY <1>1, <1>2
  <2> QED BY <1>1, <1>2, <2>1 DEF Orderly
<1>3. ASSUME NEW k \in 1..Len(Tail(q)), NEW i \in Instance, Settles(Head(q), i)
      PROVE  ~Names(Tail(q)[k], i)
  <2>1. 1 \in 1..Len(q) /\ k + 1 \in 1..Len(q) /\ 1 < k + 1
    BY <1>1
  <2> QED BY <1>1, <1>3, <2>1 DEF Orderly
<1> QED BY <1>2, <1>3 DEF Orderly, Frames

LEMMA OrderlyAppend ==
  ASSUME NEW q \in Seq(Frame), NEW f \in Frame, Orderly(q),
         \A g \in Frames(q) : \A i \in Instance : Settles(g, i) => ~Names(f, i)
  PROVE  Orderly(Append(q, f))
<1>1. /\ Len(q) \in Nat /\ Len(Append(q, f)) = Len(q) + 1
      /\ Append(q, f)[Len(q) + 1] = f
      /\ \A k \in 1..Len(q) : Append(q, f)[k] = q[k]
  OBVIOUS
<1>2. ASSUME NEW k \in 1..Len(Append(q, f)), NEW l \in 1..Len(Append(q, f)), NEW i \in Instance,
             k < l, Settles(Append(q, f)[k], i)
      PROVE  ~Names(Append(q, f)[l], i)
  <2>1. k \in 1..Len(q) /\ Append(q, f)[k] = q[k] /\ q[k] \in Frames(q)
    BY <1>1, <1>2 DEF Frames
  <2>2. CASE l = Len(q) + 1
    BY <1>1, <1>2, <2>1, <2>2
  <2>3. CASE l # Len(q) + 1
    <3>1. l \in 1..Len(q) /\ Append(q, f)[l] = q[l]
      BY <1>1, <2>3
    <3> QED BY <1>2, <2>1, <3>1 DEF Orderly
  <2> QED BY <2>2, <2>3
<1> QED BY <1>2 DEF Orderly

LEMMA OrderlyShort ==
  /\ Orderly(<<>>)
  /\ \A f : Orderly(<<f>>)
<1>1. Orderly(<<>>)
  BY DEF Orderly
<1>2. ASSUME NEW f PROVE Orderly(<<f>>)
  <2>1. Len(<<f>>) = 1
    OBVIOUS
  <2> QED BY <2>1 DEF Orderly
<1> QED BY <1>1, <1>2

LEMMA NoFrameSilent ==
  \A i \in Instance : ~Names(NoFrame, i) /\ ~Settles(NoFrame, i)
BY NodeSessionAssumption DEF Names, Settles, NoFrame, Msg

LEMMA SettlesNames == \A f : \A i \in Instance : Settles(f, i) => Names(f, i)
BY DEF Settles, Names

\* Instances only ever move on.
LEMMA NodeMovesOn ==
  ASSUME TypeOK, OnceInv, [Next]_vars
  PROVE  \A i \in Instance :
           /\ nodeInst[i] # "none" => nodeInst'[i] # "none"
           /\ nodeInst[i] = "ended" => nodeInst'[i] = "ended"
<1>1. CASE UNCHANGED nodeInst
  BY <1>1
<1>2. CASE Node /\ nodeInst' # nodeInst
  <2>1. CASE Talks
    <3>1. PICK f \in Frame : Tells(f)
      BY <1>2, <2>1 DEF Talks
    <3> QED BY <1>2, <3>1 DEF Tells, Running
  <2>2. CASE Leaves
    BY <1>2, <2>2 DEF Leaves, LoseRunning, Running
  <2> QED BY <1>2, <2>1, <2>2, NodeSteps DEF NodeConnect
<1> QED BY <1>1, <1>2, NodeOnly

LEMMA AwaitedOnce ==
  ASSUME TypeOK, OnceInv, NEW c \in Conn, NEW i \in Instance, Awaited(c, i)
  PROVE  nodeInst[i] = "none" /\ ~Unsent(i)
<1>1. PICK k \in 1..Len(toNode[c]) : toNode[c][k].kind = "execute" /\ toNode[c][k].inst = i
  BY DEF Awaited, Frames
<1>2. toNode[c] \in Seq(Frame)
  BY DEF TypeOK
<1>3. k \in Nat /\ Ordered(c, k, i)
  BY <1>1, <1>2 DEF Ordered
<1> QED BY <1>3 DEF OnceInv

LEMMA UnsentNode ==
  ASSUME TypeOK, OnceInv, UnsentInv, Node
  PROVE  UnsentInv'
<1>1. disp' = disp
  BY NodeSteps
<1>2. \A c \in Conn : \A i \in Instance : Awaited(c, i)' => Awaited(c, i)
  <2>1. ASSUME NEW d \in Conn, NodeConnect(d)
        PROVE  \A c \in Conn : \A i \in Instance : Awaited(c, i)' => Awaited(c, i)
    <3>1. \A c \in Conn : toNode'[c] = <<>> \/ toNode'[c] = toNode[c]
      BY <2>1 DEF NodeConnect, TypeOK
    <3> QED BY <3>1, FramesEmpty DEF Awaited
  <2>2. ASSUME Leaves
        PROVE  \A c \in Conn : \A i \in Instance : Awaited(c, i)' => Awaited(c, i)
    BY <2>2, FramesEmpty DEF Leaves, Awaited
  <2> QED BY <2>1, <2>2, NodeSteps DEF Talks
<1>3. ASSUME NEW i \in Instance, nodeInst[i] = "none", \A c \in Conn : ~Awaited(c, i)
      PROVE  nodeInst'[i] = "none"
  <2>1. CASE Talks
    BY <1>3, <2>1 DEF Talks, Tells, Running
  <2>2. CASE Leaves
    BY <1>3, <2>2 DEF Leaves, LoseRunning, Running
  <2> QED BY <1>3, <2>1, <2>2, NodeSteps DEF NodeConnect
<1> QED BY <1>1, <1>2, <1>3 DEF UnsentInv

LEMMA UnsentNext ==
  ASSUME Sequential, TypeOK, OnceInv, SessionInv, UnsentInv, [Next]_vars
  PROVE  UnsentInv'
<1>1. ASSUME UNCHANGED <<nodeInst, toNode>>,
             \A i \in Instance : disp'[i] = "unsent" => disp[i] = "unsent"
      PROVE  UnsentInv'
  BY <1>1 DEF UnsentInv, Awaited
<1>2. ASSUME NEW c \in Conn, Endpoint(c) PROVE UnsentInv'
  <2>1. UNCHANGED <<nodeInst, toNode, disp>>
    BY <1>2, Alone
  <2> QED BY <1>1, <2>1
<1>3. CASE \/ \E i \in Instance : Dispatch(i) \/ DispatchKill(i)
           \/ DispatchStatusRequest
  <2>1. /\ nodeInst' = nodeInst
        /\ \A c \in Conn : \A j \in Instance : Awaited(c, j)' => Awaited(c, j) \/ disp'[j] = "sent"
    BY <1>3, Commands
  <2>2. ASSUME NEW i \in Instance, disp'[i] = "unsent", disp[i] # "unsent"
        PROVE  disp[i] = "stored"
    BY <1>3, <2>2 DEF Dispatch, CheckConnected, StorePending, SendExecute, RefuseUnsent,
                      DispatchKill, DispatchStatusRequest, SendCommand, TypeOK
  <2>3. ASSUME NEW i \in Instance, disp'[i] = "unsent"
        PROVE  nodeInst[i] = "none" /\ \A c \in Conn : ~Awaited(c, i)
    <3>1. CASE disp[i] = "unsent"
      BY <3>1 DEF UnsentInv
    <3>2. CASE disp[i] = "stored"
      <4>1. Unsent(i) /\ i \notin Foreign
        BY <3>2 DEF Unsent, OnceInv
      <4> QED BY <4>1, AwaitedOnce DEF OnceInv
    <3> QED BY <2>2, <2>3, <3>1, <3>2
  <2> QED BY <2>1, <2>3 DEF UnsentInv
<1>4. CASE ServerRestart
  <2>1. UNCHANGED <<nodeInst, toNode>>
        /\ \A i \in Instance : disp'[i] = "unsent" => disp[i] = "unsent"
    BY <1>4 DEF ServerRestart
  <2> QED BY <1>1, <2>1
<1>5. CASE Scanner
  BY <1>1, <1>5, ScannerSteps
<1>6. CASE UNCHANGED vars
  BY <1>1, <1>6
<1> QED BY <1>2, <1>3, <1>4, <1>5, <1>6, UnsentNode DEF Next

\* What a step of an endpoint does to its line: nothing, take the frame at its
\* head, drop a registration while the registry is empty, let go
\* of the frame it worked on, or end with all frames that were still to come.
Moves(c) ==
  \/ UNCHANGED <<link[c], toServer[c], job[c]>>
  \/ /\ toServer[c] # <<>> /\ toServer'[c] = Tail(toServer[c])
     /\ (link'[c] = "open" <=> link[c] = "open") /\ job[c] = NoFrame
     /\ \/ job'[c] = Head(toServer[c])
        \/ job'[c] = NoFrame /\ Head(toServer[c]).kind = "node_register"
  \/ UNCHANGED <<link[c], toServer[c]>> /\ job'[c] = NoFrame
  \/ link'[c] = "dead" /\ toServer'[c] = <<>> /\ job'[c] = NoFrame

LEMMA EndpointMoves ==
  ASSUME TypeOK, SessionInv, NEW c \in Conn, Endpoint(c)
  PROVE  Moves(c)
<1>0. /\ pc \in [Conn -> PC] /\ link \in [Conn -> Link] /\ toServer \in [Conn -> Seq(Frame)]
      /\ job \in [Conn -> Frame] /\ registry \in Conn \cup {NoConn} /\ NoConn \notin Conn
  BY NodeSessionAssumption DEF TypeOK
<1>1. ConnInv(c) /\ HeldInv(c)
  BY DEF SessionInv
<1> HIDE DEF NoFrame
<1>2. pc[c] \in {"first", "loop", "announce", "bye", "drop"} => job[c] = NoFrame
  BY <1>1 DEF ConnInv, Reporting
<1>3. CASE AcquireLock(c)
  <2>1. UNCHANGED <<link, toServer, job>>
    BY <1>3, Alone DEF AcquireLock
  <2> QED BY <2>1 DEF Moves
<1>4. CASE \/ CloseDone(c) \/ LoadNode(c) \/ LoadRows(c) \/ AnnounceRegister(c)
           \/ CommitEvent(c) \/ FinishDisconnect(c)
  BY <1>4 DEF CloseDone, LoadNode, LoadRows, AnnounceRegister, CommitEvent,
              FinishDisconnect, Moves
<1>5. CASE ReceiveFirst(c)
  BY <1>0, <1>2, <1>5 DEF ReceiveFirst, Moves
<1>6. CASE ReceiveEvent(c) \/ ReceiveRegister(c)
  <2>1. /\ pc[c] = "loop" /\ toServer[c] # <<>> /\ link[c] # "dead"
        /\ toServer'[c] = Tail(toServer[c])
        /\ link'[c] = IF link[c] = "closing" THEN "dead" ELSE link[c]
    BY <1>0, <1>6 DEF ReceiveEvent, ReceiveRegister, TakeFrame
  <2>2. link'[c] = "open" <=> link[c] = "open"
    BY <2>1
  <2>3. job[c] = NoFrame
    BY <1>2, <2>1
  <2>4. CASE ReceiveEvent(c)
    BY <1>0, <2>1, <2>2, <2>3, <2>4 DEF ReceiveEvent, Moves
  <2>5. CASE ReceiveRegister(c)
    BY <1>0, <2>1, <2>2, <2>3, <2>5 DEF ReceiveRegister, Moves
  <2> QED BY <1>6, <2>4, <2>5
<1>7. CASE CommitRegister(c) \/ AfterEvent(c) \/ CommitDisconnect(c)
  BY <1>0, <1>7 DEF CommitRegister, AfterEvent, CommitDisconnect, EndTransaction, Moves
<1>8. CASE FailRegister(c)
  BY <1>0, <1>8 DEF FailRegister, EndTransaction, Moves
<1>9. CASE FirstLost(c) \/ Detect(c)
  BY <1>0, <1>2, <1>9 DEF FirstLost, Detect, Moves
<1> QED BY <1>3, <1>4, <1>5, <1>6, <1>7, <1>8, <1>9 DEF Endpoint

LEMMA LineEndpoint ==
  ASSUME TypeOK, SessionInv, NEW c \in Conn, Endpoint(c), \A d \in Conn : ConnLine(d)
  PROVE  \A d \in Conn : ConnLine(d)'
<1>1. /\ nodeInst' = nodeInst
      /\ \A d \in Conn : d # c => /\ toServer'[d] = toServer[d] /\ job'[d] = job[d]
                                  /\ link'[d] = link[d]
  BY Alone
<1>2. ASSUME NEW d \in Conn, UNCHANGED <<link[d], toServer[d], job[d]>> PROVE ConnLine(d)'
  BY <1>1, <1>2 DEF ConnLine, Line, Running
<1>3. ConnLine(c)'
  <2> DEFINE q == toServer[c]
  <2>0. q \in Seq(Frame) /\ ConnLine(c)
    BY DEF TypeOK
  <2>1. CASE /\ q # <<>> /\ toServer'[c] = Tail(q)
             /\ (link'[c] = "open" <=> link[c] = "open") /\ job[c] = NoFrame
             /\ \/ job'[c] = Head(q)
                \/ job'[c] = NoFrame /\ Head(q).kind = "node_register"
    <3> HIDE DEF NoFrame
    <3>1. /\ Frames(q) = {Head(q)} \cup Frames(Tail(q))
          /\ Orderly(Tail(q))
          /\ \A g \in Frames(Tail(q)) : \A i \in Instance : Settles(Head(q), i) => ~Names(g, i)
      BY <2>0, <2>1, FramesTaken, OrderlyTaken DEF ConnLine
    <3>2. Line(c) = Frames(q) \cup {NoFrame} /\ Line(c)' = Frames(Tail(q)) \cup {job'[c]}
      BY <2>1 DEF Line
    <3>3. Line(c)' \subseteq Line(c)
      BY <2>1, <3>1, <3>2
    <3>4. ASSUME NEW f \in Line(c)', NEW i \in Instance, link'[c] = "open", Names(f, i), i \notin Running
          PROVE  \E g \in Line(c)' : Settles(g, i)
      <4>1. PICK g \in Line(c) : Settles(g, i)
        BY <2>0, <2>1, <3>3, <3>4 DEF ConnLine
      <4>2. g # NoFrame
        BY <4>1, NoFrameSilent
      <4>3. g \in Line(c)'
        BY <2>1, <3>1, <3>2, <3>4, <4>1, <4>2 DEF Settles
      <4> QED BY <4>1, <4>3
    <3>5. \A f \in Line(c)' : \A i \in Instance :
            /\ Names(f, i) => nodeInst'[i] # "none"
            /\ Settles(f, i) => nodeInst'[i] = "ended"
            /\ link'[c] = "open" /\ Names(f, i) =>
                 i \in Running' \/ \E g \in Line(c)' : Settles(g, i)
      BY <1>1, <2>0, <3>3, <3>4 DEF ConnLine, Running
    <3>6. \A f \in Frames(Tail(q)) : \A i \in Instance : Settles(job'[c], i) => ~Names(f, i)
      BY <2>1, <3>1, NoFrameSilent
    <3> QED BY <2>1, <3>1, <3>5, <3>6 DEF ConnLine
  <2>2. CASE UNCHANGED <<link[c], toServer[c]>> /\ job'[c] = NoFrame
    <3> HIDE DEF NoFrame
    <3>1. Line(c) = Frames(q) \cup {job[c]} /\ Line(c)' = Frames(q) \cup {NoFrame}
      BY <2>2 DEF Line
    <3>2. \A f \in Line(c)' : f \in Frames(q) \/ f = NoFrame
      BY <3>1
    <3>3. ASSUME NEW f \in Frames(q), NEW i \in Instance, link'[c] = "open", Names(f, i), i \notin Running
          PROVE  \E g \in Line(c)' : Settles(g, i)
      <4>1. PICK g \in Line(c) : Settles(g, i)
        BY <2>0, <2>2, <3>1, <3>3 DEF ConnLine
      <4>2. ~Settles(job[c], i)
        BY <2>0, <3>3 DEF ConnLine
      <4>3. g \in Line(c)'
        BY <3>1, <4>1, <4>2
      <4> QED BY <4>1, <4>3
    <3>4. \A f \in Line(c)' : \A i \in Instance :
            /\ Names(f, i) => nodeInst'[i] # "none"
            /\ Settles(f, i) => nodeInst'[i] = "ended"
            /\ link'[c] = "open" /\ Names(f, i) =>
                 i \in Running' \/ \E g \in Line(c)' : Settles(g, i)
      BY <1>1, <2>0, <3>1, <3>2, <3>3, NoFrameSilent DEF ConnLine, Running
    <3>5. \A f \in Frames(q) : \A i \in Instance : Settles(job'[c], i) => ~Names(f, i)
      BY <2>2, NoFrameSilent
    <3> QED BY <2>0, <2>2, <3>4, <3>5 DEF ConnLine
  <2>3. CASE link'[c] = "dead" /\ toServer'[c] = <<>> /\ job'[c] = NoFrame
    <3> HIDE DEF NoFrame
    <3>1. Line(c)' = {NoFrame} /\ Frames(toServer'[c]) = {} /\ Orderly(toServer'[c])
      BY <2>3, FramesEmpty, OrderlyShort DEF Line
    <3> QED BY <2>3, <3>1, NoFrameSilent DEF ConnLine
  <2> QED BY <1>2, <2>1, <2>2, <2>3, EndpointMoves DEF Moves
<1> QED BY <1>1, <1>2, <1>3

LEMMA LineNode ==
  ASSUME Sequential, TypeOK, OnceInv, SessionInv, Node, \A c \in Conn : ConnLine(c)
  PROVE  \A c \in Conn : ConnLine(c)'
<1>0. /\ link \in [Conn -> Link] /\ toServer \in [Conn -> Seq(Frame)] /\ job \in [Conn -> Frame]
      /\ NoInst \notin Instance /\ nodeInst \in [Instance -> NodeInstStatus]
  BY NodeSessionAssumption DEF TypeOK
<1>1. job' = job
  BY NodeSteps
<1>2. \A i \in Instance : /\ nodeInst[i] # "none" => nodeInst'[i] # "none"
                          /\ nodeInst[i] = "ended" => nodeInst'[i] = "ended"
  BY NodeMovesOn DEF Next
<1>3. ASSUME NEW c \in Conn, ConnLine(c), toServer'[c] = toServer[c],
             link'[c] = "open" => link[c] = "open" /\ nodeInst' = nodeInst
      PROVE  ConnLine(c)'
  <2>1. Line(c)' = Line(c)
    BY <1>1, <1>3 DEF Line
  <2>2. \A f \in Line(c)' : \A i \in Instance :
          /\ Names(f, i) => nodeInst'[i] # "none"
          /\ Settles(f, i) => nodeInst'[i] = "ended"
          /\ link'[c] = "open" /\ Names(f, i) =>
               i \in Running' \/ \E g \in Line(c)' : Settles(g, i)
    BY <1>2, <1>3, <2>1 DEF ConnLine, Running
  <2> QED BY <1>1, <1>3, <2>2 DEF ConnLine
<1>4. ASSUME NEW c \in Conn, ConnLine(c), NEW f \in Frame,
             toServer'[c] = Append(toServer[c], f),
             \A i \in Instance : Names(f, i) => nodeInst[i] # "ended" /\ nodeInst'[i] # "none",
             \A i \in Instance : Settles(f, i) => nodeInst'[i] = "ended",
             link'[c] = "open" => link[c] = "open",
             link'[c] = "open" => \A i \in Instance :
               /\ i \in Running => i \in Running' \/ Settles(f, i)
               /\ Names(f, i) => i \in Running' \/ Settles(f, i)
      PROVE  ConnLine(c)'
  <2> DEFINE q == toServer[c]
  <2>0. q \in Seq(Frame)
    BY <1>0
  <2>1. Frames(Append(q, f)) = Frames(q) \cup {f}
    BY <2>0, FramesAppend
  <2>2. Line(c)' = Line(c) \cup {f}
    BY <1>1, <1>4, <2>1 DEF Line
  <2>3. \A g \in Line(c) : \A i \in Instance : Settles(g, i) => ~Names(f, i)
    BY <1>4 DEF ConnLine
  <2>4. Frames(q) \subseteq Line(c) /\ job[c] \in Line(c)
    BY DEF Line
  <2>5. Orderly(Append(q, f))
    BY <1>4, <2>0, <2>3, <2>4, OrderlyAppend DEF ConnLine
  <2>6. \A g \in Frames(Append(q, f)) : \A i \in Instance : Settles(job'[c], i) => ~Names(g, i)
    BY <1>1, <1>4, <2>1, <2>3, <2>4 DEF ConnLine
  <2>7. ASSUME NEW g \in Line(c)', NEW i \in Instance
        PROVE  /\ Names(g, i) => nodeInst'[i] # "none"
               /\ Settles(g, i) => nodeInst'[i] = "ended"
               /\ link'[c] = "open" /\ Names(g, i) =>
                    i \in Running' \/ \E h \in Line(c)' : Settles(h, i)
    <3>1. CASE g = f
      BY <1>4, <2>2, <3>1
    <3>2. CASE g \in Line(c)
      <4>1. /\ Names(g, i) => nodeInst[i] # "none"
            /\ Settles(g, i) => nodeInst[i] = "ended"
            /\ link[c] = "open" /\ Names(g, i) => i \in Running \/ \E h \in Line(c) : Settles(h, i)
        BY <1>4, <3>2 DEF ConnLine
      <4> QED BY <1>2, <1>4, <2>2, <4>1
    <3> QED BY <2>2, <3>1, <3>2
  <2> QED BY <1>4, <2>5, <2>6, <2>7 DEF ConnLine
<1>5. ASSUME NEW d \in Conn, NodeConnect(d) PROVE \A c \in Conn : ConnLine(c)'
  <2>1. /\ toServer' = [toServer EXCEPT ![d] = <<RegisterFrame>>] /\ nodeInst' = nodeInst
        /\ link' = [link EXCEPT ![d] = "open"]
        /\ \A c \in Conn : pc[c] \in Over
    BY <1>5 DEF NodeConnect, Sequential
  <2>2. ASSUME NEW c \in Conn, c # d PROVE ConnLine(c)'
    <3>1. toServer'[c] = toServer[c] /\ link'[c] = link[c]
      BY <1>0, <2>1, <2>2
    <3> QED BY <1>3, <2>1, <3>1
  <2>3. ConnLine(d)'
    <3>1. job'[d] = NoFrame
      <4>1. ConnInv(d) /\ pc[d] \in Over
        BY <2>1 DEF SessionInv
      <4> HIDE DEF NoFrame
      <4> QED BY <1>1, <4>1 DEF ConnInv, Reporting, Over
    <3>2. toServer'[d] = <<RegisterFrame>>
      BY <1>0, <2>1
    <3>3. <<RegisterFrame>> \in Seq(Frame) /\ Len(<<RegisterFrame>>) = 1
          /\ <<RegisterFrame>>[1] = RegisterFrame
      BY RegisterFrameType
    <3>4. Frames(<<RegisterFrame>>) = {RegisterFrame}
      BY <3>3 DEF Frames
    <3>5. \A i \in Instance : (Names(RegisterFrame, i) <=> i \in Running) /\ ~Settles(RegisterFrame, i)
      BY <1>0 DEF Names, Settles, RegisterFrame
    <3>6. \A i \in Running : nodeInst[i] # "none"
      BY DEF Running
    <3>7. Running' = Running
      BY <2>1 DEF Running
    <3> HIDE DEF NoFrame, RegisterFrame
    <3>8. Line(d)' = {RegisterFrame, NoFrame}
      BY <3>1, <3>2, <3>4 DEF Line
    <3>9. \A f \in Line(d)' : \A i \in Instance :
            /\ Names(f, i) => nodeInst'[i] # "none"
            /\ Settles(f, i) => nodeInst'[i] = "ended"
            /\ link'[d] = "open" /\ Names(f, i) =>
                 i \in Running' \/ \E g \in Line(d)' : Settles(g, i)
      BY <2>1, <3>5, <3>6, <3>7, <3>8, NoFrameSilent
    <3>10. Orderly(toServer'[d])
      BY <3>2, OrderlyShort
    <3> QED BY <3>1, <3>9, <3>10, NoFrameSilent DEF ConnLine
  <2> QED BY <2>2, <2>3
<1>6. \A c \in Conn : link[c] = "open" => nodeConn = c
  BY DEF SessionInv, ConnInv
<1>7. CASE Talks
  <2>1. UNCHANGED link
    BY <1>7 DEF Talks
  <2>2. ASSUME UNCHANGED <<nodeInst, toServer>>
        PROVE  \A c \in Conn : ConnLine(c)'
    BY <1>3, <2>1, <2>2
  <2>3. ASSUME NEW f \in Frame, Emit(f), Tells(f), NEW c \in Conn
        PROVE  ConnLine(c)'
    <3>1. toServer'[c] = IF link[c] = "open" /\ c = nodeConn
                         THEN Append(toServer[c], f) ELSE toServer[c]
      BY <2>3, EmitAppends
    <3>2. CASE link[c] # "open"
      BY <1>3, <2>1, <3>1, <3>2
    <3>3. CASE link[c] = "open"
      <4>1. toServer'[c] = Append(toServer[c], f)
        BY <1>6, <3>1, <3>3
      <4>2. CASE f = RegisterFrame /\ UNCHANGED nodeInst
        <5>1. \A i \in Instance : (Names(f, i) <=> i \in Running) /\ ~Settles(f, i)
          BY <1>0, <4>2 DEF Names, Settles, RegisterFrame
        <5>2. Running' = Running /\ \A i \in Running : nodeInst[i] \notin {"none", "ended"}
          BY <4>2 DEF Running
        <5> QED BY <1>4, <2>1, <2>3, <4>1, <4>2, <5>1, <5>2
      <4>3. ASSUME f.inst \in Instance, f.running = {},
                   \A j \in Instance : j # f.inst => nodeInst'[j] = nodeInst[j]
            PROVE  ConnLine(c)'
        <5>1. \A i \in Instance : Names(f, i) <=> i = f.inst
          BY <4>3 DEF Names
        <5>2. /\ nodeInst[f.inst] # "ended" /\ nodeInst'[f.inst] # "none"
              /\ Settles(f, f.inst) => nodeInst'[f.inst] = "ended"
              /\ f.inst \in Running' \/ Settles(f, f.inst)
          BY <1>0, <2>3, <4>3 DEF Tells, Settles, Running, RegisterFrame
        <5>3. \A i \in Instance : i # f.inst /\ i \in Running => i \in Running'
          BY <4>3 DEF Running
        <5>4. \A i \in Instance : Settles(f, i) => i = f.inst
          BY DEF Settles
        <5> QED BY <1>4, <2>1, <2>3, <4>1, <5>1, <5>2, <5>3, <5>4
      <4> QED BY <2>3, <4>2, <4>3 DEF Tells
    <3> QED BY <3>2, <3>3
  <2> QED BY <1>7, <2>2, <2>3 DEF Talks
<1>8. CASE Leaves
  <2>1. \A c \in Conn : link'[c] # "open"
    BY <1>6, <1>8 DEF Leaves
  <2>2. CASE UNCHANGED toServer
    BY <1>3, <2>1, <2>2
  <2>3. ASSUME Emit(Msg("node_disconnect", NoInst)), NEW c \in Conn PROVE ConnLine(c)'
    <3>1. Msg("node_disconnect", NoInst) \in Frame
      BY MsgType DEF FrameKind, Impersonal
    <3>2. PICK f \in Frame : f = Msg("node_disconnect", NoInst)
      BY <3>1
    <3>3. \A i \in Instance : ~Names(f, i) /\ ~Settles(f, i)
      BY <1>0, <3>2 DEF Names, Settles, Msg
    <3>4. toServer'[c] = toServer[c] \/ toServer'[c] = Append(toServer[c], f)
      BY <2>3, <3>2, EmitAppends
    <3> QED BY <1>3, <1>4, <2>1, <3>3, <3>4
  <2> QED BY <1>8, <2>2, <2>3 DEF Leaves
<1> QED BY <1>5, <1>7, <1>8, NodeSteps

LEMMA LineNext ==
  ASSUME Sequential, TypeOK, OnceInv, SessionInv, LineInv, [Next]_vars
  PROVE  LineInv'
<1>0. UnsentInv'
  BY UnsentNext DEF LineInv
<1>1. ASSUME UNCHANGED <<nodeInst, link, toServer, job>> PROVE \A c \in Conn : ConnLine(c)'
  BY <1>1 DEF LineInv, ConnLine, Line, Running
<1>2. CASE ServerRestart
  <2> HIDE DEF NoFrame
  <2>1. \A c \in Conn : link'[c] = "dead" /\ toServer'[c] = <<>> /\ job'[c] = NoFrame
    BY <1>2, RestartEmpties
  <2>2. \A c \in Conn : Line(c)' = {NoFrame} /\ Frames(toServer'[c]) = {} /\ Orderly(toServer'[c])
    BY <2>1, FramesEmpty, OrderlyShort DEF Line
  <2>3. \A c \in Conn : ConnLine(c)'
    BY <2>1, <2>2, NoFrameSilent DEF ConnLine
  <2> QED BY <1>0, <2>3 DEF LineInv
<1>3. CASE Scanner
  <2>1. UNCHANGED <<nodeInst, job>>
    BY <1>3, ScannerSteps
  <2>2. ASSUME NEW c \in Conn PROVE ConnLine(c)'
    <3>1. ConnLine(c)
      BY DEF LineInv
    <3>2. CASE toServer'[c] = toServer[c] /\ (link'[c] = "open" => link[c] = "open")
      BY <2>1, <3>1, <3>2 DEF ConnLine, Line, Running
    <3>3. CASE link'[c] = "dead" /\ toServer'[c] = <<>>
      <4>1. Line(c)' \subseteq Line(c) /\ Frames(toServer'[c]) = {} /\ Orderly(toServer'[c])
        BY <2>1, <3>3, FramesEmpty, OrderlyShort DEF Line
      <4> QED BY <2>1, <3>1, <3>3, <4>1 DEF ConnLine
    <3> QED BY <1>3, <3>2, <3>3, ScannerSteps DEF Shut
  <2> QED BY <1>0, <2>2 DEF LineInv
<1>4. CASE \/ \E i \in Instance : Dispatch(i) \/ DispatchKill(i)
           \/ DispatchStatusRequest
  <2>1. UNCHANGED <<nodeInst, link, toServer, job>>
    BY <1>4, Commands
  <2> QED BY <1>0, <1>1, <2>1 DEF LineInv
<1>5. CASE Node
  BY <1>0, <1>5, LineNode DEF LineInv
<1>6. ASSUME NEW c \in Conn, Endpoint(c) PROVE LineInv'
  BY <1>0, <1>6, LineEndpoint DEF LineInv
<1>7. CASE UNCHANGED vars
  BY <1>0, <1>1, <1>7 DEF LineInv
<1> QED BY <1>2, <1>3, <1>4, <1>5, <1>6, <1>7 DEF Next

LEMMA LineInit == Init => LineInv
<1> SUFFICES ASSUME Init PROVE LineInv
  OBVIOUS
<1> HIDE DEF NoFrame
<1>1. \A c \in Conn : toServer[c] = <<>> /\ job[c] = NoFrame /\ link[c] = "dead"
  BY DEF Init
<1>2. \A c \in Conn : Line(c) = {NoFrame} /\ Frames(toServer[c]) = {} /\ Orderly(toServer[c])
  BY <1>1, FramesEmpty, OrderlyShort DEF Line
<1>3. \A c \in Conn : ConnLine(c)
  BY <1>1, <1>2, NoFrameSilent DEF ConnLine
<1>4. UnsentInv
  BY DEF Init, UnsentInv
<1> QED BY <1>3, <1>4 DEF LineInv

-----------------------------------------------------------------------------
(* The rows of the instances a session is about, and what its transactions    *)
(* have loaded of them.                                                       *)

\* A first registration is on its way to its commit; what it reports.
Fresh(c) == c \notin looping /\ pc[c] \in {"first"} \cup Reporting
Reg(c) == IF pc[c] = "first" THEN toServer[c][1] ELSE job[c]
Rowed(c, i) == db[i] # "absent" \/ (Fresh(c) /\ i \in Reg(c).running)

\* What runs, or is named by a frame on its way, has its row or gets it with the
\* first registration of the session.
Placed(c) ==
  \A i \in Instance :
    \/ link[c] = "open" /\ i \in Running
    \/ \E f \in Frames(toServer[c]) : Names(f, i)
    => Rowed(c, i)

\* A row loaded live has been errored since.
Suspected(c, i) == view[c][i] \in Live /\ db[i] = "errored"

\* What a transaction has loaded is what it finds when it commits, but for a row
\* that is not in its registration or was errored by the scanner.
Loaded(c) ==
  \A i \in Instance :
    /\ pc[c] \in {"write", "after"} /\ job[c].inst = i => db[i] # "absent"
    /\ pc[c] = "write" /\ job[c].inst = i => view[c][i] = db[i] \/ Suspected(c, i)
    /\ pc[c] = "commit" /\ i \in job[c].running =>
         view[c][i] = (IF db[i] \in Live THEN db[i] ELSE "absent") \/ Suspected(c, i)
    /\ pc[c] = "commit" /\ view[c][i] \in Live => db[i] \in Live \cup {"errored"}

\* An instance has no row before its dispatch stores one.
NoRowYet ==
  \A i \in Instance : disp[i] \in {"none", "checked"} /\ i \notin Foreign => db[i] = "absent"

TableInv == NoRowYet /\ \A c \in Conn : Placed(c) /\ Loaded(c)

USE DEF Suspected

\* The row of an event gets the status of the event; of a row errored in between, the
\* commit knows only what it had loaded.
Recorded(c, i) ==
  \/ db'[i] = NewStatus(job[c].kind, db[i])
  \/ /\ db[i] = "errored" /\ job[c].kind \in {"ack", "instance_started"}
     /\ db'[i] \in {"running", "errored"}

LEMMA EventCommitted ==
  ASSUME TypeOK, NEW c \in Conn, Loaded(c), CommitEvent(c)
  PROVE  /\ pc[c] = "write" /\ pc'[c] = "after" /\ job' = job
         /\ \A i \in Instance :
              IF i = job[c].inst THEN Recorded(c, i) ELSE db'[i] = db[i]
<1>1. /\ pc[c] = "write" /\ pc'[c] = "after" /\ job' = job
      /\ db' = [i \in Instance |->
           IF i = job[c].inst /\ view[c][i] # "absent"
           THEN OrmWrite(view[c][i], NewStatus(job[c].kind, view[c][i]), db[i]) ELSE db[i]]
  BY DEF CommitEvent, TypeOK
<1>2. ASSUME NEW i \in Instance, i = job[c].inst
      PROVE  Recorded(c, i)
  <2>1. db[i] # "absent" /\ (view[c][i] = db[i] \/ Suspected(c, i))
    BY <1>1, <1>2 DEF Loaded
  <2>2. db'[i] = OrmWrite(view[c][i], NewStatus(job[c].kind, view[c][i]), db[i])
    BY <1>1, <1>2, <2>1 DEF Live
  <2>3. CASE view[c][i] = db[i]
    BY <2>2, <2>3 DEF OrmWrite, Recorded
  <2>4. CASE Suspected(c, i)
    BY <2>2, <2>4 DEF OrmWrite, Recorded, NewStatus, Live
  <2> QED BY <2>1, <2>3, <2>4
<1>3. ASSUME NEW i \in Instance, i # job[c].inst PROVE db'[i] = db[i]
  BY <1>1, <1>3
<1> QED BY <1>1, <1>2, <1>3

\* A registration that commits finds no finished row among the instances it reports,
\* and leaves a row it loaded as running to whoever has errored it since.
LEMMA RegisterCommitted ==
  ASSUME TypeOK, NEW c \in Conn, Loaded(c), CommitRegister(c)
  PROVE  /\ pc[c] = "commit" /\ pc'[c] = "announce"
         /\ \A i \in job[c].running : db[i] \in Live \cup {"absent", "errored"}
         /\ \A i \in Instance :
              db'[i] = IF i \in job[c].running
                       THEN IF view[c][i] = "running" /\ db[i] = "errored" THEN "errored" ELSE "running"
                       ELSE IF view[c][i] \in Live THEN "errored" ELSE db[i]
<1>1. /\ pc[c] = "commit" /\ pc'[c] = "announce" /\ db' = Reconciled(c) /\ ~InsertConflict(c)
      /\ job[c].running \subseteq Instance
  BY DEF CommitRegister, TypeOK, Frame
<1>2. ASSUME NEW i \in job[c].running
      PROVE  /\ db[i] \in Live \cup {"absent", "errored"}
             /\ db'[i] = IF view[c][i] = "running" /\ db[i] = "errored" THEN "errored" ELSE "running"
  <2>1. i \in Instance /\ (view[c][i] = (IF db[i] \in Live THEN db[i] ELSE "absent") \/ Suspected(c, i))
    BY <1>1 DEF Loaded
  <2>2. CASE view[c][i] \in Live
    <3>1. i \in Matched(c) /\ i \notin New(c) /\ i \notin Lost(c)
      BY <2>1, <2>2 DEF Matched, New, Lost
    <3>2. db'[i] = OrmWrite(view[c][i], "running", db[i])
      BY <1>1, <2>1, <3>1 DEF Reconciled
    <3> QED BY <2>1, <2>2, <3>2 DEF OrmWrite, Live
  <2>3. CASE view[c][i] \notin Live
    <3>1. i \in New(c) /\ i \notin Lost(c) /\ i \notin Matched(c)
      BY <2>1, <2>3 DEF New, Lost, Matched
    <3>2. db[i] = "absent"
      BY <1>1, <3>1 DEF InsertConflict
    <3> QED BY <1>1, <2>1, <3>1, <3>2 DEF Reconciled
  <2> QED BY <2>2, <2>3
<1>3. ASSUME NEW i \in Instance, i \notin job[c].running
      PROVE  db'[i] = IF view[c][i] \in Live THEN "errored" ELSE db[i]
  <2>1. i \notin New(c) /\ i \notin Matched(c) /\ (i \in Lost(c) <=> view[c][i] \in Live)
    BY <1>3 DEF New, Matched, Lost
  <2> QED BY <1>1, <2>1 DEF Reconciled
<1> QED BY <1>1, <1>2, <1>3

\* Only the three commits change rows.
LEMMA OtherCommits ==
  ASSUME TypeOK, NEW c \in Conn, Endpoint(c)
  PROVE  \/ CommitEvent(c) \/ CommitRegister(c) \/ CommitDisconnect(c)
         \/ db' = db /\ ~CommitEvent(c) /\ ~CommitRegister(c) /\ ~CommitDisconnect(c)
BY DEF Endpoint, ReceiveFirst, FirstLost, AcquireLock, CloseDone, LoadNode, LoadRows,
       FailRegister, AnnounceRegister, ReceiveRegister, ReceiveEvent,
       AfterEvent, Detect, FinishDisconnect

\* A dispatch writes the row of an instance the node has never heard of.
LEMMA DispatchedRows ==
  ASSUME TypeOK, OnceInv, UnsentInv, NoRowYet,
         \/ \E i \in Instance : Dispatch(i) \/ DispatchKill(i)
         \/ DispatchStatusRequest
  PROVE  /\ \A i \in Instance :
              db'[i] # db[i] =>
                /\ nodeInst[i] = "none"
                /\ \/ /\ disp[i] = "checked" /\ disp'[i] = "stored"
                      /\ db[i] = "absent" /\ db'[i] = "pending"
                   \/ disp[i] = "unsent" /\ disp'[i] = "refused" /\ db'[i] = "errored"
         /\ \A i \in Instance :
              disp'[i] \in {"none", "checked"} => disp[i] \in {"none", "checked"} /\ db'[i] = db[i]
         /\ \A i \in Instance : disp[i] = "stored" => disp'[i] = "stored" \/ db'[i] = db[i]
<1>0. /\ disp \in [Instance -> {"none", "checked", "stored", "unsent", "sent", "refused", "raised"}]
      /\ db \in [Instance -> InstanceStatus]
  BY DEF TypeOK
<1>1. CASE db' = db
  BY <1>0, <1>1 DEF Dispatch, CheckConnected, StorePending, SendExecute, RefuseUnsent, DispatchKill,
                    DispatchStatusRequest, SendCommand
<1>2. ASSUME NEW i \in Instance, StorePending(i)
      PROVE  /\ nodeInst[i] = "none" /\ disp[i] = "checked" /\ db[i] = "absent"
             /\ disp' = [disp EXCEPT ![i] = "stored"] /\ db' = [db EXCEPT ![i] = "pending"]
  BY <1>2 DEF StorePending, OnceInv, Unsent, NoRowYet
<1>3. ASSUME NEW i \in Instance, RefuseUnsent(i)
      PROVE  /\ nodeInst[i] = "none" /\ disp[i] = "unsent"
             /\ disp' = [disp EXCEPT ![i] = "refused"] /\ db' = [db EXCEPT ![i] = "errored"]
  BY <1>3 DEF RefuseUnsent, UnsentInv
<1>4. db' = db \/ \E i \in Instance : StorePending(i) \/ RefuseUnsent(i)
  BY DEF Dispatch, CheckConnected, SendExecute, DispatchKill, DispatchStatusRequest, SendCommand
<1>5. ASSUME NEW i \in Instance, StorePending(i) PROVE
         /\ \A j \in Instance : j # i => disp'[j] = disp[j] /\ db'[j] = db[j]
         /\ disp'[i] = "stored" /\ db'[i] = "pending"
  BY <1>0, <1>2, <1>5
<1>6. ASSUME NEW i \in Instance, RefuseUnsent(i) PROVE
         /\ \A j \in Instance : j # i => disp'[j] = disp[j] /\ db'[j] = db[j]
         /\ disp'[i] = "refused" /\ db'[i] = "errored"
  BY <1>0, <1>3, <1>6
<1> QED BY <1>0, <1>1, <1>2, <1>3, <1>4, <1>5, <1>6

LEMMA TableEndpoint ==
  ASSUME TypeOK, RowInv, SessionInv, TableInv, NEW c \in Conn, Endpoint(c)
  PROVE  TableInv'
<1>0. /\ pc \in [Conn -> PC] /\ link \in [Conn -> Link] /\ toServer \in [Conn -> Seq(Frame)]
      /\ job \in [Conn -> Frame] /\ view \in [Conn -> [Instance -> InstanceStatus]]
      /\ toServer[c] \in Seq(Frame) /\ looping \subseteq Conn
  BY DEF TypeOK
<1>1. /\ UNCHANGED <<nodeInst, disp>>
      /\ \A d \in Conn : d # c => /\ pc[d] \in Over /\ pc'[d] = pc[d] /\ link'[d] = link[d]
                                  /\ link[d] = "dead" /\ toServer'[d] = toServer[d]
                                  /\ toServer[d] = <<>>
  BY Alone
<1>2. ConnInv(c) /\ HeldInv(c) /\ Placed(c) /\ Loaded(c) /\ NoRowYet
  BY DEF SessionInv, TableInv
<1>3. \A i \in Instance : db[i] # "absent" => db'[i] # "absent"
  BY RowStaysEndpoint
<1>4. ASSUME NEW d \in Conn, d # c PROVE Placed(d)' /\ Loaded(d)'
  <2>1. link'[d] # "open" /\ Frames(toServer'[d]) = {} /\ pc'[d] \in Over
    BY <1>1, <1>4, FramesEmpty
  <2> QED BY <2>1 DEF Placed, Loaded, Over
<1>5. toServer[c] # <<>> =>
        /\ Head(toServer[c]) = toServer[c][1] /\ Head(toServer[c]) \in Frame
        /\ Frames(toServer[c]) = {Head(toServer[c])} \cup Frames(Tail(toServer[c]))
  BY <1>0, FramesTaken
<1>6. NoRowYet'
  <2>1. ASSUME CommitEvent(c), NEW i \in Instance, db[i] = "absent" PROVE db'[i] = "absent"
    BY <1>2, <2>1, EventCommitted DEF Loaded
  <2>2. ASSUME CommitRegister(c), NEW i \in Instance, i \notin Foreign, db[i] = "absent"
        PROVE  db'[i] = "absent"
    <3>1. i \notin job[c].running
      BY <2>2 DEF RowInv, RowFrame, HasRow
    <3>2. pc[c] = "commit" /\ db'[i] = IF view[c][i] \in Live THEN "errored" ELSE db[i]
      BY <1>2, <2>2, <3>1, RegisterCommitted
    <3> QED BY <1>2, <2>2, <3>2 DEF Loaded, Live
  <2>3. ASSUME CommitDisconnect(c), NEW i \in Instance, db[i] = "absent" PROVE db'[i] = "absent"
    BY <2>3 DEF CommitDisconnect, BulkErrored, Live
  <2> QED BY <1>1, <1>2, <2>1, <2>2, <2>3, OtherCommits DEF NoRowYet
\* What is placed stays placed when the session goes on with the same frames or fewer.
<1>7. ASSUME link'[c] = "open" => link[c] = "open", Frames(toServer'[c]) \subseteq Frames(toServer[c]),
             Fresh(c) => \A i \in Reg(c).running : db'[i] # "absent" \/ (Fresh(c)' /\ i \in Reg(c)'.running)
      PROVE  Placed(c)'
  <2>1. \A i \in Instance : Rowed(c, i) => Rowed(c, i)'
    BY <1>3, <1>7 DEF Rowed
  <2> QED BY <1>1, <1>2, <1>7, <2>1 DEF Placed, Running
<1>8. ASSUME link'[c] = "dead", toServer'[c] = <<>> PROVE Placed(c)'
  BY <1>8, FramesEmpty DEF Placed
<1>9. Placed(c)' /\ Loaded(c)'
  <2>1. CASE ReceiveFirst(c)
    <3>1. /\ pc[c] = "first" /\ pc'[c] = "lock" /\ looping' = looping /\ link'[c] = link[c]
          /\ job'[c] = toServer[c][1] /\ toServer'[c] = Tail(toServer[c])
          /\ Frames(toServer'[c]) \subseteq Frames(toServer[c])
      BY <1>0, <1>5, <2>1 DEF ReceiveFirst
    <3>2. Fresh(c) => Fresh(c)' /\ Reg(c)' = Reg(c)
      BY <3>1 DEF Fresh, Reg, Reporting
    <3>3. Loaded(c)'
      BY <3>1 DEF Loaded
    <3> QED BY <1>7, <3>1, <3>2, <3>3
  <2>2. CASE FirstLost(c) \/ Detect(c)
    <3>1. link'[c] = "dead" /\ toServer'[c] = <<>> /\ pc'[c] \in {"done", "bye"}
      BY <1>0, <2>2 DEF FirstLost, Detect
    <3> QED BY <1>8, <3>1 DEF Loaded
  <2>3. CASE AcquireLock(c) \/ CloseDone(c) \/ LoadNode(c)
    <3>1. /\ pc[c] \in Reporting /\ pc'[c] \in {"close", "node", "select"} /\ looping' = looping
          /\ job' = job
      BY <1>0, <2>3 DEF AcquireLock, CloseDone, LoadNode, Reporting
    <3>2. link'[c] = link[c] /\ toServer'[c] = toServer[c]
      BY <2>3, Alone DEF AcquireLock, CloseDone, LoadNode
    <3>3. Fresh(c) => Fresh(c)' /\ Reg(c)' = Reg(c)
      BY <3>1 DEF Fresh, Reg, Reporting
    <3>4. Loaded(c)'
      BY <3>1 DEF Loaded
    <3> QED BY <1>7, <3>2, <3>3, <3>4
  <2>4. CASE LoadRows(c)
    <3>1. /\ pc[c] = "select" /\ pc'[c] = "commit" /\ UNCHANGED <<looping, job, link, toServer, db>>
          /\ \A i \in Instance : view'[c][i] = IF db[i] \in Live THEN db[i] ELSE "absent"
      BY <1>0, <2>4 DEF LoadRows
    <3>2. Fresh(c) => Fresh(c)' /\ Reg(c)' = Reg(c)
      BY <3>1 DEF Fresh, Reg, Reporting
    <3>3. Loaded(c)'
      BY <3>1 DEF Loaded, Live
    <3> QED BY <1>7, <3>1, <3>2, <3>3
  <2>5. CASE CommitRegister(c)
    <3>1. /\ pc[c] = "commit" /\ pc'[c] = "announce" /\ UNCHANGED <<link, toServer>>
          /\ \A i \in job[c].running : i \in Instance => db'[i] # "absent"
      BY <1>2, <2>5, RegisterCommitted DEF CommitRegister
    <3>2. Fresh(c) => \A i \in Reg(c).running : db'[i] # "absent"
      <4>1. job[c].running \subseteq Instance /\ Reg(c) = job[c]
        BY <1>0, <3>1 DEF Frame, Reg
      <4> QED BY <3>1, <4>1
    <3>3. Loaded(c)'
      BY <3>1 DEF Loaded
    <3> QED BY <1>7, <3>1, <3>2, <3>3
  <2>6. CASE FailRegister(c)
    <3>1. CASE c \in looping
      <4>1. pc'[c] = "loop" /\ UNCHANGED <<link, toServer>> /\ ~Fresh(c)
        BY <1>0, <2>6, <3>1 DEF FailRegister, Fresh
      <4> QED BY <1>7, <4>1 DEF Loaded
    <3>2. CASE c \notin looping
      <4>1. pc'[c] = "crashed" /\ link'[c] = "dead" /\ toServer'[c] = <<>>
        BY <1>0, <2>6, <3>2 DEF FailRegister
      <4> QED BY <1>8, <4>1 DEF Loaded
    <3> QED BY <3>1, <3>2
  <2>7. CASE AnnounceRegister(c) \/ FinishDisconnect(c)
    <3>1. /\ UNCHANGED <<link, toServer>> /\ pc'[c] \in {"loop", "done"} /\ ~Fresh(c)
      BY <1>0, <2>7 DEF AnnounceRegister, FinishDisconnect, Fresh, Reporting
    <3> QED BY <1>7, <3>1 DEF Loaded
  <2>8. CASE ReceiveRegister(c) \/ ReceiveEvent(c)
    <3>1. /\ pc[c] = "loop" /\ toServer[c] # <<>> /\ link[c] # "dead"
          /\ toServer'[c] = Tail(toServer[c]) /\ looping' = looping /\ db' = db
          /\ link'[c] = IF link[c] = "closing" THEN "dead" ELSE link[c]
      BY <1>0, <2>8 DEF ReceiveRegister, ReceiveEvent, TakeFrame
    <3>2. /\ link'[c] = "open" => link[c] = "open"
          /\ ~Fresh(c) /\ Frames(toServer'[c]) \subseteq Frames(toServer[c])
      BY <1>2, <1>5, <3>1 DEF ConnInv, HeldInv, Fresh, Reporting
    <3>3. Placed(c)'
      BY <1>7, <3>2
    <3>4. CASE ReceiveRegister(c)
      <4>1. pc'[c] \in {"loop", "lock"}
        BY <1>0, <3>1, <3>4 DEF ReceiveRegister
      <4> QED BY <3>3, <4>1 DEF Loaded
    <3>5. CASE ReceiveEvent(c)
      <4>1. /\ pc'[c] = "write" /\ job'[c] = Head(toServer[c])
            /\ \A i \in Instance : view'[c][i] = IF i = Head(toServer[c]).inst THEN db[i] ELSE "absent"
        BY <1>0, <3>5 DEF ReceiveEvent
      <4>2. ASSUME NEW i \in Instance, job'[c].inst = i PROVE db[i] # "absent"
        <5>1. Head(toServer[c]) \in Frames(toServer[c]) /\ Names(Head(toServer[c]), i)
          BY <1>5, <3>1, <4>1, <4>2 DEF Names
        <5> QED BY <1>2, <3>2, <5>1 DEF Placed, Rowed
      <4>3. Loaded(c)'
        BY <3>1, <4>1, <4>2 DEF Loaded
      <4> QED BY <3>3, <4>3
    <3> QED BY <2>8, <3>4, <3>5
  <2>9. CASE CommitEvent(c)
    <3>1. /\ pc[c] = "write" /\ pc'[c] = "after" /\ UNCHANGED <<link, toServer, job>> /\ ~Fresh(c)
      BY <1>0, <2>9 DEF CommitEvent, Fresh, Reporting
    <3>2. Loaded(c)'
      BY <1>2, <1>3, <3>1 DEF Loaded
    <3> QED BY <1>7, <3>1, <3>2
  <2>10. CASE AfterEvent(c)
    <3>1. /\ pc[c] = "after" /\ pc'[c] = "loop" /\ UNCHANGED <<link, toServer>> /\ ~Fresh(c)
      BY <1>0, <2>10 DEF AfterEvent, Fresh, Reporting
    <3> QED BY <1>7, <3>1 DEF Loaded
  <2>11. CASE CommitDisconnect(c)
    <3>1. /\ pc[c] = "bye" /\ pc'[c] = "drop" /\ UNCHANGED <<link, toServer>> /\ ~Fresh(c)
      BY <1>0, <2>11 DEF CommitDisconnect, Fresh, Reporting
    <3> QED BY <1>7, <3>1 DEF Loaded
  <2> QED BY <2>1, <2>2, <2>3, <2>4, <2>5, <2>6, <2>7, <2>8, <2>9, <2>10, <2>11 DEF Endpoint
<1> QED BY <1>4, <1>6, <1>9 DEF TableInv

LEMMA TableNode ==
  ASSUME Sequential, TypeOK, RowInv, OnceInv, SessionInv, TableInv, Node
  PROVE  TableInv'
<1>0. /\ pc \in [Conn -> PC] /\ link \in [Conn -> Link] /\ toServer \in [Conn -> Seq(Frame)]
      /\ NoInst \notin Instance /\ nodeInst \in [Instance -> NodeInstStatus]
  BY NodeSessionAssumption DEF TypeOK
<1>1. UNCHANGED <<looping, job, view, db, disp>>
  BY NodeSteps
<1>2. NoRowYet'
  BY <1>1 DEF TableInv, NoRowYet
<1>3. \A c \in Conn : link[c] = "open" => nodeConn = c
  BY DEF SessionInv, ConnInv
<1>4. ASSUME NEW d \in Conn, NodeConnect(d), NEW c \in Conn PROVE Placed(c)' /\ Loaded(c)'
  <2>1. /\ toServer' = [toServer EXCEPT ![d] = <<RegisterFrame>>] /\ nodeInst' = nodeInst
        /\ link' = [link EXCEPT ![d] = "open"] /\ pc' = [pc EXCEPT ![d] = "first"]
        /\ \A e \in Conn : pc[e] \in Over
    BY <1>4 DEF NodeConnect, Sequential
  <2>2. ConnInv(c) /\ HeldInv(c) /\ pc[c] \in Over
    BY <2>1 DEF SessionInv
  <2>3. CASE c = d
    <3>1. <<RegisterFrame>> \in Seq(Frame) /\ Len(<<RegisterFrame>>) = 1
          /\ <<RegisterFrame>>[1] = RegisterFrame
      BY RegisterFrameType
    <3>2. Frames(<<RegisterFrame>>) = {RegisterFrame}
      BY <3>1 DEF Frames
    <3>3. RegisterFrame.running = Running /\ \A i \in Instance : Names(RegisterFrame, i) <=> i \in Running
      BY <1>0 DEF Names, RegisterFrame
    <3>4. Running' = Running
      BY <2>1 DEF Running
    <3>5. pc'[c] = "first" /\ toServer'[c] = <<RegisterFrame>> /\ c \notin looping'
      BY <1>0, <1>1, <2>1, <2>2, <2>3 DEF HeldInv, Over, Registering
    <3> HIDE DEF RegisterFrame
    <3>6. Fresh(c)' /\ Reg(c)' = RegisterFrame
      BY <3>1, <3>5 DEF Fresh, Reg
    <3>7. Placed(c)'
      BY <3>2, <3>3, <3>4, <3>5, <3>6 DEF Placed, Rowed
    <3> QED BY <3>5, <3>7 DEF Loaded
  <2>4. CASE c # d
    <3>1. pc'[c] \in Over /\ link'[c] = "dead" /\ toServer'[c] = <<>>
      BY <1>0, <2>1, <2>2, <2>4 DEF ConnInv
    <3> QED BY <3>1, FramesEmpty DEF Placed, Loaded, Over
  <2> QED BY <2>3, <2>4
<1>5. ASSUME pc' = pc, NEW c \in Conn, toServer'[c] = toServer[c],
             link'[c] = "open" => link[c] = "open" /\ nodeInst' = nodeInst
      PROVE  Placed(c)' /\ Loaded(c)'
  <2>1. Loaded(c)'
    BY <1>1, <1>5 DEF TableInv, Loaded
  <2>2. \A i \in Instance : Rowed(c, i)' <=> Rowed(c, i)
    BY <1>1, <1>5 DEF Rowed, Fresh, Reg
  <2>3. Placed(c)
    BY DEF TableInv
  <2> QED BY <1>5, <2>1, <2>2, <2>3 DEF Placed, Running
<1>6. ASSUME pc' = pc, NEW c \in Conn, NEW f \in Frame, link[c] = "open",
             toServer'[c] = Append(toServer[c], f),
             \A i \in Instance : Names(f, i) \/ (link'[c] = "open" /\ i \in Running') =>
               i \in Running \/ db[i] # "absent"
      PROVE  Placed(c)' /\ Loaded(c)'
  <2> DEFINE q == toServer[c]
  <2>1. q \in Seq(Frame) /\ Frames(Append(q, f)) = Frames(q) \cup {f}
    BY <1>0, FramesAppend
  <2>2. Loaded(c)'
    BY <1>1, <1>6 DEF TableInv, Loaded
  <2>3. q # <<>> => Append(q, f)[1] = q[1]
    BY <2>1
  <2>4. pc[c] = "first" => q # <<>>
    BY DEF SessionInv, ConnInv
  <2>5. \A i \in Instance : Rowed(c, i)' <=> Rowed(c, i)
    BY <1>1, <1>6, <2>3, <2>4 DEF Rowed, Fresh, Reg
  <2>6. Placed(c)
    BY DEF TableInv
  <2>7. \A i \in Instance : i \in Running \/ db[i] # "absent" => Rowed(c, i)
    BY <1>6, <2>6 DEF Placed, Rowed
  <2>8. Placed(c)'
    BY <1>6, <2>1, <2>5, <2>6, <2>7 DEF Placed
  <2> QED BY <2>2, <2>8
<1>7. CASE Talks /\ pc' = pc
  <2>1. UNCHANGED link
    BY <1>7 DEF Talks
  <2>2. ASSUME UNCHANGED <<nodeInst, toServer>>, NEW c \in Conn
        PROVE  Placed(c)' /\ Loaded(c)'
    BY <1>5, <1>7, <2>1, <2>2
  <2>3. ASSUME NEW f \in Frame, Emit(f), Tells(f), NEW c \in Conn
        PROVE  Placed(c)' /\ Loaded(c)'
    <3>1. toServer'[c] = IF link[c] = "open" /\ c = nodeConn
                         THEN Append(toServer[c], f) ELSE toServer[c]
      BY <2>3, EmitAppends
    <3>2. CASE link[c] # "open"
      BY <1>5, <1>7, <2>1, <3>1, <3>2
    <3>3. CASE link[c] = "open"
      <4>1. toServer'[c] = Append(toServer[c], f)
        BY <1>3, <3>1, <3>3
      <4>2. CASE f = RegisterFrame /\ UNCHANGED nodeInst
        <5>1. \A i \in Instance : (Names(f, i) <=> i \in Running)
          BY <1>0, <4>2 DEF Names, RegisterFrame
        <5>2. Running' = Running
          BY <4>2 DEF Running
        <5> QED BY <1>6, <1>7, <3>3, <4>1, <5>1, <5>2
      <4>3. ASSUME f.inst \in Instance, f.running = {},
                   \A j \in Instance : j # f.inst => nodeInst'[j] = nodeInst[j]
            PROVE  Placed(c)' /\ Loaded(c)'
        <5>1. \A i \in Instance : Names(f, i) <=> i = f.inst
          BY <4>3 DEF Names
        <5>2. \A i \in Instance : i # f.inst /\ i \in Running' => i \in Running
          BY <4>3 DEF Running
        <5>3. f.inst \in Running \/ db[f.inst] # "absent"
          <6>1. f.inst \in Running \/ (\E d \in Conn : Awaited(d, f.inst))
            BY <1>0, <2>3, <4>3 DEF Tells, Running, RegisterFrame
          <6>2. ASSUME NEW d \in Conn, Awaited(d, f.inst) PROVE db[f.inst] # "absent"
            <7>1. f.inst \notin Foreign
              BY <4>3, <6>2, AwaitedOnce DEF OnceInv, Unsent
            <7>2. PICK k \in 1..Len(toNode[d]) : toNode[d][k].kind = "execute" /\ toNode[d][k].inst = f.inst
              BY <6>2 DEF Awaited, Frames
            <7>3. toNode[d] \in Seq(RowFrame)
              BY DEF RowInv
            <7>4. toNode[d][k] \in RowFrame
              BY <7>2, <7>3
            <7> QED BY <7>1, <7>2, <7>4 DEF RowFrame, HasRow
          <6> QED BY <6>1, <6>2
        <5> QED BY <1>6, <1>7, <3>3, <4>1, <5>1, <5>2, <5>3
      <4> QED BY <2>3, <4>2, <4>3 DEF Tells
    <3> QED BY <3>2, <3>3
  <2> QED BY <1>2, <1>7, <2>2, <2>3 DEF Talks, TableInv
<1>8. CASE Leaves /\ pc' = pc
  <2>1. \A c \in Conn : link'[c] # "open"
    BY <1>3, <1>8 DEF Leaves
  <2>2. CASE UNCHANGED toServer
    BY <1>2, <1>5, <1>8, <2>1, <2>2 DEF TableInv
  <2>3. ASSUME Emit(Msg("node_disconnect", NoInst)), NEW c \in Conn PROVE Placed(c)' /\ Loaded(c)'
    <3>1. Msg("node_disconnect", NoInst) \in Frame
      BY MsgType DEF FrameKind, Impersonal
    <3>2. PICK f \in Frame : f = Msg("node_disconnect", NoInst)
      BY <3>1
    <3>3. \A i \in Instance : ~Names(f, i)
      BY <1>0, <3>2 DEF Names, Msg
    <3>4. toServer'[c] = toServer[c] \/ (link[c] = "open" /\ toServer'[c] = Append(toServer[c], f))
      BY <2>3, <3>2, EmitAppends
    <3> QED BY <1>5, <1>6, <1>8, <2>1, <3>3, <3>4
  <2> QED BY <1>2, <1>8, <2>2, <2>3 DEF Leaves, TableInv
<1>9. CASE \E d \in Conn : NodeConnect(d)
  BY <1>2, <1>4, <1>9 DEF TableInv
<1> QED BY <1>7, <1>8, <1>9, NodeSteps

LEMMA TableNext ==
  ASSUME Sequential, TypeOK, RowInv, OnceInv, SessionInv, LineInv, TableInv, [Next]_vars
  PROVE  TableInv'
<1>1. CASE UNCHANGED vars
  BY <1>1 DEF TableInv, NoRowYet, Placed, Loaded, Rowed, Fresh, Reg, Running
<1>2. CASE \/ \E i \in Instance : Dispatch(i) \/ DispatchKill(i)
           \/ DispatchStatusRequest
  <2>1. UNCHANGED <<nodeInst, link, toServer, pc, looping, job, view>>
    BY <1>2, Commands
  <2>2. /\ \A i \in Instance :
             db'[i] # db[i] =>
               /\ nodeInst[i] = "none"
               /\ \/ db[i] = "absent" /\ db'[i] = "pending"
                  \/ db'[i] = "errored"
        /\ \A i \in Instance :
             disp'[i] \in {"none", "checked"} => disp[i] \in {"none", "checked"} /\ db'[i] = db[i]
    BY <1>2, DispatchedRows DEF LineInv, TableInv
  <2>3. NoRowYet'
    BY <2>2 DEF TableInv, NoRowYet
  <2>4. \A i \in Instance : db[i] # "absent" => db'[i] # "absent"
    BY <2>2
  <2>5. ASSUME NEW c \in Conn PROVE Placed(c)' /\ Loaded(c)'
    <3>1. \A i \in Instance : Names(job[c], i) => db'[i] = db[i]
      BY <2>2 DEF LineInv, ConnLine, Line
    <3>2. Placed(c) /\ Loaded(c)
      BY DEF TableInv
    <3>3. \A i \in Instance : Rowed(c, i) => Rowed(c, i)'
      BY <2>1, <2>4 DEF Rowed, Fresh, Reg
    <3>4. Placed(c)'
      BY <2>1, <3>2, <3>3 DEF Placed, Running
    <3>5. Loaded(c)'
      BY <2>1, <2>2, <2>4, <3>1, <3>2 DEF Loaded, Names, Live
    <3> QED BY <3>4, <3>5
  <2> QED BY <2>3, <2>5 DEF TableInv
<1>3. CASE ServerRestart
  <2>1. /\ \A c \in Conn : pc'[c] \in Over /\ link'[c] = "dead" /\ toServer'[c] = <<>>
        /\ db' = db
    BY <1>3, RestartEmpties
  <2>2. \A c \in Conn : Placed(c)' /\ Loaded(c)'
    BY <2>1, FramesEmpty DEF Placed, Loaded, Over
  <2>3. \A i \in Instance : disp'[i] \in {"none", "checked"} => disp'[i] = disp[i]
    BY <1>3 DEF ServerRestart
  <2>4. NoRowYet'
    BY <2>1, <2>3 DEF TableInv, NoRowYet
  <2> QED BY <2>2, <2>4 DEF TableInv
<1>4. CASE Scanner
  <2>1. UNCHANGED <<nodeInst, pc, looping, job, view, disp>>
    BY <1>4, ScannerSteps
  <2>2. \A i \in Instance : db'[i] = db[i] \/ (db[i] \in Live /\ db'[i] = "errored")
    BY <1>4, ScannerSteps DEF BulkErrored
  <2>3. NoRowYet'
    BY <2>1, <2>2 DEF TableInv, NoRowYet, Live
  <2>4. ASSUME NEW c \in Conn PROVE Placed(c)' /\ Loaded(c)'
    <3>1. Placed(c) /\ Loaded(c)
      BY DEF TableInv
    <3>2. Loaded(c)'
      BY <2>1, <2>2, <3>1 DEF Loaded, Live
    <3>3. CASE link'[c] = "dead" /\ toServer'[c] = <<>>
      BY <3>2, <3>3, FramesEmpty DEF Placed
    <3>4. CASE toServer'[c] = toServer[c] /\ (link'[c] = "open" => link[c] = "open")
      <4>1. \A i \in Instance : Rowed(c, i) => Rowed(c, i)'
        BY <2>1, <2>2, <3>4 DEF Rowed, Fresh, Reg
      <4> QED BY <2>1, <3>1, <3>2, <3>4, <4>1 DEF Placed, Running
    <3> QED BY <1>4, <3>3, <3>4, ScannerSteps DEF Shut
  <2> QED BY <2>3, <2>4 DEF TableInv
<1> QED BY <1>1, <1>2, <1>3, <1>4, TableNode, TableEndpoint DEF Next

LEMMA TableInit == Init => TableInv
<1> SUFFICES ASSUME Init PROVE TableInv
  OBVIOUS
<1>1. NoRowYet
  BY DEF Init, NoRowYet
<1>2. \A c \in Conn : Placed(c) /\ Loaded(c)
  BY FramesEmpty DEF Init, Placed, Loaded
<1> QED BY <1>1, <1>2 DEF TableInv

-----------------------------------------------------------------------------
(* The end of an instance is the last that is heard of it.                    *)

EndInv ==
  \A i \in Instance :
    /\ db[i] = "finished" => \A c \in Conn :
         /\ \A f \in Frames(toServer[c]) : ~Names(f, i)
         /\ Names(job[c], i) => pc[c] = "after" /\ Settles(job[c], i)
    /\ \A c \in Conn : pc[c] = "after" /\ Settles(job[c], i) => db[i] \in {"finished", "errored"}
    /\ i \in signalled =>
         /\ nodeInst[i] = "ended"
         /\ db[i] \in {"finished", "errored"} /\ i \notin buffered
         /\ \A c \in Conn : \A f \in Line(c) : ~Names(f, i)

\* The node sends nothing about an instance that has ended.
LEMMA EndedSilent ==
  ASSUME TypeOK, OnceInv, Node, NEW c \in Conn, NEW i \in Instance, nodeInst[i] = "ended",
         \A f \in Frames(toServer[c]) : ~Names(f, i)
  PROVE  \A f \in Frames(toServer'[c]) : ~Names(f, i)
<1>0. NoInst \notin Instance /\ toServer \in [Conn -> Seq(Frame)]
  BY NodeSessionAssumption DEF TypeOK
<1>1. \A f \in Frame : f = RegisterFrame => ~Names(f, i)
  BY <1>0 DEF Names, RegisterFrame, Running
<1>2. ASSUME NEW f \in Frame, Emit(f), ~Names(f, i)
      PROVE  \A g \in Frames(toServer'[c]) : ~Names(g, i)
  <2>1. toServer'[c] = toServer[c] \/ toServer'[c] = Append(toServer[c], f)
    BY <1>2, EmitAppends
  <2>2. Frames(Append(toServer[c], f)) = Frames(toServer[c]) \cup {f}
    BY <1>0, FramesAppend
  <2> QED BY <1>2, <2>1, <2>2
<1>3. CASE Talks
  <2>1. ASSUME NEW f \in Frame, Tells(f) PROVE ~Names(f, i)
    <3>1. CASE f = RegisterFrame
      BY <1>1, <3>1
    <3>2. CASE f # RegisterFrame
      BY <2>1, <3>2 DEF Tells, Names, Running
    <3> QED BY <3>1, <3>2
  <2> QED BY <1>2, <1>3, <2>1 DEF Talks
<1>4. CASE Leaves
  <2>1. Msg("node_disconnect", NoInst) \in Frame
    BY MsgType DEF FrameKind, Impersonal
  <2>2. PICK f \in Frame : f = Msg("node_disconnect", NoInst)
    BY <2>1
  <2>3. ~Names(f, i)
    BY <1>0, <2>2 DEF Names, Msg
  <2> QED BY <1>2, <1>4, <2>2, <2>3 DEF Leaves
<1>5. ASSUME NEW d \in Conn, NodeConnect(d)
      PROVE  \A g \in Frames(toServer'[c]) : ~Names(g, i)
  <2>1. toServer'[c] = toServer[c] \/ toServer'[c] = <<RegisterFrame>>
    BY <1>0, <1>5 DEF NodeConnect
  <2>2. <<RegisterFrame>> \in Seq(Frame) /\ Len(<<RegisterFrame>>) = 1
        /\ <<RegisterFrame>>[1] = RegisterFrame
    BY RegisterFrameType
  <2>3. Frames(<<RegisterFrame>>) = {RegisterFrame}
    BY <2>2 DEF Frames
  <2> QED BY <1>1, <2>1, <2>3, RegisterFrameType
<1> QED BY <1>3, <1>4, <1>5, NodeSteps

LEMMA EndEndpoint ==
  ASSUME TypeOK, SessionInv, LineInv, TableInv, EndInv, NEW c \in Conn, Endpoint(c)
  PROVE  EndInv'
<1>0. /\ pc \in [Conn -> PC] /\ toServer \in [Conn -> Seq(Frame)] /\ job \in [Conn -> Frame]
      /\ db \in [Instance -> InstanceStatus]
  BY DEF TypeOK
<1>1. /\ nodeInst' = nodeInst /\ pc[c] \notin Over
      /\ \A d \in Conn : d # c => /\ pc[d] \in Over /\ pc'[d] = pc[d] /\ toServer[d] = <<>>
                                  /\ toServer'[d] = <<>> /\ job[d] = NoFrame /\ job'[d] = NoFrame
  BY Alone
<1>2. ConnLine(c) /\ Loaded(c)
  BY DEF LineInv, TableInv
<1> HIDE DEF NoFrame
<1>3. /\ Frames(toServer'[c]) \subseteq Frames(toServer[c])
      /\ job'[c] = job[c] \/ job'[c] = NoFrame \/ job'[c] \in Frames(toServer[c])
  <2>1. toServer[c] # <<>> =>
          Frames(toServer[c]) = {Head(toServer[c])} \cup Frames(Tail(toServer[c]))
    BY <1>0, FramesTaken
  <2> QED BY <2>1, FramesEmpty, EndpointMoves DEF Moves
<1>4. ASSUME NEW i \in Instance, NEW d \in Conn, d # c
      PROVE  /\ \A f \in Line(d)' : ~Names(f, i)
             /\ \A f \in Frames(toServer'[d]) : ~Names(f, i)
             /\ ~Names(job'[d], i) /\ ~Settles(job'[d], i)
  BY <1>1, <1>4, FramesEmpty, NoFrameSilent DEF Line
<1>5. ASSUME NEW i \in Instance, \A f \in Line(c) : ~Names(f, i)
      PROVE  \A f \in Line(c)' : ~Names(f, i)
  BY <1>3, <1>5, NoFrameSilent DEF Line
<1>6. ASSUME NEW i \in Instance, \A f \in Frames(toServer[c]) : ~Names(f, i)
      PROVE  \A f \in Frames(toServer'[c]) : ~Names(f, i)
  BY <1>3, <1>6
<1>7. CASE CommitEvent(c)
  <2>1. /\ pc[c] = "write" /\ pc'[c] = "after" /\ job'[c] = job[c]
        /\ \A i \in Instance : IF i = job[c].inst THEN Recorded(c, i) ELSE db'[i] = db[i]
        /\ UNCHANGED <<signalled, buffered>>
    BY <1>2, <1>7, EventCommitted DEF CommitEvent
  <2>2. ASSUME NEW i \in Instance, Settles(job[c], i)
        PROVE  /\ db'[i] \in {"finished", "errored"}
               /\ \A f \in Frames(toServer[c]) : ~Names(f, i)
    BY <1>2, <2>1, <2>2 DEF ConnLine, Settles, NewStatus, Recorded
  <2>3. ASSUME NEW i \in Instance, db'[i] = "finished"
        PROVE  /\ \A f \in Frames(toServer[c]) : ~Names(f, i)
               /\ Names(job[c], i) => Settles(job[c], i)
    <3>1. CASE i = job[c].inst
      <4>1. CASE job[c].kind = "instance_finished"
        BY <2>2, <3>1, <4>1 DEF Settles
      <4>2. CASE job[c].kind # "instance_finished"
        <5>1. db[i] = "finished"
          BY <2>1, <2>3, <3>1, <4>2 DEF NewStatus, Recorded
        <5> QED BY <2>1, <3>1, <5>1 DEF EndInv, Names
      <4> QED BY <4>1, <4>2
    <3>2. CASE i # job[c].inst
      BY <2>1, <2>3, <3>2 DEF EndInv
    <3> QED BY <3>1, <3>2
  <2>4. ASSUME NEW i \in signalled, i \in Instance PROVE db'[i] = db[i]
    BY <2>1, <2>4 DEF EndInv, Line, Names
  <2>5. ASSUME NEW i \in Instance
        PROVE  /\ db'[i] = "finished" => \A d \in Conn :
                    /\ \A f \in Frames(toServer'[d]) : ~Names(f, i)
                    /\ Names(job'[d], i) => pc'[d] = "after" /\ Settles(job'[d], i)
               /\ \A d \in Conn : pc'[d] = "after" /\ Settles(job'[d], i) =>
                    db'[i] \in {"finished", "errored"}
               /\ i \in signalled' =>
                    /\ nodeInst'[i] = "ended"
                    /\ db'[i] \in {"finished", "errored"} /\ i \notin buffered'
                    /\ \A d \in Conn : \A f \in Line(d)' : ~Names(f, i)
    <3>1. db'[i] = "finished" => \A d \in Conn :
            /\ \A f \in Frames(toServer'[d]) : ~Names(f, i)
            /\ Names(job'[d], i) => pc'[d] = "after" /\ Settles(job'[d], i)
      BY <1>4, <1>6, <2>1, <2>3
    <3>2. \A d \in Conn : pc'[d] = "after" /\ Settles(job'[d], i) => db'[i] \in {"finished", "errored"}
      BY <1>4, <2>1, <2>2
    <3>3. i \in signalled' =>
            /\ nodeInst'[i] = "ended"
            /\ db'[i] \in {"finished", "errored"} /\ i \notin buffered'
            /\ \A d \in Conn : \A f \in Line(d)' : ~Names(f, i)
      BY <1>1, <1>4, <1>5, <2>1, <2>4 DEF EndInv
    <3> QED BY <3>1, <3>2, <3>3
  <2> QED BY <2>5 DEF EndInv
<1>8. CASE AfterEvent(c)
  <2>1. /\ pc[c] = "after" /\ pc'[c] = "loop" /\ job'[c] = NoFrame /\ db' = db
        /\ toServer' = toServer
        /\ buffered' \subseteq buffered \cup {job[c].inst}
        /\ \A i \in Instance : Settles(job[c], i) => i \notin buffered'
        /\ \A i \in Instance : i \in signalled' => i \in signalled \/ Settles(job[c], i)
    BY <1>0, <1>8 DEF AfterEvent, EndTransaction, Settles
  <2>2. ASSUME NEW i \in Instance
        PROVE  /\ db'[i] = "finished" => \A d \in Conn :
                    /\ \A f \in Frames(toServer'[d]) : ~Names(f, i)
                    /\ Names(job'[d], i) => pc'[d] = "after" /\ Settles(job'[d], i)
               /\ \A d \in Conn : pc'[d] = "after" /\ Settles(job'[d], i) =>
                    db'[i] \in {"finished", "errored"}
               /\ i \in signalled' =>
                    /\ nodeInst'[i] = "ended"
                    /\ db'[i] \in {"finished", "errored"} /\ i \notin buffered'
                    /\ \A d \in Conn : \A f \in Line(d)' : ~Names(f, i)
    <3>1. \A d \in Conn : ~Names(job'[d], i) /\ ~Settles(job'[d], i)
      BY <1>4, <2>1, NoFrameSilent
    <3>2. db'[i] = "finished" => \A d \in Conn : \A f \in Frames(toServer'[d]) : ~Names(f, i)
      BY <1>4, <1>6, <2>1 DEF EndInv
    <3>3. CASE i \in signalled
      <4>1. i \notin buffered'
        BY <2>1, <3>3 DEF EndInv, Line, Names
      <4>2. \A d \in Conn : \A f \in Line(d)' : ~Names(f, i)
        BY <1>4, <1>5, <3>3 DEF EndInv
      <4> QED BY <1>1, <2>1, <3>1, <3>2, <3>3, <4>1, <4>2 DEF EndInv
    <3>4. CASE Settles(job[c], i)
      <4>1. nodeInst'[i] = "ended" /\ db'[i] \in {"finished", "errored"} /\ i \notin buffered'
        BY <1>1, <1>2, <2>1, <3>4 DEF ConnLine, Line, EndInv
      <4>2. \A f \in Frames(toServer'[c]) : ~Names(f, i)
        BY <1>2, <1>6, <3>4 DEF ConnLine
      <4>3. \A d \in Conn : \A f \in Line(d)' : ~Names(f, i)
        BY <1>4, <3>1, <4>2 DEF Line
      <4> QED BY <3>1, <3>2, <4>1, <4>3
    <3>5. CASE i \notin signalled'
      BY <3>1, <3>2, <3>5
    <3> QED BY <2>1, <3>3, <3>4, <3>5
  <2> QED BY <2>2 DEF EndInv
\* Other steps settle rows at most, and work on fewer frames.
<1>9. ASSUME ~CommitEvent(c), ~AfterEvent(c) PROVE EndInv'
  <2>1. UNCHANGED <<signalled, buffered>> /\ pc'[c] # "after"
    BY <1>0, <1>9
       DEF Endpoint, ReceiveFirst, FirstLost, AcquireLock, CloseDone, LoadNode, LoadRows,
           CommitRegister, FailRegister, AnnounceRegister, ReceiveRegister, ReceiveEvent,
           TakeFrame, Detect, CommitDisconnect, FinishDisconnect
  <2>2. ASSUME NEW i \in Instance
        PROVE  /\ db'[i] = "finished" => db[i] = "finished"
               /\ db[i] \in {"finished", "errored"} =>
                    db'[i] = db[i] \/ db'[i] = "errored" \/ Names(job[c], i)
    <3>1. CASE CommitRegister(c)
      BY <1>2, <3>1, RegisterCommitted DEF Names
    <3>2. CASE CommitDisconnect(c)
      BY <3>2 DEF CommitDisconnect, BulkErrored, Live
    <3> QED BY <1>9, <3>1, <3>2, OtherCommits
  <2>3. ASSUME NEW i \in Instance
        PROVE  /\ db'[i] = "finished" => \A d \in Conn :
                    /\ \A f \in Frames(toServer'[d]) : ~Names(f, i)
                    /\ Names(job'[d], i) => pc'[d] = "after" /\ Settles(job'[d], i)
               /\ \A d \in Conn : pc'[d] = "after" /\ Settles(job'[d], i) =>
                    db'[i] \in {"finished", "errored"}
               /\ i \in signalled' =>
                    /\ nodeInst'[i] = "ended"
                    /\ db'[i] \in {"finished", "errored"} /\ i \notin buffered'
                    /\ \A d \in Conn : \A f \in Line(d)' : ~Names(f, i)
    <3>1. ASSUME db'[i] = "finished"
          PROVE  ~Names(job'[c], i) /\ \A f \in Frames(toServer'[c]) : ~Names(f, i)
      <4>1. /\ \A f \in Frames(toServer[c]) : ~Names(f, i)
            /\ Names(job[c], i) => pc[c] = "after"
        BY <2>2, <3>1 DEF EndInv
      <4>2. pc[c] # "after"
        BY <1>9 DEF Endpoint, ReceiveFirst, FirstLost, AcquireLock, CloseDone, LoadNode, LoadRows,
           CommitRegister, FailRegister, AnnounceRegister, ReceiveRegister, ReceiveEvent, TakeFrame,
           Detect, CommitDisconnect, FinishDisconnect
      <4> QED BY <1>3, <4>1, <4>2, NoFrameSilent
    <3>2. \A d \in Conn : ~(pc'[d] = "after" /\ Settles(job'[d], i))
      BY <1>4, <2>1
    <3>3. ASSUME i \in signalled'
          PROVE  /\ nodeInst'[i] = "ended"
                 /\ db'[i] \in {"finished", "errored"} /\ i \notin buffered'
                 /\ \A d \in Conn : \A f \in Line(d)' : ~Names(f, i)
      <4>1. /\ nodeInst[i] = "ended" /\ db[i] \in {"finished", "errored"} /\ i \notin buffered
            /\ \A f \in Line(c) : ~Names(f, i)
        BY <2>1, <3>3 DEF EndInv
      <4>2. ~Names(job[c], i)
        BY <4>1 DEF Line
      <4> QED BY <1>1, <1>4, <1>5, <2>1, <2>2, <4>1, <4>2
    <3> QED BY <1>4, <3>1, <3>2, <3>3
  <2> QED BY <2>3 DEF EndInv
<1> QED BY <1>7, <1>8, <1>9

LEMMA EndNext ==
  ASSUME Sequential, TypeOK, OnceInv, RealInv, SessionInv, LineInv, TableInv, EndInv, [Next]_vars
  PROVE  EndInv'
<1>0. \A i \in Instance : /\ nodeInst[i] = "ended" => nodeInst'[i] = "ended"
                          /\ db[i] = "finished" => nodeInst[i] = "ended"
  BY NodeMovesOn DEF RealInv, FinishedIsReal
<1>1. CASE UNCHANGED vars
  BY <1>1 DEF EndInv, Line
<1>2. CASE Node
  <2>1. UNCHANGED <<job, db, signalled, buffered>>
    BY <1>2, NodeSteps
  <2>2. \A c \in Conn : pc[c] = "after" <=> pc'[c] = "after"
    <3>1. ASSUME NEW d \in Conn, NodeConnect(d)
          PROVE  \A c \in Conn : pc[c] = "after" <=> pc'[c] = "after"
      BY <3>1 DEF NodeConnect, TypeOK, Over
    <3> QED BY <1>2, <3>1, NodeSteps
  <2>3. ASSUME NEW i \in Instance, nodeInst[i] = "ended", NEW c \in Conn
        PROVE  /\ (\A f \in Frames(toServer[c]) : ~Names(f, i)) =>
                     \A f \in Frames(toServer'[c]) : ~Names(f, i)
               /\ (\A f \in Line(c) : ~Names(f, i)) => \A f \in Line(c)' : ~Names(f, i)
    BY <1>2, <2>1, <2>3, EndedSilent DEF Line
  <2> QED BY <1>0, <2>1, <2>2, <2>3 DEF EndInv
<1>3. CASE \/ \E i \in Instance : Dispatch(i) \/ DispatchKill(i)
           \/ DispatchStatusRequest
  <2>1. UNCHANGED <<nodeInst, toServer, pc, job, signalled, buffered>>
    BY <1>3, Commands
  <2>2. \A i \in Instance : db'[i] # db[i] => nodeInst[i] = "none" /\ db'[i] \in {"pending", "errored"}
    BY <1>3, DispatchedRows DEF LineInv, TableInv
  <2>3. \A c \in Conn : \A i \in Instance : Settles(job[c], i) => nodeInst[i] = "ended"
    BY DEF LineInv, ConnLine, Line
  <2> QED BY <2>1, <2>2, <2>3 DEF EndInv, Line
<1>4. CASE ServerRestart
  <2> HIDE DEF NoFrame
  <2>1. /\ \A c \in Conn : toServer'[c] = <<>> /\ job'[c] = NoFrame
        /\ signalled' = {} /\ db' = db
    BY <1>4, RestartEmpties
  <2> QED BY <2>1, FramesEmpty, NoFrameSilent DEF EndInv
<1>5. CASE Scanner
  <2>1. UNCHANGED <<nodeInst, pc, job, signalled, buffered>>
    BY <1>5, ScannerSteps
  <2>2. \A i \in Instance : db'[i] = db[i] \/ (db[i] \in Live /\ db'[i] = "errored")
    BY <1>5, ScannerSteps DEF BulkErrored
  <2>3. \A c \in Conn : Frames(toServer'[c]) \subseteq Frames(toServer[c])
    BY <1>5, ScannerSteps, FramesEmpty DEF Shut
  <2>4. \A c \in Conn : Line(c)' \subseteq Line(c)
    BY <2>1, <2>3 DEF Line
  <2> QED BY <2>1, <2>2, <2>3, <2>4 DEF EndInv, Live
<1> QED BY <1>1, <1>2, <1>3, <1>4, <1>5, EndEndpoint DEF Next

LEMMA EndInit == Init => EndInv
<1> SUFFICES ASSUME Init PROVE EndInv
  OBVIOUS
<1> HIDE DEF NoFrame
<1>1. /\ \A c \in Conn : toServer[c] = <<>> /\ job[c] = NoFrame
      /\ signalled = {} /\ \A i \in Instance : db[i] = "absent"
  BY DEF Init
<1> QED BY <1>1, FramesEmpty, NoFrameSilent DEF EndInv

\* What every behaviour of sequential sessions keeps.
Steady == /\ TypeOK /\ LockInv /\ RowInv /\ OnceInv /\ RealInv
          /\ SessionInv /\ LineInv /\ TableInv /\ EndInv

LEMMA SteadyAlways == Sequential => (Spec => []Steady)
<1> SUFFICES ASSUME Sequential PROVE Spec => []Steady
  OBVIOUS
<1>1. Init => Steady
  BY InitType, InitLock, RowsInit, RealInit, SessionInit, LineInit, TableInit, EndInit DEF Steady
<1>2. Steady /\ [Next]_vars => Steady'
  <2> SUFFICES ASSUME Steady, [Next]_vars PROVE Steady'
    OBVIOUS
  <2>1. /\ TypeOK /\ LockInv /\ RowInv /\ OnceInv /\ RealInv
        /\ SessionInv /\ LineInv /\ TableInv /\ EndInv
    BY DEF Steady
  <2>2. TypeOK' /\ LockInv' /\ RowInv'
    BY <2>1, TypeNext, LockInvNext, RowsNext
  <2>3. OnceInv' /\ RealInv'
    BY <2>1, OnceNext, RealNext
  <2>4. SessionInv' /\ LineInv' /\ TableInv' /\ EndInv'
    BY <2>1, SessionNext, LineNext, TableNext, EndNext
  <2> QED BY <2>2, <2>3, <2>4 DEF Steady
<1> QED BY <1>1, <1>2, PTL DEF Spec

\* A sequence is only woken for an instance whose row is settled, its stream buffer
\* is cleared, and neither is undone: signal_completion follows the commit, and no
\* frame about the instance is handled after it (handlers.py instance_finished,
\* instance_error), not even by a session whose rows a scan has errored.
THEOREM SignalledSettled == Sequential => (Spec => []SignalledIsSettled)
<1> SUFFICES ASSUME Sequential PROVE Spec => []SignalledIsSettled
  OBVIOUS
<1>1. Steady => SignalledIsSettled
  BY DEF Steady, EndInv, SignalledIsSettled, TypeOK
<1> QED BY <1>1, SteadyAlways, PTL

-----------------------------------------------------------------------------
(* While a session is served, a live row is accounted for.                    *)

Answerable(c, i) ==
  \/ i \in Running
  \/ disp[i] \in {"stored", "unsent", "raised"}
  \/ Awaited(c, i)
  \/ \E f \in Frames(toServer[c]) : Settles(f, i)
  \/ pc[c] = "write" /\ Settles(job[c], i)

\* From the commit of its registration on, a session answers for every live row;
\* a transaction about to commit one answers for those it does not touch.
LiveInv ==
  \A c \in Conn : link[c] = "open" => \A i \in Instance : db[i] \in Live =>
    \/ Answerable(c, i)
    \/ /\ pc[c] # "announce" /\ c \notin looping
       /\ pc[c] = "commit" => view[c][i] \in Live \/ i \in job[c].running

LEMMA AnswerableAccounted ==
  ASSUME NEW c \in Conn, NEW i \in Instance
  PROVE  Answerable(c, i) <=> Accounted(i, c) \/ disp[i] = "raised"
BY DEF Answerable, Accounted, Awaited, Frames

LEMMA LiveNode ==
  ASSUME Sequential, TypeOK, OnceInv, SessionInv, LiveInv, Node
  PROVE  LiveInv'
<1>0. /\ pc \in [Conn -> PC] /\ link \in [Conn -> Link] /\ toServer \in [Conn -> Seq(Frame)]
      /\ NoInst \notin Instance
  BY NodeSessionAssumption DEF TypeOK
<1>1. UNCHANGED <<looping, job, view, db, disp>>
  BY NodeSteps
<1>2. ASSUME NEW d \in Conn, NodeConnect(d) PROVE LiveInv'
  <2>1. /\ pc' = [pc EXCEPT ![d] = "first"] /\ link' = [link EXCEPT ![d] = "open"]
        /\ \A c \in Conn : pc[c] \in Over
    BY <1>2 DEF NodeConnect, Sequential
  <2>2. \A c \in Conn : ConnInv(c) /\ HeldInv(c)
    BY DEF SessionInv
  <2>3. \A c \in Conn : link[c] = "dead" /\ c \notin looping
    BY <2>1, <2>2 DEF ConnInv, HeldInv, Over, Registering
  <2>4. \A c \in Conn : link'[c] = "open" => pc'[c] = "first" /\ c \notin looping'
    BY <1>0, <1>1, <2>1, <2>3
  <2> QED BY <2>4 DEF LiveInv
<1>3. CASE Talks /\ pc' = pc
  <2>1. UNCHANGED link /\ \A c \in Conn : link[c] = "open" => nodeConn = c
    BY <1>3 DEF Talks, SessionInv, ConnInv
  <2>2. ASSUME NEW c \in Conn, link[c] = "open", NEW i \in Instance, Answerable(c, i)
        PROVE  Answerable(c, i)'
    <3>1. ASSUME UNCHANGED <<nodeInst, toServer>>, Awaited(c, i) => Awaited(c, i)'
          PROVE  Answerable(c, i)'
      BY <1>1, <1>3, <2>2, <3>1 DEF Answerable, Running
    <3>2. ASSUME NEW f \in Frame, Emit(f), Tells(f), Awaited(c, i) => Awaited(c, i)' \/ i = f.inst
          PROVE  Answerable(c, i)'
      <4>1. toServer'[c] = Append(toServer[c], f)
        BY <2>1, <2>2, <3>2, EmitAppends
      <4>2. Frames(toServer'[c]) = Frames(toServer[c]) \cup {f}
        BY <1>0, <4>1, FramesAppend
      <4>3. CASE i # f.inst
        <5>1. nodeInst'[i] = nodeInst[i]
          BY <3>2, <4>3 DEF Tells
        <5> QED BY <1>1, <1>3, <2>2, <3>2, <4>2, <4>3, <5>1 DEF Answerable, Running
      <4>4. CASE i = f.inst
        <5>1. f # RegisterFrame
          BY <1>0, <4>4 DEF RegisterFrame
        <5>2. i \in Running' \/ Settles(f, i)
          BY <3>2, <4>4, <5>1 DEF Tells, Settles, Running
        <5> QED BY <4>2, <5>2 DEF Answerable
      <4> QED BY <4>3, <4>4
    <3> QED BY <1>3, <3>1, <3>2 DEF Talks
  <2> QED BY <1>1, <1>3, <2>1, <2>2 DEF LiveInv
<1>4. CASE Leaves
  <2>1. \A c \in Conn : link'[c] # "open"
    BY <1>4 DEF Leaves, SessionInv, ConnInv
  <2> QED BY <2>1 DEF LiveInv
<1> QED BY <1>2, <1>3, <1>4, NodeSteps

LEMMA LiveEndpoint ==
  ASSUME TypeOK, SessionInv, LineInv, TableInv, LiveInv, NEW c \in Conn, Endpoint(c)
  PROVE  LiveInv'
<1>0. /\ pc \in [Conn -> PC] /\ link \in [Conn -> Link] /\ toServer \in [Conn -> Seq(Frame)]
      /\ job \in [Conn -> Frame] /\ view \in [Conn -> [Instance -> InstanceStatus]]
      /\ toServer[c] \in Seq(Frame) /\ looping \subseteq Conn
  BY DEF TypeOK
<1>1. /\ UNCHANGED <<nodeInst, disp, toNode>>
      /\ \A d \in Conn : d # c => link'[d] = "dead"
  BY Alone
<1>2. ConnInv(c) /\ HeldInv(c) /\ Loaded(c) /\ ConnLine(c)
  BY DEF SessionInv, TableInv, LineInv
<1>3. SUFFICES ASSUME link'[c] = "open", NEW i \in Instance, db'[i] \in Live
      PROVE  \/ Answerable(c, i)'
             \/ /\ pc'[c] # "announce" /\ c \notin looping'
                /\ pc'[c] = "commit" => view'[c][i] \in Live \/ i \in job'[c].running
  BY <1>1 DEF LiveInv
<1>4. /\ i \in Running' <=> i \in Running
      /\ Awaited(c, i)' <=> Awaited(c, i)
  BY <1>1 DEF Running, Awaited
\* Nothing is answered for in another way, but that a frame comes to be handled.
<1>5. ASSUME Answerable(c, i), toServer'[c] = toServer[c],
             pc[c] = "write" => ~Settles(job[c], i)
      PROVE  Answerable(c, i)'
  BY <1>1, <1>4, <1>5 DEF Answerable
\* An instance named by the frame being handled, which does not settle it.
<1>6. ASSUME link[c] = "open", Names(job[c], i), ~Settles(job[c], i), toServer'[c] = toServer[c]
      PROVE  Answerable(c, i)'
  <2>1. i \in Running \/ \E g \in Line(c) : Settles(g, i)
    BY <1>2, <1>6 DEF ConnLine, Line
  <2>2. i \in Running \/ \E g \in Frames(toServer[c]) : Settles(g, i)
    BY <1>6, <2>1 DEF Line
  <2> QED BY <1>4, <1>6, <2>2 DEF Answerable
<1>7. link[c] = "open" /\ db[i] \in Live =>
        \/ Answerable(c, i)
        \/ /\ pc[c] # "announce" /\ c \notin looping
           /\ pc[c] = "commit" => view[c][i] \in Live \/ i \in job[c].running
  BY DEF LiveInv
<1>8. CASE ReceiveFirst(c)
  <2>1. pc[c] = "first" /\ pc'[c] = "lock" /\ looping' = looping
    BY <1>0, <1>8 DEF ReceiveFirst
  <2> QED BY <1>2, <2>1 DEF HeldInv, Registering
<1>9. CASE FirstLost(c) \/ Detect(c) \/ CommitDisconnect(c) \/ FinishDisconnect(c)
  BY <1>0, <1>2, <1>3, <1>9
     DEF FirstLost, Detect, CommitDisconnect, FinishDisconnect, ConnInv
<1>10. CASE AcquireLock(c) \/ CloseDone(c) \/ LoadNode(c)
  <2>1. /\ pc[c] \in Reporting /\ pc'[c] \in {"close", "node", "select"}
        /\ looping' = looping /\ db' = db
    BY <1>0, <1>10 DEF AcquireLock, CloseDone, LoadNode, Reporting
  <2>2. link'[c] = link[c] /\ toServer'[c] = toServer[c]
    BY <1>10, Alone DEF AcquireLock, CloseDone, LoadNode
  <2> QED BY <1>3, <1>5, <1>7, <2>1, <2>2 DEF Reporting
<1>11. CASE LoadRows(c)
  <2>1. /\ pc[c] = "select" /\ pc'[c] = "commit" /\ UNCHANGED <<looping, job, link, toServer, db>>
        /\ view'[c][i] = IF db[i] \in Live THEN db[i] ELSE "absent"
    BY <1>0, <1>11 DEF LoadRows
  <2> QED BY <1>3, <1>5, <1>7, <2>1
<1>12. CASE CommitRegister(c)
  <2>1. /\ pc[c] = "commit" /\ pc'[c] = "announce" /\ UNCHANGED <<link, toServer>>
        /\ i \notin job[c].running =>
             db'[i] = IF view[c][i] \in Live THEN "errored" ELSE db[i]
    BY <1>2, <1>12, RegisterCommitted DEF CommitRegister
  <2>2. CASE i \in job[c].running
    <3>1. Names(job[c], i) /\ ~Settles(job[c], i)
      BY <1>2, <2>1, <2>2 DEF ConnInv, Reporting, Names, Settles
    <3> QED BY <1>3, <1>6, <2>1, <3>1
  <2>3. CASE i \notin job[c].running
    <3>1. view[c][i] \notin Live /\ db[i] \in Live
      BY <1>3, <2>1, <2>3 DEF Live
    <3>2. Answerable(c, i)
      BY <1>3, <1>7, <2>1, <2>3, <3>1
    <3> QED BY <1>5, <2>1, <3>2
  <2> QED BY <2>2, <2>3
<1>13. CASE FailRegister(c)
  <2>1. /\ pc[c] = "commit" /\ looping' = looping /\ db' = db
        /\ c \in looping => pc'[c] = "loop" /\ UNCHANGED <<link, toServer>>
        /\ c \notin looping => link'[c] = "dead"
    BY <1>0, <1>13 DEF FailRegister
  <2> QED BY <1>3, <1>5, <1>7, <2>1
<1>14. CASE AnnounceRegister(c)
  <2>1. pc[c] = "announce" /\ pc'[c] = "loop" /\ UNCHANGED <<link, toServer, db>>
    BY <1>0, <1>14 DEF AnnounceRegister
  <2> QED BY <1>3, <1>5, <1>7, <2>1
<1>15. CASE ReceiveRegister(c) \/ ReceiveEvent(c)
  <2>1. /\ pc[c] = "loop" /\ toServer[c] # <<>> /\ link[c] # "dead" /\ c \in looping
        /\ toServer'[c] = Tail(toServer[c]) /\ db' = db
        /\ link'[c] = IF link[c] = "closing" THEN "dead" ELSE link[c]
    BY <1>0, <1>2, <1>15 DEF ReceiveRegister, ReceiveEvent, TakeFrame, HeldInv
  <2>2. Answerable(c, i)
    BY <1>3, <1>7, <2>1
  <2>3. Frames(toServer[c]) = {Head(toServer[c])} \cup Frames(Tail(toServer[c]))
    BY <1>0, <2>1, FramesTaken
  <2>4. Settles(Head(toServer[c]), i) => pc'[c] = "write" /\ job'[c] = Head(toServer[c])
    BY <1>0, <1>15 DEF ReceiveRegister, ReceiveEvent, Settles
  <2>5. Answerable(c, i)'
    BY <1>1, <1>4, <2>1, <2>2, <2>3, <2>4 DEF Answerable
  <2> QED BY <2>5
<1>16. CASE CommitEvent(c)
  <2>1. /\ pc[c] = "write" /\ pc'[c] = "after" /\ job' = job /\ UNCHANGED <<link, toServer>>
        /\ IF i = job[c].inst THEN Recorded(c, i) ELSE db'[i] = db[i]
        /\ c \in looping
    <3>1. /\ pc[c] = "write" /\ pc'[c] = "after" /\ job' = job
          /\ IF i = job[c].inst THEN Recorded(c, i) ELSE db'[i] = db[i]
      BY <1>2, <1>16, EventCommitted
    <3>2. UNCHANGED <<link, toServer>>
      BY <1>16 DEF CommitEvent
    <3>3. c \in looping
      BY <1>2, <3>1 DEF HeldInv
    <3> QED BY <3>1, <3>2, <3>3
  <2>2. ~Settles(job[c], i)
    BY <1>3, <2>1 DEF Settles, NewStatus, Recorded, Live
  <2>3. CASE i = job[c].inst
    BY <1>3, <1>6, <2>1, <2>2, <2>3 DEF Names
  <2>4. CASE i # job[c].inst
    BY <1>3, <1>5, <1>7, <2>1, <2>2, <2>4
  <2> QED BY <2>3, <2>4
<1>17. CASE AfterEvent(c)
  <2>1. pc[c] = "after" /\ UNCHANGED <<link, toServer, db>> /\ c \in looping
    BY <1>0, <1>2, <1>17 DEF AfterEvent, HeldInv
  <2> QED BY <1>3, <1>5, <1>7, <2>1
<1> QED BY <1>8, <1>9, <1>10, <1>11, <1>12, <1>13, <1>14, <1>15, <1>16, <1>17 DEF Endpoint

LEMMA LiveNext ==
  ASSUME Sequential, Steady, LiveInv, [Next]_vars
  PROVE  LiveInv'
<1>0. TypeOK /\ OnceInv /\ SessionInv /\ LineInv /\ TableInv
  BY DEF Steady
<1>1. CASE UNCHANGED vars
  BY <1>1 DEF LiveInv, Answerable, Running, Awaited
<1>2. CASE Node
  BY <1>0, <1>2, LiveNode
<1>3. ASSUME NEW c \in Conn, Endpoint(c) PROVE LiveInv'
  BY <1>0, <1>3, LiveEndpoint
<1>4. CASE \/ \E i \in Instance : Dispatch(i) \/ DispatchKill(i)
           \/ DispatchStatusRequest
  <2>1. /\ UNCHANGED <<nodeInst, link, toServer, pc, looping, job, view>>
        /\ \A c \in Conn : \A i \in Instance : Awaited(c, i) => Awaited(c, i)'
    BY <1>0, <1>4, Commands
  <2>2. ASSUME NEW i \in Instance, db'[i] \in Live, db'[i] # db[i]
        PROVE  disp'[i] = "stored"
    BY <1>0, <1>4, <2>2, DispatchedRows DEF LineInv, TableInv, Live
  <2>3. ASSUME NEW c \in Conn, link[c] = "open", pc[c] \in {"announce", "commit"} \/ c \in looping,
               NEW i \in Instance, disp[i] = "stored"
        PROVE  disp'[i] \in {"stored", "unsent", "raised"} \/ Awaited(c, i)'
    <3>1. registry = c \/ registry = NoConn
      BY <1>0, <2>3 DEF SessionInv, HeldInv, Registering
    <3>2. /\ disp \in [Instance -> {"none", "checked", "stored", "unsent", "sent", "refused", "raised"}]
          /\ toNode \in [Conn -> Seq(Frame)] /\ NoConn \notin Conn
      BY <1>0, NodeSessionAssumption DEF TypeOK
    <3>3. CASE SendExecute(i) /\ disp'[i] \notin {"unsent", "raised"}
      <4>1. toNode'[c] = Append(toNode[c], Msg("execute", i))
        BY <2>3, <3>1, <3>2, <3>3 DEF SendExecute
      <4>2. Msg("execute", i) \in Frame
        BY MsgType DEF FrameKind
      <4>3. Msg("execute", i) \in Frames(toNode'[c])
        BY <3>2, <4>1, <4>2, FramesAppend
      <4> QED BY <4>3 DEF Awaited, Msg
    <3>4. CASE ~SendExecute(i)
      <4>1. disp'[i] = disp[i]
        BY <1>4, <2>3, <3>2, <3>4 DEF Dispatch, CheckConnected, StorePending, SendExecute, RefuseUnsent,
           DispatchKill, DispatchStatusRequest, SendCommand
      <4> QED BY <2>3, <4>1
    <3> QED BY <3>3, <3>4
  <2>4. ASSUME NEW i \in Instance, disp[i] = "raised" PROVE disp'[i] = "raised"
    BY <1>0, <1>4, <2>4 DEF Dispatch, CheckConnected, StorePending, SendExecute, RefuseUnsent,
       DispatchKill, DispatchStatusRequest, SendCommand, TypeOK
  <2>5. ASSUME NEW i \in Instance, disp[i] = "unsent", db'[i] \in Live PROVE disp'[i] = "unsent"
    BY <1>0, <1>4, <2>5 DEF Dispatch, CheckConnected, StorePending, SendExecute, RefuseUnsent,
       DispatchKill, DispatchStatusRequest, SendCommand, TypeOK, Live
  <2>6. ASSUME NEW c \in Conn, link[c] = "open", pc[c] \in {"announce", "commit"} \/ c \in looping,
               NEW i \in Instance, db'[i] \in Live, Answerable(c, i)
        PROVE  Answerable(c, i)'
    BY <2>1, <2>3, <2>4, <2>5, <2>6 DEF Answerable, Running
  <2>7. ASSUME NEW c \in Conn, link'[c] = "open", NEW i \in Instance, db'[i] \in Live
        PROVE  \/ Answerable(c, i)'
               \/ /\ pc'[c] # "announce" /\ c \notin looping'
                  /\ pc'[c] = "commit" => view'[c][i] \in Live \/ i \in job'[c].running
    <3>1. CASE db'[i] # db[i]
      BY <2>2, <2>7, <3>1 DEF Answerable
    <3>2. CASE db'[i] = db[i]
      <4>1. \/ Answerable(c, i)
            \/ /\ pc[c] # "announce" /\ c \notin looping
               /\ pc[c] = "commit" => view[c][i] \in Live \/ i \in job[c].running
        BY <2>1, <2>7, <3>2 DEF LiveInv
      <4> QED BY <2>1, <2>6, <2>7, <4>1
    <3> QED BY <3>1, <3>2
  <2> QED BY <2>7 DEF LiveInv
<1>5. CASE ServerRestart
  <2>1. \A c \in Conn : link'[c] = "dead"
    BY <1>0, <1>5, RestartEmpties
  <2> QED BY <2>1 DEF LiveInv
<1>6. CASE Scanner
  <2>1. UNCHANGED <<nodeInst, toNode, pc, looping, job, view, disp>>
    BY <1>0, <1>6, ScannerSteps
  <2>2. \A i \in Instance : db'[i] \in Live => db[i] \in Live
    BY <1>0, <1>6, ScannerSteps DEF BulkErrored, Live
  <2>3. \A c \in Conn : link'[c] = "open" => link[c] = "open" /\ toServer'[c] = toServer[c]
    BY <1>0, <1>6, ScannerSteps DEF Shut
  <2>4. ASSUME NEW c \in Conn, link'[c] = "open", NEW i \in Instance
        PROVE  Answerable(c, i)' <=> Answerable(c, i)
    BY <2>1, <2>3, <2>4 DEF Answerable, Running, Awaited
  <2> QED BY <2>1, <2>2, <2>3, <2>4 DEF LiveInv
<1> QED BY <1>1, <1>2, <1>3, <1>4, <1>5, <1>6 DEF Next

LEMMA LiveInit == Init => LiveInv
BY DEF Init, LiveInv

\* While a session is served, a live row stands for something that can still end
\* it: reconciliation (handlers.py reconcile_instances) settles every other row,
\* and neither a dispatch nor a late frame makes one, nor a transaction that loaded
\* rows before a scan errored them (health.py).  Only a dispatch_execute that died
\* between its commit and its send leaves a row nobody answers for.
THEOREM RowsAccounted == Sequential => (Spec => []LiveRowsAccounted)
<1> SUFFICES ASSUME Sequential PROVE Spec => []LiveRowsAccounted
  OBVIOUS
<1>1. Init => LiveInv
  BY LiveInit
<1>2. Steady /\ LiveInv /\ [Next]_vars => LiveInv'
  BY LiveNext
<1>3. Steady /\ LiveInv => LiveRowsAccounted
  <2> SUFFICES ASSUME Steady, LiveInv, NEW c \in Conn, Served(c), NEW i \in Instance, db[i] \in Live
               PROVE  Accounted(i, c) \/ disp[i] = "raised"
    BY DEF LiveRowsAccounted
  <2>1. link[c] = "open" /\ c \in looping
    BY DEF Steady, SessionInv, HeldInv, Served
  <2> QED BY <2>1, AnswerableAccounted DEF LiveInv
<1> QED BY <1>1, <1>2, <1>3, SteadyAlways, PTL DEF Spec

-----------------------------------------------------------------------------
(* A pending row never finishes: it is confirmed first.                       *)

Confirms(f, i) == f.inst = i /\ f.kind \in {"ack", "instance_started"}
Finishes(f, i) == f.inst = i /\ f.kind = "instance_finished"

Confirmed(q, i) == \E k \in 1..Len(q) : Confirms(q[k], i)
ConfirmedFirst(q, i) ==
  \A k \in 1..Len(q) : Finishes(q[k], i) => \E l \in 1..Len(q) : l < k /\ Confirms(q[l], i)

\* The transaction at hand, or the first registration, confirms i.
Backed(c, i) ==
  (pc[c] = "write" /\ Confirms(job[c], i)) \/ (Fresh(c) /\ i \in Reg(c).running)

ConfirmInv ==
  \A c \in Conn : \A i \in Instance : db[i] = "pending" =>
    /\ link[c] = "open" /\ i \in Running => Backed(c, i) \/ Confirmed(toServer[c], i)
    /\ Backed(c, i) \/ ConfirmedFirst(toServer[c], i)
    /\ pc[c] = "write" => ~Finishes(job[c], i)

LEMMA ConfirmedAppend ==
  ASSUME NEW q \in Seq(Frame), NEW f \in Frame, NEW i
  PROVE  /\ Confirmed(Append(q, f), i) <=> Confirmed(q, i) \/ Confirms(f, i)
         /\ ConfirmedFirst(q, i) /\ (Finishes(f, i) => Confirmed(q, i))
              => ConfirmedFirst(Append(q, f), i)
         /\ Append(q, f)[1] = IF q = <<>> THEN f ELSE q[1]
<1>1. /\ Len(q) \in Nat /\ Len(Append(q, f)) = Len(q) + 1
      /\ Append(q, f)[Len(q) + 1] = f
      /\ \A k \in 1..Len(q) : Append(q, f)[k] = q[k]
      /\ q # <<>> => Len(q) > 0
  OBVIOUS
<1>2. /\ 1..Len(Append(q, f)) = 1..Len(q) \cup {Len(q) + 1}
      /\ \A k \in 1..Len(q) : k < Len(q) + 1
  BY <1>1
<1>3. Confirmed(Append(q, f), i) <=> Confirmed(q, i) \/ Confirms(f, i)
  BY <1>1, <1>2 DEF Confirmed
<1>4. ASSUME ConfirmedFirst(q, i), Finishes(f, i) => Confirmed(q, i),
             NEW k \in 1..Len(Append(q, f)), Finishes(Append(q, f)[k], i)
      PROVE  \E l \in 1..Len(Append(q, f)) : l < k /\ Confirms(Append(q, f)[l], i)
  <2>1. CASE k \in 1..Len(q)
    <3>1. PICK l \in 1..Len(q) : l < k /\ Confirms(q[l], i)
      BY <1>1, <1>4, <2>1 DEF ConfirmedFirst
    <3> QED BY <1>1, <1>2, <3>1
  <2>2. CASE k = Len(q) + 1
    <3>1. PICK l \in 1..Len(q) : Confirms(q[l], i)
      BY <1>1, <1>4, <2>2 DEF Confirmed
    <3> QED BY <1>1, <1>2, <2>2, <3>1
  <2> QED BY <1>2, <2>1, <2>2
<1>5. Append(q, f)[1] = IF q = <<>> THEN f ELSE q[1]
  <2>1. q = <<>> => Len(q) = 0
    OBVIOUS
  <2> QED BY <1>1, <2>1
<1> QED BY <1>3, <1>4, <1>5 DEF ConfirmedFirst

LEMMA ConfirmedTaken ==
  ASSUME NEW q \in Seq(Frame), q # <<>>, NEW i
  PROVE  /\ Confirmed(q, i) => Confirms(Head(q), i) \/ Confirmed(Tail(q), i)
         /\ ConfirmedFirst(q, i) =>
              ~Finishes(Head(q), i) /\ (Confirms(Head(q), i) \/ ConfirmedFirst(Tail(q), i))
<1>1. /\ Len(q) \in Nat \ {0} /\ Len(Tail(q)) = Len(q) - 1 /\ Head(q) = q[1]
      /\ \A k \in 1..Len(Tail(q)) : Tail(q)[k] = q[k + 1]
  OBVIOUS
<1>2. \A l \in 1..Len(q) : l = 1 \/ (l - 1 \in 1..Len(Tail(q)) /\ q[l] = Tail(q)[l - 1])
  BY <1>1
<1>3. Confirmed(q, i) => Confirms(Head(q), i) \/ Confirmed(Tail(q), i)
  BY <1>1, <1>2 DEF Confirmed
<1>4. ConfirmedFirst(q, i) => ~Finishes(Head(q), i)
  <2>1. 1 \in 1..Len(q) /\ \A l \in 1..Len(q) : ~(l < 1)
    BY <1>1
  <2> QED BY <1>1, <2>1 DEF ConfirmedFirst
<1>5. ASSUME ConfirmedFirst(q, i), ~Confirms(Head(q), i),
             NEW k \in 1..Len(Tail(q)), Finishes(Tail(q)[k], i)
      PROVE  \E l \in 1..Len(Tail(q)) : l < k /\ Confirms(Tail(q)[l], i)
  <2>1. k + 1 \in 1..Len(q) /\ q[k + 1] = Tail(q)[k]
    BY <1>1
  <2>2. PICK l \in 1..Len(q) : l < k + 1 /\ Confirms(q[l], i)
    BY <1>5, <2>1 DEF ConfirmedFirst
  <2>3. l # 1
    BY <1>1, <1>5, <2>2
  <2>4. l - 1 \in 1..Len(Tail(q)) /\ q[l] = Tail(q)[l - 1]
    BY <1>2, <2>3
  <2>5. l - 1 < k
    BY <2>2
  <2> QED BY <2>2, <2>4, <2>5
<1> QED BY <1>3, <1>4, <1>5 DEF ConfirmedFirst

LEMMA ConfirmedShort ==
  \A i : ConfirmedFirst(<<>>, i) /\ ~Confirmed(<<>>, i)
BY DEF ConfirmedFirst, Confirmed

LEMMA ConfirmNode ==
  ASSUME Sequential, TypeOK, OnceInv, SessionInv, ConfirmInv, Node
  PROVE  ConfirmInv'
<1>0. /\ pc \in [Conn -> PC] /\ link \in [Conn -> Link] /\ toServer \in [Conn -> Seq(Frame)]
      /\ NoInst \notin Instance /\ nodeInst \in [Instance -> NodeInstStatus]
  BY NodeSessionAssumption DEF TypeOK
<1>1. UNCHANGED <<looping, job, db>>
  BY NodeSteps
<1>2. \A c \in Conn : link[c] = "open" => nodeConn = c
  BY DEF SessionInv, ConnInv
\* The queue of a connection stays as it is, or one frame is appended to it.
<1>3. ASSUME pc' = pc, NEW c \in Conn, NEW i \in Instance, db[i] = "pending",
             toServer'[c] = toServer[c],
             link'[c] = "open" => link[c] = "open" /\ nodeInst' = nodeInst
      PROVE  /\ link'[c] = "open" /\ i \in Running' => Backed(c, i)' \/ Confirmed(toServer[c], i)'
             /\ Backed(c, i)' \/ ConfirmedFirst(toServer[c], i)'
             /\ pc'[c] = "write" => ~Finishes(job[c], i)'
  <2>1. Backed(c, i)' <=> Backed(c, i)
    BY <1>1, <1>3 DEF Backed, Fresh, Reg
  <2>2. /\ link[c] = "open" /\ i \in Running => Backed(c, i) \/ Confirmed(toServer[c], i)
        /\ Backed(c, i) \/ ConfirmedFirst(toServer[c], i)
        /\ pc[c] = "write" => ~Finishes(job[c], i)
    BY <1>3 DEF ConfirmInv
  <2>3. link'[c] = "open" => (i \in Running' <=> i \in Running)
    BY <1>3 DEF Running
  <2>4. /\ Confirmed(toServer[c], i)' <=> Confirmed(toServer[c], i)
        /\ ConfirmedFirst(toServer[c], i)' <=> ConfirmedFirst(toServer[c], i)
    BY <1>3 DEF Confirmed, ConfirmedFirst
  <2>5. Finishes(job[c], i)' <=> Finishes(job[c], i)
    BY <1>1 DEF Finishes
  <2> QED BY <1>3, <2>1, <2>2, <2>3, <2>4, <2>5
<1>4. ASSUME pc' = pc, NEW c \in Conn, NEW i \in Instance, db[i] = "pending",
             link[c] = "open", NEW f \in Frame, toServer'[c] = Append(toServer[c], f),
             Finishes(f, i) => i \in Running,
             link'[c] = "open" /\ i \in Running' => i \in Running \/ Confirms(f, i)
      PROVE  /\ link'[c] = "open" /\ i \in Running' => Backed(c, i)' \/ Confirmed(toServer[c], i)'
             /\ Backed(c, i)' \/ ConfirmedFirst(toServer[c], i)'
             /\ pc'[c] = "write" => ~Finishes(job[c], i)'
  <2> DEFINE q == toServer[c]
  <2>1. /\ Confirmed(Append(q, f), i) <=> Confirmed(q, i) \/ Confirms(f, i)
        /\ ConfirmedFirst(q, i) /\ (Finishes(f, i) => Confirmed(q, i))
              => ConfirmedFirst(Append(q, f), i)
        /\ q # <<>> => Append(q, f)[1] = q[1]
    BY <1>0, ConfirmedAppend
  <2>2. /\ Confirmed(toServer[c], i)' <=> Confirmed(Append(q, f), i)
        /\ ConfirmedFirst(toServer[c], i)' <=> ConfirmedFirst(Append(q, f), i)
    BY <1>4 DEF Confirmed, ConfirmedFirst
  <2>3. pc[c] = "first" => q # <<>>
    BY DEF SessionInv, ConnInv
  <2>4. Backed(c, i)' <=> Backed(c, i)
    BY <1>1, <1>4, <2>1, <2>3 DEF Backed, Fresh, Reg
  <2>5. /\ i \in Running => Backed(c, i) \/ Confirmed(q, i)
        /\ Backed(c, i) \/ ConfirmedFirst(q, i)
        /\ pc[c] = "write" => ~Finishes(job[c], i)
    BY <1>4 DEF ConfirmInv
  <2>6. Finishes(job[c], i)' <=> Finishes(job[c], i)
    BY <1>1 DEF Finishes
  <2> QED BY <1>4, <2>1, <2>2, <2>4, <2>5, <2>6
<1>5. CASE Talks /\ pc' = pc
  <2>1. UNCHANGED link
    BY <1>5 DEF Talks
  <2>2. ASSUME UNCHANGED <<nodeInst, toServer>> PROVE ConfirmInv'
    BY <1>1, <1>3, <1>5, <2>1, <2>2 DEF ConfirmInv
  <2>3. ASSUME NEW f \in Frame, Emit(f), Tells(f) PROVE ConfirmInv'
    <3>1. ASSUME NEW c \in Conn, NEW i \in Instance, db[i] = "pending"
          PROVE  /\ link'[c] = "open" /\ i \in Running' => Backed(c, i)' \/ Confirmed(toServer[c], i)'
                 /\ Backed(c, i)' \/ ConfirmedFirst(toServer[c], i)'
                 /\ pc'[c] = "write" => ~Finishes(job[c], i)'
      <4>1. toServer'[c] = IF link[c] = "open" /\ c = nodeConn
                           THEN Append(toServer[c], f) ELSE toServer[c]
        BY <2>3, EmitAppends
      <4>2. CASE link[c] # "open"
        BY <1>3, <1>5, <2>1, <3>1, <4>1, <4>2
      <4>3. CASE link[c] = "open"
        <5>1. toServer'[c] = Append(toServer[c], f)
          BY <1>2, <4>1, <4>3
        <5>2. Finishes(f, i) => i \in Running
          BY <2>3 DEF Tells, Finishes, Running, RegisterFrame
        <5>3. i \in Running' => i \in Running \/ Confirms(f, i)
          <6>1. CASE i # f.inst
            <7>1. nodeInst'[i] = nodeInst[i]
              BY <2>3, <6>1 DEF Tells
            <7> QED BY <7>1 DEF Running
          <6>2. CASE i = f.inst
            <7>1. f # RegisterFrame
              BY <1>0, <6>2 DEF RegisterFrame
            <7> QED BY <2>3, <6>2, <7>1 DEF Tells, Running, Confirms
          <6> QED BY <6>1, <6>2
        <5> QED BY <1>4, <1>5, <3>1, <4>3, <5>1, <5>2, <5>3
      <4> QED BY <4>2, <4>3
    <3> QED BY <1>1, <3>1 DEF ConfirmInv
  <2> QED BY <1>5, <2>2, <2>3 DEF Talks
<1>6. CASE Leaves /\ pc' = pc
  <2>1. \A c \in Conn : link'[c] # "open"
    BY <1>2, <1>6 DEF Leaves
  <2>2. Msg("node_disconnect", NoInst) \in Frame
    BY MsgType DEF FrameKind, Impersonal
  <2>3. PICK f \in Frame : f = Msg("node_disconnect", NoInst)
    BY <2>2
  <2>4. \A i \in Instance : ~Finishes(f, i)
    BY <2>3 DEF Finishes, Msg
  <2>5. \A c \in Conn : toServer'[c] = toServer[c]
                        \/ (link[c] = "open" /\ toServer'[c] = Append(toServer[c], f))
    BY <1>6, <2>3, EmitAppends DEF Leaves
  <2> QED BY <1>1, <1>3, <1>4, <1>6, <2>1, <2>4, <2>5 DEF ConfirmInv
<1>7. ASSUME NEW d \in Conn, NodeConnect(d) PROVE ConfirmInv'
  <2>1. /\ toServer' = [toServer EXCEPT ![d] = <<RegisterFrame>>] /\ nodeInst' = nodeInst
        /\ link' = [link EXCEPT ![d] = "open"] /\ pc' = [pc EXCEPT ![d] = "first"]
        /\ \A e \in Conn : pc[e] \in Over
    BY <1>7 DEF NodeConnect, Sequential
  <2>2. \A c \in Conn : ConnInv(c) /\ HeldInv(c)
    BY DEF SessionInv
  <2>3. ASSUME NEW c \in Conn, c # d, NEW i \in Instance
        PROVE  /\ link'[c] # "open" /\ ConfirmedFirst(toServer[c], i)'
               /\ pc'[c] # "write"
    <3>1. link'[c] = "dead" /\ toServer'[c] = <<>> /\ pc'[c] \in Over
      BY <1>0, <2>1, <2>2, <2>3 DEF ConnInv
    <3> QED BY <3>1, ConfirmedShort DEF Over, ConfirmedFirst
  <2>4. ASSUME NEW i \in Instance
        PROVE  /\ i \in Running' => Backed(d, i)'
               /\ ConfirmedFirst(toServer[d], i)'
               /\ pc'[d] # "write"
    <3>1. <<RegisterFrame>> \in Seq(Frame) /\ Len(<<RegisterFrame>>) = 1
          /\ <<RegisterFrame>>[1] = RegisterFrame
      BY RegisterFrameType
    <3>2. RegisterFrame.running = Running /\ ~Finishes(RegisterFrame, i)
      BY DEF Finishes, RegisterFrame
    <3>3. Running' = Running
      BY <2>1 DEF Running
    <3>4. d \notin looping
      BY <2>1, <2>2 DEF HeldInv, Over, Registering
    <3>5. pc'[d] = "first" /\ toServer'[d] = <<RegisterFrame>> /\ d \notin looping'
      BY <1>0, <1>1, <2>1, <3>4
    <3> HIDE DEF RegisterFrame
    <3>6. i \in Running' => Backed(d, i)'
      BY <3>1, <3>2, <3>3, <3>5 DEF Backed, Fresh, Reg
    <3>7. ConfirmedFirst(toServer'[d], i)
      <4>1. ASSUME NEW k \in 1..Len(toServer'[d]) PROVE toServer'[d][k] = RegisterFrame
        BY <3>1, <3>5
      <4> QED BY <3>2, <4>1 DEF ConfirmedFirst
    <3>8. ConfirmedFirst(toServer[d], i)'
      BY <3>7 DEF ConfirmedFirst
    <3> QED BY <3>5, <3>6, <3>8
  <2> QED BY <2>3, <2>4 DEF ConfirmInv
<1> QED BY <1>5, <1>6, <1>7, NodeSteps

LEMMA ConfirmEndpoint ==
  ASSUME TypeOK, SessionInv, TableInv, ConfirmInv, NEW c \in Conn, Endpoint(c)
  PROVE  ConfirmInv'
<1>0. /\ pc \in [Conn -> PC] /\ link \in [Conn -> Link] /\ toServer \in [Conn -> Seq(Frame)]
      /\ job \in [Conn -> Frame] /\ toServer[c] \in Seq(Frame) /\ looping \subseteq Conn
  BY DEF TypeOK
<1>1. /\ nodeInst' = nodeInst
      /\ \A d \in Conn : d # c => /\ pc'[d] \in Over /\ link'[d] = "dead" /\ toServer'[d] = <<>>
  BY Alone
<1>2. ConnInv(c) /\ HeldInv(c) /\ Loaded(c)
  BY DEF SessionInv, TableInv
<1>3. ASSUME NEW d \in Conn, d # c, NEW i \in Instance
      PROVE  /\ link'[d] # "open" /\ ConfirmedFirst(toServer'[d], i) /\ pc'[d] # "write"
  BY <1>1, <1>3, ConfirmedShort DEF Over
<1>4. SUFFICES ASSUME NEW i \in Instance, db'[i] = "pending"
      PROVE  /\ link'[c] = "open" /\ i \in Running => Backed(c, i)' \/ Confirmed(toServer'[c], i)
             /\ Backed(c, i)' \/ ConfirmedFirst(toServer'[c], i)
             /\ pc'[c] = "write" => ~Finishes(job'[c], i)
  <2>1. \A d \in Conn : \A i \in Instance :
          /\ Confirmed(toServer[d], i)' <=> Confirmed(toServer'[d], i)
          /\ ConfirmedFirst(toServer[d], i)' <=> ConfirmedFirst(toServer'[d], i)
          /\ Finishes(job[d], i)' <=> Finishes(job'[d], i)
    BY DEF Confirmed, ConfirmedFirst, Confirms, Finishes
  <2>2. Running' = Running
    BY <1>1 DEF Running
  <2> QED BY <1>3, <1>4, <2>1, <2>2 DEF ConfirmInv
<1>5. db[i] = "pending" =>
        /\ link[c] = "open" /\ i \in Running => Backed(c, i) \/ Confirmed(toServer[c], i)
        /\ Backed(c, i) \/ ConfirmedFirst(toServer[c], i)
        /\ pc[c] = "write" => ~Finishes(job[c], i)
  BY DEF ConfirmInv
<1>6. toServer[c] # <<>> =>
        /\ Head(toServer[c]) = toServer[c][1]
        /\ Confirmed(toServer[c], i) =>
             Confirms(Head(toServer[c]), i) \/ Confirmed(Tail(toServer[c]), i)
        /\ ConfirmedFirst(toServer[c], i) =>
             /\ ~Finishes(Head(toServer[c]), i)
             /\ Confirms(Head(toServer[c]), i) \/ ConfirmedFirst(Tail(toServer[c]), i)
  BY <1>0, ConfirmedTaken
<1>7. ASSUME toServer'[c] = <<>>, link'[c] = "dead", pc'[c] # "write"
      PROVE  /\ link'[c] = "open" /\ i \in Running => Backed(c, i)' \/ Confirmed(toServer'[c], i)
             /\ Backed(c, i)' \/ ConfirmedFirst(toServer'[c], i)
             /\ pc'[c] = "write" => ~Finishes(job'[c], i)
  BY <1>7, ConfirmedShort
\* The queue stays, and so does what backs the row.
<1>8. ASSUME db[i] = "pending", toServer'[c] = toServer[c], link'[c] = link[c],
             Backed(c, i) => Backed(c, i)', pc'[c] # "write"
      PROVE  /\ link'[c] = "open" /\ i \in Running => Backed(c, i)' \/ Confirmed(toServer'[c], i)
             /\ Backed(c, i)' \/ ConfirmedFirst(toServer'[c], i)
             /\ pc'[c] = "write" => ~Finishes(job'[c], i)
  BY <1>5, <1>8
<1>9. CASE ReceiveFirst(c)
  <2>1. /\ pc[c] = "first" /\ pc'[c] = "lock" /\ looping' = looping /\ link'[c] = link[c] /\ db' = db
        /\ job'[c] = Head(toServer[c]) /\ toServer'[c] = Tail(toServer[c]) /\ toServer[c] # <<>>
    BY <1>0, <1>9 DEF ReceiveFirst
  <2>2. Head(toServer[c]).kind = "node_register" /\ Head(toServer[c]) = toServer[c][1]
    BY <1>2, <1>6, <2>1 DEF ConnInv
  <2>3. ~Confirms(Head(toServer[c]), i)
    BY <2>2 DEF Confirms
  <2>4. Backed(c, i) => Backed(c, i)'
    BY <2>1, <2>2 DEF Backed, Fresh, Reg, Reporting
  <2> QED BY <1>4, <1>5, <1>6, <2>1, <2>3, <2>4
<1>10. CASE FirstLost(c) \/ Detect(c)
  <2>1. link'[c] = "dead" /\ toServer'[c] = <<>> /\ pc'[c] # "write"
    BY <1>0, <1>10 DEF FirstLost, Detect
  <2> QED BY <1>7, <2>1
<1>11. CASE AcquireLock(c) \/ CloseDone(c) \/ LoadNode(c) \/ LoadRows(c)
  <2>1. /\ pc[c] \in Reporting /\ pc'[c] \in Reporting /\ looping' = looping /\ db' = db /\ job' = job
    BY <1>0, <1>11 DEF AcquireLock, CloseDone, LoadNode, LoadRows, Reporting
  <2>2. link'[c] = link[c] /\ toServer'[c] = toServer[c]
    BY <1>11, Alone DEF AcquireLock, CloseDone, LoadNode, LoadRows
  <2>3. pc[c] \notin {"first", "write"} /\ pc'[c] \notin {"first", "write"}
    BY <2>1 DEF Reporting
  <2>4. Backed(c, i) => Backed(c, i)'
    BY <2>1, <2>3 DEF Backed, Fresh, Reg
  <2> QED BY <1>4, <1>8, <2>1, <2>2, <2>3, <2>4
<1>12. CASE CommitRegister(c)
  <2>1. /\ pc[c] = "commit" /\ pc'[c] = "announce" /\ UNCHANGED <<link, toServer>>
        /\ db'[i] = IF i \in job[c].running
                    THEN IF view[c][i] = "running" /\ db[i] = "errored" THEN "errored" ELSE "running"
                    ELSE IF view[c][i] \in Live THEN "errored" ELSE db[i]
    BY <1>2, <1>12, RegisterCommitted DEF CommitRegister
  <2>2. db[i] = "pending" /\ i \notin job[c].running
    BY <1>4, <2>1
  <2>3. ~Backed(c, i)
    BY <2>1, <2>2 DEF Backed, Reg
  <2> QED BY <1>8, <2>1, <2>2, <2>3
<1>13. CASE FailRegister(c)
  <2>1. /\ pc[c] = "commit" /\ looping' = looping /\ db' = db
        /\ c \in looping => pc'[c] = "loop" /\ UNCHANGED <<link, toServer>>
        /\ c \notin looping => link'[c] = "dead" /\ toServer'[c] = <<>> /\ pc'[c] = "crashed"
    BY <1>0, <1>13 DEF FailRegister
  <2>2. c \in looping => ~Backed(c, i)
    BY <2>1 DEF Backed, Fresh
  <2> QED BY <1>4, <1>7, <1>8, <2>1, <2>2
<1>14. CASE AnnounceRegister(c) \/ AfterEvent(c) \/ FinishDisconnect(c)
  <2>1. /\ pc[c] \in {"announce", "after", "drop"} /\ pc'[c] \in {"loop", "done"}
        /\ UNCHANGED <<link, toServer, db>>
    BY <1>0, <1>14 DEF AnnounceRegister, AfterEvent, FinishDisconnect
  <2>2. ~Backed(c, i)
    BY <2>1 DEF Backed, Fresh, Reporting
  <2> QED BY <1>4, <1>8, <2>1, <2>2
<1>15. CASE ReceiveRegister(c) \/ ReceiveEvent(c)
  <2>1. /\ pc[c] = "loop" /\ toServer[c] # <<>> /\ link[c] # "dead" /\ db' = db
        /\ toServer'[c] = Tail(toServer[c])
        /\ link'[c] = IF link[c] = "closing" THEN "dead" ELSE link[c]
    BY <1>0, <1>15 DEF ReceiveRegister, ReceiveEvent, TakeFrame
  <2>2. ~Backed(c, i)
    BY <2>1 DEF Backed, Fresh, Reporting
  <2>3. /\ link[c] = "open" /\ i \in Running => Confirmed(toServer[c], i)
        /\ ConfirmedFirst(toServer[c], i)
    BY <1>4, <1>5, <2>1, <2>2
  <2>4. link'[c] = "open" => link[c] = "open"
    BY <2>1
  <2>5. CASE ReceiveRegister(c)
    <3>1. pc'[c] # "write" /\ Head(toServer[c]).kind = "node_register"
      BY <1>0, <2>1, <2>5 DEF ReceiveRegister
    <3>2. ~Confirms(Head(toServer[c]), i)
      BY <3>1 DEF Confirms
    <3> QED BY <1>6, <2>1, <2>3, <2>4, <3>1, <3>2
  <2>6. CASE ReceiveEvent(c)
    <3>1. pc'[c] = "write" /\ job'[c] = Head(toServer[c])
      BY <1>0, <2>6 DEF ReceiveEvent
    <3>2. Confirms(Head(toServer[c]), i) => Backed(c, i)'
      BY <3>1 DEF Backed
    <3> QED BY <1>6, <2>1, <2>3, <2>4, <3>1, <3>2
  <2> QED BY <1>15, <2>5, <2>6
<1>16. CASE CommitEvent(c)
  <2>1. /\ pc[c] = "write" /\ pc'[c] = "after" /\ job' = job /\ UNCHANGED <<link, toServer>>
        /\ IF i = job[c].inst THEN Recorded(c, i) ELSE db'[i] = db[i]
        /\ c \in looping
    <3>1. /\ pc[c] = "write" /\ pc'[c] = "after" /\ job' = job
          /\ IF i = job[c].inst THEN Recorded(c, i) ELSE db'[i] = db[i]
      BY <1>2, <1>16, EventCommitted
    <3>2. UNCHANGED <<link, toServer>>
      BY <1>16 DEF CommitEvent
    <3>3. c \in looping
      BY <1>2, <3>1 DEF HeldInv
    <3> QED BY <3>1, <3>2, <3>3
  <2>2. db[i] = "pending" /\ ~Confirms(job[c], i)
    BY <1>4, <2>1 DEF NewStatus, Recorded, Confirms
  <2>3. ~Backed(c, i)
    BY <2>1, <2>2 DEF Backed, Fresh
  <2> QED BY <1>8, <2>1, <2>2, <2>3
<1>17. CASE CommitDisconnect(c)
  BY <1>4, <1>17 DEF CommitDisconnect, BulkErrored, Live
<1> QED BY <1>9, <1>10, <1>11, <1>12, <1>13, <1>14, <1>15, <1>16, <1>17 DEF Endpoint

LEMMA ConfirmNext ==
  ASSUME Sequential, Steady, ConfirmInv, [Next]_vars
  PROVE  ConfirmInv'
<1>0. TypeOK /\ OnceInv /\ SessionInv /\ LineInv /\ TableInv
  BY DEF Steady
<1>1. ASSUME UNCHANGED <<nodeInst, link, toServer, pc, looping, job>>,
             NEW c \in Conn, NEW i \in Instance
      PROVE  /\ i \in Running' <=> i \in Running
             /\ Backed(c, i)' <=> Backed(c, i)
             /\ Confirmed(toServer[c], i)' <=> Confirmed(toServer[c], i)
             /\ ConfirmedFirst(toServer[c], i)' <=> ConfirmedFirst(toServer[c], i)
             /\ Finishes(job[c], i)' <=> Finishes(job[c], i)
  BY <1>1 DEF Running, Backed, Fresh, Reg, Confirmed, ConfirmedFirst, Confirms, Finishes
<1>2. CASE UNCHANGED vars
  BY <1>1, <1>2 DEF ConfirmInv
<1>3. CASE Node
  BY <1>0, <1>3, ConfirmNode
<1>4. ASSUME NEW c \in Conn, Endpoint(c) PROVE ConfirmInv'
  BY <1>0, <1>4, ConfirmEndpoint
<1>5. CASE \/ \E i \in Instance : Dispatch(i) \/ DispatchKill(i)
           \/ DispatchStatusRequest
  <2>1. UNCHANGED <<nodeInst, link, toServer, pc, looping, job>>
    BY <1>0, <1>5, Commands
  <2>2. \A i \in Instance : db'[i] = "pending" => db[i] = "pending" \/ nodeInst[i] = "none"
    BY <1>0, <1>5, DispatchedRows DEF LineInv, TableInv
  <2>3. ASSUME NEW c \in Conn, NEW i \in Instance, nodeInst[i] = "none"
        PROVE  /\ i \notin Running /\ ConfirmedFirst(toServer[c], i) /\ ~Finishes(job[c], i)
    <3>1. \A f \in Line(c) : ~Names(f, i)
      BY <1>0, <2>3 DEF LineInv, ConnLine
    <3> QED BY <2>3, <3>1 DEF Running, ConfirmedFirst, Finishes, Names, Line, Frames
  <2>4. \A c \in Conn : \A i \in Instance : db'[i] = "pending" =>
          /\ link[c] = "open" /\ i \in Running => Backed(c, i) \/ Confirmed(toServer[c], i)
          /\ Backed(c, i) \/ ConfirmedFirst(toServer[c], i)
          /\ pc[c] = "write" => ~Finishes(job[c], i)
    BY <2>2, <2>3 DEF ConfirmInv
  <2> QED BY <1>1, <2>1, <2>4 DEF ConfirmInv
<1>6. CASE ServerRestart
  <2>1. \A c \in Conn : link'[c] = "dead" /\ toServer'[c] = <<>> /\ pc'[c] \in Over
    BY <1>0, <1>6, RestartEmpties
  <2>2. \A c \in Conn : \A i \in Instance : ConfirmedFirst(toServer[c], i)'
    BY <2>1 DEF ConfirmedFirst
  <2> QED BY <2>1, <2>2 DEF ConfirmInv, Over
<1>7. CASE Scanner
  <2>1. UNCHANGED <<nodeInst, pc, looping, job>>
    BY <1>0, <1>7, ScannerSteps
  <2>2. \A i \in Instance : db'[i] = "pending" => db[i] = "pending"
    BY <1>0, <1>7, ScannerSteps DEF BulkErrored
  <2>3. ASSUME NEW c \in Conn, NEW i \in Instance, db[i] = "pending"
        PROVE  /\ link'[c] = "open" /\ i \in Running' => Backed(c, i)' \/ Confirmed(toServer[c], i)'
               /\ Backed(c, i)' \/ ConfirmedFirst(toServer[c], i)'
               /\ pc'[c] = "write" => ~Finishes(job[c], i)'
    <3>1. /\ link[c] = "open" /\ i \in Running => Backed(c, i) \/ Confirmed(toServer[c], i)
          /\ Backed(c, i) \/ ConfirmedFirst(toServer[c], i)
          /\ pc[c] = "write" => ~Finishes(job[c], i)
      BY <2>3 DEF ConfirmInv
    <3>2. pc'[c] = "write" => ~Finishes(job[c], i)'
      BY <2>1, <3>1 DEF Finishes
    <3>3. CASE link'[c] = "dead" /\ toServer'[c] = <<>>
      BY <3>2, <3>3 DEF ConfirmedFirst
    <3>4. CASE toServer'[c] = toServer[c] /\ (link'[c] = "open" => link[c] = "open")
      <4>1. /\ Backed(c, i)' <=> Backed(c, i)
            /\ i \in Running' <=> i \in Running
            /\ Confirmed(toServer[c], i)' <=> Confirmed(toServer[c], i)
            /\ ConfirmedFirst(toServer[c], i)' <=> ConfirmedFirst(toServer[c], i)
        BY <2>1, <3>4 DEF Backed, Fresh, Reg, Running, Confirms, Confirmed, ConfirmedFirst
      <4> QED BY <3>1, <3>2, <3>4, <4>1
    <3> QED BY <1>0, <1>7, <3>3, <3>4, ScannerSteps DEF Shut
  <2> QED BY <2>2, <2>3 DEF ConfirmInv
<1> QED BY <1>2, <1>3, <1>4, <1>5, <1>6, <1>7 DEF Next

LEMMA ConfirmInit == Init => ConfirmInv
BY DEF Init, ConfirmInv

-----------------------------------------------------------------------------
(* The instances table implements InstanceLifecycle.                         *)

LEMMA LifecycleEvent ==
  ASSUME Steady, ConfirmInv, NEW c \in Conn, CommitEvent(c)
  PROVE  Lifecycle!Next \/ UNCHANGED db
<1>0. /\ TypeOK /\ Loaded(c) /\ EndInv /\ db \in [Instance -> InstanceStatus] /\ db' \in [Instance -> InstanceStatus]
  <2>1. TypeOK /\ LockInv /\ TableInv /\ EndInv
    BY DEF Steady
  <2>2. TypeOK'
    BY <2>1, TypeNext DEF Next, Endpoint
  <2> QED BY <2>1, <2>2 DEF TypeOK, TableInv
<1>1. /\ pc[c] = "write"
      /\ \A i \in Instance : IF i = job[c].inst THEN Recorded(c, i) ELSE db'[i] = db[i]
  BY <1>0, EventCommitted
<1>2. CASE job[c].inst \notin Instance
  BY <1>0, <1>1, <1>2
<1>3. CASE job[c].inst \in Instance
  <2> DEFINE i == job[c].inst
  <2>1. db' = [db EXCEPT ![i] = db'[i]] /\ Recorded(c, i)
    BY <1>0, <1>1, <1>3
  <2>2. db[i] \in {"pending", "running", "errored"}
    BY <1>0, <1>1, <1>3 DEF Loaded, EndInv, Names, InstanceStatus, Live
  <2>3. job[c].kind = "instance_finished" => db[i] # "pending"
    BY <1>1, <1>3 DEF ConfirmInv, Finishes
  <2>4. CASE db'[i] = db[i]
    BY <1>0, <2>1, <2>4
  <2>5. CASE db'[i] # db[i]
    <3>0. db'[i] \in {"running", "finished", "errored"}
      BY <2>1, <2>5 DEF Recorded, NewStatus
    <3>1. CASE db'[i] = "running"
      <4>1. Lifecycle!Confirm(i)
        BY <2>1, <2>2, <2>5, <3>1 DEF Lifecycle!Confirm
      <4> QED BY <1>3, <4>1 DEF Lifecycle!Next
    <3>2. CASE db'[i] = "finished"
      <4>1. job[c].kind = "instance_finished"
        BY <2>1, <2>2, <3>2 DEF NewStatus, Recorded
      <4>2. Lifecycle!Finish(i)
        BY <2>1, <2>2, <2>3, <3>2, <4>1 DEF Lifecycle!Finish
      <4> QED BY <1>3, <4>2 DEF Lifecycle!Next
    <3>3. CASE db'[i] = "errored"
      <4>1. db' = [j \in Instance |-> IF j \in {i} THEN "errored" ELSE db[j]]
        BY <1>0, <2>1, <3>3
      <4>2. \A j \in {i} : db[j] \in {"pending", "running"}
        BY <2>2, <2>5, <3>3
      <4>3. Lifecycle!Fail({i})
        BY <4>1, <4>2 DEF Lifecycle!Fail
      <4> QED BY <1>3, <4>3 DEF Lifecycle!Next
    <3> QED BY <3>0, <3>1, <3>2, <3>3
  <2> QED BY <2>4, <2>5
<1> QED BY <1>2, <1>3

LEMMA BulkFails == db' = BulkErrored => Lifecycle!Next
<1> SUFFICES ASSUME db' = BulkErrored PROVE Lifecycle!Next
  OBVIOUS
<1> DEFINE S == {i \in Instance : db[i] \in Live}
<1>1. S \in SUBSET Instance /\ \A i \in S : db[i] \in {"pending", "running"}
  BY DEF Live
<1>2. db' = [i \in Instance |-> IF i \in S THEN "errored" ELSE db[i]]
  BY DEF BulkErrored
<1> HIDE DEF S
<1>3. Lifecycle!Fail(S)
  BY <1>1, <1>2 DEF Lifecycle!Fail
<1> QED BY <1>1, <1>3 DEF Lifecycle!Next

LEMMA LifecycleStep ==
  ASSUME Sequential, Steady, ConfirmInv, [Next]_vars
  PROVE  [Lifecycle!Next]_db
<1>0. /\ TypeOK /\ LockInv /\ RowInv /\ OnceInv /\ RealInv /\ SessionInv /\ LineInv /\ TableInv
      /\ db \in [Instance -> InstanceStatus] /\ db' \in [Instance -> InstanceStatus]
  <2>1. TypeOK /\ LockInv /\ RowInv /\ OnceInv /\ RealInv /\ SessionInv /\ LineInv /\ TableInv
    BY DEF Steady
  <2> QED BY <2>1, TypeNext DEF TypeOK
<1>1. ASSUME NEW c \in Conn, Endpoint(c) PROVE Lifecycle!Next \/ UNCHANGED db
  <2>1. CASE CommitRegister(c)
    <3>1. Loaded(c) /\ job[c].running \in SUBSET Instance
      BY <1>0 DEF TableInv, TypeOK, Frame
    <3>2. /\ pc[c] = "commit"
          /\ \A i \in job[c].running : db[i] \in Live \cup {"absent", "errored"}
          /\ \A i \in Instance :
               db'[i] = IF i \in job[c].running
                        THEN IF view[c][i] = "running" /\ db[i] = "errored" THEN "errored" ELSE "running"
                        ELSE IF view[c][i] \in Live THEN "errored" ELSE db[i]
      BY <1>0, <2>1, <3>1, RegisterCommitted
    \* Of the reported rows, those a scan has errored behind the transaction stay so.
    <3> DEFINE gone == {i \in Instance : i \notin job[c].running /\ view[c][i] \in Live /\ db[i] \in Live}
               held == {i \in job[c].running : db'[i] = "running"}
    <3>3. /\ gone \in SUBSET Instance /\ held \in SUBSET Instance /\ gone \cap held = {}
          /\ \A i \in gone : db[i] \in {"pending", "running"}
      BY <3>1 DEF Live
    <3>4. \A i \in held : db[i] # "finished"
      BY <3>2 DEF Live
    <3>5. ASSUME NEW i \in Instance
          PROVE  db'[i] = IF i \in gone THEN "errored"
                          ELSE IF i \in held THEN "running" ELSE db[i]
      BY <3>1, <3>2 DEF Loaded
    <3> HIDE DEF gone, held
    <3>6. db' = [i \in Instance |-> IF i \in gone THEN "errored"
                                    ELSE IF i \in held THEN "running" ELSE db[i]]
      BY <1>0, <3>5
    <3>7. Lifecycle!Reconcile(gone, held)
      BY <3>3, <3>4, <3>6 DEF Lifecycle!Reconcile
    <3> QED BY <3>3, <3>7 DEF Lifecycle!Next
  <2>2. CASE CommitDisconnect(c)
    BY <2>2, BulkFails DEF CommitDisconnect
  <2> QED BY <1>0, <1>1, <2>1, <2>2, LifecycleEvent, OtherCommits
<1>2. CASE \/ \E i \in Instance : Dispatch(i) \/ DispatchKill(i)
           \/ DispatchStatusRequest
  <2>1. ASSUME NEW i \in Instance, StorePending(i) PROVE Lifecycle!Next
    <3>1. db[i] = "absent"
      BY <1>0, <2>1 DEF StorePending, TableInv, NoRowYet, OnceInv
    <3>2. Lifecycle!Create(i)
      BY <2>1, <3>1 DEF StorePending, Lifecycle!Create
    <3> QED BY <3>2 DEF Lifecycle!Next
  <2>2. ASSUME NEW i \in Instance, RefuseUnsent(i) PROVE Lifecycle!Next \/ UNCHANGED db
    <3>1. disp[i] = "unsent" /\ db' = [db EXCEPT ![i] = "errored"]
      BY <2>2 DEF RefuseUnsent
    <3>2. db[i] \in {"pending", "running", "errored"}
      <4>1. db[i] # "absent" /\ nodeInst[i] = "none"
        BY <1>0, <3>1 DEF RowInv, LineInv, UnsentInv
      <4>2. db[i] # "finished"
        BY <1>0, <4>1 DEF RealInv, FinishedIsReal
      <4> QED BY <1>0, <4>1, <4>2 DEF InstanceStatus, Live
    <3>3. CASE db[i] = "errored"
      BY <1>0, <3>1, <3>3
    <3>4. CASE db[i] # "errored"
      <4>1. db' = [j \in Instance |-> IF j \in {i} THEN "errored" ELSE db[j]]
        BY <1>0, <3>1
      <4>2. Lifecycle!Fail({i})
        BY <3>2, <3>4, <4>1 DEF Lifecycle!Fail
      <4> QED BY <4>2 DEF Lifecycle!Next
    <3> QED BY <3>3, <3>4
  <2>3. db' = db \/ \E i \in Instance : StorePending(i) \/ RefuseUnsent(i)
    BY <1>2 DEF Dispatch, CheckConnected, SendExecute, DispatchKill, DispatchStatusRequest, SendCommand
  <2> QED BY <2>1, <2>2, <2>3
<1>3. CASE Node \/ ServerRestart
  <2>1. db' = db
    BY <1>0, <1>3, NodeSteps, RestartEmpties
  <2> QED BY <2>1
<1>4. CASE Scanner
  BY <1>0, <1>4, BulkFails, ScannerSteps
<1>5. CASE UNCHANGED vars
  BY <1>5
<1> QED BY <1>1, <1>2, <1>3, <1>4, <1>5 DEF Next

\* The instances table implements InstanceLifecycle: whatever the handlers, the
\* reconciliation, the bulk updates of a disconnect or a scan, and a refused
\* dispatch commit (handlers.py, health.py, commands.py) is a step of the life
\* cycle, so "finished" is final, no row is finished that was not confirmed first,
\* and none is removed or pending again.
THEOREM RefinesLifecycle == Sequential => (Spec => LifecycleSpec)
<1> SUFFICES ASSUME Sequential PROVE Spec => LifecycleSpec
  OBVIOUS
<1>1. Init => Lifecycle!Init /\ ConfirmInv
  BY ConfirmInit DEF Init, Lifecycle!Init
<1>2. Steady /\ ConfirmInv /\ [Next]_vars => ConfirmInv' /\ [Lifecycle!Next]_db
  BY ConfirmNext, LifecycleStep
<1> QED BY <1>1, <1>2, SteadyAlways, PTL DEF Spec, LifecycleSpec, Lifecycle!Spec
=============================================================================
