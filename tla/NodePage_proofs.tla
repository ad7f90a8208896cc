---------------------------- MODULE NodePage_proofs ----------------------------
(***************************************************************************)
(* Proofs about NodePage, for any number of dispatches, events, faults and  *)
(* clicks: type correctness, that the tab catches up with the status of     *)
(* every instance it was told of, that a form that waits for an             *)
(* acknowledgement has a reason to, that the panel fits the row, and that   *)
(* the stream of a live subscribed instance has no hole but what a full      *)
(* queue drops.                                                             *)
(***************************************************************************)
EXTENDS NodePage, TLAPS

USE NodePageAssumption DEF NodePageAssumption, None

-----------------------------------------------------------------------------
(* Type correctness.  What the page shows or waits for was dispatched.        *)

Dispatched ==
  /\ active # None => stage[active] # "none"
  /\ known = "asked" => active # None
  /\ \A i \in Instance : post[i] \in {"served", "done"} => stage[i] # "none"
  /\ \A f \in Form : pend[f] # None => stage[pend[f]] # "none" /\ status[pend[f]] = "unknown"

LEMMA EventType ==
  ASSUME NEW i \in Instance, NEW n \in 1..MaxEvents
  PROVE  Event(i, n) \in Message
BY DEF Event, Message

LEMMA StatusType ==
  ASSUME NEW i \in Instance, NEW s \in Statuses
  PROVE  StatusOf(i, s) \in Message
BY DEF StatusOf, Message

LEMMA FaultType ==
  ASSUME TypeOK, Fault \/ UNCHANGED faults
  PROVE  faults' \in 0..MaxFaults
BY DEF TypeOK, Fault

LEMMA BroadcastType ==
  ASSUME TypeOK, NEW i \in Instance, NEW s \in Statuses, BroadcastStatus(i, s)
  PROVE  inbox' \in Seq(Message) /\ missed' \subseteq Instance /\ faults' \in 0..MaxFaults
<1>1. inbox \in Seq(Message) /\ missed \subseteq Instance /\ faults \in 0..MaxFaults
  BY DEF TypeOK
<1>2. Append(inbox, StatusOf(i, s)) \in Seq(Message)
  BY <1>1, StatusType
<1>3. faults' \in 0..MaxFaults
  BY FaultType DEF BroadcastStatus
<1>4. QED  BY <1>1, <1>2, <1>3 DEF BroadcastStatus

\* A replay tells of no status.
LEMMA ReplayType ==
  ASSUME TypeOK, NEW i \in Instance, NEW k \in 0..emitted[i]
  PROVE  /\ Replay(i, k) \in Seq(Message) /\ k \in Nat /\ Len(Replay(i, k)) = k
         /\ \A n \in 1..k : Replay(i, k)[n] = Event(i, n)
<1>1. emitted[i] \in 0..MaxEvents /\ MaxEvents \in Nat /\ k \in Nat
  BY DEF TypeOK
<1>2. \A n \in 1..k : Event(i, n) \in Message
  BY <1>1, EventType
<1>3. QED  BY <1>1, <1>2 DEF Replay

LEMMA ReplayEvents ==
  ASSUME TypeOK, NEW i \in Instance, NEW k \in 0..emitted[i]
  PROVE  \E more \in Seq(Message) :
           more = Replay(i, k) /\ \A n \in 1..Len(more) : more[n].kind = "event" /\ more[n].inst = i
<1>1. /\ Replay(i, k) \in Seq(Message) /\ Len(Replay(i, k)) = k
      /\ \A n \in 1..k : Replay(i, k)[n] = Event(i, n)
  BY ReplayType
<1>2. \A n : Event(i, n).kind = "event" /\ Event(i, n).inst = i
  BY DEF Event
<1>3. \A n \in 1..Len(Replay(i, k)) : Replay(i, k)[n].kind = "event" /\ Replay(i, k)[n].inst = i
  BY <1>1, <1>2
<1>4. QED  BY <1>1, <1>3

LEMMA TakeCases ==
  ASSUME TypeOK, TakeSubscribe
  PROVE  \/ UNCHANGED <<subs, inbox, holed>>
         \/ \E i \in Instance : \E k \in 0..emitted[i] :
              /\ subs' = subs \cup {i}
              /\ inbox' = inbox \o Replay(i, k)
              /\ holed' \in {holed \cup {i}, holed \ {i}}
              /\ stage[i] # "finished" /\ i \notin holed' => k = emitted[i]
<1>1. Head(outbox) \in Instance
  BY DEF TakeSubscribe, TypeOK
<1>2. ASSUME NEW i \in Instance, SubscribeTo(i)
      PROVE  \E k \in 0..emitted[i] :
               /\ subs' = subs \cup {i}
               /\ inbox' = inbox \o Replay(i, k)
               /\ holed' \in {holed \cup {i}, holed \ {i}}
               /\ stage[i] # "finished" /\ i \notin holed' => k = emitted[i]
  <2>1. PICK k \in 0..Buffered(i) :
           /\ inbox' = inbox \o Replay(i, k)
           /\ \/ k = Buffered(i) /\ holed' = holed \ {i}
              \/ holed' = holed \cup {i}
    BY <1>2 DEF SubscribeTo
  <2>2. k \in 0..emitted[i]
    BY <2>1 DEF Buffered, TypeOK
  <2>3. subs' = subs \cup {i}
    BY <1>2 DEF SubscribeTo
  <2>4. stage[i] # "finished" /\ i \notin holed' => k = emitted[i]
    BY <2>1 DEF Buffered
  <2>5. QED  BY <2>1, <2>2, <2>3, <2>4
<1>3. QED  BY <1>1, <1>2 DEF TakeSubscribe

LEMMA RowType ==
  ASSUME TypeOK, NEW i \in Instance, stage[i] # "none"
  PROVE  Row(stage[i]) \in Statuses
BY DEF TypeOK, Row, Live, Statuses

LEMMA ActivateType ==
  ASSUME TypeOK, NEW i \in Instance, NEW sent \in Seq(Instance), Activate(i, sent)
  PROVE  active' \in Instance /\ known' \in Statuses \cup {"none", "asked"} /\ outbox' \in Seq(Instance)
<1>1. (IF socket /\ active # i THEN <<i>> ELSE <<>>) \in Seq(Instance)
  OBVIOUS
<1>2. QED  BY <1>1 DEF TypeOK, Activate

ServerStep ==
  \/ \E i \in Instance : ServePost(i) \/ NodeReports(i) \/ NodeStarts(i) \/ NodeStreams(i)
  \/ NodeDown \/ TakeSubscribe \/ ServeKnown

LEMMA ServerType ==
  ASSUME TypeOK, Dispatched, ServerStep
  PROVE  TypeOK'
<1>1. ASSUME NEW i \in Instance, ServePost(i)
      PROVE  TypeOK'
  BY <1>1 DEF ServePost, TypeOK, Live
<1>2. ASSUME NEW i \in Instance, NodeReports(i)
      PROVE  TypeOK'
  BY SMTT(30), <1>2, BroadcastType DEF NodeReports, pageVars, TypeOK, Live, Statuses
<1>3. ASSUME NEW i \in Instance, NodeStarts(i)
      PROVE  TypeOK'
  BY <1>3, BroadcastType DEF NodeStarts, pageVars, serverVars, TypeOK, Live, Statuses
<1>4. ASSUME NEW i \in Instance, NodeStreams(i)
      PROVE  TypeOK'
  <2>1. emitted[i] + 1 \in 1..MaxEvents /\ emitted' \in [Instance -> 0..MaxEvents]
    BY SMTT(30), <1>4 DEF NodeStreams, TypeOK
  <2>2. inbox' \in Seq(Message)
    <3>1. inbox \in Seq(Message) /\ Event(i, emitted[i] + 1) \in Message
      BY <2>1, EventType DEF TypeOK
    <3>2. inbox' = inbox \/ inbox' = Append(inbox, Event(i, emitted[i] + 1))
      BY <1>4 DEF NodeStreams
    <3>3. QED  BY <3>1, <3>2
  <2>3. faults' \in 0..MaxFaults
    BY <1>4, FaultType DEF NodeStreams
  <2>4. holed' \subseteq Instance
    BY <1>4 DEF NodeStreams, TypeOK
  <2>5. QED  BY <1>4, <2>1, <2>2, <2>3, <2>4 DEF NodeStreams, pageVars, TypeOK
<1>5. CASE NodeDown
  <2>1. faults' \in 0..MaxFaults
    BY <1>5, FaultType DEF NodeDown
  <2>2. QED  BY <1>5, <2>1 DEF NodeDown, pageVars, TypeOK
<1>6. CASE TakeSubscribe
  <2>1. Head(outbox) \in Instance /\ Tail(outbox) \in Seq(Instance)
    BY <1>6 DEF TakeSubscribe, TypeOK
  <2>2. inbox' \in Seq(Message) /\ subs' \subseteq Instance /\ holed' \subseteq Instance
    <3>1. inbox \in Seq(Message) /\ subs \subseteq Instance /\ holed \subseteq Instance
      BY DEF TypeOK
    <3>2. ASSUME NEW i \in Instance, NEW k \in 0..emitted[i], inbox' = inbox \o Replay(i, k)
          PROVE  inbox' \in Seq(Message)
      BY <3>1, <3>2, ReplayType
    <3>3. QED  BY <1>6, <3>1, <3>2, TakeCases
  <2>3. faults' \in 0..MaxFaults
    BY <1>6, FaultType DEF TakeSubscribe, SubscribeTo
  <2>4. QED  BY <1>6, <2>1, <2>2, <2>3 DEF TakeSubscribe, pageVars, TypeOK
<1>7. CASE ServeKnown
  <2>1. Row(stage[active]) \in Statuses
    BY <1>7, RowType DEF ServeKnown, Dispatched, TypeOK
  <2>2. QED  BY <1>7, <2>1 DEF ServeKnown, serverVars, TypeOK
<1>8. QED  BY <1>1, <1>2, <1>3, <1>4, <1>5, <1>6, <1>7 DEF ServerStep

PageStep ==
  \/ \E i \in Instance : PostReturns(i) \/ PostFails(i) \/ Select(i)
  \/ \E f \in Form : Submit(f)
  \/ ReceiveStatus \/ ReceiveEvent \/ SocketDrop \/ SocketOpen

LEMMA NextCases ==
  ASSUME [Next]_vars
  PROVE  ServerStep \/ PageStep \/ UNCHANGED vars
BY DEF Next, ServerStep, PageStep, ClickRun, ClickCommand, Form

LEMMA HeadType ==
  ASSUME TypeOK, inbox # <<>>
  PROVE  Head(inbox) \in Message /\ Tail(inbox) \in Seq(Message)
BY DEF TypeOK

LEMMA PageType ==
  ASSUME TypeOK, Dispatched, PageStep
  PROVE  TypeOK'
<1>1. ASSUME NEW i \in Instance, PostReturns(i)
      PROVE  TypeOK'
  <2>1. PICK sent \in {<<>>, <<i>>} : Activate(i, sent)
    BY <1>1 DEF PostReturns
  <2>2. active' \in Instance /\ known' \in Statuses \cup {"none", "asked"} /\ outbox' \in Seq(Instance)
    <3>1. <<>> \in Seq(Instance) /\ <<i>> \in Seq(Instance)
      OBVIOUS
    <3>2. CASE sent = <<>>
      BY <2>1, <3>1, <3>2, ActivateType
    <3>3. CASE sent = <<i>>
      BY <2>1, <3>1, <3>3, ActivateType
    <3>4. QED  BY <3>2, <3>3
  <2>3. pend' \in [Form -> Instance \cup {None}] /\ post' \in [Instance -> {"unused", "sent", "served", "done", "failed"}]
    BY <1>1 DEF PostReturns, PendAfter, TypeOK
  <2>4. shown' \in Statuses /\ preset' \subseteq Instance
    BY <1>1 DEF PostReturns, TypeOK, Statuses
  <2>5. QED  BY SMTT(30), <1>1, <2>2, <2>3, <2>4 DEF PostReturns, serverVars, TypeOK
<1>2. ASSUME NEW i \in Instance, PostFails(i)
      PROVE  TypeOK'
  <2>1. faults' \in 0..MaxFaults
    BY <1>2, FaultType DEF PostFails
  <2>2. QED  BY <1>2, <2>1 DEF PostFails, serverVars, TypeOK
<1>3. ASSUME NEW i \in Instance, Select(i)
      PROVE  TypeOK'
  <2>1. active' \in Instance /\ known' \in Statuses \cup {"none", "asked"} /\ outbox' \in Seq(Instance)
    <3>1. <<>> \in Seq(Instance) /\ Activate(i, <<>>)
      BY <1>3 DEF Select
    <3>2. QED  BY <3>1, ActivateType
  <2>2. shown' \in Statuses /\ selects' \in 0..MaxSelects
    BY <1>3 DEF Select, TypeOK, Statuses
  <2>3. QED  BY <1>3, <2>1, <2>2 DEF Select, serverVars, TypeOK
<1>4. ASSUME NEW f \in Form, Submit(f)
      PROVE  TypeOK'
  BY <1>4 DEF Submit, serverVars, TypeOK
<1>5. CASE ReceiveStatus
  <2>1. Head(inbox).inst \in Instance /\ Head(inbox).body \in Statuses /\ Tail(inbox) \in Seq(Message)
    BY <1>5, HeadType DEF ReceiveStatus, Message
  <2>2. status' \in [Instance -> Statuses \cup {"unknown"}] /\ shown' \in Statuses
    BY <1>5, <2>1 DEF ReceiveStatus, SetStatus, TypeOK
  <2>3. pend' \in [Form -> Instance \cup {None}]
    BY <1>5 DEF ReceiveStatus, TypeOK
  <2>4. QED  BY <1>5, <2>1, <2>2, <2>3 DEF ReceiveStatus, serverVars, TypeOK
<1>6. CASE ReceiveEvent
  <2>1. Head(inbox).inst \in Instance /\ Head(inbox).body \in 1..MaxEvents /\ Tail(inbox) \in Seq(Message)
    BY <1>6, HeadType DEF ReceiveEvent, Message
  <2>2. buffer' \in [Instance -> Seq(1..MaxEvents)]
    <3>1. Append(buffer[Head(inbox).inst], Head(inbox).body) \in Seq(1..MaxEvents)
      BY <2>1 DEF TypeOK
    <3>2. QED  BY <1>6, <3>1 DEF ReceiveEvent, TypeOK
  <2>3. QED  BY <1>6, <2>1, <2>2 DEF ReceiveEvent, serverVars, TypeOK
<1>7. CASE SocketDrop
  <2>1. \A m \in ToSet(inbox) : m.inst \in Instance
    <3>1. \A n \in 1..Len(inbox) : inbox[n] \in Message
      BY DEF TypeOK
    <3>2. \A m \in Message : m.inst \in Instance
      BY DEF Message
    <3>3. ToSet(inbox) \subseteq Message
      BY <3>1 DEF ToSet
    <3>4. QED  BY <3>2, <3>3
  <2>2. missed' \subseteq Instance
    BY <1>7, <2>1 DEF SocketDrop, TypeOK
  <2>3. faults' \in 0..MaxFaults
    BY <1>7, FaultType DEF SocketDrop
  <2>4. inbox' \in Seq(Message) /\ outbox' \in Seq(Instance)
    BY <1>7 DEF SocketDrop
  <2>5. QED  BY <1>7, <2>2, <2>3, <2>4 DEF SocketDrop, pageVars, TypeOK
<1>8. CASE SocketOpen
  <2>1. outbox' \in Seq(Instance)
    BY <1>8 DEF SocketOpen, TypeOK
  <2>2. QED  BY <1>8, <2>1 DEF SocketOpen, serverVars, pageVars, TypeOK
<1>9. QED  BY <1>1, <1>2, <1>3, <1>4, <1>5, <1>6, <1>7, <1>8 DEF PageStep

LEMMA StepDispatched ==
  ASSUME TypeOK, Dispatched, ServerStep \/ PageStep \/ UNCHANGED vars
  PROVE  Dispatched'
<1>1. CASE \E i \in Instance : ServePost(i)
  BY <1>1 DEF ServePost, Dispatched, TypeOK
<1>2. ASSUME UNCHANGED pageVars, \A i \in Instance : stage[i] # "none" => stage'[i] # "none"
      PROVE  Dispatched'
  BY <1>2 DEF Dispatched, pageVars, TypeOK
<1>3. CASE (\E i \in Instance : NodeReports(i) \/ NodeStarts(i) \/ NodeStreams(i))
             \/ NodeDown \/ TakeSubscribe \/ UNCHANGED vars
  <2>1. UNCHANGED pageVars
    BY <1>3 DEF NodeReports, NodeStarts, NodeStreams, NodeDown, TakeSubscribe, vars, pageVars
  <2>2. PICK S : stage \in [Instance -> S]
    BY DEF TypeOK
  <2>3. ASSUME NEW i \in Instance, NodeReports(i) \/ NodeStarts(i) \/ NodeStreams(i),
               NEW j \in Instance, stage[j] # "none"
        PROVE  stage'[j] # "none"
    BY <2>2, <2>3 DEF NodeReports, NodeStarts, NodeStreams, serverVars
  <2>4. ASSUME NodeDown \/ TakeSubscribe \/ UNCHANGED vars, NEW j \in Instance, stage[j] # "none"
        PROVE  stage'[j] # "none"
    BY <2>2, <2>4 DEF NodeDown, TakeSubscribe, vars, serverVars
  <2>5. QED  BY <1>2, <1>3, <2>1, <2>3, <2>4
<1>4. CASE ServeKnown
  <2>1. known' # "asked"
    BY <1>4, RowType DEF ServeKnown, Dispatched, TypeOK, Statuses
  <2>2. QED  BY <1>4, <2>1 DEF ServeKnown, serverVars, Dispatched
<1>5. ASSUME NEW i \in Instance, PostReturns(i)
      PROVE  Dispatched'
  <2>1. active' = i /\ UNCHANGED <<stage, status>> /\ stage[i] # "none"
    BY <1>5 DEF PostReturns, Activate, serverVars, Dispatched
  <2>2. \A j \in Instance : post'[j] \in {"served", "done"} => post[j] \in {"served", "done"}
    BY <1>5 DEF PostReturns, TypeOK
  <2>3. \A f \in Form : pend'[f] = pend[f] \/ pend'[f] = PendAfter(i)
    BY <1>5 DEF PostReturns, TypeOK
  <2>4. i # None
    BY DEF Instance
  <2>5. QED  BY <2>1, <2>2, <2>3, <2>4 DEF PendAfter, Dispatched
<1>6. ASSUME NEW i \in Instance, PostFails(i)
      PROVE  Dispatched'
  BY <1>6 DEF PostFails, serverVars, Dispatched, TypeOK
<1>11. ASSUME NEW i \in Instance, Select(i)
       PROVE  Dispatched'
  <2>1. active' = i /\ i # None /\ stage[i] # "none" /\ UNCHANGED <<stage, status, post, pend>>
    BY <1>11 DEF Select, Activate, serverVars, Instance
  <2>2. QED  BY <2>1 DEF Dispatched
<1>7. CASE \E f \in Form : Submit(f)
  BY <1>7 DEF Submit, serverVars, Dispatched, TypeOK
<1>8. CASE ReceiveStatus
  <2>1. \A f \in Form : pend'[f] # None => pend'[f] = pend[f] /\ status'[pend[f]] = status[pend[f]]
    BY <1>8 DEF ReceiveStatus, SetStatus, TypeOK
  <2>2. QED  BY <1>8, <2>1 DEF ReceiveStatus, serverVars, Dispatched
<1>9. CASE ReceiveEvent \/ SocketDrop \/ SocketOpen
  BY <1>9 DEF ReceiveEvent, SocketDrop, SocketOpen, pageVars, serverVars, Dispatched
<1>10. QED  BY <1>1, <1>2, <1>3, <1>4, <1>5, <1>6, <1>7, <1>8, <1>9, <1>11 DEF ServerStep, PageStep

Typed == TypeOK /\ Dispatched

LEMMA TypedInvariant == Spec => []Typed
<1>1. Init => Typed
  <2>1. Init => TypeOK
    BY DEF Init, TypeOK, Statuses
  <2>2. Init => Dispatched
    BY DEF Init, Dispatched
  <2>3. QED  BY <2>1, <2>2 DEF Typed
<1>2. TypeOK /\ UNCHANGED vars => TypeOK'
  BY DEF TypeOK, vars, pageVars, serverVars
<1>3. Typed /\ [Next]_vars => Typed'
  BY <1>2, NextCases, ServerType, PageType, StepDispatched DEF Typed
<1>4. QED  BY <1>1, <1>3, PTL DEF Spec

\* Every variable of the page and of the server's side of it keeps its type ($nodeId.tsx,
\* wsStore.ts).
THEOREM TypeCorrect == Spec => []TypeOK
BY TypedInvariant, PTL DEF Typed

-----------------------------------------------------------------------------
(* Catching up.  Of an instance whose last broadcast could reach the tab, the *)
(* last status on its way is the row's, or none is on its way and the store   *)
(* has the row's.                                                             *)

Follows(i) ==
  \/ \E n \in StatusQueued(i) :
        inbox[n].body = Row(stage[i]) /\ \A m \in StatusQueued(i) : m <= n
  \/ StatusQueued(i) = {} /\ status[i] = Row(stage[i])

CatchInv ==
  \A i \in Instance : stage[i] \notin {"none", "pending"} /\ i \notin missed => Follows(i)

\* A message at the end of the queue.
LEMMA AppendStatus ==
  ASSUME TypeOK, NEW i \in Instance, NEW m \in Message, inbox' = Append(inbox, m)
  PROVE  /\ m.kind = "status" /\ m.inst = i =>
              Len(inbox) + 1 \in StatusQueued(i)' /\ inbox'[Len(inbox) + 1] = m
              /\ \A n \in StatusQueued(i)' : n <= Len(inbox) + 1
         /\ ~(m.kind = "status" /\ m.inst = i) => StatusQueued(i)' = StatusQueued(i)
         /\ \A n \in 1..Len(inbox) : inbox'[n] = inbox[n]
<1>1. inbox \in Seq(Message) /\ Len(inbox) \in Nat
  BY DEF TypeOK
<1>2. /\ Len(inbox') = Len(inbox) + 1
      /\ inbox'[Len(inbox) + 1] = m
      /\ \A n \in 1..Len(inbox) : inbox'[n] = inbox[n]
  BY <1>1
<1>3. QED  BY <1>1, <1>2 DEF StatusQueued

\* The first message is taken from the queue.
LEMMA TailStatus ==
  ASSUME TypeOK, NEW i \in Instance, inbox # <<>>, inbox' = Tail(inbox)
  PROVE  /\ StatusQueued(i)' = {n - 1 : n \in StatusQueued(i) \ {1}}
         /\ \A n \in StatusQueued(i) \ {1} : inbox'[n - 1] = inbox[n]
         /\ 1 \in StatusQueued(i) <=> Head(inbox).kind = "status" /\ Head(inbox).inst = i
<1>1. inbox \in Seq(Message) /\ Len(inbox) \in Nat \ {0} /\ Head(inbox) = inbox[1]
  BY DEF TypeOK
<1>2. /\ Len(inbox') = Len(inbox) - 1
      /\ \A n \in 1..(Len(inbox) - 1) : inbox'[n] = inbox[n + 1]
  BY <1>1
<1>3. \A n \in 2..Len(inbox) : n - 1 \in 1..(Len(inbox) - 1) /\ inbox'[n - 1] = inbox[n]
  BY <1>1, <1>2
<1>4. \A n \in StatusQueued(i) \ {1} : n - 1 \in StatusQueued(i)'
  BY <1>1, <1>2, <1>3 DEF StatusQueued
<1>5. \A k \in StatusQueued(i)' : k + 1 \in StatusQueued(i) \ {1} /\ k = (k + 1) - 1
  BY <1>1, <1>2 DEF StatusQueued
<1>6. StatusQueued(i)' = {n - 1 : n \in StatusQueued(i) \ {1}}
  BY <1>4, <1>5
<1>7. QED  BY <1>1, <1>3, <1>6 DEF StatusQueued

\* A status broadcast to the tab is the row's.
LEMMA BroadcastFollows ==
  ASSUME TypeOK, CatchInv, NEW i \in Instance, NEW s \in Statuses, BroadcastStatus(i, s),
         UNCHANGED status, s = Row(stage'[i]),
         \A j \in Instance \ {i} : stage'[j] = stage[j]
  PROVE  CatchInv'
<1>1. CASE inbox' = Append(inbox, StatusOf(i, s)) /\ missed' = missed \ {i}
  <2>1. inbox' = Append(inbox, StatusOf(i, s)) /\ StatusOf(i, s) \in Message /\ missed' = missed \ {i}
    BY <1>1, StatusType
  <2>2. Follows(i)'
    <3>1. Len(inbox) + 1 \in StatusQueued(i)' /\ inbox'[Len(inbox) + 1].body = s
          /\ \A n \in StatusQueued(i)' : n <= Len(inbox) + 1
      BY <2>1, AppendStatus DEF StatusOf
    <3>2. QED  BY <3>1 DEF Follows
  <2>3. ASSUME NEW j \in Instance, j # i, Follows(j)
        PROVE  Follows(j)'
    <3>1. StatusQueued(j)' = StatusQueued(j) /\ \A n \in 1..Len(inbox) : inbox'[n] = inbox[n]
      BY <2>1, <2>3, AppendStatus DEF StatusOf
    <3>2. \A n \in StatusQueued(j) : n \in 1..Len(inbox)
      BY DEF StatusQueued
    <3>3. stage'[j] = stage[j]
      BY <2>3
    <3>4. QED  BY <2>3, <3>1, <3>2, <3>3 DEF Follows
  <2>4. QED  BY <2>1, <2>2, <2>3 DEF CatchInv
<1>2. CASE missed' = missed \cup {i} /\ UNCHANGED inbox
  <2>1. \A j \in Instance \ {i} : Follows(j) => Follows(j)'
    BY <1>2 DEF Follows, StatusQueued
  <2>2. QED  BY <1>2, <2>1 DEF CatchInv
<1>3. QED  BY <1>1, <1>2 DEF BroadcastStatus

LEMMA ServerFollows ==
  ASSUME TypeOK, CatchInv, ServerStep
  PROVE  CatchInv'
<1>1. ASSUME NEW i \in Instance, ServePost(i)
      PROVE  CatchInv'
  <2>1. stage'[i] = "pending" /\ (\A j \in Instance \ {i} : stage'[j] = stage[j])
        /\ UNCHANGED <<inbox, status, missed>>
    BY <1>1 DEF ServePost, TypeOK
  <2>2. QED  BY <2>1 DEF CatchInv, Follows, StatusQueued
<1>2. ASSUME NEW i \in Instance, NodeReports(i)
      PROVE  CatchInv'
  <2>1. PICK s \in {"running", "finished"} :
            stage' = [stage EXCEPT ![i] = s] /\ BroadcastStatus(i, s)
    BY <1>2 DEF NodeReports
  <2>2. stage'[i] = s /\ s \in Statuses /\ s = Row(stage'[i]) /\ UNCHANGED status
    BY <1>2, <2>1 DEF NodeReports, TypeOK, Row, Statuses, pageVars
  <2>3. \A j \in Instance \ {i} : stage'[j] = stage[j]
    BY <2>1 DEF TypeOK
  <2>4. QED  BY <2>1, <2>2, <2>3, BroadcastFollows
<1>3. ASSUME NEW i \in Instance, NodeStarts(i)
      PROVE  CatchInv'
  <2>1. BroadcastStatus(i, "running") /\ UNCHANGED <<stage, status>>
        /\ "running" \in Statuses /\ "running" = Row(stage'[i])
    BY <1>3 DEF NodeStarts, serverVars, pageVars, Row, Statuses
  <2>2. QED  BY <2>1, BroadcastFollows
<1>4. ASSUME NEW i \in Instance, NodeStreams(i)
      PROVE  CatchInv'
  <2>1. UNCHANGED <<stage, status, missed>>
    BY <1>4 DEF NodeStreams, pageVars
  <2>2. CASE UNCHANGED inbox
    BY <2>1, <2>2 DEF CatchInv, Follows, StatusQueued
  <2>3. CASE inbox' = Append(inbox, Event(i, emitted[i] + 1))
    <3>1. Event(i, emitted[i] + 1) \in Message /\ Event(i, emitted[i] + 1).kind = "event"
      BY SMTT(30), <1>4 DEF NodeStreams, TypeOK, Event, Message
    <3>2. \A j \in Instance : StatusQueued(j)' = StatusQueued(j) /\ \A n \in StatusQueued(j) : inbox'[n] = inbox[n]
      BY <2>3, <3>1, AppendStatus DEF StatusQueued
    <3>3. QED  BY <2>1, <3>2 DEF CatchInv, Follows
  <2>4. QED  BY <1>4, <2>2, <2>3 DEF NodeStreams
<1>5. CASE NodeDown
  <2>1. \A j \in Instance : j \notin missed' => j \notin missed /\ stage'[j] = stage[j]
    BY <1>5 DEF NodeDown, TypeOK
  <2>2. UNCHANGED <<inbox, status>>
    BY <1>5 DEF NodeDown, pageVars
  <2>3. QED  BY <2>1, <2>2 DEF CatchInv, Follows, StatusQueued
<1>6. CASE TakeSubscribe
  <2>1. UNCHANGED <<stage, status, missed>>
    BY <1>6 DEF TakeSubscribe, pageVars
  <2>2. CASE UNCHANGED inbox
    BY <2>1, <2>2 DEF CatchInv, Follows, StatusQueued
  <2>3. ASSUME NEW j \in Instance, NEW k \in 0..emitted[j], inbox' = inbox \o Replay(j, k)
        PROVE  CatchInv'
    <3>1. inbox \in Seq(Message) /\ Len(inbox) \in Nat
      BY DEF TypeOK
    <3>2. PICK more \in Seq(Message) : more = Replay(j, k) /\ \A n \in 1..Len(more) : more[n].kind = "event"
      BY ReplayEvents
    <3>3. /\ Len(inbox') = Len(inbox) + Len(more)
          /\ \A n \in 1..Len(inbox) : inbox'[n] = inbox[n]
          /\ \A n \in 1..Len(inbox') : n \notin 1..Len(inbox) => inbox'[n].kind = "event"
      BY <2>3, <3>1, <3>2
    <3>4. \A i \in Instance : StatusQueued(i)' = StatusQueued(i) /\ \A n \in StatusQueued(i) : inbox'[n] = inbox[n]
      <4>1. Len(more) \in Nat
        BY <3>2
      <4>2. QED  BY <3>1, <3>3, <4>1 DEF StatusQueued
    <3>5. QED  BY <2>1, <3>4 DEF CatchInv, Follows
  <2>4. QED  BY <1>6, <2>2, <2>3, TakeCases
<1>7. CASE ServeKnown
  BY <1>7 DEF ServeKnown, serverVars, CatchInv, Follows, StatusQueued
<1>8. QED  BY <1>1, <1>2, <1>3, <1>4, <1>5, <1>6, <1>7 DEF ServerStep

LEMMA PageFollows ==
  ASSUME TypeOK, CatchInv, PageStep
  PROVE  CatchInv'
<1>1. CASE UNCHANGED <<stage, status, missed, inbox>>
  BY <1>1 DEF CatchInv, Follows, StatusQueued
<1>2. CASE ReceiveStatus \/ ReceiveEvent
  <2>1. inbox # <<>> /\ inbox' = Tail(inbox) /\ UNCHANGED <<stage, missed>>
    BY <1>2 DEF ReceiveStatus, ReceiveEvent, serverVars
  <2>2. ASSUME NEW i \in Instance, Follows(i), 1 \notin StatusQueued(i), status'[i] = status[i]
        PROVE  Follows(i)'
    <3>1. StatusQueued(i)' = {n - 1 : n \in StatusQueued(i)} /\ \A n \in StatusQueued(i) : inbox'[n - 1] = inbox[n]
      <4>1. StatusQueued(i) \ {1} = StatusQueued(i)
        BY <2>2
      <4>2. QED  BY <2>1, <4>1, TailStatus
    <3>2. StatusQueued(i) \subseteq Nat
      BY DEF StatusQueued
    <3>3. CASE StatusQueued(i) = {}
      BY <2>1, <2>2, <3>1, <3>3 DEF Follows
    <3>4. ASSUME NEW n \in StatusQueued(i), inbox[n].body = Row(stage[i]), \A m \in StatusQueued(i) : m <= n
          PROVE  Follows(i)'
      <4>1. n - 1 \in StatusQueued(i)' /\ inbox'[n - 1].body = Row(stage'[i])
        BY <2>1, <3>1, <3>4
      <4>2. \A m \in StatusQueued(i)' : m <= n - 1
        BY <3>1, <3>2, <3>4
      <4>3. QED  BY <4>1, <4>2 DEF Follows
    <3>5. QED  BY <2>2, <3>3, <3>4 DEF Follows
  <2>3. ASSUME NEW i \in Instance, Follows(i), 1 \in StatusQueued(i), status'[i] = inbox[1].body
        PROVE  Follows(i)'
    <3>1. StatusQueued(i)' = {n - 1 : n \in StatusQueued(i) \ {1}}
          /\ \A n \in StatusQueued(i) \ {1} : inbox'[n - 1] = inbox[n]
      BY <2>1, TailStatus
    <3>2. StatusQueued(i) \subseteq Nat /\ \A m \in StatusQueued(i) : m >= 1
      BY DEF StatusQueued
    <3>3. PICK n \in StatusQueued(i) : inbox[n].body = Row(stage[i]) /\ \A m \in StatusQueued(i) : m <= n
      BY <2>3 DEF Follows
    <3>4. CASE n = 1
      <4>1. StatusQueued(i) \ {1} = {}
        BY <3>2, <3>3, <3>4
      <4>2. QED  BY <2>1, <2>3, <3>1, <3>3, <3>4, <4>1 DEF Follows
    <3>5. CASE n # 1
      <4>1. n - 1 \in StatusQueued(i)' /\ inbox'[n - 1].body = Row(stage'[i])
        BY <2>1, <3>1, <3>3, <3>5
      <4>2. \A m \in StatusQueued(i)' : m <= n - 1
        BY <3>1, <3>2, <3>3
      <4>3. QED  BY <4>1, <4>2 DEF Follows
    <3>6. QED  BY <3>4, <3>5
  <2>4. ASSUME NEW i \in Instance
        PROVE  \/ 1 \notin StatusQueued(i) /\ status'[i] = status[i]
               \/ 1 \in StatusQueued(i) /\ status'[i] = inbox[1].body
    <3>1. 1 \in StatusQueued(i) <=> Head(inbox).kind = "status" /\ Head(inbox).inst = i
      BY <2>1, TailStatus
    <3>2. Head(inbox) = inbox[1]
      BY <2>1 DEF TypeOK
    <3>3. CASE ReceiveStatus
      BY <3>1, <3>2, <3>3 DEF ReceiveStatus, SetStatus, TypeOK
    <3>4. CASE ReceiveEvent
      BY <3>1, <3>4 DEF ReceiveEvent
    <3>5. QED  BY <1>2, <3>3, <3>4
  <2>5. QED  BY <2>1, <2>2, <2>3, <2>4 DEF CatchInv
<1>3. CASE SocketDrop
  <2>1. ASSUME NEW i \in Instance, i \notin missed', Follows(i)
        PROVE  Follows(i)'
    <3>1. StatusQueued(i) = {}
      BY <1>3, <2>1 DEF SocketDrop, StatusQueued, ToSet, TypeOK
    <3>2. StatusQueued(i)' = {}
      BY <1>3 DEF SocketDrop, StatusQueued
    <3>3. QED  BY <1>3, <2>1, <3>1, <3>2 DEF SocketDrop, pageVars, Follows
  <2>2. UNCHANGED stage /\ missed \subseteq missed'
    BY <1>3 DEF SocketDrop
  <2>3. QED  BY <2>1, <2>2 DEF CatchInv
<1>4. QED  BY <1>1, <1>2, <1>3 DEF PageStep, PostReturns, PostFails, Select, Submit, SocketOpen,
                                  serverVars, pageVars

LEMMA CatchInvariant == Spec => []CatchInv
<1>1. Init => CatchInv
  BY DEF Init, CatchInv
<1>2. CatchInv /\ UNCHANGED vars => CatchInv'
  BY DEF vars, pageVars, serverVars, CatchInv, Follows, StatusQueued
<1>3. Typed /\ CatchInv /\ [Next]_vars => CatchInv'
  BY <1>2, NextCases, ServerFollows, PageFollows DEF Typed
<1>4. QED  BY <1>1, <1>3, TypedInvariant, PTL DEF Spec

\* However dispatches, subscriptions, broadcasts, losses and reconnects interleave, a tab
\* that was told the last status of an instance (it was subscribed, its queue had room,
\* its socket held) has it or is about to (wsStore.ts, broadcast_instance_status).
THEOREM TabCatchesUp == Spec => []StatusCatchesUp
<1>1. ASSUME CatchInv
      PROVE  StatusCatchesUp
  <2> SUFFICES ASSUME NEW i \in Instance, Follows(i)
               PROVE  LastStatus(i) = Row(stage[i])
    BY <1>1 DEF CatchInv, StatusCatchesUp
  <2>1. CASE StatusQueued(i) = {}
    BY <2>1 DEF Follows, LastStatus
  <2>2. ASSUME NEW n \in StatusQueued(i), inbox[n].body = Row(stage[i]), \A m \in StatusQueued(i) : m <= n
        PROVE  LastStatus(i) = Row(stage[i])
    <3>1. StatusQueued(i) \subseteq Int
      BY DEF StatusQueued
    <3>2. Max(StatusQueued(i)) = n
      BY <2>2, <3>1 DEF Max
    <3>3. QED  BY <2>2, <3>2 DEF LastStatus
  <2>3. QED  BY <2>1, <2>2 DEF Follows
<1>2. QED  BY <1>1, CatchInvariant, PTL

\* A form says "Awaiting ACK..." only for an instance that is not yet acknowledged, whose
\* status is on its way, or whose broadcast could not reach the tab (ExecuteForm.tsx:63,
\* CommandPalette.tsx).
THEOREM WaitsForAReason == Spec => []AwaitingHasReason
<1>1. ASSUME Typed, CatchInv
      PROVE  AwaitingHasReason
  <2> SUFFICES ASSUME NEW f \in Form, pend[f] # None, stage[pend[f]] # "pending", pend[f] \notin missed
               PROVE  StatusQueued(pend[f]) # {}
    BY DEF AwaitingHasReason
  <2>1. pend[f] \in Instance /\ stage[pend[f]] # "none" /\ status[pend[f]] = "unknown"
    BY <1>1 DEF Typed, TypeOK, Dispatched
  <2>2. Follows(pend[f])
    BY <1>1, <2>1 DEF CatchInv
  <2>3. Row(stage[pend[f]]) # "unknown"
    BY <1>1, <2>1, RowType DEF Typed, Statuses
  <2>4. QED  BY <2>1, <2>2, <2>3 DEF Follows
<1>2. QED  BY <1>1, TypedInvariant, CatchInvariant, PTL

-----------------------------------------------------------------------------
(* The panel.  An instance that nobody has acknowledged nobody was told of,   *)
(* and the page shows the store's status or, failing that, the API's.         *)

Unacked == {"none", "pending"}

Silent ==
  /\ \A n \in 1..Len(inbox) : inbox[n].kind = "status" => stage[inbox[n].inst] \notin Unacked
  /\ \A i \in Instance : stage[i] \in Unacked => status[i] = "unknown"
  /\ \A i \in Instance : post[i] \in {"unused", "sent"} => stage[i] = "none"

Shows ==
  active # None /\ active \notin preset =>
    /\ status[active] # "unknown" => shown = status[active]
    /\ status[active] = "unknown" /\ known # "asked" /\ stage[active] = "pending" => shown = "pending"

\* Nothing returns to an unacknowledged stage, and a new message tells of another one.
LEMMA ServerSilent ==
  ASSUME TypeOK, Silent, UNCHANGED <<status, post>>,
         \A n \in 1..Len(inbox') :
           \/ n \in 1..Len(inbox) /\ inbox'[n] = inbox[n]
           \/ inbox'[n].kind = "status" => stage'[inbox'[n].inst] \notin Unacked,
         \A i \in Instance : stage'[i] \in Unacked \/ stage[i] = "none" => stage'[i] = stage[i]
  PROVE  Silent'
<1>1. \A n \in 1..Len(inbox) : inbox[n].inst \in Instance
  BY DEF TypeOK, Message
<1>2. \A n \in 1..Len(inbox') : inbox'[n].kind = "status" => stage'[inbox'[n].inst] \notin Unacked
  BY <1>1 DEF Silent
<1>3. \A i \in Instance : stage'[i] \in Unacked => status'[i] = "unknown"
  BY DEF Silent
<1>4. \A i \in Instance : post'[i] \in {"unused", "sent"} => stage'[i] = "none"
  BY DEF Silent
<1>5. QED  BY <1>2, <1>3, <1>4 DEF Silent

LEMMA BroadcastSilent ==
  ASSUME TypeOK, Silent, NEW i \in Instance, NEW s \in Statuses, BroadcastStatus(i, s),
         UNCHANGED <<status, post>>, stage'[i] \notin Unacked, stage[i] # "none",
         \A j \in Instance \ {i} : stage'[j] = stage[j]
  PROVE  Silent'
<1>1. inbox' = inbox \/ inbox' = Append(inbox, StatusOf(i, s))
  BY DEF BroadcastStatus
<1>2. inbox \in Seq(Message)
  BY DEF TypeOK
<1>3. \A n \in 1..Len(inbox') :
         \/ n \in 1..Len(inbox) /\ inbox'[n] = inbox[n]
         \/ inbox'[n] = StatusOf(i, s)
  BY <1>1, <1>2, StatusType
<1>4. stage'[StatusOf(i, s).inst] \notin Unacked
  BY DEF StatusOf
<1>5. QED  BY <1>3, <1>4, ServerSilent

LEMMA StepSilent ==
  ASSUME TypeOK, Dispatched, Silent, ServerStep \/ PageStep
  PROVE  Silent'
<1>0. inbox \in Seq(Message) /\ \A n \in 1..Len(inbox) : inbox[n].inst \in Instance
  BY DEF TypeOK, Message
<1>a. PICK S : stage \in [Instance -> S]
  BY DEF TypeOK
<1>b. PICK P : post \in [Instance -> P]
  BY DEF TypeOK
<1>1. ASSUME NEW i \in Instance, ServePost(i)
      PROVE  Silent'
  <2>1. /\ stage[i] = "none" /\ stage'[i] = "pending" /\ post'[i] = "served"
        /\ \A j \in Instance \ {i} : stage'[j] = stage[j] /\ post'[j] = post[j]
        /\ UNCHANGED <<inbox, status>>
    BY <1>a, <1>b, <1>1 DEF ServePost, Silent
  <2>2. \A n \in 1..Len(inbox) : inbox[n].kind = "status" => inbox[n].inst # i
    BY <2>1 DEF Silent, Unacked
  <2>3. \A n \in 1..Len(inbox') : inbox'[n].kind = "status" => stage'[inbox'[n].inst] \notin Unacked
    BY <1>0, <2>1, <2>2 DEF Silent
  <2>4. QED  BY <2>1, <2>3 DEF Silent, Unacked
<1>2. ASSUME NEW i \in Instance, NodeReports(i)
      PROVE  Silent'
  <2>1. PICK s \in {"running", "finished"} :
            stage[i] \in Live /\ stage' = [stage EXCEPT ![i] = s] /\ BroadcastStatus(i, s)
    BY <1>2 DEF NodeReports
  <2>2. s \in Statuses /\ stage'[i] \notin Unacked /\ stage[i] # "none"
        /\ (\A j \in Instance \ {i} : stage'[j] = stage[j]) /\ UNCHANGED <<status, post>>
    BY <1>a, <1>2, <2>1 DEF NodeReports, Statuses, Unacked, Live, pageVars
  <2>3. QED  BY <2>1, <2>2, BroadcastSilent
<1>3. ASSUME NEW i \in Instance, NodeStarts(i)
      PROVE  Silent'
  <2>1. BroadcastStatus(i, "running") /\ UNCHANGED <<stage, status, post>>
        /\ "running" \in Statuses /\ stage[i] \notin Unacked /\ stage[i] # "none"
    BY <1>3 DEF NodeStarts, serverVars, pageVars, Statuses, Unacked
  <2>2. QED  BY <2>1, BroadcastSilent
<1>4. ASSUME NEW i \in Instance, NodeStreams(i)
      PROVE  Silent'
  <2>1. UNCHANGED <<stage, status, post>>
        /\ (inbox' = inbox \/ inbox' = Append(inbox, Event(i, emitted[i] + 1)))
    BY <1>4 DEF NodeStreams, pageVars
  <2>2. Event(i, emitted[i] + 1).kind = "event"
    BY DEF Event
  <2>3. \A n \in 1..Len(inbox') :
           (n \in 1..Len(inbox) /\ inbox'[n] = inbox[n]) \/ inbox'[n].kind = "event"
    BY <1>0, <2>1, <2>2
  <2>4. QED  BY <2>1, <2>3, ServerSilent
<1>5. CASE NodeDown
  <2>1. UNCHANGED <<inbox, status, post>>
    BY <1>5 DEF NodeDown, pageVars
  <2>2. \A j \in Instance : stage'[j] = stage[j] \/ (stage[j] \in Live /\ stage'[j] = "lost")
    BY <1>a, <1>5 DEF NodeDown
  <2>3. \A j \in Instance : stage'[j] \in Unacked \/ stage[j] = "none" => stage'[j] = stage[j]
    BY <2>2 DEF Unacked, Live
  <2>4. QED  BY <2>1, <2>3, ServerSilent
<1>6. CASE TakeSubscribe
  <2>1. UNCHANGED <<stage, status, post>>
    BY <1>6 DEF TakeSubscribe, pageVars
  <2>2. ASSUME NEW j \in Instance, NEW k \in 0..emitted[j], inbox' = inbox \o Replay(j, k), NEW n \in 1..Len(inbox')
        PROVE  (n \in 1..Len(inbox) /\ inbox'[n] = inbox[n]) \/ inbox'[n].kind = "event"
    <3>1. PICK more \in Seq(Message) : more = Replay(j, k) /\ \A m \in 1..Len(more) : more[m].kind = "event"
      BY ReplayEvents
    <3>2. QED  BY <1>0, <2>2, <3>1
  <2>3. \A n \in 1..Len(inbox') :
           (n \in 1..Len(inbox) /\ inbox'[n] = inbox[n]) \/ inbox'[n].kind = "event"
    BY <1>6, <2>2, TakeCases
  <2>4. QED  BY <2>1, <2>3, ServerSilent
<1>7. CASE ServeKnown
  BY <1>7 DEF ServeKnown, serverVars, Silent
<1>8. CASE ReceiveStatus \/ ReceiveEvent
  <2>1. inbox # <<>> /\ inbox' = Tail(inbox) /\ UNCHANGED <<stage, post>>
    BY <1>8 DEF ReceiveStatus, ReceiveEvent, serverVars
  <2>2. \A n \in 1..Len(inbox') : n + 1 \in 1..Len(inbox) /\ inbox'[n] = inbox[n + 1]
    BY <1>0, <2>1
  <2>3. \A i \in Instance : stage[i] \in Unacked => status'[i] = status[i]
    <3>1. CASE ReceiveEvent
      BY <3>1 DEF ReceiveEvent
    <3>2. CASE ReceiveStatus
      <4>1. inbox[1].kind = "status" /\ 1 \in 1..Len(inbox) /\ Head(inbox) = inbox[1]
        BY <1>0, <3>2 DEF ReceiveStatus
      <4>2. stage[Head(inbox).inst] \notin Unacked
        BY <4>1 DEF Silent
      <4>3. QED  BY <3>2, <4>2 DEF ReceiveStatus, SetStatus, TypeOK
    <3>3. QED  BY <1>8, <3>1, <3>2
  <2>4. QED  BY <2>1, <2>2, <2>3 DEF Silent
<1>9. CASE SocketDrop \/ SocketOpen
  <2>1. UNCHANGED <<stage, status, post>> /\ (inbox' = inbox \/ Len(inbox') = 0)
    BY <1>9 DEF SocketDrop, SocketOpen, serverVars, pageVars
  <2>2. QED  BY <2>1 DEF Silent
<1>10. ASSUME NEW i \in Instance, PostReturns(i) \/ PostFails(i) \/ Select(i)
       PROVE  Silent'
  <2>1. UNCHANGED <<stage, status, inbox>>
    BY <1>10 DEF PostReturns, PostFails, Select, serverVars
  <2>2. \A j \in Instance : post'[j] \in {"unused", "sent"} => post'[j] = post[j]
    BY <1>b, <1>10 DEF PostReturns, PostFails, Select
  <2>3. QED  BY <2>1, <2>2 DEF Silent
<1>11. CASE \E f \in Form : Submit(f)
  <2>1. PICK i \in Instance : post[i] = "unused" /\ post' = [post EXCEPT ![i] = "sent"]
    BY <1>11 DEF Submit
  <2>2. UNCHANGED <<stage, status, inbox>>
    BY <1>11 DEF Submit, serverVars
  <2>3. QED  BY <1>b, <2>1, <2>2 DEF Silent
<1>12. QED
  BY <1>1, <1>2, <1>3, <1>4, <1>5, <1>6, <1>7, <1>8, <1>9, <1>10, <1>11 DEF ServerStep, PageStep

LEMMA StepShows ==
  ASSUME TypeOK, Dispatched, Silent, Shows, ServerStep \/ PageStep
  PROVE  Shows'
<1>a. PICK S : stage \in [Instance -> S]
  BY DEF TypeOK
<1>b. PICK P : status \in [Instance -> P]
  BY DEF TypeOK
<1>c. active \in Instance \cup {None} /\ (active # None => stage[active] # "none")
  BY DEF TypeOK, Dispatched
<1>1. ASSUME UNCHANGED <<status, active, shown, known, preset>>,
             active # None /\ stage'[active] = "pending" => stage[active] = "pending"
      PROVE  Shows'
  BY <1>1 DEF Shows
<1>2. ASSUME NEW i \in Instance, ServePost(i)
      PROVE  Shows'
  <2>1. UNCHANGED <<status, active, shown, known, preset>> /\ stage[i] = "none"
        /\ \A j \in Instance \ {i} : stage'[j] = stage[j]
    BY <1>a, <1>2 DEF ServePost, Silent
  <2>2. QED  BY <1>1, <1>c, <2>1
<1>3. ASSUME NEW i \in Instance, NodeReports(i) \/ NodeStarts(i) \/ NodeStreams(i)
      PROVE  Shows'
  <2>1. UNCHANGED <<status, active, shown, known, preset>>
    BY <1>3 DEF NodeReports, NodeStarts, NodeStreams, pageVars
  <2>2. \A j \in Instance : stage'[j] = "pending" => stage[j] = "pending"
    BY <1>a, <1>3 DEF NodeReports, NodeStarts, NodeStreams, serverVars
  <2>3. QED  BY <1>1, <1>c, <2>1, <2>2
<1>4. CASE NodeDown \/ TakeSubscribe \/ SocketDrop \/ SocketOpen
  <2>1. UNCHANGED <<status, active, shown, known, preset>>
    BY <1>4 DEF NodeDown, TakeSubscribe, SocketDrop, SocketOpen, pageVars
  <2>2. \A j \in Instance : stage'[j] = "pending" => stage[j] = "pending"
    BY <1>a, <1>4 DEF NodeDown, TakeSubscribe, SocketDrop, SocketOpen, serverVars
  <2>3. QED  BY <1>1, <1>c, <2>1, <2>2
<1>5. CASE ServeKnown
  <2>1. /\ UNCHANGED <<stage, status, active, preset>>
        /\ shown' = IF status[active] = "unknown" THEN Row(stage[active]) ELSE shown
    BY <1>5 DEF ServeKnown, serverVars
  <2>2. QED  BY <2>1 DEF Shows, Row
<1>6. ASSUME NEW i \in Instance, PostReturns(i) \/ Select(i)
      PROVE  Shows'
  <2>1. active' = i /\ UNCHANGED <<stage, status>> /\ preset \subseteq preset'
        /\ known' = IF active = i THEN known ELSE "asked"
    BY <1>6 DEF PostReturns, Select, Activate, serverVars
  <2>2. active = i => i \in preset'
    BY <1>6 DEF PostReturns, Select
  <2>3. active # i /\ status[i] # "unknown" => shown' = status[i]
    BY <1>6 DEF PostReturns, Select
  <2>4. QED  BY <2>1, <2>2, <2>3 DEF Shows
<1>7. CASE (\E i \in Instance : PostFails(i)) \/ (\E f \in Form : Submit(f)) \/ ReceiveEvent
  <2>1. UNCHANGED <<stage, status, active, shown, known, preset>>
    BY <1>7 DEF PostFails, Submit, ReceiveEvent, serverVars
  <2>2. QED  BY <1>1, <2>1
<1>8. CASE ReceiveStatus
  <2>1. PICK i \in Instance, s \in Statuses :
          /\ status' = [status EXCEPT ![i] = s]
          /\ shown' = IF active = i THEN s ELSE shown
    <3>1. inbox # <<>> /\ Head(inbox).kind = "status"
      BY <1>8 DEF ReceiveStatus
    <3>2. Head(inbox).inst \in Instance /\ Head(inbox).body \in Statuses
      BY <3>1, HeadType DEF Message
    <3>3. QED  BY <1>8, <3>2 DEF ReceiveStatus, SetStatus
  <2>2. UNCHANGED <<stage, active, known, preset>> /\ s # "unknown"
    BY <1>8 DEF ReceiveStatus, serverVars, Statuses
  <2>3. CASE active = i
    BY <1>b, <2>1, <2>2, <2>3 DEF Shows
  <2>4. CASE active # i
    BY <1>b, <1>c, <2>1, <2>2, <2>4 DEF Shows
  <2>5. QED  BY <2>3, <2>4
<1>9. QED
  BY <1>2, <1>3, <1>4, <1>5, <1>6, <1>7, <1>8 DEF ServerStep, PageStep

LEMMA ShowsInvariant == Spec => [](Silent /\ Shows)
<1>1. Init => Silent /\ Shows
  BY DEF Init, Silent, Shows
<1>2. Silent /\ Shows /\ UNCHANGED vars => Silent' /\ Shows'
  BY DEF vars, pageVars, serverVars, Silent, Shows
<1>3. Typed /\ Silent /\ Shows /\ [Next]_vars => Silent' /\ Shows'
  BY <1>2, NextCases, StepSilent, StepShows DEF Typed
<1>4. QED  BY <1>1, <1>3, TypedInvariant, PTL DEF Spec

\* When nothing is under way, the page streams and offers Kill exactly for a live row,
\* unless the last status could not reach it or the instance was selected before its own
\* dispatch returned ($nodeId.tsx:47, wsStore.ts).
THEOREM PanelFitsRow == Spec => []PanelShowsRow
<1>1. ASSUME Typed, CatchInv, Silent, Shows
      PROVE  PanelShowsRow
  <2> SUFFICES ASSUME active # None, inbox = <<>>, known # "asked", active \notin missed, active \notin preset
               PROVE  Panel = IF stage[active] \in Live THEN "stream" ELSE "history"
    BY DEF PanelShowsRow
  <2>1. active \in Instance /\ stage[active] # "none" /\ Row(stage[active]) # "unknown"
    BY <1>1, RowType DEF Typed, TypeOK, Dispatched, Statuses
  <2>2. CASE stage[active] = "pending"
    BY <1>1, <2>1, <2>2 DEF Silent, Unacked, Shows, Panel, Live
  <2>3. CASE stage[active] # "pending"
    <3>1. StatusQueued(active) = {}
      BY DEF StatusQueued
    <3>2. status[active] = Row(stage[active])
      BY <1>1, <2>1, <2>3, <3>1 DEF CatchInv, Follows
    <3>3. shown = Row(stage[active])
      BY <1>1, <2>1, <3>2 DEF Shows
    <3>4. stage[active] \in Live \cup {"none", "finished", "lost"}
      BY <1>1, <2>1 DEF Typed, TypeOK
    <3>5. QED  BY <2>1, <3>3, <3>4 DEF Panel, Row, Live
  <2>4. QED  BY <2>2, <2>3
<1>2. QED  BY <1>1, TypedInvariant, CatchInvariant, ShowsInvariant, PTL
-----------------------------------------------------------------------------
(* The stream.  What an instance has streamed and no full queue dropped       *)
(* arrives in one piece: a replay begins again at the first event, and every  *)
(* later event follows it.                                                    *)

\* The stream of i ends in its events: b of them received, the others at[b + 1] ...
\* in the queue.
Ends(i, b, at) ==
  /\ Len(buffer[i]) >= b
  /\ \A n \in 1..b : buffer[i][Len(buffer[i]) - b + n] = n
  /\ \A n \in (b + 1)..emitted[i] : inbox[at[n]].body = n
  /\ \A m, n \in (b + 1)..emitted[i] : m < n => at[m] < at[n]
  /\ emitted[i] > 0 => \A k \in EventQueued(i) :
       \/ \E n \in (b + 1)..emitted[i] : at[n] = k
       \/ b = 0 /\ \A n \in 1..emitted[i] : k < at[n]

Whole(i) ==
  \E b \in 0..emitted[i] : \E at \in [(b + 1)..emitted[i] -> EventQueued(i)] : Ends(i, b, at)

StreamInv ==
  /\ \A i \in Instance : stage[i] = "none" => emitted[i] = 0
  /\ \A i \in subs \ holed : stage[i] \in Live => Whole(i)

\* Nothing streamed leaves nothing to arrive.
LEMMA NothingYet ==
  ASSUME TypeOK', NEW i \in Instance, emitted'[i] = 0
  PROVE  Whole(i)'
<1> DEFINE at == [n \in 1..0 |-> n]
<1>1. Len(buffer'[i]) \in Nat
  BY DEF TypeOK
<1>2. 0 \in 0..emitted'[i] /\ at \in [(0 + 1)..emitted'[i] -> EventQueued(i)']
  OBVIOUS
<1>3. Ends(i, 0, at)'
  BY <1>1 DEF Ends
<1>4. QED  BY <1>2, <1>3 DEF Whole

\* Messages of others at the end of the queue.
LEMMA OthersAppended ==
  ASSUME TypeOK, NEW i \in Instance, Whole(i), emitted'[i] = emitted[i], buffer'[i] = buffer[i],
         Len(inbox') \in Nat, Len(inbox) <= Len(inbox'),
         \A k \in 1..Len(inbox) : inbox'[k] = inbox[k],
         \A k \in (Len(inbox) + 1)..Len(inbox') : ~(inbox'[k].kind = "event" /\ inbox'[k].inst = i)
  PROVE  Whole(i)'
<1>1. Len(inbox) \in Nat
  BY DEF TypeOK
<1>2. EventQueued(i)' = EventQueued(i) /\ \A k \in EventQueued(i) : inbox'[k] = inbox[k]
  BY <1>1 DEF EventQueued
<1>3. PICK b \in 0..emitted[i] : \E at \in [(b + 1)..emitted[i] -> EventQueued(i)] : Ends(i, b, at)
  BY DEF Whole
<1>4. PICK at \in [(b + 1)..emitted[i] -> EventQueued(i)] : Ends(i, b, at)
  BY <1>3
<1>5. \A n \in (b + 1)..emitted[i] : inbox'[at[n]] = inbox[at[n]]
  BY <1>2, <1>4
<1>6. Ends(i, b, at)'
  BY <1>2, <1>4, <1>5 DEF Ends
<1>7. QED  BY <1>2, <1>3, <1>4, <1>6 DEF Whole

LEMMA SameStream ==
  ASSUME TypeOK, NEW i \in Instance, Whole(i), emitted'[i] = emitted[i], buffer'[i] = buffer[i],
         inbox' = inbox
  PROVE  Whole(i)'
<1>1. Len(inbox) \in Nat
  BY DEF TypeOK
<1>2. \A k \in (Len(inbox) + 1)..Len(inbox') : FALSE
  BY <1>1
<1>3. QED  BY <1>1, <1>2, OthersAppended

LEMMA LastOrBefore ==
  ASSUME NEW b \in Nat, NEW e \in Nat
  PROVE  /\ \A n \in (b + 1)..(e + 1) : n = e + 1 \/ n \in (b + 1)..e
         /\ \A n \in (b + 1)..e : n \in (b + 1)..(e + 1) /\ n # e + 1
OBVIOUS

\* The next event of i at the end of the queue.
LEMMA NextStreams ==
  ASSUME TypeOK, NEW i \in Instance, Whole(i), UNCHANGED buffer, emitted[i] < MaxEvents,
         emitted'[i] = emitted[i] + 1, inbox' = Append(inbox, Event(i, emitted[i] + 1))
  PROVE  Whole(i)'
<1> DEFINE e == emitted[i]
           l == Len(inbox) + 1
<1>1. e \in Nat /\ inbox \in Seq(Message) /\ Len(inbox) \in Nat /\ emitted'[i] = e + 1
      /\ Event(i, e + 1) \in Message
  <2>1. e \in 0..MaxEvents /\ MaxEvents \in Nat /\ inbox \in Seq(Message)
    BY DEF TypeOK
  <2>2. QED  BY <2>1, EventType
<1>2. /\ Len(inbox') = l
      /\ \A k \in 1..Len(inbox) : inbox'[k] = inbox[k]
      /\ inbox'[l] = Event(i, e + 1)
  BY <1>1
<1>3. EventQueued(i)' = EventQueued(i) \cup {l} /\ \A k \in EventQueued(i) : inbox'[k] = inbox[k] /\ k < l
  BY <1>1, <1>2 DEF EventQueued, Event
<1>4. PICK b \in 0..e : \E at \in [(b + 1)..e -> EventQueued(i)] : Ends(i, b, at)
  BY DEF Whole
<1>5. PICK at \in [(b + 1)..e -> EventQueued(i)] : Ends(i, b, at)
  BY <1>4
<1>b. PICK next : next = [n \in (b + 1)..(e + 1) |-> IF n = e + 1 THEN l ELSE at[n]]
  OBVIOUS
<1>a. \A n \in (b + 1)..(e + 1) : n = e + 1 \/ n \in (b + 1)..e
  <2>1. b \in Nat /\ e \in Nat
    BY <1>1, <1>4
  <2>2. QED  BY <2>1, LastOrBefore
<1>c. \A n \in (b + 1)..e : n \in (b + 1)..(e + 1) /\ n # e + 1 /\ at[n] \in EventQueued(i)
  <2>1. b \in Nat /\ e \in Nat
    BY <1>1, <1>4
  <2>2. \A n \in (b + 1)..e : at[n] \in EventQueued(i)
    BY <1>5
  <2>3. QED  BY <2>1, <2>2, LastOrBefore
<1>6. next \in [(b + 1)..(e + 1) -> EventQueued(i) \cup {l}]
  BY <1>a, <1>b, <1>c
<1>7. \A n \in (b + 1)..e : n \in (b + 1)..(e + 1) /\ next[n] = at[n] /\ at[n] \in EventQueued(i)
  BY <1>b, <1>c
<1>8. e + 1 \in (b + 1)..(e + 1) /\ next[e + 1] = l
  BY <1>1, <1>4, <1>b
<1>9. \A n \in (b + 1)..(e + 1) : inbox'[next[n]].body = n
  <2>1. inbox'[l].body = e + 1
    BY <1>2 DEF Event
  <2>2. \A n \in (b + 1)..e : inbox'[next[n]].body = n
    BY <1>3, <1>5, <1>7 DEF Ends
  <2>3. QED  BY <1>8, <1>a, <2>1, <2>2
<1>10. \A m, n \in (b + 1)..(e + 1) : m < n => next[m] < next[n]
  <2>1. \A m, n \in (b + 1)..e : m < n => next[m] < next[n]
    BY <1>5, <1>7 DEF Ends
  <2>2. \A m \in (b + 1)..e : next[m] < l
    BY <1>3, <1>7
  <2>3. \A m \in (b + 1)..(e + 1) : ~(e + 1 < m)
    BY <1>1
  <2>4. QED  BY <1>8, <1>a, <2>1, <2>2, <2>3
<1>11. \A k \in EventQueued(i)' :
         \/ \E n \in (b + 1)..(e + 1) : next[n] = k
         \/ b = 0 /\ \A n \in 1..(e + 1) : k < next[n]
  <2> SUFFICES ASSUME NEW k \in EventQueued(i), ~\E n \in (b + 1)..(e + 1) : next[n] = k
               PROVE  b = 0 /\ \A n \in 1..(e + 1) : k < next[n]
    BY <1>3, <1>8
  <2>1. ~\E n \in (b + 1)..e : at[n] = k
    BY <1>7
  <2>2. k < l
    BY <1>3
  <2>3. CASE e = 0
    BY <1>1, <1>4, <1>8, <2>2, <2>3
  <2>4. CASE e > 0
    <3>1. b = 0 /\ \A n \in 1..e : k < at[n]
      BY <1>5, <2>1, <2>4 DEF Ends
    <3>2. QED  BY <1>7, <1>8, <1>a, <2>2, <3>1
  <2>5. QED  BY <1>1, <2>3, <2>4
<1>12. Ends(i, b, next)'
  <2>1. Len(buffer[i]) >= b /\ \A n \in 1..b : buffer[i][Len(buffer[i]) - b + n] = n
    BY <1>5 DEF Ends
  <2>2. QED  BY <1>1, <1>9, <1>10, <1>11, <2>1 DEF Ends
<1>13. b \in 0..(e + 1)
  BY <1>1, <1>4
<1>14. QED  BY <1>1, <1>3, <1>6, <1>12, <1>13 DEF Whole

LEMMA Joined ==
  ASSUME NEW S, NEW s \in Seq(S), NEW t \in Seq(S)
  PROVE  /\ s \o t \in Seq(S) /\ Len(s \o t) = Len(s) + Len(t)
         /\ \A n \in 1..Len(s) : (s \o t)[n] = s[n]
         /\ \A n \in 1..Len(t) : (s \o t)[Len(s) + n] = t[n] /\ Len(s) + n \in 1..(Len(s) + Len(t))
<1>1. s \o t \in Seq(S) /\ Len(s \o t) = Len(s) + Len(t)
  OBVIOUS
<1>2. \A n \in 1..Len(s) : (s \o t)[n] = s[n]
  OBVIOUS
<1>3. ASSUME NEW n \in 1..Len(t)
      PROVE  (s \o t)[Len(s) + n] = t[n] /\ Len(s) + n \in 1..(Len(s) + Len(t))
  <2>1. Len(s) \in Nat /\ Len(t) \in Nat /\ n \in Nat /\ n >= 1 /\ n <= Len(t)
    OBVIOUS
  <2>2. Len(s) + n \in 1..(Len(s) + Len(t)) /\ Len(s) + n > Len(s) /\ Len(s) + n - Len(s) = n
    BY <2>1
  <2>3. QED  BY <2>1, <2>2
<1>4. QED  BY <1>1, <1>2, <1>3

\* A replay begins a new stream.
LEMMA ReplayWhole ==
  ASSUME TypeOK, NEW i \in Instance, UNCHANGED <<emitted, buffer>>,
         inbox' = inbox \o Replay(i, emitted[i])
  PROVE  Whole(i)'
<1>e. PICK e \in Nat : e = emitted[i] /\ e = emitted'[i]
  BY DEF TypeOK
<1>l. PICK l \in Nat : l = Len(inbox)
  BY DEF TypeOK
<1>0. PICK at : at = [n \in 1..e |-> l + n]
  OBVIOUS
<1>1. inbox \in Seq(Message) /\ Replay(i, e) \in Seq(Message)
      /\ Len(Replay(i, e)) = e /\ \A n \in 1..e : Replay(i, e)[n] = Event(i, n)
  <2>1. e \in 0..emitted[i]
    BY <1>e
  <2>2. QED  BY <1>e, <2>1, ReplayType DEF TypeOK
<1>2. inbox' = inbox \o Replay(i, e)
  BY <1>e
<1>3. /\ Len(inbox') = l + e
      /\ \A n \in 1..e : inbox'[l + n] = Event(i, n) /\ l + n \in 1..(l + e)
  <2>1. PICK more \in Seq(Message) :
           more = Replay(i, e) /\ Len(more) = e /\ \A n \in 1..e : more[n] = Event(i, n)
    BY <1>1
  <2>2. /\ Len(inbox \o more) = l + Len(more)
        /\ \A n \in 1..Len(more) : (inbox \o more)[l + n] = more[n] /\ l + n \in 1..(l + Len(more))
    <3>1. /\ Len(inbox \o more) = Len(inbox) + Len(more)
          /\ \A n \in 1..Len(more) : (inbox \o more)[Len(inbox) + n] = more[n]
                                     /\ Len(inbox) + n \in 1..(Len(inbox) + Len(more))
      BY <1>1, Joined
    <3>2. QED  BY <1>l, <3>1
  <2>3. QED  BY <1>2, <2>1, <2>2
<1>4. at \in [1..e -> EventQueued(i)']
  <2>1. ASSUME NEW n \in 1..e
        PROVE  l + n \in EventQueued(i)'
    <3>1. l + n \in 1..Len(inbox') /\ inbox'[l + n] = Event(i, n)
      BY <1>3
    <3>2. QED  BY <3>1 DEF EventQueued, Event
  <2>2. QED  BY <1>0, <2>1
<1>5. \A k \in EventQueued(i)' : k \in Nat /\ (k <= l \/ (k - l \in 1..e /\ l + (k - l) = k))
  BY <1>3 DEF EventQueued
<1>6. Len(buffer'[i]) \in Nat
  BY DEF TypeOK
<1>7. ASSUME NEW n \in 1..e
      PROVE  inbox'[at[n]].body = n
  <2>1. at[n] = l + n /\ inbox'[l + n] = Event(i, n)
    BY <1>0, <1>3
  <2>2. QED  BY <2>1 DEF Event
<1>8. \A m, n \in 1..e : m < n => at[m] < at[n]
  <2>1. \A m, n \in 1..e : m < n => l + m < l + n
    OBVIOUS
  <2>2. QED  BY <1>0, <2>1
<1>9. \A k \in EventQueued(i)' : (\E n \in 1..e : at[n] = k) \/ \A n \in 1..e : k < at[n]
  <2> SUFFICES ASSUME NEW k \in EventQueued(i)'
               PROVE  (\E n \in 1..e : at[n] = k) \/ \A n \in 1..e : k < at[n]
    OBVIOUS
  <2>1. CASE k <= l
    <3>1. \A n \in 1..e : k < l + n
      BY <1>5, <2>1
    <3>2. QED  BY <1>0, <3>1
  <2>2. CASE k - l \in 1..e /\ l + (k - l) = k
    <3>1. at[k - l] = k
      BY <1>0, <2>2
    <3>2. QED  BY <2>2, <3>1
  <2>3. QED  BY <1>5, <2>1, <2>2
<1>10. Ends(i, 0, at)'
  <2>1. Len(buffer'[i]) >= 0 /\ \A n \in 1..0 : buffer'[i][Len(buffer'[i]) - 0 + n] = n
    BY <1>6
  <2>2. \A n \in (0 + 1)..emitted'[i] : inbox'[at[n]].body = n
    <3> SUFFICES ASSUME NEW n \in (0 + 1)..emitted'[i]
                 PROVE  inbox'[at[n]].body = n
      OBVIOUS
    <3>1. n \in 1..e
      BY <1>e
    <3>2. QED  BY <1>7, <3>1
  <2>3. \A m, n \in (0 + 1)..emitted'[i] : m < n => at[m] < at[n]
    BY <1>e, <1>8
  <2>4. \A k \in EventQueued(i)' :
          \/ \E n \in (0 + 1)..emitted'[i] : at[n] = k
          \/ 0 = 0 /\ \A n \in 1..emitted'[i] : k < at[n]
    BY <1>e, <1>9
  <2>5. QED  BY <2>1, <2>2, <2>3, <2>4 DEF Ends
<1>11. 0 \in 0..e
  OBVIOUS
<1>12. QED  BY <1>e, <1>4, <1>10, <1>11 DEF Whole

\* The queue moves up.
LEMMA MovesUp ==
  ASSUME TypeOK, NEW i \in Instance, inbox # <<>>, inbox' = Tail(inbox)
  PROVE  /\ \A k \in EventQueued(i) : k \in Nat /\ k >= 1
         /\ \A k \in EventQueued(i) : k # 1 => k - 1 \in EventQueued(i)' /\ inbox'[k - 1] = inbox[k]
         /\ \A k \in EventQueued(i)' : k \in Nat /\ k >= 1 /\ k + 1 \in EventQueued(i)
<1>1. inbox \in Seq(Message) /\ Len(inbox) \in Nat /\ Len(inbox) >= 1
  BY DEF TypeOK
<1>2. Len(inbox') = Len(inbox) - 1 /\ \A k \in 1..Len(inbox') : inbox'[k] = inbox[k + 1]
  BY <1>1
<1>3. \A k \in EventQueued(i) : k \in Nat /\ k >= 1
  BY DEF EventQueued
<1>4. ASSUME NEW k \in EventQueued(i), k # 1
      PROVE  k - 1 \in EventQueued(i)' /\ inbox'[k - 1] = inbox[k]
  <2>1. k \in 1..Len(inbox) /\ k - 1 \in 1..Len(inbox') /\ (k - 1) + 1 = k
    BY <1>1, <1>2, <1>4 DEF EventQueued
  <2>2. inbox'[k - 1] = inbox[k]
    BY <1>2, <2>1
  <2>3. QED  BY <2>1, <2>2 DEF EventQueued
<1>5. ASSUME NEW k \in EventQueued(i)'
      PROVE  k \in Nat /\ k >= 1 /\ k + 1 \in EventQueued(i)
  <2>1. k \in 1..Len(inbox') /\ inbox'[k] = inbox[k + 1]
    BY <1>2 DEF EventQueued
  <2>2. k \in Nat /\ k >= 1 /\ k + 1 \in 1..Len(inbox)
    BY <1>1, <1>2, <2>1
  <2>3. QED  BY <2>1, <2>2 DEF EventQueued
<1>6. QED  BY <1>3, <1>4, <1>5

\* The message taken from the queue is not one the stream ends in.
LEMMA OtherTaken ==
  ASSUME TypeOK, NEW i \in Instance, inbox # <<>>, inbox' = Tail(inbox), UNCHANGED emitted,
         NEW b \in 0..emitted[i], NEW at \in [(b + 1)..emitted[i] -> EventQueued(i)], Ends(i, b, at),
         \A n \in (b + 1)..emitted[i] : at[n] # 1,
         Len(buffer'[i]) >= b /\ \A n \in 1..b : buffer'[i][Len(buffer'[i]) - b + n] = n
  PROVE  Whole(i)'
<1>e. PICK e \in Nat : e = emitted[i] /\ e = emitted'[i]
  BY DEF TypeOK
<1>1. PICK up : up = [n \in (b + 1)..e |-> at[n] - 1]
  OBVIOUS
<1>2. \A n \in (b + 1)..e : /\ at[n] \in Nat /\ up[n] = at[n] - 1
                            /\ up[n] \in EventQueued(i)' /\ inbox'[up[n]] = inbox[at[n]]
  BY ZenonT(60), <1>e, <1>1, MovesUp
<1>3. up \in [(b + 1)..emitted'[i] -> EventQueued(i)']
  BY <1>e, <1>1, <1>2
<1>4. \A n \in (b + 1)..emitted'[i] : inbox'[up[n]].body = n
  BY <1>e, <1>2 DEF Ends
<1>5. \A m, n \in (b + 1)..emitted'[i] : m < n => up[m] < up[n]
  <2>1. \A m, n \in (b + 1)..e : m < n => at[m] < at[n]
    BY <1>e DEF Ends
  <2>2. QED  BY <1>e, <1>2, <2>1
<1>6. ASSUME emitted'[i] > 0, NEW k \in EventQueued(i)'
      PROVE  \/ \E n \in (b + 1)..emitted'[i] : up[n] = k
             \/ b = 0 /\ \A n \in 1..emitted'[i] : k < up[n]
  <2>1. k \in Nat /\ k + 1 \in EventQueued(i)
    BY MovesUp
  <2>2. \/ \E n \in (b + 1)..e : at[n] = k + 1
        \/ b = 0 /\ \A n \in 1..e : k + 1 < at[n]
    BY <1>e, <1>6, <2>1 DEF Ends
  <2>3. CASE \E n \in (b + 1)..e : at[n] = k + 1
    <3>1. PICK n \in (b + 1)..e : at[n] = k + 1
      BY <2>3
    <3>2. up[n] = (k + 1) - 1
      BY <1>2, <3>1
    <3>3. (k + 1) - 1 = k
      BY <2>1
    <3>4. QED  BY <1>e, <3>1, <3>2, <3>3
  <2>4. CASE b = 0 /\ \A n \in 1..e : k + 1 < at[n]
    <3>1. \A n \in 1..e : k < up[n]
      BY <1>2, <2>1, <2>4
    <3>2. QED  BY <1>e, <2>4, <3>1
  <2>5. QED  BY <2>2, <2>3, <2>4
<1>7. Ends(i, b, up)'
  BY <1>4, <1>5, <1>6 DEF Ends
<1>8. b \in 0..emitted'[i]
  BY <1>e
<1>9. QED  BY <1>3, <1>7, <1>8 DEF Whole

\* The message taken is the first on its way of those the stream ends in.
LEMMA NextTaken ==
  ASSUME TypeOK, TypeOK', NEW i \in Instance, inbox # <<>>, inbox' = Tail(inbox), UNCHANGED emitted,
         NEW b \in 0..emitted[i], NEW at \in [(b + 1)..emitted[i] -> EventQueued(i)], Ends(i, b, at),
         NEW first \in (b + 1)..emitted[i], at[first] = 1,
         buffer'[i] = Append(buffer[i], inbox[1].body)
  PROVE  Whole(i)'
<1>e. PICK e \in Nat : e = emitted[i] /\ e = emitted'[i]
  BY DEF TypeOK
<1>n. b \in Nat /\ b + 1 \in (b + 1)..e /\ first \in Nat /\ b + 1 <= first
  BY <1>e
<1>m. \A m, n \in (b + 1)..e : m < n => at[m] < at[n]
  BY <1>e DEF Ends
<1>p. \A n \in (b + 1)..e : at[n] \in EventQueued(i) /\ at[n] \in Nat /\ at[n] >= 1
  BY <1>e, MovesUp
<1>1. first = b + 1
  <2>1. b + 1 < first => at[b + 1] < 1
    BY <1>e, <1>m, <1>n
  <2>2. QED  BY <1>n, <1>p, <2>1
<1>2. inbox[1].body = b + 1
  BY <1>e, <1>n, <1>1 DEF Ends
<1>3. PICK up : up = [n \in (b + 2)..e |-> at[n] - 1]
  OBVIOUS
<1>4. \A n \in (b + 2)..e : n \in (b + 1)..e /\ at[n] > 1
  BY <1>n, <1>m, <1>1
<1>5. \A n \in (b + 2)..e : /\ at[n] \in Nat /\ up[n] = at[n] - 1
                            /\ up[n] \in EventQueued(i)' /\ inbox'[up[n]] = inbox[at[n]]
  <2> SUFFICES ASSUME NEW n \in (b + 2)..e
               PROVE  /\ at[n] \in Nat /\ up[n] = at[n] - 1
                      /\ up[n] \in EventQueued(i)' /\ inbox'[up[n]] = inbox[at[n]]
    OBVIOUS
  <2>1. at[n] \in EventQueued(i) /\ at[n] \in Nat /\ at[n] # 1
    BY SMTT(30), <1>4, <1>p
  <2>2. up[n] = at[n] - 1
    BY <1>3
  <2>3. at[n] - 1 \in EventQueued(i)' /\ inbox'[at[n] - 1] = inbox[at[n]]
    BY <2>1, MovesUp
  <2>4. QED  BY <2>1, <2>2, <2>3
<1>6. up \in [(b + 2)..e -> EventQueued(i)']
  BY <1>3, <1>5
<1>7. \A n \in (b + 2)..e : inbox'[up[n]].body = n
  BY <1>e, <1>4, <1>5 DEF Ends
<1>8. \A m, n \in (b + 2)..e : m < n => up[m] < up[n]
  <2> SUFFICES ASSUME NEW m \in (b + 2)..e, NEW n \in (b + 2)..e, m < n
               PROVE  up[m] < up[n]
    OBVIOUS
  <2>1. at[m] < at[n]
    BY <1>4, <1>m
  <2>2. /\ at[m] \in Nat /\ up[m] = at[m] - 1
        /\ at[n] \in Nat /\ up[n] = at[n] - 1
    BY <1>5
  <2>3. at[m] - 1 < at[n] - 1
    BY SMTT(30), <2>1, <2>2
  <2>4. QED  BY <2>2, <2>3
<1>9. ASSUME e > 0, NEW k \in EventQueued(i)'
      PROVE  \E n \in (b + 2)..e : up[n] = k
  <2>1. k \in Nat /\ k >= 1 /\ k + 1 \in EventQueued(i)
    BY MovesUp
  <2>2. \/ \E n \in (b + 1)..e : at[n] = k + 1
        \/ b = 0 /\ \A n \in 1..e : k + 1 < at[n]
    BY <1>e, <1>9, <2>1 DEF Ends
  <2>3. ~(b = 0 /\ \A n \in 1..e : k + 1 < at[n])
    BY <1>n, <1>1, <2>1
  <2>4. PICK n \in (b + 1)..e : at[n] = k + 1
    BY <2>2, <2>3
  <2>5. n # b + 1
    BY <1>1, <2>1, <2>4
  <2>6. n \in (b + 2)..e
    BY <1>n, <2>5
  <2>7. up[n] = (k + 1) - 1
    BY <1>5, <2>4, <2>6
  <2>8. (k + 1) - 1 = k
    BY <2>1
  <2>9. QED  BY <2>6, <2>7, <2>8
<1>10. /\ Len(buffer'[i]) >= b + 1
       /\ \A n \in 1..(b + 1) : buffer'[i][Len(buffer'[i]) - (b + 1) + n] = n
  <2>1. PICK old \in Seq(1..MaxEvents), new \in Seq(1..MaxEvents) : old = buffer[i] /\ new = buffer'[i]
    BY DEF TypeOK
  <2>2. Len(old) \in Nat /\ Len(old) >= b /\ \A n \in 1..b : old[Len(old) - b + n] = n
    <3>1. Len(buffer[i]) >= b /\ \A n \in 1..b : buffer[i][Len(buffer[i]) - b + n] = n
      BY DEF Ends
    <3>2. buffer[i] = old /\ Len(old) \in Nat
      BY <2>1
    <3>3. QED  BY Zenon, <3>1, <3>2
  <2>3. /\ Len(new) = Len(old) + 1
        /\ \A n \in 1..Len(old) : new[n] = old[n]
        /\ new[Len(old) + 1] = b + 1
    BY <1>2, <2>1
  <2>4. ASSUME NEW n \in 1..(b + 1)
        PROVE  new[Len(new) - (b + 1) + n] = n
    <3>1. CASE n = b + 1
      BY <1>n, <2>2, <2>3, <3>1
    <3>2. CASE n # b + 1
      <4>1. n \in 1..b /\ Len(old) - b + n \in 1..Len(old)
            /\ Len(new) - (b + 1) + n = Len(old) - b + n
        BY <1>n, <2>2, <2>3, <3>2
      <4>2. QED  BY <2>2, <2>3, <4>1
    <3>3. QED  BY <3>1, <3>2
  <2>5. Len(new) >= b + 1
    BY <1>n, <2>2, <2>3
  <2>6. Len(new) >= b + 1 /\ \A n \in 1..(b + 1) : new[Len(new) - (b + 1) + n] = n
    BY <2>4, <2>5
  <2>7. QED  BY <2>1, <2>6
<1>11. Ends(i, b + 1, up)'
  <2>1. (b + 1) + 1 = b + 2
    BY <1>n
  <2>2. QED  BY <1>e, <1>7, <1>8, <1>9, <1>10, <2>1 DEF Ends
<1>12. b + 1 \in 0..e /\ (b + 1) + 1 = b + 2
  BY <1>n
<1>13. QED  BY <1>e, <1>6, <1>11, <1>12 DEF Whole

\* An event of another instance.
LEMMA OtherStreams ==
  ASSUME TypeOK, NEW i \in Instance, NEW j \in Instance, Whole(j), j # i, UNCHANGED buffer,
         emitted'[j] = emitted[j], emitted[i] < MaxEvents,
         inbox' = inbox \/ inbox' = Append(inbox, Event(i, emitted[i] + 1))
  PROVE  Whole(j)'
<1>1. inbox \in Seq(Message) /\ Event(i, emitted[i] + 1) \in Message
  <2>1. emitted[i] + 1 \in 1..MaxEvents
    BY SMTT(30) DEF TypeOK
  <2>2. QED  BY <2>1, EventType DEF TypeOK
<1>2. Len(inbox') \in Nat /\ Len(inbox) <= Len(inbox')
      /\ \A k \in 1..Len(inbox) : inbox'[k] = inbox[k]
  BY <1>1
<1>3. \A k \in (Len(inbox) + 1)..Len(inbox') : ~(inbox'[k].kind = "event" /\ inbox'[k].inst = j)
  <2>1. CASE inbox' = inbox
    BY <1>1, <2>1
  <2>2. CASE inbox' = Append(inbox, Event(i, emitted[i] + 1))
    BY <1>1, <2>2 DEF Event
  <2>3. QED  BY <2>1, <2>2
<1>4. QED  BY <1>2, <1>3, OthersAppended

\* A replay is of one instance.
LEMMA ReplayOf ==
  ASSUME TypeOK, NEW i \in Instance, NEW r \in 0..emitted[i], inbox' = inbox \o Replay(i, r)
  PROVE  \A k \in (Len(inbox) + 1)..Len(inbox') : inbox'[k].inst = i
<1>1. inbox \in Seq(Message)
  BY DEF TypeOK
<1>2. PICK more \in Seq(Message) : more = Replay(i, r) /\ \A n \in 1..Len(more) : more[n].inst = i
  BY ReplayEvents
<1>3. \A n \in 1..Len(more) : more[n].inst = i
  BY <1>2
<1>4. /\ Len(inbox \o more) = Len(inbox) + Len(more)
      /\ \A n \in 1..Len(more) : (inbox \o more)[Len(inbox) + n] = more[n]
  BY <1>1, Joined
<1>5. SUFFICES ASSUME NEW k \in (Len(inbox) + 1)..Len(inbox')
               PROVE  inbox'[k].inst = i
  OBVIOUS
<1>6. k - Len(inbox) \in 1..Len(more) /\ Len(inbox) + (k - Len(inbox)) = k
  <2>1. Len(inbox) \in Nat /\ Len(more) \in Nat /\ Len(inbox') = Len(inbox) + Len(more)
    BY <1>1, <1>2, <1>4
  <2>2. QED  BY <1>5, <2>1
<1>7. inbox'[Len(inbox) + (k - Len(inbox))] = more[k - Len(inbox)]
  BY <1>2, <1>4, <1>6
<1>8. QED  BY <1>3, <1>6, <1>7

\* A message that is not an event of i is taken.
LEMMA NotOfThis ==
  ASSUME TypeOK, NEW i \in Instance, Whole(i), inbox # <<>>, inbox' = Tail(inbox),
         emitted' = emitted, buffer'[i] = buffer[i],
         ~(inbox[1].kind = "event" /\ inbox[1].inst = i)
  PROVE  Whole(i)'
<1>1. PICK b \in 0..emitted[i] : \E at \in [(b + 1)..emitted[i] -> EventQueued(i)] : Ends(i, b, at)
  BY DEF Whole
<1>2. PICK at \in [(b + 1)..emitted[i] -> EventQueued(i)] : Ends(i, b, at)
  BY <1>1
<1>3. 1 \notin EventQueued(i)
  BY DEF EventQueued
<1>4. \A n \in (b + 1)..emitted[i] : at[n] # 1
  BY <1>2, <1>3
<1>5. Len(buffer'[i]) >= b /\ \A n \in 1..b : buffer'[i][Len(buffer'[i]) - b + n] = n
  BY <1>2 DEF Ends
<1>6. QED  BY <1>1, <1>2, <1>4, <1>5, OtherTaken

\* An event of i is taken: the next one, or one of an earlier stream.
LEMMA OneOfThis ==
  ASSUME TypeOK, TypeOK', NEW i \in Instance, Whole(i), inbox # <<>>, inbox' = Tail(inbox),
         emitted' = emitted, inbox[1].kind = "event", inbox[1].inst = i,
         buffer'[i] = Append(buffer[i], inbox[1].body)
  PROVE  Whole(i)'
<1>1. PICK b \in 0..emitted[i] : \E at \in [(b + 1)..emitted[i] -> EventQueued(i)] : Ends(i, b, at)
  BY DEF Whole
<1>2. PICK at \in [(b + 1)..emitted[i] -> EventQueued(i)] : Ends(i, b, at)
  BY <1>1
<1>3. 1 \in EventQueued(i)
  <2>1. inbox \in Seq(Message) /\ 1 \in 1..Len(inbox)
    BY DEF TypeOK
  <2>2. QED  BY <2>1 DEF EventQueued
<1>4. CASE emitted[i] = 0
  BY <1>4, NothingYet
<1>5. CASE \E n \in (b + 1)..emitted[i] : at[n] = 1
  BY <1>1, <1>2, <1>5, NextTaken
<1>6. CASE emitted[i] # 0 /\ ~\E n \in (b + 1)..emitted[i] : at[n] = 1
  <2>1. emitted[i] > 0
    BY SMTT(30), <1>6 DEF TypeOK
  <2>2. b = 0
    BY <1>2, <1>3, <1>6, <2>1 DEF Ends
  <2>3. Len(buffer'[i]) \in Nat
    BY DEF TypeOK
  <2>4. Len(buffer'[i]) >= b /\ \A n \in 1..b : buffer'[i][Len(buffer'[i]) - b + n] = n
    BY <2>2, <2>3
  <2>5. QED  BY <1>1, <1>2, <1>6, <2>4, OtherTaken
<1>7. QED  BY <1>4, <1>5, <1>6

LEMMA StepStreams ==
  ASSUME Typed, Typed', Silent, StreamInv, ServerStep \/ PageStep
  PROVE  StreamInv'
<1>t. TypeOK /\ TypeOK' /\ Dispatched
  BY DEF Typed
<1>0. inbox \in Seq(Message) /\ Len(inbox) \in Nat /\ subs \subseteq Instance
  BY SMTT(30), <1>t DEF TypeOK
<1>1. ASSUME UNCHANGED <<stage, emitted, subs, holed, inbox, buffer>>
      PROVE  StreamInv'
  BY <1>t, <1>0, <1>1, SameStream DEF StreamInv
\* A status at the end of the queue, and a stage.
<1>2. ASSUME NEW j \in Instance, NEW s \in Statuses, UNCHANGED <<emitted, subs, holed, buffer>>,
             inbox' = inbox \/ inbox' = Append(inbox, StatusOf(j, s)),
             \A i \in Instance : stage'[i] = "none" => stage[i] = "none",
             \A i \in Instance : stage'[i] \in Live => stage[i] \in Live
      PROVE  StreamInv'
  <2>1. Len(inbox') \in Nat /\ Len(inbox) <= Len(inbox')
        /\ \A k \in 1..Len(inbox) : inbox'[k] = inbox[k]
    BY SMTT(30), <1>0, <1>2, StatusType
  <2>2. \A k \in (Len(inbox) + 1)..Len(inbox') : inbox'[k].kind = "status"
    <3>1. CASE inbox' = inbox
      BY <1>0, <3>1
    <3>2. CASE inbox' = Append(inbox, StatusOf(j, s))
      BY <1>0, <3>2, StatusType DEF StatusOf
    <3>3. QED  BY <1>2, <3>1, <3>2
  <2>3. \A i \in subs' \ holed' : stage'[i] \in Live => Whole(i)'
    BY <1>t, <1>0, <1>2, <2>1, <2>2, OthersAppended DEF StreamInv
  <2>4. \A i \in Instance : stage'[i] = "none" => emitted'[i] = 0
    BY <1>2 DEF StreamInv
  <2>5. QED  BY <2>3, <2>4 DEF StreamInv
<1>3. ASSUME NEW i \in Instance, ServePost(i)
      PROVE  StreamInv'
  <2>1. stage[i] = "none" /\ emitted[i] = 0
    BY <1>3 DEF ServePost, Silent, StreamInv
  <2>2. UNCHANGED <<emitted, subs, holed, inbox, buffer>> /\ stage' = [stage EXCEPT ![i] = "pending"]
    BY <1>3 DEF ServePost
  <2>3. \A j \in Instance \ {i} : stage'[j] = stage[j]
    BY <1>t, <2>2 DEF TypeOK
  <2>4. Whole(i)'
    BY <1>t, <2>1, <2>2, NothingYet
  <2>5. \A j \in subs' \ holed' : stage'[j] \in Live => Whole(j)'
    BY <1>t, <1>0, <2>2, <2>3, <2>4, SameStream DEF StreamInv
  <2>6. \A j \in Instance : stage'[j] = "none" => emitted'[j] = 0
    BY <2>1, <2>2, <2>3 DEF StreamInv
  <2>7. QED  BY <2>5, <2>6 DEF StreamInv
<1>4. ASSUME NEW i \in Instance, NodeReports(i) \/ NodeStarts(i)
      PROVE  StreamInv'
  <2>1. UNCHANGED <<emitted, subs, holed, buffer>>
    BY <1>4 DEF NodeReports, NodeStarts, serverVars, pageVars
  <2>2. PICK s \in Statuses : inbox' = inbox \/ inbox' = Append(inbox, StatusOf(i, s))
    BY <1>4 DEF NodeReports, NodeStarts, BroadcastStatus, Statuses
  <2>3. \A j \in Instance : stage[j] # stage'[j] => stage[j] \in Live /\ stage'[j] # "none"
    BY ZenonT(60), <1>t, <1>4 DEF NodeReports, NodeStarts, serverVars, TypeOK
  <2>4. QED  BY <1>2, <2>1, <2>2, <2>3 DEF Live
<1>5. ASSUME NEW i \in Instance, NodeStreams(i)
      PROVE  StreamInv'
  <2>1. /\ UNCHANGED <<stage, subs, buffer>> /\ stage[i] = "running" /\ emitted[i] < MaxEvents
        /\ emitted' = [emitted EXCEPT ![i] = @ + 1]
        /\ inbox' = inbox \/ inbox' = Append(inbox, Event(i, emitted[i] + 1))
        /\ holed \subseteq holed'
        /\ i \in subs \ holed' => inbox' = Append(inbox, Event(i, emitted[i] + 1))
    BY <1>5 DEF NodeStreams, pageVars
  <2>2. emitted'[i] = emitted[i] + 1 /\ \A j \in Instance \ {i} : emitted'[j] = emitted[j]
    BY <1>t, <2>1 DEF TypeOK
  <2>3. ASSUME NEW j \in subs \ holed', stage[j] \in Live
        PROVE  Whole(j)'
    <3>1. Whole(j) /\ j \in Instance
      BY <1>0, <2>1, <2>3 DEF StreamInv
    <3>2. CASE j = i
      BY <1>t, <2>1, <2>2, <2>3, <3>1, <3>2, NextStreams
    <3>3. CASE j # i
      BY <1>t, <2>1, <2>2, <3>1, <3>3, OtherStreams
    <3>4. QED  BY <3>2, <3>3
  <2>4. \A j \in Instance : stage'[j] = "none" => emitted'[j] = 0
    BY <2>1, <2>2 DEF StreamInv
  <2>5. QED  BY <2>1, <2>3, <2>4 DEF StreamInv
<1>6. CASE NodeDown
  <2>1. UNCHANGED <<emitted, subs, holed, inbox, buffer>>
    BY <1>6 DEF NodeDown, pageVars
  <2>2. \A j \in Instance : stage'[j] = stage[j] \/ (stage[j] \in Live /\ stage'[j] = "lost")
    BY <1>t, <1>6 DEF NodeDown, TypeOK
  <2>3. \A j \in subs' \ holed' : stage'[j] \in Live => Whole(j)'
    BY <1>t, <1>0, <2>1, <2>2, SameStream DEF StreamInv, Live
  <2>4. \A j \in Instance : stage'[j] = "none" => emitted'[j] = 0
    BY <2>1, <2>2 DEF StreamInv
  <2>5. QED  BY <2>3, <2>4 DEF StreamInv
<1>7. CASE TakeSubscribe
  <2>1. UNCHANGED <<stage, emitted, buffer>>
    BY <1>7 DEF TakeSubscribe, pageVars
  <2>2. CASE UNCHANGED <<subs, inbox, holed>>
    BY <1>1, <2>1, <2>2
  <2>3. ASSUME NEW i \in Instance, NEW k \in 0..emitted[i],
               subs' = subs \cup {i}, inbox' = inbox \o Replay(i, k),
               holed' \in {holed \cup {i}, holed \ {i}},
               stage[i] # "finished" /\ i \notin holed' => k = emitted[i],
               NEW j \in subs' \ holed', stage'[j] \in Live
        PROVE  Whole(j)'
    <3>1. CASE j = i
      <4>1. k = emitted[i]
        BY <2>1, <2>3, <3>1 DEF Live
      <4>2. QED  BY <1>t, <2>1, <2>3, <3>1, <4>1, ReplayWhole
    <3>2. CASE j # i
      <4>1. j \in Instance /\ Whole(j)
        BY <1>0, <2>1, <2>3, <3>2 DEF StreamInv
      <4>2. Len(inbox') \in Nat /\ Len(inbox) <= Len(inbox')
            /\ \A n \in 1..Len(inbox) : inbox'[n] = inbox[n]
        <5>1. Replay(i, k) \in Seq(Message)
          BY <1>t, ReplayType
        <5>2. QED  BY <1>0, <2>3, <5>1, Joined
      <4>3. \A n \in (Len(inbox) + 1)..Len(inbox') : inbox'[n].inst = i
        BY <1>t, <2>3, ReplayOf
      <4>4. QED  BY <1>t, <2>1, <3>2, <4>1, <4>2, <4>3, OthersAppended
    <3>3. QED  BY <3>1, <3>2
  <2>4. CASE \E i \in Instance : \E k \in 0..emitted[i] :
               /\ subs' = subs \cup {i}
               /\ inbox' = inbox \o Replay(i, k)
               /\ holed' \in {holed \cup {i}, holed \ {i}}
               /\ stage[i] # "finished" /\ i \notin holed' => k = emitted[i]
    <3>1. \A j \in subs' \ holed' : stage'[j] \in Live => Whole(j)'
      BY <2>3, <2>4
    <3>2. QED  BY <2>1, <3>1 DEF StreamInv
  <2>5. QED  BY <1>t, <1>7, <2>2, <2>4, TakeCases
<1>8. CASE ServeKnown \/ SocketOpen \/ (\E i \in Instance : PostReturns(i) \/ PostFails(i) \/ Select(i))
           \/ (\E f \in Form : Submit(f))
  BY <1>1, <1>8 DEF ServeKnown, SocketOpen, PostReturns, PostFails, Select, Submit, serverVars, pageVars
<1>9. CASE SocketDrop
  BY <1>9 DEF SocketDrop, pageVars, StreamInv
<1>10. CASE ReceiveStatus
  <2>1. /\ inbox # <<>> /\ inbox' = Tail(inbox) /\ Head(inbox).kind = "status"
        /\ UNCHANGED <<stage, emitted, subs, holed, buffer>>
    BY <1>10 DEF ReceiveStatus, serverVars
  <2>2. Head(inbox) = inbox[1]
    BY <1>0, <2>1
  <2>3. \A j \in subs' \ holed' : stage'[j] \in Live => Whole(j)'
    BY <1>t, <1>0, <2>1, <2>2, NotOfThis DEF StreamInv
  <2>4. QED  BY <2>1, <2>3 DEF StreamInv
<1>11. CASE ReceiveEvent
  <2>1. /\ inbox # <<>> /\ inbox' = Tail(inbox) /\ Head(inbox).kind = "event"
        /\ buffer' = [buffer EXCEPT ![Head(inbox).inst] = Append(@, Head(inbox).body)]
        /\ UNCHANGED <<stage, emitted, subs, holed>>
    BY <1>11 DEF ReceiveEvent, serverVars
  <2>2. Head(inbox) = inbox[1]
    BY <1>0, <2>1
  <2>3. ASSUME NEW j \in subs' \ holed', stage'[j] \in Live
        PROVE  Whole(j)'
    <3>1. j \in Instance /\ Whole(j)
      BY <1>0, <2>1, <2>3 DEF StreamInv
    <3>2. CASE inbox[1].inst = j
      <4>1. buffer'[j] = Append(buffer[j], inbox[1].body)
        BY ZenonT(60), <1>t, <2>1, <2>2, <3>1, <3>2 DEF TypeOK
      <4>2. QED  BY <1>t, <2>1, <2>2, <3>1, <3>2, <4>1, OneOfThis
    <3>3. CASE inbox[1].inst # j
      <4>1. buffer'[j] = buffer[j]
        BY <1>t, <2>1, <2>2, <3>1, <3>3 DEF TypeOK
      <4>2. QED  BY <1>t, <2>1, <3>1, <3>3, <4>1, NotOfThis
    <3>4. QED  BY <3>2, <3>3
  <2>4. QED  BY <2>1, <2>3 DEF StreamInv
<1>12. QED
  BY <1>3, <1>4, <1>5, <1>6, <1>7, <1>8, <1>9, <1>10, <1>11 DEF ServerStep, PageStep

LEMMA StreamInvariant == Spec => []StreamInv
<1>1. Init => StreamInv
  BY DEF Init, StreamInv
<1>2. Typed /\ StreamInv /\ UNCHANGED vars => StreamInv'
  BY SameStream DEF vars, pageVars, serverVars, Typed, TypeOK, StreamInv
<1>3. Typed /\ Typed' /\ Silent /\ StreamInv /\ [Next]_vars => StreamInv'
  BY <1>2, NextCases, StepStreams
<1>4. QED  BY <1>1, <1>3, TypedInvariant, ShowsInvariant, PTL DEF Spec

\* However often the socket is lost and the instance subscribed again, and whatever of
\* earlier replays is still on its way: unless the full queue of this connection dropped
\* one of them since the last complete replay, the stream of a live instance the tab is
\* subscribed to ends in all its events so far, in order, with no hole between what the
\* page has and what the queue brings (handlers.py handle_stream_event, frontend_manager.py
\* fan_out_stream_event, frontend_router.py subscribe, wsStore.ts stream_event).
THEOREM StreamHasNoHole == Spec => []StreamComplete
<1>1. StreamInv => StreamComplete
  BY DEF StreamInv, StreamComplete, Whole, Ends
<1>2. QED  BY <1>1, StreamInvariant, PTL

=============================================================================
